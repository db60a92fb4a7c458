------------------------------ MODULE DemoEngine ------------------------------
(***************************************************************************)
(* pkg/demo_engine/engine.go: the counter the repository's tests run, as a *)
(* BaseEngine processes its signals one by one, from the first run of an   *)
(* entity through its continuations.  A signal that is refused, by the     *)
(* processor or by the validation of the new state, changes nothing and    *)
(* has no action.  Timestamps, reasons and metadata are left out.          *)
(***************************************************************************)
EXTENDS Integers, Sequences

CONSTANTS
  MaxInt,       \* the largest int64
  KeepHistory,  \* MaxHistoryEvents of CompressState, 50 in the code
  Amount,       \* amounts clients send
  Config,       \* configurations clients send
  NoConfig,     \* the nil Config
  Given,        \* states clients start entities with
  MaxSignals    \* bound: signals that are accepted

Int64 == -MaxInt - 1 .. MaxInt

EventType == {"unspecified", "increment", "reset", "config"}

DefaultConfig == [maxValue |-> 0, defaultIncrement |-> 1, allowNegative |-> TRUE]

\* The value respects a configured maximum.
WithinLimit(value, config) == config.maxValue > 0 => value <= config.maxValue

\* A client starts an entity with any state whose fields have their types; neither
\* that its value is within its maximum nor what its history says is checked.
ASSUME DemoAssumption ==
  /\ MaxInt \in Nat \ {0}
  /\ KeepHistory \in Nat \ {0}
  /\ MaxSignals \in Nat
  /\ Amount \subseteq Int64
  /\ Config \subseteq [maxValue : Int64, defaultIncrement : Int64,
                       allowNegative : BOOLEAN]
  /\ DefaultConfig \in Config /\ NoConfig \notin Config
  /\ Given \subseteq [currentValue : Int64, config : Config \cup {NoConfig},
                      history : Seq([eventId : Int64, type : EventType,
                                     valueChange : Int64, previousValue : Int64,
                                     newValue : Int64]),
                      nextEventId : Int64]

VARIABLES
  state,  \* the businessState of the engine
  start   \* what it was when the entity started, for the properties

vars == <<state, start>>

\* The sum of two int64 none of which is negative, in 64 bits.
Sum(a, b) == IF a + b > MaxInt THEN a + b - 2 * (MaxInt + 1) ELSE a + b

\* An event in the history of s that gives it a new value.
CounterEvent(s, type, change, newValue) ==
  [eventId |-> s.nextEventId, type |-> type, valueChange |-> change,
   previousValue |-> s.currentValue, newValue |-> newValue]

Recorded(s, event) ==
  [s EXCEPT !.currentValue = event.newValue, !.history = Append(@, event),
            !.nextEventId = Sum(@, 1)]

\* processIncrementSignal; the limits are compared with the wrapped sum.
MayIncrement(s, amount) ==
  /\ amount > 0
  /\ WithinLimit(Sum(s.currentValue, amount), s.config)
  /\ s.config.allowNegative \/ Sum(s.currentValue, amount) >= 0

Increment(s, amount) ==
  Recorded(s, CounterEvent(s, "increment", amount,
                           Sum(s.currentValue, amount)))

\* processResetSignal; its check of zero against the limits cannot fail.
Reset(s) == Recorded(s, CounterEvent(s, "reset", -s.currentValue, 0))

\* Slip: the value is not compared with the new maximum.
MayConfigureUnchecked(s, config) == config.defaultIncrement > 0

\* processUpdateConfigSignal; without a configuration it panics.
MayConfigure(s, config) ==
  /\ config.defaultIncrement > 0
  /\ WithinLimit(s.currentValue, config)
  /\ config.allowNegative \/ s.currentValue >= 0

Configure(s, config) ==
  [Recorded(s, CounterEvent(s, "config", 0, s.currentValue))
     EXCEPT !.config = config]

\* Slip: the rule on the value is missing.
ValidStateLoose(s) ==
  /\ s.config.maxValue >= 0
  /\ s.config.defaultIncrement >= 1
  /\ s.nextEventId >= 1
  /\ \A i \in 1..Len(s.history) : s.history[i].eventId >= 1

\* The buf.validate rules of DemoEngineState, DemoConfig and CounterEvent.
ValidState(s) ==
  /\ s.currentValue >= 0
  /\ s.config.maxValue >= 0
  /\ s.config.defaultIncrement >= 1
  /\ s.nextEventId >= 1
  /\ \A i \in 1..Len(s.history) : s.history[i].eventId >= 1

ApplyBusinessDefaults(s) ==
  [s EXCEPT !.config = IF @ = NoConfig THEN DefaultConfig ELSE @,
            !.currentValue = IF s.nextEventId = 0 THEN 0 ELSE @,
            !.nextEventId = IF @ = 0 THEN 1 ELSE @]

\* Slip: the oldest events are kept.
CompressStateOldest(s) ==
  IF Len(s.history) > KeepHistory
  THEN [s EXCEPT !.history = SubSeq(@, 1, KeepHistory)]
  ELSE s

\* The most recent events are kept.
CompressState(s) ==
  IF Len(s.history) > KeepHistory
  THEN [s EXCEPT !.history = SubSeq(@, Len(@) - KeepHistory + 1, Len(@))]
  ELSE s

-------------------------------------------------------------------------------
Init == \E given \in Given :
          /\ state = ApplyBusinessDefaults(given)
          /\ ValidState(state)
          /\ start = state

\* The signals accepted since the entity started.
Signals == state.nextEventId - start.nextEventId

\* The engine processes one signal.
Processed(newState) ==
  /\ Signals < MaxSignals
  /\ ValidState(newState)
  /\ state' = newState
  /\ UNCHANGED start

ProcessIncrement(amount) ==
  /\ MayIncrement(state, amount)
  /\ Processed(Increment(state, amount))

ProcessReset == Processed(Reset(state))

ProcessUpdateConfig(config) ==
  /\ MayConfigure(state, config)
  /\ Processed(Configure(state, config))

\* The run's state is compressed and a new engine initialized with it.
ContinueAsNew ==
  /\ ValidState(ApplyBusinessDefaults(CompressState(state)))
  /\ state' = ApplyBusinessDefaults(CompressState(state))
  /\ UNCHANGED start

Next ==
  \/ \E amount \in Amount : ProcessIncrement(amount)
  \/ ProcessReset
  \/ \E config \in Config : ProcessUpdateConfig(config)
  \/ ContinueAsNew

Spec == Init /\ [][Next]_vars

-------------------------------------------------------------------------------
(***************************************************************************)
(* Correctness.                                                            *)
(***************************************************************************)

Event == [eventId : 1..MaxInt, type : EventType, valueChange : Int64,
          previousValue : Int64, newValue : Int64]

\* The type invariant.
TypeOK ==
  {state, start} \subseteq [currentValue : 0..MaxInt, config : Config,
                            history : Seq(Event), nextEventId : 1..MaxInt]

\* The counter exceeds its maximum only where the entity was started so, and from
\* the first signal accepted never again, whatever the order of increments, resets,
\* new configurations and continuations, and even where a sum wraps around
\* (processIncrementSignal, processUpdateConfigSignal).
ValueWithinLimit ==
  \/ WithinLimit(state.currentValue, state.config)
  \/ Signals = 0 /\ ~WithinLimit(start.currentValue, start.config)

\* Only a reset lowers the counter: an increment that wraps around is refused,
\* also where negative values are allowed, by the validation of the new state
\* (processIncrementSignal, validateState).
OnlyResetLowers ==
  [][\/ state'.currentValue >= state.currentValue
     \/ state'.history[Len(state'.history)].type = "reset"]_vars

\* From the first-th on, the events have consecutive ids up to nextEventId, each
\* starts where the one before it ended, and the last one ends at the value.
Explains(history, first, nextEventId, value) ==
  /\ \A i \in first..Len(history) :
       /\ history[i].eventId = nextEventId - Len(history) + i - 1
       /\ history[i].newValue = history[i].previousValue + history[i].valueChange
  /\ \A i \in first..Len(history) - 1 :
       history[i + 1].previousValue = history[i].newValue
  /\ first <= Len(history) => history[Len(history)].newValue = value

\* The events in the history that the engine recorded; older ones are the client's.
Kept == IF Signals < Len(state.history) THEN Signals ELSE Len(state.history)
FirstKept == Len(state.history) - Kept + 1

\* The engine's own events account for the value, also across compressions and
\* continuations, whatever history the entity was started with: they chain up to
\* the value, from the value of the start as long as all are kept, and none is
\* missing while there is room (the three signal handlers, CompressState).
HistoryExplainsValue ==
  /\ Kept < Signals => Kept >= KeepHistory
  /\ Explains(state.history, FirstKept, state.nextEventId, state.currentValue)
  /\ Kept = Signals =>
       start.currentValue = IF Signals = 0 THEN state.currentValue
                            ELSE state.history[FirstKept].previousValue
===============================================================================
