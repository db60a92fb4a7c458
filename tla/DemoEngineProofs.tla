--------------------------- MODULE DemoEngineProofs ---------------------------
(***************************************************************************)
(* What the demo engine keeps for every width of its integers, every set   *)
(* of configurations and amounts, every length of history, and whatever    *)
(* state a client starts the entity with.                                  *)
(***************************************************************************)
EXTENDS DemoEngine, SequenceTheorems, TLAPS

States == [currentValue : 0..MaxInt, config : Config, history : Seq(Event),
           nextEventId : 1..MaxInt]

\* A state that passes the validation holds values of their types, if it holds
\* 64-bit values of the right shape.
AnyEvent == [eventId : Int64, type : EventType, valueChange : Int64,
             previousValue : Int64, newValue : Int64]

Shape == [currentValue : Int64, config : Config, history : Seq(AnyEvent),
          nextEventId : Int64]

LEMMA ValidIsTyped ==
  ASSUME NEW s \in Shape, ValidState(s)
  PROVE  s \in States
  <1>1. s.currentValue \in 0..MaxInt /\ s.nextEventId \in 1..MaxInt
    BY DEF Shape, ValidState, Int64
  <1>2. s.history \in Seq(Event)
    <2>1. s.history \in Seq(AnyEvent) /\ Len(s.history) \in Nat
      BY DEF Shape
    <2>2. ASSUME NEW i \in 1..Len(s.history)
          PROVE  s.history[i] \in Event
      <3>1. s.history[i] \in AnyEvent /\ s.history[i].eventId >= 1
        BY <2>1 DEF ValidState
      <3>2. s.history[i].eventId \in 1..MaxInt
        BY <3>1 DEF AnyEvent, Int64
      <3> QED
        BY <3>1, <3>2 DEF AnyEvent, Event
    <2> QED
      BY <2>1, <2>2, SeqDef
  <1> QED
    BY <1>1, <1>2 DEF Shape, States

\* The sum of a value and a positive amount is an int64; it is the true sum unless
\* it is negative.
LEMMA SumWraps ==
  ASSUME NEW a \in 0..MaxInt, NEW b \in 1..MaxInt
  PROVE  /\ Sum(a, b) \in Int64
         /\ Sum(a, b) >= 0 => Sum(a, b) = a + b
  BY DemoAssumption DEF Sum, Int64

LEMMA EventsAreAny ==
  ASSUME NEW h \in Seq(Event)
  PROVE  h \in Seq(AnyEvent)
  <1>1. Event \subseteq AnyEvent
    BY DemoAssumption DEF Event, AnyEvent, Int64
  <1> QED
    BY <1>1, SeqDef

LEMMA RecordedShape ==
  ASSUME NEW s \in States, NEW e \in Event
  PROVE  /\ Recorded(s, e) \in Shape
         /\ Recorded(s, e).currentValue = e.newValue
         /\ Recorded(s, e).config = s.config
         /\ Recorded(s, e).history = Append(s.history, e)
         /\ Recorded(s, e).nextEventId = Sum(s.nextEventId, 1)
  <1>1. e.newValue \in Int64
    BY DEF Event
  <1>2. Append(s.history, e) \in Seq(AnyEvent)
    <2>1. Append(s.history, e) \in Seq(Event)
      BY DEF States
    <2> QED
      BY <2>1, EventsAreAny
  <1>3. Sum(s.nextEventId, 1) \in Int64
    <2>1. s.nextEventId \in 0..MaxInt /\ 1 \in 1..MaxInt
      BY DemoAssumption DEF States
    <2> QED
      BY <2>1, SumWraps
  <1> QED
    BY <1>1, <1>2, <1>3 DEF States, Shape, Recorded

\* An id that is valid did not wrap around.
LEMMA NextIdIsNext ==
  ASSUME NEW s \in States, Sum(s.nextEventId, 1) >= 1
  PROVE  Sum(s.nextEventId, 1) = s.nextEventId + 1
  <1>1. s.nextEventId \in 0..MaxInt /\ 1 \in 1..MaxInt
    BY DemoAssumption DEF States
  <1> QED
    BY <1>1, SumWraps DEF Int64

LEMMA CompressTyped ==
  ASSUME NEW s \in States
  PROVE  /\ CompressState(s) \in States
         /\ CompressState(s).currentValue = s.currentValue
         /\ CompressState(s).config = s.config
         /\ CompressState(s).nextEventId = s.nextEventId
  <1>1. CASE Len(s.history) > KeepHistory
    <2> DEFINE g == SubSeq(s.history, Len(s.history) - KeepHistory + 1,
                           Len(s.history))
    <2>1. s.history \in Seq(Event)
      BY DEF States
    <2>2. g \in Seq(Event)
      BY <1>1, <2>1, DemoAssumption
    <2> HIDE DEF g
    <2>3. CompressState(s) = [s EXCEPT !.history = g]
      BY <1>1 DEF CompressState, g
    <2> QED
      BY <2>2, <2>3 DEF States
  <1>2. CASE ~(Len(s.history) > KeepHistory)
    BY <1>2 DEF CompressState
  <1> QED
    BY <1>1, <1>2

\* The defaults change nothing in a state that has been valid.
LEMMA DefaultsIdle ==
  ASSUME NEW s \in States
  PROVE  ApplyBusinessDefaults(s) = s
  <1>1. s.config # NoConfig /\ s.nextEventId # 0
    BY DemoAssumption DEF States
  <1>2. s = [s EXCEPT !.config = s.config, !.currentValue = s.currentValue,
                      !.nextEventId = s.nextEventId]
    BY DEF States
  <1> QED
    BY <1>1, <1>2 DEF ApplyBusinessDefaults

-----------------------------------------------------------------------------
(***************************************************************************)
(* Every step, in terms of the states.  An accepted signal appends one     *)
(* event to the history.                                                   *)
(***************************************************************************)
Signalled(e) ==
  /\ e \in Event
  /\ e.eventId = state.nextEventId
  /\ e.previousValue = state.currentValue
  /\ e.newValue = e.previousValue + e.valueChange
  /\ state'.currentValue = e.newValue
  /\ state'.history = Append(state.history, e)
  /\ state'.nextEventId = state.nextEventId + 1
  /\ state' \in States
  /\ start' = start

Incremented ==
  \E e : /\ Signalled(e)
         /\ e.valueChange > 0
         /\ state'.config = state.config
         /\ WithinLimit(e.newValue, state.config)

WasReset ==
  \E e : Signalled(e) /\ e.type = "reset" /\ e.newValue = 0
           /\ state'.config = state.config

Configured ==
  \E e : Signalled(e) /\ e.valueChange = 0
           /\ WithinLimit(e.newValue, state'.config)

LEMMA IncrementStep ==
  ASSUME state \in States, NEW amount \in Amount, ProcessIncrement(amount)
  PROVE  Incremented
  <1> DEFINE sum == Sum(state.currentValue, amount)
             e == CounterEvent(state, "increment", amount, sum)
  <1>1. state.currentValue \in 0..MaxInt /\ amount \in 1..MaxInt
    BY DemoAssumption DEF ProcessIncrement, MayIncrement, States, Int64
  <1>2. sum \in Int64 /\ (sum >= 0 => sum = state.currentValue + amount)
    BY <1>1, SumWraps
  <1>3. /\ ValidState(Recorded(state, e)) /\ state' = Recorded(state, e)
        /\ start' = start
    BY DEF ProcessIncrement, Processed, Increment
  <1>4. Recorded(state, e).currentValue = sum
    <2>1. e.newValue = sum
      BY DEF CounterEvent
    <2> QED
      BY <2>1 DEF Recorded, States
  <1>5. sum >= 0
    BY <1>3, <1>4 DEF ValidState
  <1>6. e \in Event
    BY <1>1, <1>2, <1>5, DemoAssumption DEF CounterEvent, Event, EventType, Int64, States
  <1>7. state' \in States /\ state'.nextEventId = state.nextEventId + 1
    <2>1. state'.nextEventId = Sum(state.nextEventId, 1)
      BY <1>3, <1>6, RecordedShape
    <2>2. state'.nextEventId >= 1
      BY <1>3 DEF ValidState
    <2> QED
      BY <1>3, <1>6, <2>1, <2>2, NextIdIsNext, RecordedShape, ValidIsTyped
  <1>8. Signalled(e)
    <2>1. /\ e.eventId = state.nextEventId
          /\ e.previousValue = state.currentValue
          /\ e.newValue = sum
          /\ e.valueChange = amount
      BY DEF CounterEvent
    <2> HIDE DEF e, sum
    <2> QED
      BY <1>1, <1>2, <1>3, <1>5, <1>6, <1>7, <2>1, RecordedShape DEF Signalled
  <1>9. e.valueChange > 0 /\ WithinLimit(e.newValue, state.config)
    BY <1>1 DEF ProcessIncrement, MayIncrement, CounterEvent
  <1>10. state'.config = state.config
    BY <1>3, <1>6, RecordedShape
  <1> QED
    BY <1>8, <1>9, <1>10 DEF Incremented

LEMMA ResetStep ==
  ASSUME state \in States, ProcessReset
  PROVE  WasReset
  <1> DEFINE e == CounterEvent(state, "reset", -state.currentValue, 0)
  <1>1. /\ ValidState(Recorded(state, e)) /\ state' = Recorded(state, e)
        /\ start' = start
    BY DEF ProcessReset, Processed, Reset
  <1>2. e \in Event
    BY DemoAssumption DEF CounterEvent, Event, EventType, Int64, States
  <1>3. state' \in States /\ state'.nextEventId = state.nextEventId + 1
    <2>1. state'.nextEventId = Sum(state.nextEventId, 1)
      BY <1>1, <1>2, RecordedShape
    <2>2. state'.nextEventId >= 1
      BY <1>1 DEF ValidState
    <2> QED
      BY <1>1, <1>2, <2>1, <2>2, NextIdIsNext, RecordedShape, ValidIsTyped
  <1>4. /\ e.eventId = state.nextEventId
        /\ e.previousValue = state.currentValue
        /\ e.newValue = 0 /\ e.valueChange = -state.currentValue
        /\ e.type = "reset"
    BY DEF CounterEvent
  <1>5. state.currentValue \in Int
    BY DEF States
  <1> HIDE DEF e
  <1>6. Signalled(e) /\ state'.config = state.config
    BY <1>1, <1>2, <1>3, <1>4, <1>5, RecordedShape DEF Signalled
  <1> QED
    BY <1>4, <1>6 DEF WasReset

LEMMA ConfigStep ==
  ASSUME state \in States, NEW config \in Config, ProcessUpdateConfig(config)
  PROVE  Configured
  <1> DEFINE e == CounterEvent(state, "config", 0, state.currentValue)
             recorded == Recorded(state, e)
             new == [recorded EXCEPT !.config = config]
  <1>1. ValidState(new) /\ state' = new /\ start' = start
    BY DEF ProcessUpdateConfig, Processed, Configure
  <1>2. e \in Event
    BY DemoAssumption DEF CounterEvent, Event, EventType, Int64, States
  <1>3. /\ e.eventId = state.nextEventId
        /\ e.previousValue = state.currentValue
        /\ e.newValue = state.currentValue /\ e.valueChange = 0
    BY DEF CounterEvent
  <1>4. state.currentValue \in Int
    BY DEF States
  <1> HIDE DEF e
  <1>5. /\ recorded \in Shape
        /\ recorded.currentValue = e.newValue
        /\ recorded.history = Append(state.history, e)
        /\ recorded.nextEventId = Sum(state.nextEventId, 1)
    BY <1>2, RecordedShape
  <1> HIDE DEF recorded
  <1>6. /\ new \in Shape /\ new.config = config
        /\ new.currentValue = e.newValue
        /\ new.history = Append(state.history, e)
        /\ new.nextEventId = Sum(state.nextEventId, 1)
    BY <1>5 DEF Shape
  <1> HIDE DEF new
  <1>7. state' \in States /\ state'.nextEventId = state.nextEventId + 1
    BY <1>1, <1>6, NextIdIsNext, ValidIsTyped DEF ValidState
  <1>8. Signalled(e)
    BY <1>1, <1>2, <1>3, <1>4, <1>6, <1>7 DEF Signalled
  <1>9. WithinLimit(e.newValue, state'.config)
    BY <1>1, <1>3, <1>6 DEF ProcessUpdateConfig, MayConfigure
  <1> QED
    BY <1>3, <1>8, <1>9 DEF Configured

LEMMA ContinueStep ==
  ASSUME state \in States, ContinueAsNew
  PROVE  state' = CompressState(state) /\ state' \in States /\ start' = start
  BY CompressTyped, DefaultsIdle DEF ContinueAsNew

LEMMA StepKind ==
  ASSUME state \in States, [Next]_vars
  PROVE  \/ Incremented \/ WasReset \/ Configured
         \/ state' = CompressState(state) /\ start' = start
         \/ UNCHANGED vars
  BY IncrementStep, ResetStep, ConfigStep, ContinueStep DEF Next

-----------------------------------------------------------------------------
(* The counter's fields hold values of their types. *)

LEMMA InitTyped == Init => TypeOK
  <1> SUFFICES ASSUME NEW s \in Given, state = ApplyBusinessDefaults(s),
                      ValidState(state), start = state
               PROVE  TypeOK
    BY DEF Init
  <1>1. s \in [currentValue : Int64, config : Config \cup {NoConfig},
               history : Seq(AnyEvent), nextEventId : Int64]
    BY DemoAssumption DEF AnyEvent
  <1>2. /\ state.currentValue \in Int64
        /\ state.config \in Config
        /\ state.history \in Seq(AnyEvent)
        /\ state.nextEventId \in Int64
    <2>1. 0 \in Int64 /\ 1 \in Int64 /\ DefaultConfig \in Config
      BY DemoAssumption DEF Int64
    <2>2. /\ state.currentValue = IF s.nextEventId = 0 THEN 0 ELSE s.currentValue
          /\ state.config = IF s.config = NoConfig THEN DefaultConfig ELSE s.config
          /\ state.history = s.history
          /\ state.nextEventId = IF s.nextEventId = 0 THEN 1 ELSE s.nextEventId
      BY <1>1 DEF ApplyBusinessDefaults
    <2>3. state.currentValue \in Int64
      BY <1>1, <2>1, <2>2
    <2>4. state.config \in Config
      BY <1>1, <2>1, <2>2
    <2>5. state.nextEventId \in Int64
      BY <1>1, <2>1, <2>2
    <2>6. state.history \in Seq(AnyEvent)
      BY <1>1, <2>2
    <2> QED
      BY <2>3, <2>4, <2>5, <2>6
  <1>3. state = [currentValue |-> state.currentValue, config |-> state.config,
                 history |-> state.history, nextEventId |-> state.nextEventId]
    BY <1>1 DEF ApplyBusinessDefaults
  <1>4. state \in Shape
    BY <1>2, <1>3 DEF Shape
  <1> QED
    BY <1>4, ValidIsTyped DEF TypeOK, States

\* The types, and that ids only grow.
DemoInv == /\ state \in States /\ start \in States
           /\ state.nextEventId >= start.nextEventId

LEMMA InitInv == Init => DemoInv
  BY InitTyped DEF Init, TypeOK, DemoInv, States

LEMMA NextInv == DemoInv /\ [Next]_vars => DemoInv'
  <1> SUFFICES ASSUME DemoInv, [Next]_vars PROVE DemoInv'
    OBVIOUS
  <1>1. state \in States /\ state.nextEventId \in Int /\ start.nextEventId \in Int
    BY DEF DemoInv, States
  <1>2. CASE \E e : Signalled(e)
    BY <1>1, <1>2 DEF Signalled, DemoInv
  <1>3. CASE state' = CompressState(state) /\ start' = start
    BY <1>1, <1>3, CompressTyped DEF DemoInv
  <1>4. CASE UNCHANGED vars
    BY <1>4 DEF vars, DemoInv
  <1> QED
    BY <1>1, <1>2, <1>3, <1>4, StepKind DEF Incremented, WasReset, Configured

LEMMA Invariance == Spec => []DemoInv
  BY InitInv, NextInv, PTL DEF Spec

\* How many signals there have been after a step.
LEMMA SignalsCounted ==
  ASSUME DemoInv
  PROVE  /\ Signals \in Nat
         /\ \A e : Signalled(e) => Signals' = Signals + 1
         /\ state' = CompressState(state) /\ start' = start => Signals' = Signals
  <1>1. /\ state.nextEventId \in Nat /\ start.nextEventId \in Nat
        /\ state.nextEventId >= start.nextEventId
    BY DEF DemoInv, States
  <1>2. state \in States
    BY DEF DemoInv
  <1> QED
    BY <1>1, <1>2, CompressTyped DEF Signals, Signalled

\* The fields of the state hold values of their types: a sum that wraps around
\* never becomes the value.
THEOREM DemoTypeCorrect == Spec => []TypeOK
  <1>1. DemoInv => TypeOK
    BY DEF DemoInv, TypeOK, States
  <1> QED
    BY Invariance, <1>1, PTL

\* From the first signal on the counter never exceeds its maximum, for whatever state
\* the entity was started with, and for every configuration, order of signals and
\* width of the integers.
THEOREM DemoWithinLimit == Spec => []ValueWithinLimit
  <1>1. Init => ValueWithinLimit
    <2> SUFFICES ASSUME start = state, state \in States
                 PROVE  ValueWithinLimit
      BY InitTyped DEF Init, TypeOK, States
    <2>1. Signals = 0
      BY DEF Signals, States
    <2> QED
      BY <2>1 DEF ValueWithinLimit
  <1>2. DemoInv /\ ValueWithinLimit /\ [Next]_vars => ValueWithinLimit'
    <2> SUFFICES ASSUME DemoInv, ValueWithinLimit, [Next]_vars
                 PROVE  ValueWithinLimit'
      OBVIOUS
    <2>0. state \in States
      BY DEF DemoInv
    <2>1. CASE Incremented
      BY <2>1 DEF Incremented, Signalled, ValueWithinLimit
    <2>2. CASE WasReset
      <3>1. state'.currentValue = 0 /\ state' \in States
        BY <2>2 DEF WasReset, Signalled
      <3>2. state'.config.maxValue \in Int
        BY <3>1, DemoAssumption DEF States, Int64
      <3> QED
        BY <3>1, <3>2 DEF ValueWithinLimit, WithinLimit
    <2>3. CASE Configured
      BY <2>3 DEF Configured, Signalled, ValueWithinLimit
    <2>4. CASE state' = CompressState(state) /\ start' = start
      BY <2>0, <2>4, CompressTyped, SignalsCounted DEF ValueWithinLimit
    <2>5. CASE UNCHANGED vars
      BY <2>5 DEF vars, ValueWithinLimit, Signals
    <2> QED
      BY <2>0, <2>1, <2>2, <2>3, <2>4, <2>5, StepKind
  <1> QED
    BY <1>1, <1>2, Invariance, PTL DEF Spec

\* Nothing but a reset lowers the counter.
THEOREM DemoOnlyResetLowers == Spec => OnlyResetLowers
  <1> DEFINE Lowers == \/ state'.currentValue >= state.currentValue
                       \/ state'.history[Len(state'.history)].type = "reset"
  <1>1. DemoInv /\ [Next]_vars => [Lowers]_vars
    <2> SUFFICES ASSUME state \in States, [Next]_vars
                 PROVE  Lowers
      BY DEF DemoInv
    <2>0. state.currentValue \in Int /\ state.history \in Seq(Event)
      BY DEF States
    <2>1. CASE Incremented
      BY <2>0, <2>1 DEF Incremented, Signalled, Event, Int64
    <2>2. CASE WasReset
      <3>1. PICK e : Signalled(e) /\ e.type = "reset"
        BY <2>2 DEF WasReset
      <3>2. /\ state'.history = Append(state.history, e)
            /\ e \in Event
        BY <3>1 DEF Signalled
      <3>3. state'.history[Len(state'.history)] = e
        BY <2>0, <3>2
      <3> QED
        BY <3>1, <3>3
    <2>3. CASE Configured
      BY <2>0, <2>3 DEF Configured, Signalled
    <2>4. CASE state' = CompressState(state) /\ start' = start
      BY <2>0, <2>4, CompressTyped
    <2>5. CASE UNCHANGED vars
      BY <2>0, <2>5 DEF vars
    <2> QED
      BY <2>1, <2>2, <2>3, <2>4, <2>5, StepKind
  <1> QED
    BY <1>1, Invariance, PTL DEF Spec, OnlyResetLowers

-----------------------------------------------------------------------------
(***************************************************************************)
(* The events the engine recorded explain the value.                       *)
(***************************************************************************)
LEMMA AppendExplains ==
  ASSUME NEW h \in Seq(Event), NEW first \in 1..Len(h) + 1, NEW next \in Nat,
         NEW value, Explains(h, first, next, value),
         NEW e \in Event, e.eventId = next, e.previousValue = value,
         e.newValue = e.previousValue + e.valueChange
  PROVE  Explains(Append(h, e), first, next + 1, e.newValue)
  <1> DEFINE n == Len(h)
             g == Append(h, e)
  <1>1. n \in Nat /\ first \in 1..n + 1
    OBVIOUS
  <1>2. /\ Len(g) = n + 1 /\ g[n + 1] = e
        /\ \A i \in 1..n : g[i] = h[i]
    OBVIOUS
  <1>3. \A i \in first..n :
          /\ h[i].eventId = next - n + i - 1
          /\ h[i].newValue = h[i].previousValue + h[i].valueChange
    BY DEF Explains
  <1>4. \A i \in first..n - 1 : h[i + 1].previousValue = h[i].newValue
    BY DEF Explains
  <1>5. first <= n => h[n].newValue = value
    BY DEF Explains
  <1> HIDE DEF n, g
  <1>6. ASSUME NEW i \in first..n + 1
        PROVE  /\ g[i].eventId = next + 1 - (n + 1) + i - 1
               /\ g[i].newValue = g[i].previousValue + g[i].valueChange
    <2>1. next + 1 - (n + 1) + i - 1 = next - n + i - 1
      BY <1>1
    <2>2. CASE i = n + 1
      BY <1>1, <1>2, <2>2
    <2>3. CASE i \in first..n
      <3>1. g[i] = h[i]
        BY <1>1, <1>2, <2>3
      <3> QED
        BY <1>3, <2>1, <2>3, <3>1
    <2> QED
      BY <1>1, <2>2, <2>3
  <1>7. ASSUME NEW i \in first..(n + 1) - 1
        PROVE  g[i + 1].previousValue = g[i].newValue
    <2>1. CASE i = n
      BY <1>1, <1>2, <1>5, <2>1
    <2>2. CASE i \in first..n - 1
      <3>1. i + 1 \in 1..n /\ i \in 1..n
        BY <1>1, <2>2
      <3> QED
        BY <1>1, <1>2, <1>4, <2>2, <3>1
    <2> QED
      BY <1>1, <2>1, <2>2
  <1>8. Explains(g, first, next + 1, e.newValue)
    <2>1. g[Len(g)].newValue = e.newValue
      BY <1>2
    <2>2. Len(g) = n + 1
      BY <1>2
    <2> QED
      BY <1>6, <1>7, <2>1, <2>2 DEF Explains
  <1> QED
    BY <1>8 DEF g

\* What is cut off the front does not matter to what is left of the explanation.
LEMMA SuffixExplains ==
  ASSUME NEW h \in Seq(Event), NEW first \in 1..Len(h) + 1, NEW next \in Nat,
         NEW value, Explains(h, first, next, value),
         NEW k \in Nat, k < Len(h),
         NEW later \in 1..Len(h) - k + 1, first <= k + later
  PROVE  Explains(SubSeq(h, k + 1, Len(h)), later, next, value)
  <1> DEFINE n == Len(h)
             g == SubSeq(h, k + 1, n)
  <1>1. n \in Nat /\ k < n /\ first \in 1..n + 1 /\ later \in 1..n - k + 1
    OBVIOUS
  <1>2. /\ Len(g) = n - k
        /\ \A i \in 1..n - k : g[i] = h[k + i]
    <2>1. /\ k + 1 \in 1..n + 1 /\ k + 1 <= n
          /\ n - (k + 1) + 1 = n - k
      BY <1>1
    <2>2. Len(g) = n - k
      BY <1>1, <2>1
    <2>3. ASSUME NEW i \in 1..n - k
          PROVE  g[i] = h[k + i]
      <3>1. (k + 1) + i - 1 = k + i
        OBVIOUS
      <3> QED
        BY <1>1, <2>1, <2>2, <3>1
    <2> QED
      BY <2>2, <2>3
  <1>3. \A i \in first..n :
          /\ h[i].eventId = next - n + i - 1
          /\ h[i].newValue = h[i].previousValue + h[i].valueChange
    BY DEF Explains
  <1>4. \A i \in first..n - 1 : h[i + 1].previousValue = h[i].newValue
    BY DEF Explains
  <1>5. first <= n => h[n].newValue = value
    BY DEF Explains
  <1> HIDE DEF n, g
  <1>6. ASSUME NEW i \in later..n - k
        PROVE  /\ g[i].eventId = next - (n - k) + i - 1
               /\ g[i].newValue = g[i].previousValue + g[i].valueChange
    <2>1. /\ k + i \in first..n /\ i \in 1..n - k
          /\ next - (n - k) + i - 1 = next - n + (k + i) - 1
      BY <1>1
    <2>2. g[i] = h[k + i]
      BY <1>2, <2>1
    <2> QED
      BY <1>3, <2>1, <2>2
  <1>7. ASSUME NEW i \in later..(n - k) - 1
        PROVE  g[i + 1].previousValue = g[i].newValue
    <2>1. /\ k + i \in first..n - 1 /\ k + (i + 1) = (k + i) + 1
          /\ i \in 1..n - k /\ i + 1 \in 1..n - k
      BY <1>1
    <2>2. g[i] = h[k + i] /\ g[i + 1] = h[k + (i + 1)]
      BY <1>2, <2>1
    <2> QED
      BY <1>4, <2>1, <2>2
  <1>8. later <= n - k => g[n - k].newValue = value
    <2>1. n - k \in 1..n - k /\ k + (n - k) = n
      BY <1>1
    <2>2. later <= n - k => first <= n
      BY <1>1
    <2> QED
      BY <1>2, <1>5, <2>1, <2>2
  <1> QED
    BY <1>2, <1>6, <1>7, <1>8 DEF Explains, g, n

\* A history of n events of which the engine recorded as many as there were signals,
\* or all of them.
LEMMA KeptBounds ==
  ASSUME DemoInv
  PROVE  /\ Len(state.history) \in Nat
         /\ Kept \in 0..Len(state.history) /\ Kept <= Signals
         /\ FirstKept \in 1..Len(state.history) + 1
         /\ Kept # Signals => Kept = Len(state.history)
  <1>1. Len(state.history) \in Nat /\ Signals \in Nat
    BY SignalsCounted DEF DemoInv, States
  <1>2. /\ Kept = IF Signals < Len(state.history) THEN Signals
                  ELSE Len(state.history)
        /\ FirstKept = Len(state.history) - Kept + 1
    BY DEF Kept, FirstKept
  <1>3. CASE Signals < Len(state.history)
    <2>1. Kept = Signals
      BY <1>2, <1>3
    <2> QED
      BY <1>1, <1>2, <1>3, <2>1
  <1>4. CASE ~(Signals < Len(state.history))
    <2>1. Kept = Len(state.history)
      BY <1>2, <1>4
    <2> QED
      BY <1>1, <1>2, <1>4, <2>1
  <1> QED
    BY <1>3, <1>4

LEMMA SignalExplains ==
  ASSUME DemoInv, HistoryExplainsValue, NEW e, Signalled(e)
  PROVE  HistoryExplainsValue'
  <1> DEFINE h == state.history
             n == Len(h)
  <1>1. /\ h \in Seq(Event) /\ state.nextEventId \in Nat /\ n \in Nat
        /\ state.currentValue \in Int
    BY DEF DemoInv, States
  <1>2. /\ Signals \in Nat /\ Signals' = Signals + 1
        /\ Kept \in 0..n /\ Kept <= Signals /\ FirstKept \in 1..n + 1
        /\ Kept # Signals => Kept = n
        /\ FirstKept = n - Kept + 1
    BY SignalsCounted, KeptBounds DEF FirstKept
  <1>3. state'.history = Append(h, e) /\ start' = start /\ e \in Event
    BY DEF Signalled
  <1>4. Len(state'.history) = n + 1
    BY <1>1, <1>3
  <1>5. Kept' = Kept + 1 /\ FirstKept' = FirstKept
    <2>1. Kept' = IF Signals + 1 < n + 1 THEN Signals + 1 ELSE n + 1
      BY <1>2, <1>4 DEF Kept
    <2>2. Kept = IF Signals < n THEN Signals ELSE n
      BY DEF Kept
    <2>3. Kept' = Kept + 1
      BY <1>1, <1>2, <2>1, <2>2
    <2>4. FirstKept' = (n + 1) - Kept' + 1
      BY <1>4 DEF FirstKept
    <2> QED
      BY <1>1, <1>2, <2>3, <2>4
  <1>6. Explains(state'.history, FirstKept, state.nextEventId + 1, e.newValue)
    BY <1>1, <1>2, <1>3, AppendExplains DEF Signalled, HistoryExplainsValue
  <1>7. Explains(state'.history, FirstKept', state'.nextEventId, state'.currentValue)
    BY <1>5, <1>6 DEF Signalled
  <1>8. Kept' < Signals' => Kept' >= KeepHistory
    BY <1>1, <1>2, <1>5, DemoAssumption DEF HistoryExplainsValue
  <1>9. ASSUME Kept' = Signals'
        PROVE  /\ Signals' # 0
               /\ start.currentValue = state'.history[FirstKept'].previousValue
    <2>1. Kept = Signals /\ Signals' # 0
      BY <1>1, <1>2, <1>5, <1>9
    <2>2. CASE Signals = 0
      <3>1. FirstKept = n + 1 /\ state'.history[n + 1] = e
        BY <1>1, <1>2, <1>3, <2>1, <2>2
      <3>2. start.currentValue = state.currentValue
        BY <2>1, <2>2 DEF HistoryExplainsValue
      <3> QED
        BY <1>5, <2>1, <3>1, <3>2 DEF Signalled
    <2>3. CASE Signals # 0
      <3>1. FirstKept \in 1..n
        BY <1>1, <1>2, <2>1, <2>3
      <3>2. state'.history[FirstKept] = h[FirstKept]
        BY <1>1, <1>3, <3>1
      <3>3. start.currentValue = h[FirstKept].previousValue
        BY <2>1, <2>3 DEF HistoryExplainsValue
      <3> QED
        BY <1>5, <2>1, <3>2, <3>3
    <2> QED
      BY <2>2, <2>3
  <1> QED
    BY <1>3, <1>7, <1>8, <1>9 DEF HistoryExplainsValue

LEMMA CompressExplains ==
  ASSUME DemoInv, HistoryExplainsValue,
         state' = CompressState(state), start' = start
  PROVE  HistoryExplainsValue'
  <1> DEFINE h == state.history
             n == Len(h)
             k == n - KeepHistory
  <1>1. /\ h \in Seq(Event) /\ state.nextEventId \in Nat /\ n \in Nat
        /\ KeepHistory \in Nat \ {0} /\ state \in States
    BY DemoAssumption DEF DemoInv, States
  <1>2. CASE ~(n > KeepHistory)
    <2>1. state' = state
      BY <1>2 DEF CompressState
    <2> QED
      BY <2>1 DEF HistoryExplainsValue, Kept, FirstKept, Signals
  <1>3. CASE n > KeepHistory
    <2>1. state'.history = SubSeq(h, k + 1, n)
      BY <1>1, <1>3 DEF CompressState, States
    <2>2. k \in Nat /\ k < n /\ n - k = KeepHistory
      BY <1>1, <1>3
    <2>3. /\ Len(state'.history) = KeepHistory
          /\ \A i \in 1..KeepHistory : state'.history[i] = h[k + i]
      <3>1. /\ k + 1 \in 1..n + 1 /\ k + 1 <= n
            /\ n - (k + 1) + 1 = KeepHistory
        BY <1>1, <2>2
      <3>2. Len(state'.history) = KeepHistory
        BY <1>1, <2>1, <2>2, <3>1
      <3>3. ASSUME NEW i \in 1..KeepHistory
            PROVE  state'.history[i] = h[k + i]
        <4>1. (k + 1) + i - 1 = k + i
          BY <2>2
        <4> QED
          BY <1>1, <2>1, <2>2, <3>1, <3>2, <4>1
      <3> QED
        BY <3>2, <3>3
    <2>4. /\ Signals \in Nat /\ Signals' = Signals
          /\ state'.currentValue = state.currentValue
          /\ state'.nextEventId = state.nextEventId
      BY <1>1, SignalsCounted, CompressTyped
    <2> HIDE DEF k, n, h
    <2>5. /\ Kept = IF Signals < n THEN Signals ELSE n
          /\ Kept' = IF Signals < KeepHistory THEN Signals ELSE KeepHistory
          /\ FirstKept = n - Kept + 1
          /\ FirstKept' = KeepHistory - Kept' + 1
      BY <2>3, <2>4 DEF Kept, FirstKept, n, h
    <2>6. Kept' < Signals' => Kept' >= KeepHistory
      BY <1>1, <2>4, <2>5
    <2>7. Explains(state'.history, FirstKept', state'.nextEventId,
                   state'.currentValue)
      <3>1. /\ FirstKept \in 1..n + 1 /\ FirstKept' \in 1..n - k + 1
            /\ FirstKept <= k + FirstKept'
        BY <1>1, <1>3, <2>2, <2>4, <2>5
      <3>2. Explains(SubSeq(h, k + 1, n), FirstKept', state.nextEventId,
                     state.currentValue)
        BY <1>1, <2>2, <3>1, SuffixExplains DEF HistoryExplainsValue, h, n
      <3> QED
        BY <2>1, <2>4, <3>2
    <2>8. ASSUME Kept' = Signals'
          PROVE  start.currentValue =
                   IF Signals' = 0 THEN state'.currentValue
                   ELSE state'.history[FirstKept'].previousValue
      <3>1. Kept = Signals
        BY <1>1, <1>3, <2>4, <2>5, <2>8
      <3>2. CASE Signals = 0
        BY <2>4, <3>1, <3>2 DEF HistoryExplainsValue
      <3>3. CASE Signals # 0
        <4>1. /\ FirstKept' \in 1..KeepHistory
              /\ k + FirstKept' = FirstKept
          BY <1>1, <2>2, <2>4, <2>5, <2>8, <3>1, <3>3
        <4>2. state'.history[FirstKept'] = h[FirstKept]
          BY <2>3, <4>1
        <4> QED
          BY <2>4, <3>1, <3>3, <4>2 DEF HistoryExplainsValue, h
      <3> QED
        BY <3>2, <3>3
    <2> QED
      BY <2>6, <2>7, <2>8 DEF HistoryExplainsValue
  <1> QED
    BY <1>2, <1>3

\* The events the engine recorded account for the value, for any history and value
\* the entity was started with, any number of signals, refusals and compressions, and
\* whatever length of history is kept.
THEOREM DemoHistoryExplainsValue == Spec => []HistoryExplainsValue
  <1>1. Init => HistoryExplainsValue
    <2> SUFFICES ASSUME start = state, state \in States
                 PROVE  HistoryExplainsValue
      BY InitTyped DEF Init, TypeOK, States
    <2>1. Signals = 0 /\ Len(state.history) \in Nat
      BY DEF Signals, States
    <2>2. Kept = 0 /\ FirstKept = Len(state.history) + 1
      <3>1. Kept = 0
        BY <2>1 DEF Kept
      <3>2. FirstKept = Len(state.history) - Kept + 1
        BY DEF FirstKept
      <3> QED
        BY <2>1, <3>1, <3>2
    <2> QED
      BY <2>1, <2>2 DEF HistoryExplainsValue, Explains
  <1>2. DemoInv /\ HistoryExplainsValue /\ [Next]_vars => HistoryExplainsValue'
    <2> SUFFICES ASSUME DemoInv, HistoryExplainsValue, [Next]_vars
                 PROVE  HistoryExplainsValue'
      OBVIOUS
    <2>0. state \in States
      BY DEF DemoInv
    <2>1. CASE Incremented \/ WasReset \/ Configured
      BY <2>1, SignalExplains DEF Incremented, WasReset, Configured
    <2>2. CASE state' = CompressState(state) /\ start' = start
      BY <2>2, CompressExplains
    <2>3. CASE UNCHANGED vars
      BY <2>3 DEF vars, HistoryExplainsValue, Kept, FirstKept, Signals
    <2> QED
      BY <2>0, <2>1, <2>2, <2>3, StepKind
  <1> QED
    BY <1>1, <1>2, Invariance, PTL DEF Spec
===============================================================================
