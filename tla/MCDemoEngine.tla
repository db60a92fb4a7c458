---------------------------- MODULE MCDemoEngine ----------------------------
(***************************************************************************)
(* A counter in four bits: its largest value is 7.  The configurations     *)
(* have no maximum, one in the middle of the range and one that fails the  *)
(* validation; entities start without a configuration, with one, in the    *)
(* middle of a count, beyond their maximum and one id before the last, and *)
(* with no history, one that fails the validation, and one that is longer  *)
(* than what is kept and explains nothing.                                 *)
(***************************************************************************)
EXTENDS DemoEngine

MCAmount == {-1, 0, 1, 7}
MCConfig ==
  [maxValue : {-1, 0, 2}, defaultIncrement : {0, 1}, allowNegative : BOOLEAN]

\* An event as a client may make one up.
MadeUp(eventId, type) ==
  [eventId |-> eventId, type |-> type, valueChange |-> -1, previousValue |-> -8,
   newValue |-> 5]

MCGiven ==
  [currentValue : {0, 1, 3}, config : MCConfig \cup {NoConfig},
   history : {<<>>, <<MadeUp(0, "increment")>>,
              <<MadeUp(7, "config"), MadeUp(2, "unspecified"), MadeUp(2, "reset")>>},
   nextEventId : {0, 1, 6}]
=============================================================================
