---------------------------- MODULE MCBaseEngine ----------------------------
(***************************************************************************)
(* A bounded counter in place of the business logic: "inc" is rejected at  *)
(* the top of its range, "reset" at 1 gives a state but a transition info  *)
(* that Prepare refuses, "bad" fails event validation and the processor.   *)
(***************************************************************************)
EXTENDS BaseEngine

MCState == 0..2
MCEvent == {"inc", "reset", "bad"}
MCInvalidEvent == {"bad"}
MCBadTransition == {<<1, "reset">>}
MCProcessor ==
  [s \in MCState, e \in MCEvent |->
     CASE e = "inc" /\ s + 1 \in MCState -> s + 1
       [] e = "reset" -> 0
       [] OTHER -> Rejected]
=============================================================================
