--------------------------- MODULE MCEntityWorkflow ---------------------------
(***************************************************************************)
(* Instances of an entity.  Alice sends first and again, two updates under *)
(* one key, and last, without a key; Bob sends other, under a key of his   *)
(* own; someone who cannot claim an entity sends stray.  The workflow      *)
(* starts at time 1, which is the cutoff of its first run: a request with  *)
(* a key that is not to be taken for an old one is sent at time 2.         *)
(***************************************************************************)
EXTENDS EntityWorkflow, TLC

CONSTANTS first, again, last, other, stray, k1, k2, acme

MCKey == {k1, k2}

\* Alice and Bob are of two teams, one of them the empty one; the last lacks what
\* is required.
alice == [f \in IdentityField |-> acme]
bob == [alice EXCEPT !.teamId = Empty]
nobody == [alice EXCEPT !.environment = Empty]

AllKeys == first :> k1 @@ again :> k1 @@ last :> NoKey @@ other :> k2 @@ stray :> NoKey
AllCallers == other :> bob @@ stray :> nobody @@ [u \in Update |-> alice]
MCkey == [u \in Update |-> AllKeys[u]]
MCcaller == [u \in Update |-> AllCallers[u]]
MCOneCaller == [u \in Update |-> IF u = stray THEN nobody ELSE alice]
MCrequestTime == [u \in Update |-> IF key[u] = NoKey THEN 1 ELSE 2]
=============================================================================
