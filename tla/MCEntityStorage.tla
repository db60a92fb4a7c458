---------------------------- MODULE MCEntityStorage ----------------------------
(***************************************************************************)
(* Process q opens two adapters, of which other has a table prefix of its  *)
(* own; process p has none.  A record, and one under the same primary key  *)
(* of another incarnation of the entity.                                   *)
(***************************************************************************)
EXTENDS EntityStorage, TLC

CONSTANTS p, q, current, other, earlier, record, key

MCHome == [a \in Adapter |-> q]
MCTablePrefix == current :> "records" @@ other :> "other"
MCrecordKey == [r \in Record |-> key]
=============================================================================
