-------------------------------- MODULE LRU --------------------------------
(***************************************************************************)
(* What a set-associative cache with least-recently-used replacement       *)
(* promises, with no ways, time stamps or empty slots: every set holds at  *)
(* most Ways tags, and the tags of a set are ordered by their last use.    *)
(* An access to a resident tag makes it the most recent one; an access to  *)
(* an absent tag adds it, and evicts the least recent tag only when the    *)
(* set is full.                                                            *)
(*                                                                         *)
(* Module CacheSim implements this specification.                          *)
(***************************************************************************)
EXTENDS Integers, FiniteSets

CONSTANTS
  Ways, \* capacity of a set
  Sets  \* number of sets

VARIABLES
  resident, \* resident[s]: the tags held by set s
  older     \* older[s]: the pairs <<t, u>> with t used before u

lruVars == <<resident, older>>

SetIndex == 0 .. Sets - 1

LInit ==
  /\ resident = [s \in SetIndex |-> {}]
  /\ older    = [s \in SetIndex |-> {}]

(***************************************************************************)
(* The use order of the tags in keep, followed by t, the tag just used.    *)
(***************************************************************************)
UsedLast(s, keep, t) ==
  {p \in older[s] : p[1] \in keep /\ p[2] \in keep} \cup {<<u, t>> : u \in keep}

Use(s, keep, t) ==
  /\ resident' = [resident EXCEPT ![s] = keep \cup {t}]
  /\ older'    = [older EXCEPT ![s] = UsedLast(s, keep, t)]

LHit(s, t) ==
  /\ t \in resident[s]
  /\ Use(s, resident[s] \ {t}, t)

LFill(s, t) ==
  /\ t \notin resident[s]
  /\ Cardinality(resident[s]) < Ways
  /\ Use(s, resident[s], t)

LEvict(s, t) ==
  /\ t \notin resident[s]
  /\ Cardinality(resident[s]) = Ways
  /\ \E v \in resident[s] :
       /\ \A u \in resident[s] \ {v} : <<v, u>> \in older[s]
       /\ Use(s, resident[s] \ {v}, t)

LAccess(s, t) == LHit(s, t) \/ LFill(s, t) \/ LEvict(s, t)

\* The tag accessed is resident afterwards, so this ranges over every tag.
LNext == \E s \in SetIndex : \E t \in resident'[s] : LAccess(s, t)

LSpec == LInit /\ [][LNext]_lruVars
=============================================================================
