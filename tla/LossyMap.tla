------------------------------ MODULE LossyMap ------------------------------
(***************************************************************************)
(* What a client of the memory block may rely on: a map that may forget,   *)
(* and never lies.  A write may cost at most one other entry, and only     *)
(* when it adds one; an entry may disappear by itself (deleted, flushed,   *)
(* expired); a read answers the value of the last write or nothing.        *)
(***************************************************************************)
EXTENDS FiniteSets, Naturals, Functions

CONSTANTS Key, Value, Missing

VARIABLES
  held,  \* the entries that a read would find
  reply  \* the last read: which key, and its value or Missing

mapVars == <<held, reply>>

Replies == [key : Key, value : Value \cup {Missing}]

LossyInit == /\ held = << >>
             /\ reply \in [key : Key, value : {Missing}]

Write(k, v) ==
  \E lost \in SUBSET (DOMAIN held \ {k}) :
    /\ lost # {} => k \notin DOMAIN held /\ Cardinality(lost) = 1
    /\ held' = [x \in (DOMAIN held \ lost) \cup {k} |-> IF x = k THEN v ELSE held[x]]
    /\ UNCHANGED reply

Forget ==
  /\ \E kept \in SUBSET DOMAIN held : held' = Restrict(held, kept)
  /\ UNCHANGED reply

Read(k) ==
  /\ reply' = [key |-> k, value |-> IF k \in DOMAIN held THEN held[k] ELSE Missing]
  /\ UNCHANGED held

LossyNext ==
  \/ \E k \in Key, v \in Value : Write(k, v)
  \/ \E k \in Key : Read(k)
  \/ Forget

LossySpec == LossyInit /\ [][LossyNext]_mapVars
=============================================================================
