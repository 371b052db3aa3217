------------------------------ MODULE RagIndex ------------------------------
(***************************************************************************)
(* What the two dual-RAG layers promise, whichever store keeps them: per   *)
(* layer one version of a document or none, and ingest replaces the        *)
(* version at once and touches no other document.                          *)
(***************************************************************************)
EXTENDS RagTypes

VARIABLE index

IndexInit == index = [l \in Layer |-> EmptyDocs]

Upsert(l, d, v) == index' = [index EXCEPT ![l][d] = v]

IndexNext == \E l \in Layer, d \in Doc, v \in Version : Upsert(l, d, v)

IndexSpec == IndexInit /\ [][IndexNext]_index
=============================================================================
