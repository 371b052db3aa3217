------------------------------ MODULE RagTypes ------------------------------
(***************************************************************************)
(* What the dual-RAG stores have in common: layers, documents, and what    *)
(* one ingest makes of a document.                                         *)
(***************************************************************************)
CONSTANTS
  Layer,    \* LAYER_INDEX: 1 and 2
  Doc,      \* doc_id
  Version,  \* text, title, property_id of one ingest
  NoDoc     \* no record of the document in the index

ASSUME NoDocIsNoVersion == NoDoc \notin Version

Docs == [Doc -> Version \cup {NoDoc}]
EmptyDocs == [d \in Doc |-> NoDoc]
Ingest == [layer : Layer, doc : Doc, version : Version]
=============================================================================
