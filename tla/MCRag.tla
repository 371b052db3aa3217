------------------------------- MODULE MCRag -------------------------------
(* The two stores of the dual RAG, of which an installation has one, and   *)
(* how a text is cut into chunks before it is stored: a behaviour is one   *)
(* of these, while the others stay as they begin.  The JSONL indices of    *)
(* the two layers are two directories that share nothing, so a behaviour   *)
(* of that store is one of one layer.                                      *)
EXTENDS RagFiles, RagPostgres, Chunking, TLC

CONSTANT MaxLength   \* bound: positions of a text

AllTexts == UNION {[1 .. n -> Mark] : n \in 1 .. MaxLength}
Config(target, maximum, overlap, minimum) ==
  [target |-> target, maximum |-> maximum, overlap |-> overlap, minimum |-> minimum]
TwoConfigs == {Config(3, 4, 2, 1), Config(2, 4, 1, 2)}
Windows == {[size |-> 3, overlap |-> 1]}

VARIABLE store   \* "postgres", "chunks", or the layer whose directory it is about

mcVars == <<filesVars, pgVars, chunkVars, store>>

OnOneLayer == \A w \in Worker : writing'[w] # NoJob => writing'[w].layer = store

(* Bound: after two ingests of a directory overlapped, when nothing is     *)
(* promised of it, they come one at a time.                                *)
OneOverlap ==
  fileMixed # {} =>
    \A w \in Worker : step[w] = "idle" /\ step'[w] # "idle" => \A x \in Worker : step[x] = "idle"

Init ==
  /\ FilesInit /\ PostgresInit /\ ChunkInit
  /\ store \in Layer \cup {"postgres", "chunks"}
  /\ store # "chunks" => after = <<"none">> /\ config = Config(3, 4, 2, 1)
Next ==
  /\ UNCHANGED store
  /\ \/ store \in Layer /\ FilesNext /\ OnOneLayer /\ OneOverlap
        /\ UNCHANGED <<pgVars, chunkVars>>
     \/ store = "postgres" /\ PostgresNext /\ UNCHANGED <<filesVars, chunkVars>>
     \/ store = "chunks" /\ (ChunkNext \/ (pos = End /\ UNCHANGED chunkVars))
        /\ UNCHANGED <<filesVars, pgVars>>
Spec == Init /\ [][Next]_mcVars

(* Workers and sessions are the same threads of the pool.                  *)
(* Versions are interchangeable: TableIndex chooses among them only after  *)
(* two ingests of a document overlapped, when nothing is promised of it.   *)
Symmetry ==
  Permutations(Worker) \cup Permutations(Layer) \cup Permutations(Doc)
    \cup Permutations(Version)
=============================================================================
