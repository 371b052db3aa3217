------------------------------ MODULE RagFiles ------------------------------
(***************************************************************************)
(* RagIndexStore: an index is the files manifest.json and records.jsonl of *)
(* its directory.  upsert_document reads the records, replaces those of    *)
(* one document and writes both files through manifest.json.tmp and        *)
(* records.jsonl.tmp, the names every writer of that index uses.  Ingest   *)
(* routes are sync functions on a thread pool (Worker), and the process    *)
(* can die between any two steps.                                          *)
(*                                                                         *)
(* The text of either file stands for the documents it was made from:      *)
(* records.jsonl holds their chunks, manifest.json their counts.           *)
(***************************************************************************)
EXTENDS RagTypes, Naturals, FiniteSets

CONSTANTS
  Worker,        \* ingest requests in flight, and NoJob when there is none
  NoJob,
  Faults,        \* which of "crash", "disk" can happen
  Absent,        \* no such file
  Cut, Torn      \* a text written up to the middle of a line; two texts mixed

ASSUME FilesNoJob == NoJob \notin Ingest
ASSUME FilesFaults == Faults \subseteq {"crash", "disk"}
ASSUME FilesContents ==
  /\ {Absent, Cut, Torn} \cap [Doc -> Version \cup {NoDoc}] = {}
  /\ Absent # Cut /\ Absent # Torn /\ Cut # Torn

VARIABLES
  file,     \* manifest.json and records.jsonl of each layer
  tmp,      \* their temporary names
  step,       \* where each worker is in upsert_document and write_index
  writing,      \* the layer, document and version it ingests
  text,     \* the documents of the text it writes
  fd,       \* what the file it has open is called by now
  fileAnswered, \* <<layer, document>> whose ingest was answered with success
  fileMixed     \* layers two workers were writing at once

filesVars == <<file, tmp, step, writing, text, fd, fileAnswered, fileMixed>>

Content == Docs \cup {Absent, Cut, Torn}
Parses(content) == content \notin {Cut, Torn}
Kind == {"manifest", "records"}

FilesTypeOK ==
  /\ file \in [Layer -> [Kind -> Content]]
  /\ tmp \in [Layer -> [Kind -> Content]]
  /\ step \in [Worker -> {"idle", "read", "manifest_open", "manifest", "records_open",
                        "records", "manifest_swapped", "swapped", "failed"}]
  /\ writing \in [Worker -> Ingest \cup {NoJob}]
  /\ \A w \in Worker : step[w] = "idle" <=> writing[w] = NoJob
  /\ text \in [Worker -> Docs]
  /\ fd \in [Worker -> {"none", "tmp", "file", "gone"}]
  /\ \A w \in Worker : fd[w] # "none" => step[w] \in {"manifest_open", "records_open"}
  /\ fileAnswered \subseteq Layer \X Doc
  /\ fileMixed \subseteq Layer

FilesInit ==
  /\ file = [l \in Layer |-> [f \in Kind |-> Absent]]
  /\ tmp = [l \in Layer |-> [f \in Kind |-> Absent]]
  /\ step = [w \in Worker |-> "idle"]
  /\ writing = [w \in Worker |-> NoJob]
  /\ text = [w \in Worker |-> EmptyDocs]
  /\ fd = [w \in Worker |-> "none"]
  /\ fileAnswered = {}
  /\ fileMixed = {}

----------------------------------------------------------------------------
(* read_records: a missing file reads as no records.                       *)
Read(content) == IF content = Absent THEN EmptyDocs ELSE content

Busy(l) == {w \in Worker : writing[w] # NoJob /\ writing[w].layer = l}

(* ingest_document and upsert_document: the records of all documents but   *)
(* this one, and its new ones.                                             *)
ReadRecords(w, q) ==
  /\ step[w] = "idle"
  /\ Parses(file[q.layer]["records"])
  /\ writing' = [writing EXCEPT ![w] = q]
  /\ text' = [text EXCEPT ![w] = [Read(file[q.layer]["records"]) EXCEPT ![q.doc] = q.version]]
  /\ step' = [step EXCEPT ![w] = "read"]
  /\ fileMixed' = IF Busy(q.layer) = {} THEN fileMixed ELSE fileMixed \cup {q.layer}
  /\ UNCHANGED <<file, tmp, fd, fileAnswered>>

(* A records file that does not parse raises before anything is written.   *)
ReadRaises(w, q) ==
  /\ step[w] = "idle"
  /\ ~Parses(file[q.layer]["records"])
  /\ writing' = [writing EXCEPT ![w] = q]
  /\ step' = [step EXCEPT ![w] = "failed"]
  /\ UNCHANGED <<file, tmp, text, fd, fileAnswered, fileMixed>>

(* The phases of write_index: before and after opening and finishing each  *)
(* temporary file, before and after each os.replace.                       *)
BeforeOpen(f) == IF f = "manifest" THEN "read" ELSE "manifest"
Opened(f) == IF f = "manifest" THEN "manifest_open" ELSE "records_open"
BeforeSwap(f) == IF f = "manifest" THEN "records" ELSE "manifest_swapped"
Swapped(f) == IF f = "manifest" THEN "manifest_swapped" ELSE "swapped"

(* What a file may hold while its text is being written: the lines that    *)
(* were flushed, cut at a document or inside a line.                       *)
PrefixOf(docs) ==
  {[d \in Doc |-> IF d \in flushed THEN docs[d] ELSE NoDoc] : flushed \in SUBSET Doc}
    \cup {Cut}

(* What a file holds when w finishes: its text, or a mixture if another    *)
(* worker wrote in the file meanwhile or has it open too.                  *)
Alone(w, f) ==
  \A x \in Busy(writing[w].layer) \ {w} : step[x] = Opened(f) => fd[x] # fd[w]
Written(w, f, old) ==
  IF old \in PrefixOf(text[w]) /\ Alone(w, f) THEN {text[w]} ELSE {text[w], Torn}

(* Faulty: the file itself is opened for writing.                          *)
OpenFile(w, f) ==
  /\ step[w] = BeforeOpen(f)
  /\ \E part \in PrefixOf(text[w]) : file' = [file EXCEPT ![writing[w].layer][f] = part]
  /\ tmp' = [tmp EXCEPT ![writing[w].layer][f] = text[w]]
  /\ fd' = [fd EXCEPT ![w] = "tmp"]
  /\ step' = [step EXCEPT ![w] = Opened(f)]
  /\ UNCHANGED <<writing, text, fileAnswered, fileMixed>>

Open(w, f) ==
  /\ step[w] = BeforeOpen(f)
  /\ \E part \in PrefixOf(text[w]) : tmp' = [tmp EXCEPT ![writing[w].layer][f] = part]
  /\ fd' = [fd EXCEPT ![w] = "tmp"]
  /\ step' = [step EXCEPT ![w] = Opened(f)]
  /\ UNCHANGED <<file, writing, text, fileAnswered, fileMixed>>

(* The rest of the text goes into the file that was opened, whatever its   *)
(* name is by now.                                                         *)
FinishFile(w, f) ==
  LET l == writing[w].layer IN
  /\ step[w] = Opened(f)
  /\ \/ /\ fd[w] = "tmp"
        /\ \E c \in Written(w, f, tmp[l][f]) : tmp' = [tmp EXCEPT ![l][f] = c]
        /\ UNCHANGED file
     \/ /\ fd[w] = "file"
        /\ \E c \in Written(w, f, file[l][f]) : file' = [file EXCEPT ![l][f] = c]
        /\ UNCHANGED tmp
     \/ /\ fd[w] = "gone"
        /\ UNCHANGED <<file, tmp>>
  /\ fd' = [fd EXCEPT ![w] = "none"]
  /\ step' = [step EXCEPT ![w] = IF f = "manifest" THEN "manifest" ELSE "records"]
  /\ UNCHANGED <<writing, text, fileAnswered, fileMixed>>

(* A rename moves an open file along with its name.                        *)
Renamed(x, l, f) ==
  IF ~(x \in Busy(l) /\ step[x] = Opened(f)) THEN fd[x]
  ELSE CASE fd[x] = "tmp" -> "file" [] fd[x] = "file" -> "gone" [] OTHER -> fd[x]

(* os.replace of the manifest, then of the records.                        *)
Swap(w, f) ==
  LET l == writing[w].layer IN
  /\ step[w] = BeforeSwap(f)
  /\ tmp[l][f] # Absent
  /\ file' = [file EXCEPT ![l][f] = tmp[l][f]]
  /\ tmp' = [tmp EXCEPT ![l][f] = Absent]
  /\ fd' = [x \in Worker |-> Renamed(x, l, f)]
  /\ step' = [step EXCEPT ![w] = Swapped(f)]
  /\ UNCHANGED <<writing, text, fileAnswered, fileMixed>>

(* Any exception in write_index: both temporary names are unlinked and the *)
(* exception goes on.                                                      *)
Unlink(w) ==
  LET l == writing[w].layer IN
  /\ tmp' = [tmp EXCEPT ![l] = [f \in Kind |-> Absent]]
  /\ fd' = [x \in Worker |-> IF x = w THEN "none"
                             ELSE IF x \in Busy(l) /\ fd[x] = "tmp" THEN "gone"
                             ELSE fd[x]]
  /\ step' = [step EXCEPT ![w] = "failed"]
  /\ UNCHANGED <<file, writing, text, fileAnswered, fileMixed>>

(* The name is gone: another writer renamed or unlinked it.                *)
SwapRaises(w, f) ==
  /\ step[w] = BeforeSwap(f)
  /\ tmp[writing[w].layer][f] = Absent
  /\ Unlink(w)

DiskError(w) ==
  /\ "disk" \in Faults
  /\ step[w] \in {"read", "manifest_open", "manifest", "records_open"}
  /\ Unlink(w)

(* The route answers: success after both swaps, an error otherwise.        *)
AnswerIngest(w) ==
  /\ step[w] \in {"swapped", "failed"}
  /\ fileAnswered' = IF step[w] = "swapped"
                 THEN fileAnswered \cup {<<writing[w].layer, writing[w].doc>>}
                 ELSE fileAnswered
  /\ step' = [step EXCEPT ![w] = "idle"]
  /\ writing' = [writing EXCEPT ![w] = NoJob]
  /\ text' = [text EXCEPT ![w] = EmptyDocs]
  /\ UNCHANGED <<file, tmp, fd, fileMixed>>

(* The process dies; what is in the files stays, temporary ones too.       *)
DieWriting ==
  /\ "crash" \in Faults
  /\ \E w \in Worker : step[w] # "idle"
  /\ step' = [w \in Worker |-> "idle"]
  /\ writing' = [w \in Worker |-> NoJob]
  /\ text' = [w \in Worker |-> EmptyDocs]
  /\ fd' = [w \in Worker |-> "none"]
  /\ UNCHANGED <<file, tmp, fileAnswered, fileMixed>>

FilesNext ==
  \/ \E w \in Worker :
       \/ \E q \in Ingest : ReadRecords(w, q) \/ ReadRaises(w, q)
       \/ \E f \in Kind : Open(w, f) \/ FinishFile(w, f) \/ Swap(w, f) \/ SwapRaises(w, f)
       \/ DiskError(w) \/ AnswerIngest(w)
  \/ DieWriting

FilesSpec == FilesInit /\ [][FilesNext]_filesVars

----------------------------------------------------------------------------
(* As long as no two ingests overlapped on a layer, its records parse and  *)
(* every document answered with success is among them, whatever happened   *)
(* on the other layer and wherever the process died.                       *)
AnsweredIsIndexed ==
  \A l \in Layer \ fileMixed :
    /\ Parses(file[l]["records"])
    /\ \A d \in Doc : <<l, d>> \in fileAnswered => Read(file[l]["records"])[d] # NoDoc

(* The manifest is replaced first and no transaction joins the two files:  *)
(* after a crash its counts belong to another set of documents than the    *)
(* records, but never by more than the one document being ingested, since  *)
(* every ingest starts from the records.                                   *)
StatsOffByOneIngest ==
  \A l \in Layer \ fileMixed :
    LET m == file[l]["manifest"] r == file[l]["records"]
    IN  Parses(m) /\ Cardinality({d \in Doc : Read(m)[d] # Read(r)[d]}) <= 1

(* An answered document is found whatever failed since, and the counts are *)
(* nearly right, on every layer on which ingests did not overlap.          *)
FilesInv == FilesTypeOK /\ AnsweredIsIndexed /\ StatsOffByOneIngest

(* A crashed or failed ingest leaves the index of before or of after.      *)
RecordsOf(l) == IF Parses(file[l]["records"]) THEN Read(file[l]["records"]) ELSE EmptyDocs

FileIndex == [l \in Layer |-> RecordsOf(l)]
FilePromise == INSTANCE RagIndex WITH index <- FileIndex

(* Until two ingests overlap on a layer, with crashes and disk errors at   *)
(* any step, the files behave as the index of RagIndex.                    *)
FilesAreAnIndex ==
  FilePromise!IndexInit /\ [][fileMixed' = {} => FilePromise!IndexNext]_FileIndex
=============================================================================
