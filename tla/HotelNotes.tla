----------------------------- MODULE HotelNotes -----------------------------
(***************************************************************************)
(* The hotel property notes of app/rag_routes.py: one JSONL file to which  *)
(* ingest appends a line per note, and of which a query reads what parses. *)
(* The line is written by one append, which is atomic among threads but    *)
(* may fail half way (a full disk) and leave its beginning; nothing looks  *)
(* at what the file ends with before the next append.                      *)
(*                                                                         *)
(* json.dumps(ensure_ascii=False) leaves U+0085, U+2028 and U+2029 in the  *)
(* text, at which splitlines breaks the line too, perhaps into lines that  *)
(* are JSON by themselves; and the beginning of a text that is not ASCII   *)
(* may end inside a character, after which the file is no UTF-8.           *)
(***************************************************************************)
EXTENDS Naturals, Sequences, FiniteSets

CONSTANTS
  Note,       \* the notes clients send, each once
  Wide,       \* those with other than ASCII characters,
  Separated,  \* with a line separator among them,
  Scalar      \* with nothing but a number or the like between two of these

ASSUME NotesMarked == Scalar \subseteq Separated /\ Separated \subseteq Wide /\ Wide \subseteq Note

VARIABLES
  line,         \* the lines of the file
  unended,      \* its last line has no newline
  undecodable,  \* it is no UTF-8
  sent,         \* the notes sent so far
  ingested,     \* those answered with "ingested": True
  torn          \* how many appends left only the beginning of a line

notesVars == <<line, unended, undecodable, sent, ingested, torn>>

(* A line is the record of a note, a line json.loads refuses, or a JSON    *)
(* value that is no object.                                                *)
Broken == <<"broken">>
Scrap == <<"scrap">>
Record(n) == <<"record", n>>
Line == {Broken, Scrap} \cup {Record(n) : n \in Note}

NotesTypeOK ==
  /\ line \in Seq(Line)
  /\ unended \in BOOLEAN /\ undecodable \in BOOLEAN
  /\ ingested \subseteq sent /\ sent \subseteq Note
  /\ torn \in 0 .. Cardinality(sent \ ingested)

NotesInit ==
  /\ line = <<>> /\ unended = FALSE /\ undecodable = FALSE
  /\ sent = {} /\ ingested = {} /\ torn = 0

----------------------------------------------------------------------------
(* What splitlines makes of the line written for a note.                   *)
Text(n) ==
  IF n \in Scalar THEN <<Broken, Scrap, Broken>>
  ELSE IF n \in Separated THEN <<Broken, Broken>>
  ELSE <<Record(n)>>

(* The file with more text at its end: new lines, of which the first goes  *)
(* on with a line that has no newline, which then parses no longer.        *)
Appended(text) ==
  IF unended THEN [line EXCEPT ![Len(line)] = Broken] \o Tail(text) ELSE line \o text

(* rag_ingest; what record_mutation_audit makes of it is dropped.          *)
IngestNote(n) ==
  /\ n \notin sent
  /\ sent' = sent \cup {n}
  /\ ingested' = ingested \cup {n}
  /\ line' = Appended(Text(n))
  /\ unended' = FALSE
  /\ UNCHANGED <<undecodable, torn>>

(* The append raises after some of its lines and perhaps a part of one;    *)
(* only the newline may be missing.                                        *)
AppendRaises(n) ==
  /\ n \notin sent
  /\ sent' = sent \cup {n}
  /\ \E k \in DOMAIN Text(n) : LET whole == SubSeq(Text(n), 1, k) IN
       \/ line' = Appended(whole) /\ UNCHANGED undecodable
       \/ /\ line' = Appended([whole EXCEPT ![k] = Broken])
          /\ \E inside \in {FALSE, (n \in Wide)} : undecodable' = (undecodable \/ inside)
  /\ unended' = TRUE
  /\ torn' = torn + 1
  /\ UNCHANGED ingested

NotesNext == \E n \in Note : IngestNote(n) \/ AppendRaises(n)

NotesSpec == NotesInit /\ [][NotesNext]_notesVars

----------------------------------------------------------------------------
(* Faulty: reading stops at the first line that does not parse.            *)
ReadUntilBroken(n) ==
  \E i \in DOMAIN line : line[i] = Record(n) /\ \A k \in 1 .. i : line[k] # Broken

(* _read_index: what parses is read, the rest is skipped ...               *)
Read(n) == \E i \in DOMAIN line : line[i] = Record(n)

(* ... but a file that does not decode, or a row that has no get, raises   *)
(* out of every query.                                                     *)
QueryRaises == undecodable \/ \E i \in DOMAIN line : line[i] = Scrap

(* Every note answered as ingested is found by queries, but for those with *)
(* a separator: an append cut off takes at most one later note with it,    *)
(* and queries fail as a whole only after one cut inside a character or    *)
(* after a text with a value between separators.                           *)
NotesFound ==
  /\ NotesTypeOK
  /\ QueryRaises => torn > 0 \/ sent \cap Scalar # {}
  /\ ~QueryRaises => Cardinality({n \in ingested \ Separated : ~Read(n)}) <= torn
=============================================================================
