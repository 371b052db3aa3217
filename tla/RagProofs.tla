----------------------------- MODULE RagProofs -----------------------------
(***************************************************************************)
(* What TLAPS proves of the Dual RAG, for every value of the constants:    *)
(* the chunkers tile a text, and the JSONL files and the Postgres table    *)
(* keep what they answered, until ingests overlap, as the index of         *)
(* RagIndex.                                                               *)
(***************************************************************************)
EXTENDS Chunking, RagFiles, RagPostgres, FiniteSetTheorems, TLAPS

----------------------------------------------------------------------------
(* Chunking: both chunkers tile every text, with every valid               *)
(* configuration. The inductive invariant adds to ChunksTile where the     *)
(* next chunk begins: not after the cut, and before it by no more than the *)
(* overlap, which is less than any chunk has room for, so that the next    *)
(* cut is a later one.                                                     *)

NextBegins == shared <= pos /\ pos - shared <= config.overlap
TilesIndInv == ChunksTile /\ NextBegins

LargestChunk == IF Structural THEN config.maximum ELSE config.size

(* What the configuration's checks give.                                   *)
LEMMA ConfigFits ==
  ASSUME ChunkTypeOK
  PROVE  /\ config.overlap \in Nat /\ LargestChunk \in Nat /\ config.overlap < LargestChunk
         /\ Structural => /\ config.target \in Nat /\ config.minimum \in Nat
                          /\ config.maximum \in Nat
                          /\ config.overlap < config.target
                          /\ config.target <= config.maximum
         /\ ~Structural => /\ config.size \in Nat \ {0}
                           /\ config.overlap <= config.size \div 2
<1>1. CASE Structural
  <2>1. config \in ConfigType /\ Validated(config)
    BY <1>1, ChunkConfigs DEF Structural
  <2> QED BY <1>1, <2>1 DEF ConfigType, Validated, LargestChunk
<1>2. CASE ~Structural
  <2>1. config \in [size : Nat \ {0}, overlap : Nat] /\ config.overlap <= config.size \div 2
    BY <1>2, ChunkSizes DEF Structural, ChunkTypeOK
  <2> QED BY <1>2, <2>1 DEF LargestChunk
<1> QED BY <1>1, <1>2

LEMMA EndType == ASSUME ChunkTypeOK PROVE End \in Nat
BY DEF ChunkTypeOK, End

(* A split point is found in the text before end.                          *)
LEMMA FoundBeforeEnd ==
  ASSUME NEW end \in Nat, NEW most \in Nat, NEW found \in FindSplitPoint(end, most)
  PROVE  found \in 0 .. end
BY DEF FindSplitPoint, Marked, First, Last

(* The overlap of a cut begins no further before it than allowed.          *)
LEMMA OverlapBefore ==
  ASSUME NEW end \in Nat, NEW overlap \in Nat, NEW from \in FindOverlapStart(end, overlap)
  PROVE  from \in 0 .. end /\ end - from <= overlap
BY DEF FindOverlapStart, Marked, First

(* A window ends where it was to, or in its second half.                   *)
LEMMA WindowEnds ==
  ASSUME NEW start \in Nat, NEW end \in Nat, NEW half \in Nat,
         half = config.size \div 2, NEW to \in WindowEnd(start, end)
  PROVE  to = end \/ (to \in 0 .. end /\ start + half < to)
BY DEF WindowEnd, Marked, Last

(* A later cut within the limit continues the tiling.                      *)
LEMMA CutOnce ==
  ASSUME TilesIndInv, NEW to \in Nat, pos < to, to <= End, to - shared <= LargestChunk,
         shared' \in Nat, shared' <= to, to - shared' <= config.overlap,
         chunks' = Append(chunks, Chunk(shared, to)), pos' = to,
         UNCHANGED <<after, config>>
  PROVE  TilesIndInv'
<1> USE DEF TilesIndInv, ChunksTile, NextBegins
<1>1. End \in Nat /\ End' = End /\ pos \in Nat /\ shared \in 0 .. End
  BY EndType DEF End, ChunkTypeOK
<1>2. LargestChunk \in Nat /\ config.overlap \in Nat
  BY ConfigFits
<1>3. chunks \in Seq([from : 0 .. End, to : 0 .. End])
  BY DEF ChunkTypeOK
<1>4. Chunk(shared, to) \in [from : 0 .. End, to : 0 .. End]
  BY <1>1 DEF Chunk
<1>5. ChunkTypeOK'
  BY <1>1, <1>3, <1>4 DEF ChunkTypeOK
<1>6. /\ Len(chunks') = Len(chunks) + 1 /\ Len(chunks) \in Nat
      /\ DOMAIN chunks' = 1 .. Len(chunks) + 1 /\ DOMAIN chunks = 1 .. Len(chunks)
      /\ chunks'[Len(chunks) + 1] = Chunk(shared, to)
      /\ \A i \in DOMAIN chunks : chunks'[i] = chunks[i]
  BY <1>3, <1>4
<1>7. (chunks # << >> => chunks[1].from = 0 /\ chunks[Len(chunks)].to = pos)'
  <2>1. CASE chunks = << >>
    BY <2>1, <1>6 DEF Chunk
  <2>2. CASE chunks # << >>
    <3>1. Len(chunks) >= 1 /\ 1 \in DOMAIN chunks
      BY <2>2, <1>3, <1>6
    <3> QED BY <3>1, <2>2, <1>6 DEF Chunk
  <2> QED BY <2>1, <2>2
<1>8. ASSUME NEW i \in DOMAIN chunks'
      PROVE  /\ chunks'[i].from < chunks'[i].to
             /\ chunks'[i].to - chunks'[i].from <= LargestChunk
             /\ i > 1 => /\ chunks'[i].from <= chunks'[i - 1].to
                         /\ chunks'[i - 1].to < chunks'[i].to
                         /\ chunks'[i - 1].to - chunks'[i].from <= config.overlap
  <2>1. CASE i \in DOMAIN chunks
    <3>1. i > 1 => i - 1 \in DOMAIN chunks
      BY <2>1, <1>6
    <3> QED BY <2>1, <3>1, <1>6 DEF LargestChunk
  <2>2. CASE i = Len(chunks) + 1
    <3>1. chunks'[i] = Chunk(shared, to)
      BY <2>2, <1>6
    <3>2. shared < to
      BY <1>1
    <3>3. i > 1 => chunks # << >> /\ i - 1 = Len(chunks) /\ i - 1 \in DOMAIN chunks
      BY <2>2, <1>6, <1>3
    <3>4. i > 1 => chunks'[i - 1].to = pos
      BY <3>3, <1>6
    <3> QED BY <3>1, <3>2, <3>4, <1>1, <1>2 DEF Chunk
  <2> QED BY <2>1, <2>2, <1>6
<1>9. LargestChunk' = LargestChunk
  BY DEF LargestChunk, Structural
<1>10. (\A i \in DOMAIN chunks :
          /\ chunks[i].from < chunks[i].to
          /\ chunks[i].to - chunks[i].from <= LargestChunk
          /\ i > 1 => /\ chunks[i].from <= chunks[i - 1].to
                      /\ chunks[i - 1].to < chunks[i].to
                      /\ chunks[i - 1].to - chunks[i].from <= config.overlap)'
  BY <1>8, <1>9
<1>11. ChunksTile'
  <2>1. chunks' # << >>
    BY <1>6
  <2> QED BY <2>1, <1>5, <1>7, <1>10 DEF LargestChunk
<1> QED BY <1>11

LEMMA InitTiles == ChunkInit => TilesIndInv
<1> SUFFICES ASSUME ChunkInit PROVE TilesIndInv
  OBVIOUS
<1> USE DEF ChunkInit
<1>1. after \in Seq(Mark)
  BY ChunkTexts
<1>2. ChunkTypeOK
  BY <1>1 DEF ChunkTypeOK, End
<1>3. config.overlap \in Nat
  BY <1>2, ConfigFits
<1> QED BY <1>2, <1>3 DEF TilesIndInv, ChunksTile, NextBegins

LEMMA NextChunkTiles == ASSUME TilesIndInv, NextChunk PROVE TilesIndInv'
<1> USE DEF TilesIndInv, NextBegins
<1>1. ChunkTypeOK /\ End \in Nat /\ pos \in 0 .. End /\ shared \in Nat /\ Structural
  BY EndType DEF ChunksTile, ChunkTypeOK, NextChunk
<1>2. /\ config.overlap \in Nat /\ config.target \in Nat /\ config.maximum \in Nat
      /\ config.overlap < config.target /\ config.target <= config.maximum
      /\ LargestChunk = config.maximum
  BY <1>1, ConfigFits DEF LargestChunk
<1> DEFINE targetEnd == Lower(shared + config.target, End)
           maxEnd == Lower(shared + config.maximum, End)
<1>3. /\ targetEnd \in Nat /\ maxEnd \in Nat
      /\ pos < maxEnd /\ maxEnd <= End /\ maxEnd - shared <= config.maximum
  BY <1>1, <1>2 DEF Lower, NextChunk
<1>4. PICK found \in FindSplitPoint(maxEnd, targetEnd) :
        LET to == WithRest(SplitAt(found, maxEnd))
        IN /\ chunks' = Append(chunks, Chunk(shared, to))
           /\ pos' = to
           /\ shared' \in IF config.overlap > 0 /\ to < End
                          THEN FindOverlapStart(to, config.overlap) ELSE {to}
  BY DEF NextChunk
<1> DEFINE to == WithRest(SplitAt(found, maxEnd))
<1> HIDE DEF targetEnd, maxEnd
<1>5. found \in 0 .. maxEnd
  BY <1>3, FoundBeforeEnd
<1>6. to \in Nat /\ pos < to /\ to <= End /\ to - shared <= config.maximum
  BY <1>1, <1>2, <1>3, <1>5 DEF SplitAt, WithRest
<1> HIDE DEF to
<1>7. shared' \in Nat /\ shared' <= to /\ to - shared' <= config.overlap
  <2>1. CASE config.overlap > 0 /\ to < End
    BY <2>1, <1>2, <1>4, <1>6, OverlapBefore DEF to
  <2>2. CASE ~(config.overlap > 0 /\ to < End)
    <3>1. shared' = to
      BY <2>2, <1>4 DEF to
    <3> QED BY <3>1, <1>2, <1>6
  <2> QED BY <2>1, <2>2
<1>8. chunks' = Append(chunks, Chunk(shared, to)) /\ pos' = to /\ UNCHANGED <<after, config>>
  BY <1>4 DEF to, NextChunk
<1> QED BY <1>2, <1>6, <1>7, <1>8, CutOnce

LEMMA NextWindowTiles == ASSUME TilesIndInv, NextWindow PROVE TilesIndInv'
<1> USE DEF TilesIndInv, NextBegins
<1>1. ChunkTypeOK /\ End \in Nat /\ pos \in 0 .. End /\ shared \in Nat /\ ~Structural
  BY EndType DEF ChunksTile, ChunkTypeOK, NextWindow
<1>2. /\ config.overlap \in Nat /\ config.size \in Nat \ {0}
      /\ config.overlap <= config.size \div 2
      /\ LargestChunk = config.size
  BY <1>1, ConfigFits DEF LargestChunk
<1> DEFINE half == config.size \div 2
           end == Lower(shared + config.size, End)
<1>3. half \in Nat /\ half < config.size
  BY <1>2
<1>4. end \in Nat /\ pos < end /\ end <= End /\ end - shared <= config.size
  BY <1>1, <1>2, <1>3 DEF Lower, NextWindow
<1>5. PICK to \in WindowEnd(shared, end) :
        /\ chunks' = Append(chunks, Chunk(shared, to))
        /\ pos' = to
        /\ shared' = IF to - config.overlap > shared + 1 THEN to - config.overlap
                     ELSE shared + 1
  BY DEF NextWindow
<1> HIDE DEF end
<1>6. to = end \/ (to \in 0 .. end /\ shared + half < to)
  BY <1>1, <1>3, <1>4, WindowEnds
<1>7. to \in Nat /\ pos < to /\ to <= End /\ to - shared <= config.size
  BY <1>1, <1>2, <1>3, <1>4, <1>6
<1>8. shared' \in Nat /\ shared' <= to /\ to - shared' <= config.overlap
  BY <1>1, <1>2, <1>5, <1>7
<1> QED BY <1>2, <1>5, <1>7, <1>8, CutOnce DEF NextWindow

(* Every text, wherever headings, lines, sentences and spaces stand in it, *)
(* is cut by chunk_text and by _chunk_text into chunks that follow each    *)
(* other without a gap, each further than the last, none longer than       *)
(* allowed and none repeating more than the overlap.                       *)
THEOREM TextsAreTiled == ChunkSpec => []ChunksTile
<1>1. TilesIndInv /\ [ChunkNext]_chunkVars => TilesIndInv'
  <2> SUFFICES ASSUME TilesIndInv, [ChunkNext]_chunkVars PROVE TilesIndInv'
    OBVIOUS
  <2>1. CASE NextChunk
    BY <2>1, NextChunkTiles
  <2>2. CASE NextWindow
    BY <2>2, NextWindowTiles
  <2>3. CASE UNCHANGED chunkVars
    BY <2>3 DEF chunkVars, TilesIndInv, NextBegins, ChunksTile, ChunkTypeOK, Structural, End
  <2> QED BY <2>1, <2>2, <2>3 DEF ChunkNext
<1>2. TilesIndInv => ChunksTile
  BY DEF TilesIndInv
<1> QED BY InitTiles, <1>1, <1>2, PTL DEF ChunkSpec

----------------------------------------------------------------------------
(* RagFiles: the records and the manifest of a layer, for every number of  *)
(* workers, layers and documents.                                          *)

(* Of a layer on which no two ingests overlapped: its files parse, differ  *)
(* at one document at most, and the one worker writing it holds what its   *)
(* phase says: a text made from the records that are there, in the files   *)
(* it has finished.                                                        *)
Differ(l, d) == Read(file[l]["manifest"])[d] # Read(file[l]["records"])[d]
LayerSound(l) ==
  /\ Parses(file[l]["manifest"]) /\ Parses(file[l]["records"])
  /\ \A d1, d2 \in Doc : Differ(l, d1) /\ Differ(l, d2) => d1 = d2
  /\ \A d \in Doc : <<l, d>> \in fileAnswered => Read(file[l]["records"])[d] # NoDoc

Preparing == {"read", "manifest_open", "manifest", "records_open", "records", "manifest_swapped"}
Ingested(w, l) == [Read(file[l]["records"]) EXCEPT ![writing[w].doc] = writing[w].version]
WriterSound(w, l) ==
  /\ step[w] \in Preparing => text[w] = Ingested(w, l)
  /\ step[w] \in {"manifest_open", "records_open"} => fd[w] = "tmp"
  /\ step[w] = "manifest_open" => tmp[l]["manifest"] \in PrefixOf(text[w])
  /\ step[w] = "records_open" => tmp[l]["records"] \in PrefixOf(text[w])
  /\ step[w] \in {"manifest", "records_open", "records"} => tmp[l]["manifest"] = text[w]
  /\ step[w] \in {"records", "manifest_swapped"} => tmp[l]["records"] = text[w]
  /\ step[w] = "manifest_swapped" => file[l]["manifest"] = text[w]
  /\ step[w] = "swapped" => Read(file[l]["records"])[writing[w].doc] # NoDoc
LayerInv(l) ==
  /\ LayerSound(l)
  /\ \A w, x \in Busy(l) : w = x
  /\ \A w \in Busy(l) : WriterSound(w, l)
FilesIndInv == FilesTypeOK /\ \A l \in Layer \ fileMixed : LayerInv(l)

LEMMA EmptyDocsType == EmptyDocs \in Docs
BY DEF EmptyDocs, Docs

LEMMA ContentTypes ==
  /\ Absent \in Content /\ EmptyDocs \in Content /\ Parses(Absent) /\ Docs \subseteq Content
  /\ \A docs \in Docs : Parses(docs) /\ Read(docs) = docs
  /\ \A c \in Content : Parses(c) => Read(c) \in Docs
BY FilesContents, EmptyDocsType DEF Content, Parses, Read, Docs

LEMMA PrefixTypes == \A docs \in Docs : PrefixOf(docs) \subseteq Content
<1> SUFFICES ASSUME NEW docs \in Docs, NEW flushed \in SUBSET Doc
             PROVE  [d \in Doc |-> IF d \in flushed THEN docs[d] ELSE NoDoc] \in Docs
  BY DEF PrefixOf, Content
<1> QED BY DEF Docs

LEMMA FilesInitInv == FilesInit => FilesIndInv
<1> SUFFICES ASSUME FilesInit PROVE FilesIndInv
  OBVIOUS
<1>1. FilesTypeOK
  BY ContentTypes, EmptyDocsType DEF FilesInit, FilesTypeOK
<1>2. ASSUME NEW l \in Layer PROVE LayerInv(l)
  <2>1. Busy(l) = {}
    BY DEF FilesInit, Busy
  <2>2. file[l]["manifest"] = Absent /\ file[l]["records"] = Absent /\ fileAnswered = {}
    BY DEF FilesInit, Kind
  <2>3. LayerSound(l)
    BY <2>2, ContentTypes DEF LayerSound, Differ
  <2> QED BY <2>1, <2>3 DEF LayerInv
<1> QED BY <1>1, <1>2 DEF FilesIndInv

(* A layer nobody touches stays sound; a worker may leave it.              *)
LEMMA LayerFrame ==
  ASSUME NEW l \in Layer, LayerInv(l), file'[l] = file[l], tmp'[l] = tmp[l],
         Busy(l)' \subseteq Busy(l),
         \A x \in Busy(l)' : /\ step'[x] = step[x] /\ text'[x] = text[x] /\ fd'[x] = fd[x]
                             /\ writing'[x] = writing[x],
         \A d \in Doc : <<l, d>> \in fileAnswered' =>
            <<l, d>> \in fileAnswered \/ Read(file[l]["records"])[d] # NoDoc
  PROVE  LayerInv(l)'
<1>1. LayerSound(l)'
  BY DEF LayerInv, LayerSound, Differ
<1>2. ASSUME NEW x \in Busy(l)' PROVE WriterSound(x, l)'
  <2>1. WriterSound(x, l) /\ step'[x] = step[x] /\ text'[x] = text[x] /\ fd'[x] = fd[x]
        /\ writing'[x] = writing[x]
    BY <1>2 DEF LayerInv
  <2>2. Ingested(x, l)' = Ingested(x, l)
    BY <2>1 DEF Ingested
  <2> QED BY <2>1, <2>2 DEF WriterSound
<1> QED BY <1>1, <1>2 DEF LayerInv

(* Who works on the layer of w, if no two ingests overlapped there: w.     *)
LEMMA OneWriter ==
  ASSUME FilesIndInv, NEW w \in Worker, step[w] # "idle"
  PROVE  /\ writing[w] \in Ingest /\ writing[w].layer \in Layer /\ writing[w].doc \in Doc
         /\ writing[w].version \in Version /\ w \in Busy(writing[w].layer)
         /\ \A m \in Layer : w \in Busy(m) => m = writing[w].layer
         /\ writing[w].layer \notin fileMixed =>
              /\ LayerInv(writing[w].layer) /\ Busy(writing[w].layer) = {w}
              /\ WriterSound(w, writing[w].layer)
<1>1. FilesTypeOK
  BY DEF FilesIndInv
<1>2. writing[w] \in Ingest
  BY <1>1 DEF FilesTypeOK
<1>3. writing[w].layer \in Layer /\ writing[w].doc \in Doc /\ writing[w].version \in Version
  BY <1>2 DEF Ingest
<1>4. w \in Busy(writing[w].layer) /\ \A m \in Layer : w \in Busy(m) => m = writing[w].layer
  BY <1>1 DEF Busy, FilesTypeOK
<1>5. writing[w].layer \notin fileMixed => LayerInv(writing[w].layer)
  BY <1>3 DEF FilesIndInv
<1> QED BY <1>2, <1>3, <1>4, <1>5 DEF LayerInv

(* A step of w inside write_index: other layers are as they were, so what  *)
(* is left to see is its own.                                              *)
LEMMA WorkerStep ==
  ASSUME FilesIndInv, NEW w \in Worker, step[w] # "idle", FilesTypeOK',
         UNCHANGED <<writing, text, fileAnswered, fileMixed>>,
         \A m \in Layer : m # writing[w].layer => file'[m] = file[m] /\ tmp'[m] = tmp[m],
         \A x \in Worker : x # w => step'[x] = step[x],
         \A x \in Worker : x \notin Busy(writing[w].layer) => fd'[x] = fd[x],
         writing[w].layer \notin fileMixed =>
            LayerSound(writing[w].layer)' /\ WriterSound(w, writing[w].layer)'
  PROVE  FilesIndInv'
<1>1. /\ writing[w].layer \in Layer /\ w \in Busy(writing[w].layer)
      /\ \A m \in Layer : w \in Busy(m) => m = writing[w].layer
      /\ writing[w].layer \notin fileMixed => Busy(writing[w].layer) = {w}
  BY OneWriter
<1>2. \A m \in Layer : Busy(m)' = Busy(m) /\ Busy(m) \subseteq Worker
  BY DEF Busy
<1>3. ASSUME NEW m \in Layer, m \notin fileMixed, m = writing[w].layer PROVE LayerInv(m)'
  <2>1. LayerSound(m)' /\ WriterSound(w, m)'
    <3>1. LayerSound(writing[w].layer)' /\ WriterSound(w, writing[w].layer)'
      BY <1>3
    <3>2. writing'[w].layer = m
      BY <1>3
    <3> QED BY <3>1, <3>2
  <2>2. Busy(m)' = {w}
    BY <1>1, <1>2, <1>3
  <2> QED BY <2>1, <2>2 DEF LayerInv
<1>4. ASSUME NEW m \in Layer, m \notin fileMixed, m # writing[w].layer PROVE LayerInv(m)'
  <2>1. LayerInv(m) /\ w \notin Busy(m)
    BY <1>1, <1>4 DEF FilesIndInv
  <2>2. \A x \in Busy(m) : x \in Worker /\ x # w /\ x \notin Busy(writing[w].layer)
    BY <1>4, <2>1 DEF Busy
  <2>3. \A x \in Busy(m)' : /\ step'[x] = step[x] /\ text'[x] = text[x] /\ fd'[x] = fd[x]
                            /\ writing'[x] = writing[x]
    BY <1>2, <2>2
  <2>4. Busy(m)' \subseteq Busy(m)
    BY <1>2
  <2> QED BY <1>4, <2>1, <2>3, <2>4, LayerFrame
<1> QED BY <1>3, <1>4 DEF FilesIndInv

LEMMA OpenKeeps ==
  ASSUME FilesIndInv, NEW w \in Worker, NEW f \in Kind, Open(w, f)
  PROVE  FilesIndInv'
<1>1. PICK l : l = writing[w].layer
  OBVIOUS
<1>2. FilesTypeOK /\ step[w] = BeforeOpen(f) /\ step[w] # "idle"
  BY DEF FilesIndInv, Open, BeforeOpen
<1>3. /\ l \in Layer /\ text[w] \in Docs
      /\ l \notin fileMixed => LayerInv(l) /\ WriterSound(w, l)
  BY <1>1, <1>2, OneWriter DEF FilesTypeOK
<1>4. PICK part \in PrefixOf(text[w]) : tmp' = [tmp EXCEPT ![l][f] = part]
  BY <1>1 DEF Open
<1>5. /\ fd' = [fd EXCEPT ![w] = "tmp"] /\ step' = [step EXCEPT ![w] = Opened(f)]
      /\ UNCHANGED <<file, writing, text, fileAnswered, fileMixed>>
  BY DEF Open
<1>6. part \in Content
  BY <1>3, PrefixTypes
<1>7. tmp \in [Layer -> [Kind -> Content]]
  BY <1>2 DEF FilesTypeOK
<1>8. /\ tmp' \in [Layer -> [Kind -> Content]] /\ tmp'[l][f] = part
      /\ \A m \in Layer : m # l => tmp'[m] = tmp[m]
      /\ \A g \in Kind : g # f => tmp'[l][g] = tmp[l][g]
  BY <1>3, <1>4, <1>6, <1>7
<1>9. /\ step'[w] = Opened(f) /\ fd'[w] = "tmp"
      /\ \A x \in Worker : x # w => step'[x] = step[x] /\ fd'[x] = fd[x]
  BY <1>2, <1>5 DEF FilesTypeOK
<1>10. FilesTypeOK'
  BY <1>2, <1>5, <1>8, <1>9 DEF FilesTypeOK, Opened
<1>11. ASSUME l \notin fileMixed PROVE LayerSound(l)' /\ WriterSound(w, l)'
  <2>1. LayerSound(l) /\ WriterSound(w, l)
    BY <1>3, <1>11 DEF LayerInv
  <2>2. LayerSound(l)'
    BY <1>5, <2>1 DEF LayerSound, Differ
  <2>3. Ingested(w, l)' = Ingested(w, l) /\ text'[w] = text[w] /\ step[w] \in Preparing
    BY <1>2, <1>5 DEF Ingested, BeforeOpen, Preparing
  <2>4. ASSUME f = "manifest" PROVE WriterSound(w, l)'
    BY <1>4, <1>8, <1>9, <2>1, <2>3, <2>4 DEF WriterSound, Opened
  <2>5. ASSUME f = "records" PROVE WriterSound(w, l)'
    <3>1. step[w] = "manifest" /\ tmp[l]["manifest"] = text[w] /\ "manifest" # f /\ "manifest" \in Kind
      BY <1>2, <2>1, <2>5 DEF WriterSound, BeforeOpen, Kind
    <3>2. tmp'[l]["manifest"] = text'[w]
      BY <1>8, <2>3, <3>1
    <3> QED BY <1>4, <1>8, <1>9, <2>1, <2>3, <2>5, <3>2 DEF WriterSound, Opened
  <2> QED BY <2>2, <2>4, <2>5 DEF Kind
<1>12. w \in Busy(l)
  BY <1>1, <1>2, OneWriter
<1> QED BY <1>1, <1>2, <1>5, <1>8, <1>9, <1>10, <1>11, <1>12, WorkerStep

LEMMA FinishFileKeeps ==
  ASSUME FilesIndInv, NEW w \in Worker, NEW f \in Kind, FinishFile(w, f)
  PROVE  /\ FilesIndInv'
         /\ writing[w].layer \notin fileMixed => file' = file
<1>1. PICK l : l = writing[w].layer
  OBVIOUS
<1>2. FilesTypeOK /\ step[w] = Opened(f) /\ step[w] # "idle"
  BY DEF FilesIndInv, FinishFile, Opened
<1>3. /\ l \in Layer /\ text[w] \in Docs /\ w \in Busy(l)
      /\ l \notin fileMixed => LayerInv(l) /\ WriterSound(w, l) /\ Busy(l) = {w}
  BY <1>1, <1>2, OneWriter DEF FilesTypeOK
<1>4. \/ /\ fd[w] = "tmp"
         /\ \E c \in Written(w, f, tmp[l][f]) : tmp' = [tmp EXCEPT ![l][f] = c]
         /\ UNCHANGED file
      \/ /\ fd[w] = "file"
         /\ \E c \in Written(w, f, file[l][f]) : file' = [file EXCEPT ![l][f] = c]
         /\ UNCHANGED tmp
      \/ UNCHANGED <<file, tmp>> /\ fd[w] = "gone"
  BY <1>1 DEF FinishFile
<1>5. /\ fd' = [fd EXCEPT ![w] = "none"]
      /\ step' = [step EXCEPT ![w] = IF f = "manifest" THEN "manifest" ELSE "records"]
      /\ UNCHANGED <<writing, text, fileAnswered, fileMixed>>
  BY DEF FinishFile
<1>6. \A old : Written(w, f, old) \subseteq Content
  BY <1>3, ContentTypes DEF Written, Content
<1>7. tmp \in [Layer -> [Kind -> Content]] /\ file \in [Layer -> [Kind -> Content]]
  BY <1>2 DEF FilesTypeOK
<1>8. /\ tmp' \in [Layer -> [Kind -> Content]] /\ file' \in [Layer -> [Kind -> Content]]
      /\ \A m \in Layer : m # l => tmp'[m] = tmp[m] /\ file'[m] = file[m]
  <2>1. CASE \E c \in Content : tmp' = [tmp EXCEPT ![l][f] = c] /\ file' = file
    BY <1>3, <1>7, <2>1
  <2>2. CASE \E c \in Content : file' = [file EXCEPT ![l][f] = c] /\ tmp' = tmp
    BY <1>3, <1>7, <2>2
  <2>3. CASE tmp' = tmp /\ file' = file
    BY <1>7, <2>3
  <2> QED BY <1>4, <1>6, <2>1, <2>2, <2>3
<1>9. /\ step'[w] = (IF f = "manifest" THEN "manifest" ELSE "records") /\ fd'[w] = "none"
      /\ \A x \in Worker : x # w => step'[x] = step[x] /\ fd'[x] = fd[x]
  BY <1>2, <1>5 DEF FilesTypeOK
<1>10. FilesTypeOK'
  BY <1>2, <1>5, <1>8, <1>9 DEF FilesTypeOK, Opened
<1>11. ASSUME l \notin fileMixed
       PROVE  file' = file /\ tmp' = [tmp EXCEPT ![l][f] = text[w]]
  <2>1. WriterSound(w, l) /\ Busy(l) = {w}
    BY <1>3, <1>11
  <2>2. fd[w] = "tmp"
    BY <1>2, <2>1 DEF WriterSound, Opened
  <2>3. tmp[l][f] \in PrefixOf(text[w])
    BY <1>2, <2>1 DEF WriterSound, Opened, Kind
  <2>4. Alone(w, f)
    BY <1>1, <2>1 DEF Alone
  <2>5. Written(w, f, tmp[l][f]) = {text[w]}
    BY <2>3, <2>4 DEF Written
  <2> QED BY <1>4, <2>2, <2>5
<1>12. ASSUME l \notin fileMixed PROVE LayerSound(l)' /\ WriterSound(w, l)'
  <2>1. /\ LayerSound(l) /\ WriterSound(w, l) /\ file' = file
        /\ tmp'[l][f] = text[w] /\ \A g \in Kind : g # f => tmp'[l][g] = tmp[l][g]
    BY <1>3, <1>7, <1>11, <1>12 DEF LayerInv
  <2>2. LayerSound(l)'
    BY <1>5, <2>1 DEF LayerSound, Differ
  <2>3. Ingested(w, l)' = Ingested(w, l) /\ text'[w] = text[w] /\ step[w] \in Preparing
    BY <1>2, <1>5, <2>1 DEF Ingested, Opened, Preparing
  <2>4. ASSUME f = "manifest" PROVE WriterSound(w, l)'
    BY <1>9, <2>1, <2>3, <2>4 DEF WriterSound
  <2>5. ASSUME f = "records" PROVE WriterSound(w, l)'
    <3>1. step[w] = "records_open" /\ tmp[l]["manifest"] = text[w] /\ "manifest" # f /\ "manifest" \in Kind
      BY <1>2, <2>1, <2>5 DEF WriterSound, Opened, Kind
    <3>2. tmp'[l]["manifest"] = text'[w]
      BY <2>1, <2>3, <3>1
    <3> QED BY <1>9, <2>1, <2>3, <2>5, <3>2 DEF WriterSound
  <2> QED BY <2>2, <2>4, <2>5 DEF Kind
<1> QED BY <1>1, <1>2, <1>3, <1>5, <1>8, <1>9, <1>10, <1>11, <1>12, WorkerStep

LEMMA SwapKeeps ==
  ASSUME FilesIndInv, NEW w \in Worker, NEW f \in Kind, Swap(w, f)
  PROVE  /\ FilesIndInv'
         /\ writing[w].layer \notin fileMixed => file'[writing[w].layer][f] = text[w]
<1>1. PICK l : l = writing[w].layer
  OBVIOUS
<1>2. FilesTypeOK /\ step[w] = BeforeSwap(f) /\ step[w] # "idle"
  BY DEF FilesIndInv, Swap, BeforeSwap
<1>3. /\ l \in Layer /\ text[w] \in Docs /\ w \in Busy(l) /\ writing[w].doc \in Doc
      /\ writing[w].version # NoDoc
      /\ l \notin fileMixed => LayerInv(l) /\ WriterSound(w, l)
  BY <1>1, <1>2, OneWriter, NoDocIsNoVersion DEF FilesTypeOK
<1>4. /\ file' = [file EXCEPT ![l][f] = tmp[l][f]] /\ tmp' = [tmp EXCEPT ![l][f] = Absent]
      /\ fd' = [x \in Worker |-> Renamed(x, l, f)] /\ step' = [step EXCEPT ![w] = Swapped(f)]
      /\ UNCHANGED <<writing, text, fileAnswered, fileMixed>>
  BY <1>1 DEF Swap
<1>5. tmp \in [Layer -> [Kind -> Content]] /\ file \in [Layer -> [Kind -> Content]]
      /\ fd \in [Worker -> {"none", "tmp", "file", "gone"}]
  BY <1>2 DEF FilesTypeOK
<1>6. /\ tmp' \in [Layer -> [Kind -> Content]]
      /\ \A m \in Layer : m # l => tmp'[m] = tmp[m]
      /\ \A g \in Kind : g # f => tmp'[l][g] = tmp[l][g]
  BY <1>3, <1>4, <1>5, ContentTypes
<1>7. tmp[l][f] \in Content
  BY <1>3, <1>5
<1>8. /\ file' \in [Layer -> [Kind -> Content]] /\ file'[l][f] = tmp[l][f]
      /\ \A m \in Layer : m # l => file'[m] = file[m]
      /\ \A g \in Kind : g # f => file'[l][g] = file[l][g]
  BY <1>3, <1>4, <1>5, <1>7
<1>9. /\ step'[w] = Swapped(f) /\ \A x \in Worker : x # w => step'[x] = step[x]
  BY <1>2, <1>4 DEF FilesTypeOK
<1>10. \A x \in Worker :
          /\ fd'[x] \in {"none", "tmp", "file", "gone"}
          /\ fd'[x] # "none" => fd[x] # "none"
          /\ x \notin Busy(l) \/ x = w => fd'[x] = fd[x]
  BY <1>2, <1>4, <1>5 DEF Renamed, BeforeSwap, Opened
<1>11. FilesTypeOK'
  <2>1. fd' \in [Worker -> {"none", "tmp", "file", "gone"}]
    BY <1>4, <1>10
  <2>2. \A x \in Worker : fd'[x] # "none" => step'[x] \in {"manifest_open", "records_open"}
    BY <1>2, <1>9, <1>10 DEF FilesTypeOK, BeforeSwap
  <2>3. \A x \in Worker : step'[x] = "idle" <=> writing'[x] = NoJob
    BY <1>2, <1>4, <1>9 DEF FilesTypeOK, Swapped
  <2> QED BY <1>2, <1>4, <1>6, <1>8, <1>9, <2>1, <2>2, <2>3 DEF FilesTypeOK, Swapped
<1>12. ASSUME l \notin fileMixed
       PROVE  /\ tmp[l][f] = text[w] /\ text[w] = Ingested(w, l)
              /\ LayerSound(l) /\ WriterSound(w, l) /\ Parses(text[w]) /\ Read(text[w]) = text[w]
              /\ Read(file[l]["records"]) \in Docs
              /\ \A d \in Doc : text[w][d] = IF d = writing[w].doc THEN writing[w].version
                                             ELSE Read(file[l]["records"])[d]
  <2>1. LayerSound(l) /\ WriterSound(w, l)
    BY <1>3, <1>12 DEF LayerInv
  <2>2. tmp[l][f] = text[w] /\ text[w] = Ingested(w, l)
    BY <1>2, <2>1 DEF WriterSound, BeforeSwap, Kind, Preparing
  <2>3. Parses(text[w]) /\ Read(text[w]) = text[w]
    BY <1>3, ContentTypes
  <2>4. Read(file[l]["records"]) \in Docs
    <3>1. file[l]["records"] \in Content
      BY <1>3, <1>5 DEF Kind
    <3> QED BY <2>1, <3>1, ContentTypes DEF LayerSound
  <2>5. \A d \in Doc : text[w][d] = IF d = writing[w].doc THEN writing[w].version
                                   ELSE Read(file[l]["records"])[d]
    BY <1>3, <2>2, <2>4 DEF Ingested, Docs
  <2> QED BY <2>1, <2>2, <2>3, <2>4, <2>5
<1>13. ASSUME l \notin fileMixed PROVE LayerSound(l)' /\ WriterSound(w, l)'
  <2>1. \A d \in Doc : <<l, d>> \in fileAnswered => Read(file[l]["records"])[d] # NoDoc
    BY <1>12, <1>13 DEF LayerSound
  <2>2. ASSUME f = "manifest" PROVE LayerSound(l)' /\ WriterSound(w, l)'
    <3>1. file'[l]["manifest"] = text[w] /\ file'[l]["records"] = file[l]["records"]
          /\ tmp'[l]["records"] = tmp[l]["records"]
      BY <1>6, <1>8, <1>12, <1>13, <2>2 DEF Kind
    <3>2. Parses(file'[l]["records"])
      BY <1>12, <1>13, <3>1 DEF LayerSound
    <3>3. \A d \in Doc : Differ(l, d)' => d = writing[w].doc
      BY <1>12, <1>13, <3>1 DEF Differ
    <3>4. LayerSound(l)'
      BY <1>4, <1>12, <1>13, <2>1, <3>1, <3>2, <3>3 DEF LayerSound
    <3>5. Ingested(w, l)' = Ingested(w, l)
      BY <1>4, <3>1 DEF Ingested
    <3>6. step[w] = "records" /\ step'[w] = "manifest_swapped" /\ text'[w] = text[w]
      BY <1>2, <1>4, <1>9, <2>2 DEF BeforeSwap, Swapped
    <3>7. tmp[l]["records"] = text[w]
      BY <1>12, <1>13, <3>6 DEF WriterSound
    <3>8. WriterSound(w, l)'
      BY <1>12, <1>13, <3>1, <3>5, <3>6, <3>7 DEF WriterSound
    <3> QED BY <3>4, <3>8
  <2>3. ASSUME f = "records" PROVE LayerSound(l)' /\ WriterSound(w, l)'
    <3>1. step[w] = "manifest_swapped" /\ step'[w] = "swapped" /\ text'[w] = text[w]
      BY <1>2, <1>4, <1>9, <2>3 DEF BeforeSwap, Swapped
    <3>2. file'[l]["records"] = text[w] /\ file'[l]["manifest"] = file[l]["manifest"]
      BY <1>8, <1>12, <1>13, <2>3 DEF Kind
    <3>3. file[l]["manifest"] = text[w]
      BY <1>12, <1>13, <3>1 DEF WriterSound
    <3>4. \A d \in Doc : ~Differ(l, d)'
      BY <3>2, <3>3 DEF Differ
    <3>5. \A d \in Doc : <<l, d>> \in fileAnswered' => Read(file'[l]["records"])[d] # NoDoc
      BY <1>3, <1>4, <1>12, <1>13, <2>1, <3>2
    <3>6. LayerSound(l)'
      BY <1>12, <1>13, <3>2, <3>3, <3>4, <3>5 DEF LayerSound
    <3>7. Read(file'[l]["records"])[writing'[w].doc] # NoDoc
      BY <1>3, <1>4, <1>12, <1>13, <3>2
    <3>8. WriterSound(w, l)'
      BY <3>1, <3>7 DEF WriterSound, Preparing
    <3> QED BY <3>6, <3>8
  <2> QED BY <2>2, <2>3 DEF Kind
<1>14. l \notin fileMixed => file'[l][f] = text[w]
  BY <1>8, <1>12
<1> QED BY <1>1, <1>2, <1>4, <1>6, <1>8, <1>9, <1>10, <1>11, <1>13, <1>14, WorkerStep

LEMMA UnlinkKeeps ==
  ASSUME FilesIndInv, NEW w \in Worker, step[w] # "idle", Unlink(w)
  PROVE  FilesIndInv'
<1>1. PICK l : l = writing[w].layer
  OBVIOUS
<1>2. FilesTypeOK
  BY DEF FilesIndInv
<1>3. l \in Layer /\ w \in Busy(l) /\ (l \notin fileMixed => LayerInv(l))
  BY <1>1, OneWriter
<1>4. /\ tmp' = [tmp EXCEPT ![l] = [f \in Kind |-> Absent]]
      /\ fd' = [x \in Worker |-> IF x = w THEN "none"
                                 ELSE IF x \in Busy(l) /\ fd[x] = "tmp" THEN "gone" ELSE fd[x]]
      /\ step' = [step EXCEPT ![w] = "failed"]
      /\ UNCHANGED <<file, writing, text, fileAnswered, fileMixed>>
  BY <1>1 DEF Unlink
<1>5. [f \in Kind |-> Absent] \in [Kind -> Content]
  BY ContentTypes
<1>6. tmp' \in [Layer -> [Kind -> Content]] /\ \A m \in Layer : m # l => tmp'[m] = tmp[m]
  BY <1>2, <1>3, <1>4, <1>5 DEF FilesTypeOK
<1>7. /\ step'[w] = "failed" /\ \A x \in Worker : x # w => step'[x] = step[x]
  BY <1>2, <1>4 DEF FilesTypeOK
<1>8. FilesTypeOK'
  <2>1. fd' \in [Worker -> {"none", "tmp", "file", "gone"}]
    BY <1>2, <1>4 DEF FilesTypeOK
  <2>2. \A x \in Worker : fd'[x] # "none" => step'[x] \in {"manifest_open", "records_open"}
    BY <1>2, <1>4, <1>7 DEF FilesTypeOK
  <2> QED BY <1>2, <1>4, <1>6, <1>7, <2>1, <2>2 DEF FilesTypeOK
<1>9. ASSUME l \notin fileMixed PROVE LayerSound(l)' /\ WriterSound(w, l)'
  <2>1. LayerSound(l)'
    BY <1>3, <1>4, <1>9 DEF LayerInv, LayerSound, Differ
  <2>2. WriterSound(w, l)'
    BY <1>7 DEF WriterSound, Preparing
  <2> QED BY <2>1, <2>2
<1>10. \A x \in Worker : x \notin Busy(l) => fd'[x] = fd[x]
  BY <1>3, <1>4
<1> QED BY <1>1, <1>4, <1>6, <1>7, <1>8, <1>9, <1>10, WorkerStep

LEMMA ReadKeeps ==
  ASSUME FilesIndInv, NEW w \in Worker, NEW q \in Ingest, ReadRecords(w, q) \/ ReadRaises(w, q)
  PROVE  FilesIndInv'
<1>1. /\ FilesTypeOK /\ step[w] = "idle" /\ q # NoJob /\ q.layer \in Layer /\ q.doc \in Doc
      /\ q.version \in Version /\ writing' = [writing EXCEPT ![w] = q]
      /\ UNCHANGED <<file, tmp, fd, fileAnswered>>
  BY FilesNoJob DEF FilesIndInv, ReadRecords, ReadRaises, Ingest
<1>2. /\ writing'[w] = q /\ writing[w] = NoJob /\ \A x \in Worker : x # w => writing'[x] = writing[x]
  BY <1>1 DEF FilesTypeOK
<1>3. \A m \in Layer : /\ m # q.layer => Busy(m)' = Busy(m)
                       /\ w \notin Busy(m) /\ Busy(m) \subseteq Worker
                       /\ Busy(q.layer)' = Busy(q.layer) \cup {w}
  BY <1>1, <1>2 DEF Busy
<1>4. Read(file[q.layer]["records"]) \in Docs \/ ~Parses(file[q.layer]["records"])
  <2>1. file[q.layer]["records"] \in Content
    BY <1>1 DEF FilesTypeOK, Kind
  <2> QED BY <2>1, ContentTypes
<1>5. /\ text' \in [Worker -> Docs] /\ fileMixed' \subseteq Layer /\ fileMixed \subseteq fileMixed'
      /\ step'[w] \in {"read", "failed"} /\ step' = [step EXCEPT ![w] = step'[w]]
      /\ \A x \in Worker : x # w => step'[x] = step[x] /\ text'[x] = text[x]
  <2>1. CASE ReadRecords(w, q)
    <3>1. [Read(file[q.layer]["records"]) EXCEPT ![q.doc] = q.version] \in Docs
      BY <1>1, <1>4, <2>1 DEF ReadRecords, Docs
    <3>2. text' \in [Worker -> Docs] /\ \A x \in Worker : x # w => text'[x] = text[x]
      BY <1>1, <2>1, <3>1 DEF ReadRecords, FilesTypeOK
    <3>3. step'[w] = "read" /\ step' = [step EXCEPT ![w] = "read"]
          /\ \A x \in Worker : x # w => step'[x] = step[x]
      BY <1>1, <2>1 DEF ReadRecords, FilesTypeOK
    <3>4. fileMixed' \subseteq Layer /\ fileMixed \subseteq fileMixed'
      BY <1>1, <2>1 DEF ReadRecords, FilesTypeOK
    <3> QED BY <3>2, <3>3, <3>4
  <2>2. CASE ReadRaises(w, q)
    BY <1>1, <2>2 DEF ReadRaises, FilesTypeOK
  <2> QED BY <2>1, <2>2
<1>6. FilesTypeOK'
  <2>1. \A x \in Worker : step'[x] = "idle" <=> writing'[x] = NoJob
    BY <1>1, <1>2, <1>5 DEF FilesTypeOK
  <2>2. \A x \in Worker : fd'[x] # "none" => step'[x] \in {"manifest_open", "records_open"}
    BY <1>1, <1>5 DEF FilesTypeOK
  <2>3. writing' \in [Worker -> Ingest \cup {NoJob}]
    BY <1>1 DEF FilesTypeOK
  <2> QED BY <1>1, <1>5, <2>1, <2>2, <2>3 DEF FilesTypeOK
<1>7. ASSUME NEW m \in Layer, m \notin fileMixed', m # q.layer PROVE LayerInv(m)'
  <2>1. LayerInv(m)
    BY <1>5, <1>7 DEF FilesIndInv
  <2>2. \A x \in Busy(m)' : /\ step'[x] = step[x] /\ text'[x] = text[x] /\ fd'[x] = fd[x]
                            /\ writing'[x] = writing[x]
    BY <1>1, <1>2, <1>3, <1>5, <1>7
  <2>3. Busy(m)' \subseteq Busy(m)
    BY <1>3, <1>7
  <2> QED BY <1>1, <2>1, <2>2, <2>3, LayerFrame
<1>8. ASSUME q.layer \notin fileMixed' PROVE LayerInv(q.layer)'
  <2>1. LayerInv(q.layer)
    BY <1>1, <1>5, <1>8 DEF FilesIndInv
  <2>2. ReadRecords(w, q)
    BY <2>1 DEF ReadRaises, LayerInv, LayerSound
  <2>3. Busy(q.layer)' = {w}
    BY <1>1, <1>3, <1>8, <2>2 DEF ReadRecords
  <2>4. LayerSound(q.layer)'
    BY <1>1, <2>1 DEF LayerInv, LayerSound, Differ
  <2>5. step'[w] = "read" /\ text'[w] = [Read(file[q.layer]["records"]) EXCEPT ![q.doc] = q.version]
    BY <1>1, <2>2 DEF ReadRecords, FilesTypeOK
  <2>6. WriterSound(w, q.layer)'
    BY <1>1, <1>2, <2>5 DEF WriterSound, Ingested
  <2> QED BY <2>3, <2>4, <2>6 DEF LayerInv
<1> QED BY <1>6, <1>7, <1>8 DEF FilesIndInv

LEMMA AnswerIngestKeeps ==
  ASSUME FilesIndInv, NEW w \in Worker, AnswerIngest(w)
  PROVE  FilesIndInv'
<1>1. /\ FilesTypeOK /\ step[w] \in {"swapped", "failed"} /\ step[w] # "idle"
      /\ fileAnswered' = IF step[w] = "swapped"
                         THEN fileAnswered \cup {<<writing[w].layer, writing[w].doc>>}
                         ELSE fileAnswered
      /\ step' = [step EXCEPT ![w] = "idle"] /\ writing' = [writing EXCEPT ![w] = NoJob]
      /\ text' = [text EXCEPT ![w] = EmptyDocs] /\ UNCHANGED <<file, tmp, fd, fileMixed>>
  BY DEF FilesIndInv, AnswerIngest
<1>2. /\ writing[w].layer \in Layer /\ writing[w].doc \in Doc
      /\ writing[w].layer \notin fileMixed => WriterSound(w, writing[w].layer)
  BY <1>1, OneWriter
<1>3. /\ step'[w] = "idle" /\ writing'[w] = NoJob
      /\ \A x \in Worker : x # w => /\ step'[x] = step[x] /\ writing'[x] = writing[x]
                                  /\ text'[x] = text[x]
  BY <1>1 DEF FilesTypeOK
<1>4. FilesTypeOK'
  <2>1. \A x \in Worker : step'[x] = "idle" <=> writing'[x] = NoJob
    BY <1>1, <1>3 DEF FilesTypeOK
  <2>2. \A x \in Worker : fd'[x] # "none" => step'[x] \in {"manifest_open", "records_open"}
    BY <1>1, <1>3 DEF FilesTypeOK
  <2>3. fileAnswered' \subseteq Layer \X Doc
    BY <1>1, <1>2 DEF FilesTypeOK
  <2> QED BY <1>1, <2>1, <2>2, <2>3, EmptyDocsType DEF FilesTypeOK
<1>5. ASSUME NEW m \in Layer, m \notin fileMixed PROVE LayerInv(m)'
  <2>1. LayerInv(m)
    BY <1>5 DEF FilesIndInv
  <2>2. Busy(m)' \subseteq Busy(m) /\ w \notin Busy(m)' /\ Busy(m)' \subseteq Worker
    BY <1>3 DEF Busy
  <2>3. ASSUME NEW d \in Doc, <<m, d>> \in fileAnswered', <<m, d>> \notin fileAnswered
        PROVE  Read(file[m]["records"])[d] # NoDoc
    <3>1. step[w] = "swapped" /\ m = writing[w].layer /\ d = writing[w].doc
      BY <1>1, <2>3
    <3> QED BY <1>2, <1>5, <3>1 DEF WriterSound
  <2>4. \A x \in Busy(m)' : /\ step'[x] = step[x] /\ text'[x] = text[x] /\ fd'[x] = fd[x]
                            /\ writing'[x] = writing[x]
    BY <1>1, <1>3, <2>2
  <2> QED BY <1>1, <2>1, <2>2, <2>3, <2>4, LayerFrame
<1> QED BY <1>1, <1>4, <1>5 DEF FilesIndInv

LEMMA DieWritingKeeps ==
  ASSUME FilesIndInv, DieWriting
  PROVE  FilesIndInv'
<1>1. FilesTypeOK
  BY DEF FilesIndInv
<1>2. FilesTypeOK'
  BY <1>1, EmptyDocsType DEF DieWriting, FilesTypeOK
<1>3. ASSUME NEW m \in Layer, m \notin fileMixed PROVE LayerInv(m)'
  <2>1. LayerInv(m)
    BY <1>3 DEF FilesIndInv
  <2>2. Busy(m)' = {}
    BY DEF DieWriting, Busy
  <2> QED BY <2>1, <2>2, LayerFrame DEF DieWriting
<1>4. fileMixed' = fileMixed
  BY DEF DieWriting
<1> QED BY <1>2, <1>3, <1>4 DEF FilesIndInv

LEMMA FilesStepInv == FilesIndInv /\ [FilesNext]_filesVars => FilesIndInv'
<1>1. ASSUME FilesIndInv, UNCHANGED filesVars PROVE FilesIndInv'
  <2>1. FilesTypeOK'
    BY <1>1 DEF FilesIndInv, FilesTypeOK, filesVars
  <2>2. ASSUME NEW m \in Layer, m \notin fileMixed PROVE LayerInv(m)'
    <3>1. LayerInv(m) /\ Busy(m)' = Busy(m)
      BY <1>1, <2>2 DEF FilesIndInv, filesVars, Busy
    <3> QED BY <1>1, <3>1, LayerFrame DEF filesVars
  <2> QED BY <1>1, <2>1, <2>2 DEF FilesIndInv, filesVars
<1>2. ASSUME FilesIndInv, NEW w \in Worker, NEW f \in Kind, SwapRaises(w, f) PROVE FilesIndInv'
  BY <1>2, UnlinkKeeps DEF SwapRaises, BeforeSwap
<1>3. ASSUME FilesIndInv, NEW w \in Worker, DiskError(w) PROVE FilesIndInv'
  BY <1>3, UnlinkKeeps DEF DiskError
<1> QED BY <1>1, <1>2, <1>3, ReadKeeps, OpenKeeps, FinishFileKeeps, SwapKeeps, AnswerIngestKeeps,
           DieWritingKeeps DEF FilesNext

LEMMA FilesIndInvSuffices == FilesIndInv => FilesInv
<1> SUFFICES ASSUME FilesIndInv PROVE FilesInv
  OBVIOUS
<1>1. FilesTypeOK /\ AnsweredIsIndexed
  BY DEF FilesIndInv, LayerInv, LayerSound, AnsweredIsIndexed
<1>2. ASSUME NEW l \in Layer \ fileMixed
      PROVE  Cardinality({d \in Doc : Differ(l, d)}) <= 1
  <2> DEFINE differing == {d \in Doc : Differ(l, d)}
  <2>1. \A d1, d2 \in differing : d1 = d2
    BY DEF FilesIndInv, LayerInv, LayerSound
  <2>2. differing = {} \/ \E d : differing = {d}
    BY <2>1
  <2> HIDE DEF differing
  <2>3. Cardinality(differing) <= 1
    <3>1. CASE differing = {}
      <4>1. Cardinality(differing) = 0
        BY <3>1, FS_EmptySet
      <4> QED BY <4>1
    <3>2. ASSUME NEW d, differing = {d} PROVE Cardinality(differing) <= 1
      <4>1. Cardinality(differing) = 1
        BY <3>2, FS_Singleton
      <4> QED BY <4>1
    <3> QED BY <2>2, <3>1, <3>2
  <2> QED BY <2>3 DEF differing
<1>3. StatsOffByOneIngest
  BY <1>2 DEF FilesIndInv, LayerInv, LayerSound, StatsOffByOneIngest, Differ
<1> QED BY <1>1, <1>3 DEF FilesInv

(* Wherever ingests are cut off, an answered document is in the records    *)
(* and the counts are off by one document at most, on every layer on which *)
(* no two ingests overlapped.                                              *)
THEOREM FilesCorrect == FilesSpec => []FilesInv
BY FilesInitInv, FilesStepInv, FilesIndInvSuffices, PTL DEF FilesSpec

LEMMA FilesRefineInit == FilesInit => FilePromise!IndexInit
<1> SUFFICES ASSUME FilesInit PROVE FileIndex = [l \in Layer |-> EmptyDocs]
  BY DEF FilePromise!IndexInit, FilePromise!EmptyDocs, EmptyDocs
<1>1. ASSUME NEW l \in Layer PROVE RecordsOf(l) = EmptyDocs
  BY ContentTypes DEF FilesInit, RecordsOf, Kind, Read
<1> QED BY <1>1 DEF FileIndex

(* Whose step changes the records of an index on which no two ingests      *)
(* overlapped: one that replaces the records, by its own version.          *)
LEMMA FilesRefineStep ==
  ASSUME FilesIndInv, [FilesNext]_filesVars, fileMixed' = {}
  PROVE  FilePromise!IndexNext \/ UNCHANGED FileIndex
<1>1. FilesTypeOK
  BY DEF FilesIndInv
<1>2. ASSUME \A l \in Layer : file'[l]["records"] = file[l]["records"] PROVE UNCHANGED FileIndex
  <2>1. \A l \in Layer : RecordsOf(l)' = RecordsOf(l)
    BY <1>2 DEF RecordsOf
  <2> QED BY <2>1 DEF FileIndex
<1>3. ASSUME NEW w \in Worker, NEW f \in Kind, Swap(w, f)
      PROVE  FilePromise!IndexNext \/ UNCHANGED FileIndex
  <2>1. PICK l : l = writing[w].layer
    OBVIOUS
  <2>2. fileMixed = {} /\ step[w] = BeforeSwap(f) /\ step[w] # "idle"
    BY <1>3 DEF Swap, BeforeSwap
  <2>3. /\ l \in Layer /\ writing[w].doc \in Doc /\ writing[w].version \in Version
        /\ WriterSound(w, l) /\ LayerInv(l) /\ text[w] \in Docs
    BY <1>1, <2>1, <2>2, OneWriter DEF FilesTypeOK
  <2>4. /\ file' = [file EXCEPT ![l][f] = tmp[l][f]] /\ file'[l][f] = text[w]
        /\ file \in [Layer -> [Kind -> Content]]
    <3>1. file' = [file EXCEPT ![l][f] = tmp[l][f]] /\ file \in [Layer -> [Kind -> Content]]
      BY <1>1, <1>3, <2>1 DEF Swap, FilesTypeOK
    <3>2. file'[l][f] = text[w]
      BY <1>3, <2>1, <2>2, SwapKeeps
    <3> QED BY <3>1, <3>2
  <2>5. \A m \in Layer : m # l => file'[m] = file[m]
    BY <2>3, <2>4
  <2>6. CASE f = "manifest"
    <3>1. \A m \in Layer : file'[m]["records"] = file[m]["records"]
      BY <2>3, <2>4, <2>5, <2>6 DEF Kind
    <3> QED BY <1>2, <3>1
  <2>7. CASE f = "records"
    <3>1. text[w] = Ingested(w, l) /\ Parses(file[l]["records"])
      BY <2>2, <2>3, <2>7 DEF WriterSound, BeforeSwap, Preparing, LayerInv, LayerSound
    <3>2. RecordsOf(l) = Read(file[l]["records"])
      BY <3>1 DEF RecordsOf
    <3>3. RecordsOf(l)' = text[w]
      BY <2>3, <2>4, <2>7, ContentTypes DEF RecordsOf
    <3>4. RecordsOf(l)' = [RecordsOf(l) EXCEPT ![writing[w].doc] = writing[w].version]
      BY <3>1, <3>2, <3>3 DEF Ingested
    <3>5. \A m \in Layer : m # l => RecordsOf(m)' = RecordsOf(m)
      BY <2>5 DEF RecordsOf
    <3>6. FileIndex' = [FileIndex EXCEPT ![l][writing[w].doc] = writing[w].version]
      <4>1. FileIndex' = [FileIndex EXCEPT ![l] = RecordsOf(l)']
        BY <2>3, <3>5 DEF FileIndex
      <4>2. FileIndex[l] = RecordsOf(l)
        BY <2>3 DEF FileIndex
      <4> QED BY <3>4, <4>1, <4>2
    <3>7. FilePromise!Upsert(l, writing[w].doc, writing[w].version)
      BY <3>6 DEF FilePromise!Upsert
    <3> QED BY <2>3, <3>7 DEF FilePromise!IndexNext
  <2> QED BY <2>6, <2>7 DEF Kind
<1>4. ASSUME NEW w \in Worker, NEW f \in Kind, FinishFile(w, f) PROVE UNCHANGED FileIndex
  <2>1. fileMixed = {}
    BY <1>4 DEF FinishFile
  <2>2. file' = file
    BY <1>4, <2>1, FinishFileKeeps
  <2> QED BY <1>2, <2>2
<1>5. CASE file' = file
  BY <1>2, <1>5
<1>6. ASSUME NEW w \in Worker,
             \/ \E q \in Ingest : ReadRecords(w, q) \/ ReadRaises(w, q)
             \/ \E f \in Kind : Open(w, f) \/ SwapRaises(w, f)
             \/ DiskError(w) \/ AnswerIngest(w)
      PROVE  file' = file
  BY <1>6 DEF ReadRecords, ReadRaises, Open, SwapRaises, DiskError, Unlink, AnswerIngest
<1>7. DieWriting \/ UNCHANGED filesVars => file' = file
  BY DEF DieWriting, filesVars
<1> QED BY <1>3, <1>4, <1>5, <1>6, <1>7 DEF FilesNext

(* Until two ingests of a layer overlap, the two files with their          *)
(* temporary names behave, whatever is cut off, as the index of RagIndex.  *)
THEOREM FilesRefineIndex == FilesSpec => FilesAreAnIndex
<1>1. FilesIndInv /\ [FilesNext]_filesVars
        => [fileMixed' = {} => FilePromise!IndexNext]_FileIndex
  BY FilesRefineStep
<1> QED BY <1>1, FilesInitInv, FilesStepInv, FilesRefineInit, PTL DEF FilesSpec, FilesAreAnIndex

----------------------------------------------------------------------------
(* RagPostgres: the rows of a document, for every number of sessions,      *)
(* layers and documents.                                                   *)

(* A transaction deletes rows of its own document only; unless two ingests *)
(* of that document overlapped, it is the only one there and has seen all. *)
Transacting == {"deleting", "deleted", "inserted"}
Upserts(w) == upserting[w] # Free
SnapsOwn ==
  \A w \in Session :
    /\ pc[w] \in Transacting => table
    /\ snap[w] # {} => snap[w] \subseteq RowsOf(upserting[w])
DoneIsThere ==
  \A w \in Session :
    pc[w] = "done" => Versions(upserting[w].layer, upserting[w].doc) # {}
AloneUnlessMixed ==
  \A w \in Session : Upserts(w) /\ Place(upserting[w]) \notin rowMixed =>
    /\ \A x \in Session : Upserts(x) /\ Place(upserting[x]) = Place(upserting[w]) => x = w
    /\ pc[w] \in Transacting => snap[w] = rows \cap RowsOf(upserting[w])
OneVersion ==
  \A l \in Layer, d \in Doc : <<l, d>> \notin rowMixed =>
    \A v1, v2 \in Versions(l, d) : v1 = v2
PostgresIndInv ==
  /\ PostgresTypeOK /\ SnapsOwn /\ DoneIsThere /\ AnsweredStays /\ AloneUnlessMixed /\ OneVersion
  /\ rowAnswered \subseteq Layer \X Doc

LEMMA IngestTypes ==
  \A q \in Ingest : /\ q.layer \in Layer /\ q.doc \in Doc /\ q.version \in Version /\ q # Free
                    /\ Place(q) = <<q.layer, q.doc>> /\ NewRow(q) = <<q.layer, q.doc, q.version>>
BY PostgresFree DEF Ingest, Place, NewRow

LEMMA PostgresInitInv == PostgresInit => PostgresIndInv
<1> SUFFICES ASSUME PostgresInit PROVE PostgresIndInv
  OBVIOUS
<1>1. PostgresTypeOK /\ SnapsOwn /\ DoneIsThere /\ AnsweredStays
  BY DEF PostgresInit, PostgresTypeOK, SnapsOwn, DoneIsThere, AnsweredStays, Transacting
<1>2. AloneUnlessMixed
  BY DEF PostgresInit, AloneUnlessMixed, Upserts
<1>3. OneVersion
  BY DEF PostgresInit, OneVersion, Versions
<1> QED BY <1>1, <1>2, <1>3 DEF PostgresInit, PostgresIndInv

(* The steps of a request before its commit, and its answer: no row goes.  *)
LEMMA NoRowChanges ==
  ASSUME rows' = rows, NEW l, NEW d
  PROVE  Versions(l, d)' = Versions(l, d)
BY DEF Versions

LEMMA BeginUpsertKeeps ==
  ASSUME PostgresIndInv, NEW w \in Session, NEW q \in Ingest, BeginUpsert(w, q)
  PROVE  PostgresIndInv'
<1>1. /\ PostgresTypeOK /\ SnapsOwn /\ DoneIsThere /\ AnsweredStays /\ AloneUnlessMixed /\ OneVersion
      /\ pc[w] = "idle" /\ upserting[w] = Free /\ snap[w] = {}
  BY DEF PostgresIndInv, BeginUpsert, PostgresTypeOK
<1>2. /\ upserting' = [upserting EXCEPT ![w] = q] /\ pc' = [pc EXCEPT ![w] = "begin"]
      /\ UNCHANGED <<table, rows, ensured, snap, rowAnswered>>
      /\ rowMixed \subseteq rowMixed' /\ q # Free
  BY IngestTypes DEF BeginUpsert
<1>3. /\ upserting'[w] = q /\ pc'[w] = "begin"
      /\ \A x \in Session : x # w => upserting'[x] = upserting[x] /\ pc'[x] = pc[x]
  BY <1>1, <1>2 DEF PostgresTypeOK
<1>4. PostgresTypeOK'
  <2>1. \A x \in Session : pc'[x] = "idle" <=> upserting'[x] = Free
    BY <1>1, <1>2, <1>3 DEF PostgresTypeOK
  <2>2. \A x \in Session : snap'[x] # {} => pc'[x] \in {"deleting", "deleted", "inserted"}
    BY <1>1, <1>2, <1>3 DEF PostgresTypeOK
  <2> QED BY <1>1, <1>2, <2>1, <2>2 DEF PostgresTypeOK
<1>5. SnapsOwn'
  BY <1>1, <1>2, <1>3 DEF SnapsOwn, Transacting
<1>6. DoneIsThere' /\ AnsweredStays' /\ OneVersion'
  BY <1>1, <1>2, <1>3 DEF DoneIsThere, AnsweredStays, OneVersion, Versions
<1>7. AloneUnlessMixed'
  <2> SUFFICES ASSUME NEW x \in Session, Upserts(x)', Place(upserting'[x]) \notin rowMixed'
               PROVE  /\ \A y \in Session : Upserts(y)' /\ Place(upserting'[y]) = Place(upserting'[x]) => y = x
                      /\ pc'[x] \in Transacting => snap'[x] = rows' \cap RowsOf(upserting'[x])
    BY DEF AloneUnlessMixed
  <2>1. CASE x = w
    <3>1. \A y \in Session : upserting[y] # Free => Place(upserting[y]) # Place(q)
      BY <1>3, <2>1 DEF BeginUpsert
    <3> QED BY <1>3, <2>1, <3>1 DEF Upserts, Transacting
  <2>2. CASE x # w
    <3>1. Upserts(x) /\ Place(upserting[x]) \notin rowMixed /\ upserting'[x] = upserting[x]
      BY <1>2, <1>3, <2>2 DEF Upserts
    <3>2. Place(q) # Place(upserting[x])
      BY <2>2, <3>1 DEF BeginUpsert, Upserts
    <3>3. pc[x] \in Transacting => snap[x] = rows \cap RowsOf(upserting[x])
      BY <1>1, <3>1 DEF AloneUnlessMixed
    <3>4. \A y \in Session : Upserts(y) /\ Place(upserting[y]) = Place(upserting[x]) => y = x
      BY <1>1, <3>1 DEF AloneUnlessMixed
    <3> QED BY <1>2, <1>3, <2>2, <3>1, <3>2, <3>3, <3>4 DEF Upserts
  <2> QED BY <2>1, <2>2
<1> QED BY <1>2, <1>4, <1>5, <1>6, <1>7 DEF PostgresIndInv

(* A step of w that leaves rows, answers and requests as they are.         *)
LEMMA OwnStep ==
  ASSUME PostgresIndInv, NEW w \in Session,
         UNCHANGED <<rows, upserting, rowAnswered, rowMixed>>,
         table' \in BOOLEAN, ensured' \in BOOLEAN, table => table',
         \A x \in Session : x # w => pc'[x] = pc[x] /\ snap'[x] = snap[x],
         pc' \in [Session -> {"idle", "begin", "ready", "deleting", "deleted", "inserted",
                              "done", "clash", "failed"}],
         snap' \in [Session -> SUBSET (Layer \X Doc \X Version)],
         pc[w] # "idle", pc'[w] \notin {"idle", "done"},
         snap'[w] # {} => pc'[w] \in Transacting /\ snap'[w] \subseteq RowsOf(upserting[w]),
         pc'[w] \in Transacting => table',
         pc'[w] \in Transacting =>
           \/ snap'[w] = rows \cap RowsOf(upserting[w])
           \/ pc[w] \in Transacting /\ snap'[w] = snap[w] \cap rows
  PROVE  PostgresIndInv'
<1>1. PostgresTypeOK /\ SnapsOwn /\ DoneIsThere /\ AnsweredStays /\ AloneUnlessMixed /\ OneVersion
  BY DEF PostgresIndInv
<1>2. PostgresTypeOK'
  <2>1. \A x \in Session : pc'[x] = "idle" <=> upserting'[x] = Free
    BY <1>1 DEF PostgresTypeOK
  <2>2. \A x \in Session : snap'[x] # {} => pc'[x] \in {"deleting", "deleted", "inserted"}
    BY <1>1 DEF PostgresTypeOK, Transacting
  <2> QED BY <1>1, <2>1, <2>2 DEF PostgresTypeOK
<1>3. SnapsOwn'
  BY <1>1 DEF SnapsOwn
<1>4. DoneIsThere' /\ AnsweredStays' /\ OneVersion'
  BY <1>1 DEF DoneIsThere, AnsweredStays, OneVersion, Versions
<1>5. AloneUnlessMixed'
  <2> SUFFICES ASSUME NEW x \in Session, Upserts(x), Place(upserting[x]) \notin rowMixed,
                      pc'[x] \in Transacting
               PROVE  snap'[x] = rows \cap RowsOf(upserting[x])
    BY <1>1 DEF AloneUnlessMixed, Upserts
  <2>1. pc[x] \in Transacting => snap[x] = rows \cap RowsOf(upserting[x])
    BY <1>1 DEF AloneUnlessMixed
  <2> QED BY <2>1
<1> QED BY <1>2, <1>3, <1>4, <1>5 DEF PostgresIndInv

LEMMA OwnStepsKeep ==
  ASSUME PostgresIndInv, NEW w \in Session,
         \/ EnsureSchema(w) \/ SchemaRaises(w) \/ StartDelete(w) \/ NoTable(w)
         \/ FinishDelete(w) \/ Insert(w) \/ InsertRaises(w) \/ Abort(w)
  PROVE  PostgresIndInv'
<1>1. PostgresTypeOK /\ SnapsOwn
  BY DEF PostgresIndInv
<1>2. CASE EnsureSchema(w)
  <2>1. /\ table' \in BOOLEAN /\ (table => table') /\ ensured' \in BOOLEAN
        /\ pc[w] = "begin" /\ pc' = [pc EXCEPT ![w] = "ready"]
        /\ UNCHANGED <<rows, upserting, snap, rowAnswered, rowMixed>>
    BY <1>1, <1>2, PostgresExtension DEF EnsureSchema, PostgresTypeOK
  <2> QED BY <1>1, <2>1, OwnStep DEF PostgresTypeOK, Transacting
<1>3. CASE StartDelete(w)
  <2>1. /\ table /\ pc[w] = "ready" /\ pc' = [pc EXCEPT ![w] = "deleting"]
        /\ snap' = [snap EXCEPT ![w] = rows \cap RowsOf(upserting[w])]
        /\ UNCHANGED <<table, rows, ensured, upserting, rowAnswered, rowMixed>>
    BY <1>3 DEF StartDelete
  <2>2. snap' \in [Session -> SUBSET (Layer \X Doc \X Version)] /\ snap'[w] = rows \cap RowsOf(upserting[w])
    BY <1>1, <2>1 DEF PostgresTypeOK
  <2> QED BY <1>1, <2>1, <2>2, OwnStep DEF PostgresTypeOK, Transacting
<1>4. CASE NoTable(w) \/ SchemaRaises(w)
  <2>1. /\ pc[w] \in {"begin", "ready"} /\ pc' = [pc EXCEPT ![w] = "failed"]
        /\ UNCHANGED <<table, rows, ensured, upserting, snap, rowAnswered, rowMixed>>
    BY <1>4 DEF NoTable, SchemaRaises
  <2> QED BY <1>1, <2>1, OwnStep DEF PostgresTypeOK, Transacting
<1>5. CASE FinishDelete(w)
  <2>1. /\ pc[w] = "deleting" /\ pc' = [pc EXCEPT ![w] = "deleted"]
        /\ snap' = [snap EXCEPT ![w] = snap[w] \cap rows]
        /\ UNCHANGED <<table, rows, ensured, upserting, rowAnswered, rowMixed>>
    BY <1>5 DEF FinishDelete
  <2>2. snap' \in [Session -> SUBSET (Layer \X Doc \X Version)] /\ snap'[w] = snap[w] \cap rows
    BY <1>1, <2>1 DEF PostgresTypeOK
  <2>3. table /\ snap'[w] \subseteq snap[w]
    BY <1>1, <2>1, <2>2 DEF SnapsOwn, Transacting
  <2>4. snap'[w] # {} => snap'[w] \subseteq RowsOf(upserting[w])
    BY <1>1, <2>3 DEF SnapsOwn
  <2> QED BY <1>1, <2>1, <2>2, <2>3, <2>4, OwnStep DEF PostgresTypeOK, Transacting
<1>6. CASE Insert(w)
  <2>1. /\ pc[w] = "deleted" /\ pc' = [pc EXCEPT ![w] = "inserted"]
        /\ UNCHANGED <<table, rows, ensured, upserting, snap, rowAnswered, rowMixed>>
    BY <1>6 DEF Insert
  <2>2. ASSUME Upserts(w), Place(upserting[w]) \notin rowMixed
        PROVE  snap[w] = rows \cap RowsOf(upserting[w])
    BY <2>1, <2>2 DEF PostgresIndInv, AloneUnlessMixed, Transacting
  <2>3. PostgresTypeOK'
    BY <1>1, <2>1 DEF PostgresTypeOK
  <2>4. \A x \in Session : x # w => pc'[x] = pc[x]
    BY <1>1, <2>1 DEF PostgresTypeOK
  <2>5. pc'[w] = "inserted"
    BY <1>1, <2>1 DEF PostgresTypeOK
  <2>6. SnapsOwn'
    BY <1>1, <2>1, <2>4, <2>5 DEF SnapsOwn, Transacting
  <2>7. DoneIsThere' /\ AnsweredStays' /\ OneVersion'
    BY <2>1, <2>4, <2>5 DEF PostgresIndInv, DoneIsThere, AnsweredStays, OneVersion, Versions
  <2>8. AloneUnlessMixed'
    BY <2>1, <2>2, <2>4, <2>5 DEF PostgresIndInv, AloneUnlessMixed, Upserts, Transacting
  <2> QED BY <2>1, <2>3, <2>6, <2>7, <2>8 DEF PostgresIndInv
<1>7. CASE InsertRaises(w) \/ Abort(w)
  <2>1. /\ pc[w] # "idle" /\ snap' = [snap EXCEPT ![w] = {}]
        /\ pc' = [pc EXCEPT ![w] = pc'[w]] /\ pc'[w] \in {"clash", "failed"}
        /\ UNCHANGED <<table, rows, ensured, upserting, rowAnswered, rowMixed>>
    BY <1>1, <1>7 DEF InsertRaises, Abort, Transacting, PostgresTypeOK
  <2>2. snap' \in [Session -> SUBSET (Layer \X Doc \X Version)] /\ snap'[w] = {}
    BY <1>1, <2>1 DEF PostgresTypeOK
  <2> QED BY <1>1, <2>1, <2>2, OwnStep DEF PostgresTypeOK, Transacting
<1> QED BY <1>2, <1>3, <1>4, <1>5, <1>6, <1>7

(* What a commit does to the table: the document of the request has its    *)
(* version, and no other document is touched.                              *)
LEMMA Committed ==
  ASSUME PostgresIndInv, NEW w \in Session, Commit(w)
  PROVE  /\ upserting[w] \in Ingest /\ Upserts(w) /\ table
         /\ rows' \subseteq Layer \X Doc \X Version
         /\ upserting[w].version \in Versions(upserting[w].layer, upserting[w].doc)'
         /\ \A l \in Layer, d \in Doc : <<l, d>> # Place(upserting[w]) =>
              Versions(l, d)' = Versions(l, d)
         /\ \A q \in Ingest : Place(q) # Place(upserting[w]) =>
              rows' \cap RowsOf(q) = rows \cap RowsOf(q)
         /\ snap[w] = rows \cap RowsOf(upserting[w]) =>
              Versions(upserting[w].layer, upserting[w].doc)' = {upserting[w].version}
<1>1. PICK q : q = upserting[w]
  OBVIOUS
<1>2. /\ q \in Ingest /\ Upserts(w) /\ table /\ (snap[w] # {} => snap[w] \subseteq RowsOf(q))
      /\ rows \subseteq Layer \X Doc \X Version /\ snap[w] \subseteq Layer \X Doc \X Version
  BY <1>1 DEF PostgresIndInv, PostgresTypeOK, Commit, SnapsOwn, Transacting, Upserts
<1>3. /\ q.layer \in Layer /\ q.doc \in Doc /\ q.version \in Version
      /\ Place(q) = <<q.layer, q.doc>> /\ NewRow(q) = <<q.layer, q.doc, q.version>>
  BY <1>2, IngestTypes
<1>4. rows' = (rows \ snap[w]) \cup {<<q.layer, q.doc, q.version>>}
  BY <1>1, <1>3 DEF Commit
<1>5. rows' \subseteq Layer \X Doc \X Version
  BY <1>2, <1>3, <1>4
<1>6. \A r \in snap[w] : \E v \in Version : r = <<q.layer, q.doc, v>>
  BY <1>2 DEF RowsOf
<1>7. ASSUME NEW l \in Layer, NEW d \in Doc, <<l, d>> # <<q.layer, q.doc>>, NEW v \in Version
      PROVE  <<l, d, v>> \in rows' <=> <<l, d, v>> \in rows
  BY <1>4, <1>6, <1>7
<1>8. \A l \in Layer, d \in Doc : <<l, d>> # <<q.layer, q.doc>> => Versions(l, d)' = Versions(l, d)
  BY <1>7 DEF Versions
<1>9. ASSUME NEW p \in Ingest, Place(p) # Place(q)
      PROVE  rows' \cap RowsOf(p) = rows \cap RowsOf(p)
  <2>1. p.layer \in Layer /\ p.doc \in Doc /\ <<p.layer, p.doc>> # <<q.layer, q.doc>>
    BY <1>3, <1>9, IngestTypes
  <2>2. \A r \in RowsOf(p) : r \in rows' <=> r \in rows
    BY <1>7, <2>1 DEF RowsOf
  <2> QED BY <2>2
<1>10. q.version \in Versions(q.layer, q.doc)'
  BY <1>3, <1>4 DEF Versions
<1>11. ASSUME snap[w] = rows \cap RowsOf(q)
       PROVE  Versions(q.layer, q.doc)' = {q.version}
  <2>1. ASSUME NEW v \in Version, <<q.layer, q.doc, v>> \in rows' PROVE v = q.version
    <3>1. <<q.layer, q.doc, v>> \in RowsOf(q)
      BY DEF RowsOf
    <3> QED BY <1>4, <1>11, <2>1, <3>1
  <2> QED BY <1>10, <2>1 DEF Versions
<1>12. upserting' = upserting
  BY DEF Commit
<1> QED BY <1>1, <1>2, <1>3, <1>5, <1>8, <1>9, <1>10, <1>11, <1>12 DEF Versions

LEMMA CommitKeeps ==
  ASSUME PostgresIndInv, NEW w \in Session, Commit(w)
  PROVE  PostgresIndInv'
<1>1. PICK q : q = upserting[w]
  OBVIOUS
<1>2. /\ PostgresTypeOK /\ SnapsOwn /\ DoneIsThere /\ AnsweredStays /\ AloneUnlessMixed /\ OneVersion
      /\ pc[w] = "inserted" /\ rowAnswered \subseteq Layer \X Doc
      /\ snap' = [snap EXCEPT ![w] = {}] /\ pc' = [pc EXCEPT ![w] = "done"]
      /\ UNCHANGED <<table, ensured, upserting, rowAnswered, rowMixed>>
  BY DEF PostgresIndInv, Commit
<1>3. /\ q \in Ingest /\ Upserts(w) /\ table /\ rows' \subseteq Layer \X Doc \X Version
      /\ Versions(q.layer, q.doc)' # {}
      /\ \A l \in Layer, d \in Doc : <<l, d>> # Place(q) => Versions(l, d)' = Versions(l, d)
      /\ \A p \in Ingest : Place(p) # Place(q) => rows' \cap RowsOf(p) = rows \cap RowsOf(p)
      /\ snap[w] = rows \cap RowsOf(q) => Versions(q.layer, q.doc)' = {q.version}
  <2>1. upserting'[w] = upserting[w]
    BY <1>2
  <2> QED BY <1>1, <2>1, Committed
<1>4. q.layer \in Layer /\ q.doc \in Doc /\ Place(q) = <<q.layer, q.doc>>
  BY <1>3, IngestTypes
<1>5. \A l \in Layer, d \in Doc : Versions(l, d) # {} => Versions(l, d)' # {}
  BY <1>3, <1>4
<1>6. /\ pc'[w] = "done" /\ snap'[w] = {}
      /\ \A x \in Session : x # w => pc'[x] = pc[x] /\ snap'[x] = snap[x]
  BY <1>2 DEF PostgresTypeOK
<1>7. PostgresTypeOK'
  <2>1. \A x \in Session : pc'[x] = "idle" <=> upserting'[x] = Free
    BY <1>2, <1>6 DEF PostgresTypeOK
  <2>2. \A x \in Session : snap'[x] # {} => pc'[x] \in {"deleting", "deleted", "inserted"}
    BY <1>2, <1>6 DEF PostgresTypeOK
  <2> QED BY <1>2, <1>3, <2>1, <2>2 DEF PostgresTypeOK
<1>8. SnapsOwn'
  BY <1>2, <1>6 DEF SnapsOwn, Transacting
<1>9. DoneIsThere'
  <2> SUFFICES ASSUME NEW x \in Session, pc'[x] = "done"
               PROVE  Versions(upserting[x].layer, upserting[x].doc)' # {}
    BY <1>2 DEF DoneIsThere, Versions
  <2>1. CASE x = w
    BY <1>1, <1>2, <1>3, <2>1 DEF Versions
  <2>2. CASE x # w
    <3>1. pc[x] = "done" /\ Versions(upserting[x].layer, upserting[x].doc) # {}
      BY <1>2, <1>6, <2>2 DEF DoneIsThere
    <3>2. upserting[x].layer \in Layer /\ upserting[x].doc \in Doc
      BY <1>2, <3>1 DEF PostgresTypeOK, Ingest
    <3> QED BY <1>2, <1>5, <3>1, <3>2 DEF Versions
  <2> QED BY <2>1, <2>2
<1>10. AnsweredStays'
  BY <1>2, <1>5 DEF AnsweredStays, Versions
<1>11. AloneUnlessMixed'
  <2> SUFFICES ASSUME NEW x \in Session, Upserts(x), Place(upserting[x]) \notin rowMixed,
                      pc'[x] \in Transacting
               PROVE  snap'[x] = rows' \cap RowsOf(upserting[x])
    BY <1>2 DEF AloneUnlessMixed, Upserts
  <2>1. x # w
    BY <1>6 DEF Transacting
  <2>2. /\ snap[x] = rows \cap RowsOf(upserting[x])
        /\ \A y \in Session : Upserts(y) /\ Place(upserting[y]) = Place(upserting[x]) => y = x
    BY <1>2, <1>6, <2>1 DEF AloneUnlessMixed
  <2>3. Place(upserting[x]) # Place(q) /\ upserting[x] \in Ingest
    BY <1>1, <1>2, <1>3, <2>1, <2>2 DEF PostgresTypeOK, Upserts
  <2> QED BY <1>3, <1>6, <2>1, <2>2, <2>3
<1>12. OneVersion'
  <2> SUFFICES ASSUME NEW l \in Layer, NEW d \in Doc, <<l, d>> \notin rowMixed
               PROVE  \A v1, v2 \in Versions(l, d)' : v1 = v2
    BY <1>2 DEF OneVersion
  <2>1. CASE <<l, d>> = Place(q)
    <3>1. snap[w] = rows \cap RowsOf(q)
      BY <1>1, <1>2, <1>3, <2>1 DEF AloneUnlessMixed, Transacting
    <3>2. l = q.layer /\ d = q.doc
      BY <1>4, <2>1
    <3> QED BY <1>3, <3>1, <3>2
  <2>2. CASE <<l, d>> # Place(q)
    BY <1>2, <1>3, <2>2 DEF OneVersion
  <2> QED BY <2>1, <2>2
<1> QED BY <1>2, <1>7, <1>8, <1>9, <1>10, <1>11, <1>12 DEF PostgresIndInv

LEMMA AnswerUpsertKeeps ==
  ASSUME PostgresIndInv, NEW w \in Session, AnswerUpsert(w)
  PROVE  PostgresIndInv'
<1>1. /\ PostgresTypeOK /\ SnapsOwn /\ DoneIsThere /\ AnsweredStays /\ AloneUnlessMixed /\ OneVersion
      /\ pc[w] \in {"done", "clash", "failed"} /\ rowAnswered \subseteq Layer \X Doc
      /\ rowAnswered' = IF pc[w] = "done" THEN rowAnswered \cup {Place(upserting[w])} ELSE rowAnswered
      /\ pc' = [pc EXCEPT ![w] = "idle"] /\ upserting' = [upserting EXCEPT ![w] = Free]
      /\ UNCHANGED <<table, rows, ensured, snap, rowMixed>>
  BY DEF PostgresIndInv, AnswerUpsert
<1>2. /\ pc'[w] = "idle" /\ upserting'[w] = Free /\ snap[w] = {} /\ upserting[w] \in Ingest
      /\ \A x \in Session : x # w => pc'[x] = pc[x] /\ upserting'[x] = upserting[x]
  BY <1>1 DEF PostgresTypeOK
<1>3. PostgresTypeOK'
  <2>1. \A x \in Session : pc'[x] = "idle" <=> upserting'[x] = Free
    BY <1>1, <1>2 DEF PostgresTypeOK
  <2>2. \A x \in Session : snap'[x] # {} => pc'[x] \in {"deleting", "deleted", "inserted"}
    BY <1>1, <1>2 DEF PostgresTypeOK
  <2> QED BY <1>1, <2>1, <2>2 DEF PostgresTypeOK
<1>4. SnapsOwn'
  BY <1>1, <1>2 DEF SnapsOwn, Transacting
<1>5. DoneIsThere' /\ OneVersion'
  BY <1>1, <1>2 DEF DoneIsThere, OneVersion, Versions
<1>6. /\ Place(upserting[w]) = <<upserting[w].layer, upserting[w].doc>>
      /\ upserting[w].layer \in Layer /\ upserting[w].doc \in Doc
  BY <1>2, IngestTypes
<1>7. AnsweredStays' /\ rowAnswered' \subseteq Layer \X Doc
  <2>1. ASSUME NEW p \in rowAnswered' PROVE Versions(p[1], p[2]) # {} /\ p \in Layer \X Doc
    <3>1. CASE p \in rowAnswered
      BY <1>1, <3>1 DEF AnsweredStays
    <3>2. CASE p \notin rowAnswered
      <4>1. pc[w] = "done" /\ p = <<upserting[w].layer, upserting[w].doc>>
        BY <1>1, <1>6, <2>1, <3>2
      <4> QED BY <1>1, <1>6, <4>1 DEF DoneIsThere
    <3> QED BY <3>1, <3>2
  <2> QED BY <1>1, <2>1 DEF AnsweredStays, Versions
<1>8. AloneUnlessMixed'
  BY <1>1, <1>2 DEF AloneUnlessMixed, Upserts
<1> QED BY <1>3, <1>4, <1>5, <1>7, <1>8 DEF PostgresIndInv

LEMMA RestartKeeps ==
  ASSUME PostgresIndInv, Restart
  PROVE  PostgresIndInv'
<1>1. PostgresTypeOK' /\ SnapsOwn' /\ DoneIsThere'
  BY DEF PostgresIndInv, Restart, PostgresTypeOK, SnapsOwn, DoneIsThere, Transacting
<1>2. AnsweredStays' /\ OneVersion' /\ rowAnswered' \subseteq Layer \X Doc
  BY DEF PostgresIndInv, Restart, AnsweredStays, OneVersion, Versions
<1>3. AloneUnlessMixed'
  BY DEF Restart, AloneUnlessMixed, Upserts
<1> QED BY <1>1, <1>2, <1>3 DEF PostgresIndInv

LEMMA PostgresStepInv == PostgresIndInv /\ [PostgresNext]_pgVars => PostgresIndInv'
<1>1. ASSUME PostgresIndInv, UNCHANGED pgVars PROVE PostgresIndInv'
  <2>1. PostgresTypeOK' /\ SnapsOwn' /\ rowAnswered' \subseteq Layer \X Doc
    BY <1>1 DEF PostgresIndInv, pgVars, PostgresTypeOK, SnapsOwn
  <2>2. DoneIsThere' /\ AnsweredStays' /\ OneVersion'
    BY <1>1 DEF PostgresIndInv, pgVars, DoneIsThere, AnsweredStays, OneVersion, Versions
  <2>3. AloneUnlessMixed'
    BY <1>1 DEF PostgresIndInv, pgVars, AloneUnlessMixed, Upserts
  <2> QED BY <2>1, <2>2, <2>3 DEF PostgresIndInv
<1> QED BY <1>1, BeginUpsertKeeps, OwnStepsKeep, CommitKeeps, AnswerUpsertKeeps, RestartKeeps
    DEF PostgresNext

LEMMA PostgresIndInvSuffices == PostgresIndInv => PostgresInv
<1> SUFFICES ASSUME PostgresIndInv, NEW l \in Layer, NEW d \in Doc, <<l, d>> \notin rowMixed
             PROVE  Cardinality(Versions(l, d)) <= 1
  BY DEF PostgresIndInv, PostgresInv, OneVersionUnlessMixed
<1>1. Versions(l, d) = {} \/ \E v : Versions(l, d) = {v}
  BY DEF PostgresIndInv, OneVersion
<1>2. CASE Versions(l, d) = {}
  <2>1. Cardinality(Versions(l, d)) = 0
    BY <1>2, FS_EmptySet
  <2> QED BY <2>1
<1>3. ASSUME NEW v, Versions(l, d) = {v} PROVE Cardinality(Versions(l, d)) <= 1
  <2>1. Cardinality(Versions(l, d)) = 1
    BY <1>3, FS_Singleton
  <2> QED BY <2>1
<1> QED BY <1>1, <1>2, <1>3

(* Whatever is refused, aborted or cut off, an answered document stays and *)
(* has one version, unless two ingests of it overlapped.                   *)
THEOREM PostgresCorrect == PostgresSpec => []PostgresInv
BY PostgresInitInv, PostgresStepInv, PostgresIndInvSuffices, PTL DEF PostgresSpec

Shown(l, d) == IF Versions(l, d) = {} THEN NoDoc ELSE CHOOSE v \in Versions(l, d) : TRUE

LEMMA TableRefineInit == PostgresInit => TablePromise!IndexInit
<1> SUFFICES ASSUME PostgresInit PROVE TableIndex = [l \in Layer |-> [d \in Doc |-> NoDoc]]
  BY DEF TablePromise!IndexInit, TablePromise!EmptyDocs
<1>1. \A l \in Layer, d \in Doc : Versions(l, d) = {}
  BY DEF PostgresInit, Versions
<1> QED BY <1>1 DEF TableIndex

LEMMA TableRefineStep ==
  ASSUME PostgresIndInv, [PostgresNext]_pgVars, rowMixed' = {}
  PROVE  TablePromise!IndexNext \/ UNCHANGED TableIndex
<1>1. TableIndex = [l \in Layer |-> [d \in Doc |-> Shown(l, d)]]
      /\ TableIndex' = [l \in Layer |-> [d \in Doc |-> Shown(l, d)']]
  BY DEF TableIndex, Shown
<1>2. CASE rows' = rows
  <2>1. \A l, d : Shown(l, d)' = Shown(l, d)
    BY <1>2 DEF Shown, Versions
  <2> QED BY <1>1, <2>1
<1>3. ASSUME NEW w \in Session, Commit(w) PROVE TablePromise!IndexNext
  <2>1. PICK q : q = upserting[w]
    OBVIOUS
  <2>2. rowMixed = {} /\ upserting' = upserting
    BY <1>3 DEF Commit
  <2>3. /\ q \in Ingest /\ Upserts(w)
        /\ \A l \in Layer, d \in Doc : <<l, d>> # Place(q) => Versions(l, d)' = Versions(l, d)
        /\ snap[w] = rows \cap RowsOf(q) => Versions(q.layer, q.doc)' = {q.version}
    <3>1. upserting'[w] = upserting[w]
      BY <2>2
    <3> QED BY <1>3, <2>1, <3>1, Committed
  <2>4. snap[w] = rows \cap RowsOf(q)
    BY <1>3, <2>1, <2>2, <2>3 DEF PostgresIndInv, AloneUnlessMixed, Commit, Transacting
  <2>5. q.layer \in Layer /\ q.doc \in Doc /\ q.version \in Version /\ Place(q) = <<q.layer, q.doc>>
    BY <2>3, IngestTypes
  <2>6. Shown(q.layer, q.doc)' = q.version
    BY <2>3, <2>4 DEF Shown
  <2>7. \A l \in Layer, d \in Doc : l # q.layer \/ d # q.doc => Shown(l, d)' = Shown(l, d)
    <3> SUFFICES ASSUME NEW l \in Layer, NEW d \in Doc, l # q.layer \/ d # q.doc
                 PROVE  Shown(l, d)' = Shown(l, d)
      OBVIOUS
    <3>1. Versions(l, d)' = Versions(l, d)
      BY <2>3, <2>5
    <3> QED BY <3>1 DEF Shown
  <2>8. TableIndex' = [TableIndex EXCEPT ![q.layer][q.doc] = q.version]
    BY <1>1, <2>5, <2>6, <2>7
  <2>9. TablePromise!Upsert(q.layer, q.doc, q.version)
    BY <2>8 DEF TablePromise!Upsert
  <2> QED BY <2>5, <2>9 DEF TablePromise!IndexNext
<1>4. ASSUME NEW w \in Session,
             \/ \E q \in Ingest : BeginUpsert(w, q)
             \/ EnsureSchema(w) \/ SchemaRaises(w) \/ StartDelete(w) \/ NoTable(w)
             \/ FinishDelete(w) \/ Insert(w) \/ InsertRaises(w) \/ Abort(w) \/ AnswerUpsert(w)
      PROVE  rows' = rows
  BY <1>4 DEF BeginUpsert, EnsureSchema, SchemaRaises, StartDelete, NoTable, FinishDelete, Insert, InsertRaises,
     Abort, AnswerUpsert
<1>5. Restart \/ UNCHANGED pgVars => rows' = rows
  BY DEF Restart, pgVars
<1> QED BY <1>2, <1>3, <1>4, <1>5 DEF PostgresNext

(* Until two ingests of a document overlap, the table behaves as the index *)
(* of RagIndex: a commit replaces one version at once.                     *)
THEOREM TableRefinesIndex == PostgresSpec => TableIsAnIndex
<1>1. PostgresIndInv /\ [PostgresNext]_pgVars
        => [rowMixed' = {} => TablePromise!IndexNext]_TableIndex
  BY TableRefineStep
<1> QED BY <1>1, PostgresInitInv, PostgresStepInv, TableRefineInit, PTL DEF PostgresSpec, TableIsAnIndex
=============================================================================
