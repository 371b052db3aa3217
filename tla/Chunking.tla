------------------------------ MODULE Chunking ------------------------------
(***************************************************************************)
(* How the two RAGs cut a text into chunks: chunk_text of the dual RAG and *)
(* _chunk_text of the steward's ingestion.  Of a text only where it may be *)
(* cut matters: after[b] says what stands before position b.  A text with  *)
(* any such marks is allowed, which is more than there are.                *)
(***************************************************************************)
EXTENDS Integers, Sequences

CONSTANTS
  Texts,    \* the texts that are cut: sequences of marks
  Configs,  \* ChunkConfigs of chunk_text
  Sizes     \* CHUNK_SIZE and CHUNK_OVERLAP of _chunk_text

(* A heading line, a blank line, a line or a sentence (with one space)     *)
(* ends there, or a space stands there.                                    *)
Mark == {"heading", "blank", "line", "sentence", "space", "none"}

(* ChunkConfig.validate().                                                 *)
Validated(c) ==
  /\ 0 < c.target /\ c.target <= c.maximum
  /\ 0 <= c.overlap /\ c.overlap < c.target
  /\ 0 < c.minimum /\ c.minimum <= c.target
ConfigType == [target : Nat, maximum : Nat, overlap : Nat, minimum : Nat]

ASSUME ChunkTexts == Texts \subseteq Seq(Mark) \ {<< >>}
ASSUME ChunkConfigs == Configs \subseteq {c \in ConfigType : Validated(c)}
ASSUME ChunkSizes ==
  Sizes \subseteq {s \in [size : Nat \ {0}, overlap : Nat] : s.overlap <= s.size \div 2}

VARIABLES
  after,    \* the text
  config,   \* the ChunkConfig, or the sizes
  pos,      \* how far the text is cut
  shared,   \* where the next chunk begins: it shares shared .. pos with the last
  chunks    \* the chunks so far: from, to

chunkVars == <<after, config, pos, shared, chunks>>

End == Len(after)
Structural == config \in Configs
Chunk(from, to) == [from |-> from, to |-> to]

ChunkInit ==
  /\ after \in Texts
  /\ config \in Configs \cup Sizes
  /\ pos = 0 /\ shared = 0
  /\ chunks = << >>

----------------------------------------------------------------------------
Marked(kind, lo, hi) == {b \in lo .. hi : b \in DOMAIN after /\ after[b] = kind}
First(S) == {b \in S : \A c \in S : b <= c}
Last(S) == {b \in S : \A c \in S : c <= b}
Lower(a, b) == IF a <= b THEN a ELSE b

(* _find_split_point(text[:end], most): it searches from the beginning of  *)
(* the text, so what it finds may have been passed long ago.               *)
FindSplitPoint(end, most) ==
  IF end <= most THEN {end}
  ELSE LET heading == Marked("heading", 1, most)
           blank == Marked("blank", 3, most + 1)
           line == Marked("line", 2, most + 1)
           sentence == Marked("sentence", 2, most)
           space == Marked("space", 2, most + 1)
       IN IF heading # {} THEN First(heading)
          ELSE IF blank # {} THEN Last(blank)
          ELSE IF line # {} THEN Last(line)
          ELSE IF sentence # {} THEN First(sentence)
          ELSE IF space # {} THEN Last(space)
          ELSE {most}

(* _find_overlap_start(text[:end], overlap).                               *)
FindOverlapStart(end, overlap) ==
  LET from == end - overlap
      blank == Marked("blank", from + 2, end)
      sentence == Marked("sentence", from + 2, end)
      space == Marked("space", from + 1, end)
  IN IF end <= overlap THEN {0}
     ELSE IF blank # {} THEN First(blank)
     ELSE IF sentence # {} THEN First(sentence)
     ELSE IF space # {} THEN First(space)
     ELSE {from}

(* Faulty: a boundary that was passed already is taken all the same.       *)
SplitBehind(split, maxEnd) == split

(* What was found behind pos is no place to cut.                           *)
SplitAt(split, maxEnd) == IF split <= pos THEN maxEnd ELSE split

(* A rest too short for a chunk of its own is added where there is room.   *)
WithRest(split) ==
  IF End - split < config.minimum /\ End - shared <= config.maximum THEN End ELSE split

(* One turn of the loop of chunk_text.                                     *)
NextChunk ==
  /\ Structural /\ pos < End
  /\ LET targetEnd == Lower(shared + config.target, End)
         maxEnd == Lower(shared + config.maximum, End)
     IN \E found \in FindSplitPoint(maxEnd, targetEnd) :
          LET to == WithRest(SplitAt(found, maxEnd))
          IN /\ chunks' = Append(chunks, Chunk(shared, to))
             /\ pos' = to
             /\ shared' \in IF config.overlap > 0 /\ to < End
                            THEN FindOverlapStart(to, config.overlap) ELSE {to}
  /\ UNCHANGED <<after, config>>

----------------------------------------------------------------------------
(* The last separator in the second half of a window ends it.              *)
WindowEnd(start, end) ==
  LET half == start + config.size \div 2
      blank == Marked("blank", half + 3, end)
      line == Marked("line", half + 2, end)
      sentence == Marked("sentence", half + 3, end)
  IN IF end = End THEN {end}
     ELSE IF blank # {} THEN Last(blank)
     ELSE IF line # {} THEN Last(line)
     ELSE IF sentence # {} THEN Last(sentence)
     ELSE {end}

(* One turn of the loop of _chunk_text; a text of one window is one chunk. *)
NextWindow ==
  /\ ~Structural /\ pos < End
  /\ \E to \in WindowEnd(shared, Lower(shared + config.size, End)) :
       /\ chunks' = Append(chunks, Chunk(shared, to))
       /\ pos' = to
       /\ shared' = IF to - config.overlap > shared + 1 THEN to - config.overlap
                    ELSE shared + 1
  /\ UNCHANGED <<after, config>>

ChunkNext == NextChunk \/ NextWindow
ChunkSpec == ChunkInit /\ [][ChunkNext]_chunkVars
----------------------------------------------------------------------------
ChunkTypeOK ==
  /\ after \in Seq(Mark)
  /\ config \in Configs \cup Sizes
  /\ pos \in 0 .. End /\ shared \in Nat
  /\ chunks \in Seq([from : 0 .. End, to : 0 .. End])

(* Wherever the marks are: chunks follow each other with nothing between,  *)
(* each goes further than the one before, so that the loop ends with the   *)
(* whole text; none is longer than allowed, and what a chunk repeats of    *)
(* the one before is at most the overlap.                                  *)
ChunksTile ==
  /\ ChunkTypeOK
  /\ chunks = << >> => pos = 0 /\ shared = 0
  /\ chunks # << >> => chunks[1].from = 0 /\ chunks[Len(chunks)].to = pos
  /\ \A i \in DOMAIN chunks :
       /\ chunks[i].from < chunks[i].to
       /\ chunks[i].to - chunks[i].from <=
            IF Structural THEN config.maximum ELSE config.size
       /\ i > 1 => /\ chunks[i].from <= chunks[i - 1].to
                   /\ chunks[i - 1].to < chunks[i].to
                   /\ chunks[i - 1].to - chunks[i].from <= config.overlap
=============================================================================
