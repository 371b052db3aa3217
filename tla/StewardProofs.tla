--------------------------- MODULE StewardProofs ---------------------------
(***************************************************************************)
(* Theorems about the steward runtime, for any sessions, calls, packs and  *)
(* earlier databases: what a query is answered with, what its answer       *)
(* leaves in the ledger, and what a pack's load leaves in the tables.      *)
(***************************************************************************)
EXTENDS StewardRuntime, FiniteSetTheorems, TLAPS

----------------------------------------------------------------------------
(* Programs.                                                               *)

IsSeq(q) == q \in Seq({q[i] : i \in DOMAIN q})

(* A sequence is one of its own elements.                                  *)
LEMMA SeqOfOwn == ASSUME NEW S, NEW q \in Seq(S) PROVE IsSeq(q)
<1>1. Len(q) \in Nat /\ q \in [1 .. Len(q) -> S] /\ DOMAIN q = 1 .. Len(q)
  OBVIOUS
<1>2. q \in [1 .. Len(q) -> {q[i] : i \in DOMAIN q}]
  BY <1>1
<1> QED BY <1>1, <1>2 DEF IsSeq

(* The steps that are left when the first has been taken.                  *)
LEMMA TailSteps ==
  ASSUME NEW q, IsSeq(q), q # << >>
  PROVE  /\ IsSeq(Tail(q)) /\ Len(q) \in Nat \ {0} /\ DOMAIN q = 1 .. Len(q)
         /\ DOMAIN Tail(q) = 1 .. Len(q) - 1 /\ Len(Tail(q)) = Len(q) - 1
         /\ \A i \in DOMAIN Tail(q) : i + 1 \in DOMAIN q /\ Tail(q)[i] = q[i + 1]
         /\ 1 \in DOMAIN q /\ Head(q) = q[1]
<1> DEFINE S == {q[i] : i \in DOMAIN q}
<1>1. q \in Seq(S)
  BY DEF IsSeq
<1> HIDE DEF S
<1>2. Tail(q) \in Seq(S)
  BY <1>1
<1>3. IsSeq(Tail(q))
  BY <1>2, SeqOfOwn
<1>4. /\ Len(q) \in Nat \ {0} /\ DOMAIN q = 1 .. Len(q)
      /\ DOMAIN Tail(q) = 1 .. Len(q) - 1 /\ Len(Tail(q)) = Len(q) - 1
      /\ 1 \in DOMAIN q /\ Head(q) = q[1]
  BY <1>1
<1>5. \A i \in DOMAIN Tail(q) : i + 1 \in DOMAIN q /\ Tail(q)[i] = q[i + 1]
  BY <1>1
<1> QED BY <1>3, <1>4, <1>5

(* One program after another.                                              *)
LEMMA ConcatSteps ==
  ASSUME NEW p, NEW q, IsSeq(p), IsSeq(q)
  PROVE  /\ IsSeq(p \o q) /\ Len(p) \in Nat /\ Len(q) \in Nat
         /\ DOMAIN p = 1 .. Len(p) /\ DOMAIN q = 1 .. Len(q)
         /\ DOMAIN (p \o q) = 1 .. Len(p) + Len(q) /\ Len(p \o q) = Len(p) + Len(q)
         /\ \A i \in DOMAIN (p \o q) :
              (p \o q)[i] = IF i <= Len(p) THEN p[i] ELSE q[i - Len(p)]
<1> DEFINE S == {p[i] : i \in DOMAIN p} \cup {q[i] : i \in DOMAIN q}
<1>1. p \in Seq(S) /\ q \in Seq(S)
  <2>1. /\ Len(p) \in Nat /\ p \in [1 .. Len(p) -> {p[i] : i \in DOMAIN p}]
        /\ Len(q) \in Nat /\ q \in [1 .. Len(q) -> {q[i] : i \in DOMAIN q}]
    BY DEF IsSeq
  <2>2. p \in [1 .. Len(p) -> S]
    BY <2>1
  <2>3. q \in [1 .. Len(q) -> S]
    BY <2>1
  <2> HIDE DEF S
  <2> QED BY <2>1, <2>2, <2>3
<1> HIDE DEF S
<1>2. p \o q \in Seq(S)
  BY <1>1
<1>3. IsSeq(p \o q)
  BY <1>2, SeqOfOwn
<1>4. /\ Len(p) \in Nat /\ Len(q) \in Nat
      /\ DOMAIN p = 1 .. Len(p) /\ DOMAIN q = 1 .. Len(q)
      /\ DOMAIN (p \o q) = 1 .. Len(p) + Len(q) /\ Len(p \o q) = Len(p) + Len(q)
  BY <1>1
<1>5. \A i \in DOMAIN (p \o q) :
              (p \o q)[i] = IF i <= Len(p) THEN p[i] ELSE q[i - Len(p)]
  BY <1>1
<1> QED BY <1>3, <1>4, <1>5

(* Each step is one of either program's.                                   *)
LEMMA ConcatFrom ==
  ASSUME NEW p, NEW q, IsSeq(p), IsSeq(q)
  PROVE  \A i \in DOMAIN (p \o q) : \/ \E j \in DOMAIN p : (p \o q)[i] = p[j]
                                   \/ \E j \in DOMAIN q : (p \o q)[i] = q[j]
<1> TAKE i \in DOMAIN (p \o q)
<1>1. /\ Len(p) \in Nat /\ Len(q) \in Nat
      /\ DOMAIN p = 1 .. Len(p) /\ DOMAIN q = 1 .. Len(q)
      /\ i \in 1 .. Len(p) + Len(q)
      /\ (p \o q)[i] = IF i <= Len(p) THEN p[i] ELSE q[i - Len(p)]
  BY ConcatSteps
<1>2. CASE i <= Len(p)
  <2>1. i \in DOMAIN p /\ (p \o q)[i] = p[i]
    BY <1>1, <1>2
  <2> QED BY <2>1
<1>3. CASE ~(i <= Len(p))
  <2>1. i - Len(p) \in DOMAIN q /\ (p \o q)[i] = q[i - Len(p)]
    BY <1>1, <1>3
  <2> QED BY <2>1
<1> QED BY <1>2, <1>3

LEMMA NothingLeft ==
  ASSUME NEW q, IsSeq(q), Len(q) = 0
  PROVE  q = << >>
<1>1. PICK S : q \in Seq(S)
  BY DEF IsSeq
<1> QED BY <1>1

(* Short programs.                                                         *)
LEMMA ShortSteps ==
  /\ IsSeq(<< >>)
  /\ \A a : IsSeq(<<a>>)
  /\ \A a, b : IsSeq(<<a, b>>)
  /\ \A a, b, c : IsSeq(<<a, b, c>>)
<1>1. IsSeq(<< >>)
  <2>1. << >> \in Seq({})
    OBVIOUS
  <2> QED BY <2>1, SeqOfOwn
<1>2. ASSUME NEW a PROVE IsSeq(<<a>>)
  <2>1. <<a>> \in Seq({a})
    OBVIOUS
  <2> QED BY <2>1, SeqOfOwn
<1>3. ASSUME NEW a, NEW b PROVE IsSeq(<<a, b>>)
  <2>1. <<a, b>> \in Seq({a, b})
    OBVIOUS
  <2> QED BY <2>1, SeqOfOwn
<1>4. ASSUME NEW a, NEW b, NEW c PROVE IsSeq(<<a, b, c>>)
  <2>1. <<a, b, c>> \in Seq({a, b, c})
    OBVIOUS
  <2> QED BY <2>1, SeqOfOwn
<1> QED BY <1>1, <1>2, <1>3, <1>4
(* A program with one step more, or two.                                   *)
LEMMA ThenOne ==
  ASSUME NEW p, IsSeq(p), NEW q, IsSeq(q), Len(q) = 1
  PROVE  /\ IsSeq(p \o q) /\ Len(p) \in Nat
         /\ Len(p \o q) = Len(p) + 1 /\ DOMAIN (p \o q) = 1 .. Len(p) + 1
         /\ (p \o q)[Len(p) + 1] = q[1]
         /\ \A i \in 1 .. Len(p) : (p \o q)[i] = p[i]
<1>1. /\ IsSeq(p \o q) /\ Len(p) \in Nat
      /\ DOMAIN (p \o q) = 1 .. Len(p) + 1 /\ Len(p \o q) = Len(p) + 1
      /\ \A i \in DOMAIN (p \o q) : (p \o q)[i] = IF i <= Len(p) THEN p[i] ELSE q[i - Len(p)]
  BY ConcatSteps
<1>2. PICK n, r : n = Len(p) /\ r = p \o q
  OBVIOUS
<1>3. /\ n \in Nat /\ DOMAIN r = 1 .. n + 1 /\ IsSeq(r) /\ Len(r) = n + 1
      /\ \A i \in 1 .. n + 1 : r[i] = IF i <= n THEN p[i] ELSE q[i - n]
  BY <1>1, <1>2
<1>4. r[n + 1] = q[1]
  <2>1. r[n + 1] = q[(n + 1) - n]
    BY <1>3
  <2> QED BY <1>3, <2>1
<1>5. \A i \in 1 .. n : r[i] = p[i]
  BY <1>3
<1> QED BY <1>2, <1>3, <1>4, <1>5

LEMMA ShortConcat ==
  ASSUME NEW p, NEW q, IsSeq(p), IsSeq(q), Len(p) = 2, Len(q) = 2
  PROVE  /\ IsSeq(p \o q) /\ Len(p \o q) = 4
         /\ (p \o q)[1] = p[1] /\ (p \o q)[2] = p[2]
         /\ (p \o q)[3] = q[1] /\ (p \o q)[4] = q[2]
<1>1. PICK r : r = p \o q
  OBVIOUS
<1>2. /\ IsSeq(r) /\ DOMAIN r = 1 .. 4 /\ Len(r) = 4
      /\ \A i \in DOMAIN r : r[i] = IF i <= 2 THEN p[i] ELSE q[i - 2]
  <2>1. /\ IsSeq(p \o q)
        /\ DOMAIN (p \o q) = 1 .. 2 + 2 /\ Len(p \o q) = 2 + 2
        /\ \A i \in DOMAIN (p \o q) : (p \o q)[i] = IF i <= 2 THEN p[i] ELSE q[i - 2]
    <3>1. /\ IsSeq(p \o q)
          /\ DOMAIN (p \o q) = 1 .. Len(p) + Len(q) /\ Len(p \o q) = Len(p) + Len(q)
          /\ \A i \in DOMAIN (p \o q) : (p \o q)[i] = IF i <= Len(p) THEN p[i] ELSE q[i - Len(p)]
      BY ConcatSteps
    <3> QED BY <3>1
  <2> QED BY <1>1, <2>1
<1>3. r[1] = p[1] /\ r[2] = p[2]
  BY <1>2
<1>4. r[3] = q[3 - 2] /\ r[4] = q[4 - 2]
  BY <1>2
<1> QED BY <1>1, <1>2, <1>3, <1>4
----------------------------------------------------------------------------
(* Who may have written the platform's layer, and what a query may find.   *)

Curator(who) == {who.role, who.estateRole} \cap {"curator", "admin"} # {}
Curated(T) == {u \in ApiSession : /\ T[u].pc = "done" /\ T[u].answer.code = "ok"
                                  /\ Curator(T[u].who)}

(* A document of the platform's layer is a pack's, or a curator's upload.  *)
Blessed(d, C) == d.layer = 1 => d.source # NoSource \/ d.id \in C

Within(call, who, d, C) ==
  /\ d.cite
  /\ \/ /\ call.layer # 1 /\ d.layer = 2 /\ d.tenant = who.tenant /\ d.project = who.estate
     \/ /\ call.layer # 2 /\ d.layer = 1 /\ d.tenant = PlatformTenant
        /\ d.source # NoSource \/ d.id \in C

AllWithin(call, who, hits, C) == \A h \in hits : Within(call, who, h.document, C)

(* The verdict row a session's answer calls for.                           *)
Verdict(s, x) ==
  IF x.answer.code \in Verdicts
  THEN {VerdictRow(s, x.who, x.answer.code, Cardinality(x.answer.hits))} ELSE {}
Audits(R) == {r \in R : r.table = "audit_events"}

----------------------------------------------------------------------------
(* A session that is open.                                                 *)

Shape(x) ==
  /\ x.pc = "open"
  /\ DOMAIN x = {"pc", "call", "who", "todo", "pend", "rows", "gone", "source", "found", "answer"}
  /\ DOMAIN x.found = {1, 2} /\ DOMAIN x.answer = {"code", "hits"}
  /\ IsSeq(x.todo) /\ IsSeq(x.pend)

Do(x, D) == \A i \in DOMAIN x.todo : x.todo[i].do \in D

(* What is left of a question: it ends with its grounding or its refusal,  *)
(* which writes the verdict, and searches only the layers it may.          *)
Asking(x) ==
  IF x.call.refused
  THEN /\ x.todo # << >> => x.todo = <<[do |-> "refuse"]>>
  ELSE /\ Do(x, {"semantic", "lexical", "ground"})
       /\ \A i \in DOMAIN x.todo :
            /\ x.todo[i].do = "ground" <=> i = Len(x.todo)
            /\ x.todo[i].do # "ground" => /\ x.todo[i].layer \in {1, 2}
                                          /\ x.call.layer # 3 - x.todo[i].layer
Answered(x) ==
  IF x.todo # << >> THEN x.answer.code = "pending" /\ x.answer.hits = {}
  ELSE x.answer.code = IF x.call.refused THEN "out_of_scope" ELSE RetrievalVerdict(x.answer.hits)

Questioning(x, C) ==
  /\ Asking(x) /\ Answered(x)
  /\ x.call.refused => x.answer.hits = {}
  /\ AllWithin(x.call, x.who, x.found[1] \cup x.found[2] \cup x.answer.hits, C)
  /\ x.pend = << >> /\ \A r \in x.rows : r.table # "documents"

Ingestion(x) ==
  /\ Do(x, {"scope", "ingest"}) /\ x.answer.code = "pending"
  /\ x.call.layer = 1 => Curator(x.who)

Reading(x) ==
  /\ Do(x, IF x.call.op = "list" THEN {"list"}
           ELSE {"classify", "status", "reset", "sources", "by_pack", "list"})
  /\ x.answer.code = "pending" /\ x.pend = << >>
  /\ x.call.op = "list" => x.answer.hits = {}

(* The service core's documents are named after a source that was looked   *)
(* up, and only source records are deleted.                                *)
SourceFirst(todo, source) ==
  \A i \in DOMAIN todo : todo[i].do = "core" /\ source = NoSource =>
    \E j \in DOMAIN todo : j < i /\ todo[j].do = "source"
DeletesSources(todo) ==
  \A i \in DOMAIN todo : todo[i].do = "delete" => todo[i].row.table = "source_records"
Loading(x) ==
  /\ Do(x, {"scope", "source", "delete", "new_source", "core", "intents", "line", "count"})
  /\ x.answer.code = "pending"
  /\ SourceFirst(x.todo, x.source) /\ DeletesSources(x.todo)

Program(s, x, C) ==
  IF s \in ApiSession
  THEN /\ x.call \in ApiCall
       /\ CASE x.call.op = "query" -> Questioning(x, C)
            [] x.call.op = "ingest" -> Ingestion(x)
            [] OTHER -> Reading(x)
  ELSE x.call \in LoadCall /\ Loading(x)

(* The rows it has written or is about to write.                           *)
IsSource(r) ==
  DOMAIN r = {"table", "id", "gen", "documents", "chunks", "records"} /\ r.gen # NoSource
RowOk(s, who, r) ==
  /\ r.table = "source_records" => IsSource(r)
  /\ r.table = "documents" => \/ Blessed(r, {})
                              \/ r.id = s /\ s \in ApiSession /\ Curator(who)
Written(s, x) ==
  /\ \A r \in x.rows : RowOk(s, x.who, r)
  /\ \A i \in DOMAIN x.pend : RowOk(s, x.who, x.pend[i]) /\ x.pend[i].table # "audit_events"
  /\ Audits(x.rows) = Verdict(s, x)
  /\ \A r \in x.gone : r.table = "source_records"

OpenOk(s, x, C) == Shape(x) /\ Program(s, x, C) /\ Written(s, x)

(* A session that is over: what a question and a list were answered with.  *)
DoneOk(s, x, C) ==
  s \in ApiSession =>
    /\ x.call.op = "query" =>
         /\ AllWithin(x.call, x.who, x.answer.hits, C)
         /\ x.answer.code \in Verdicts =>
              /\ x.call.refused <=> x.answer.code = "out_of_scope"
              /\ x.answer.hits = {} <=> x.answer.code # "grounded"
    /\ x.call.op = "list" =>
         \A h \in x.answer.hits : h.tenant = x.who.tenant /\ h.estate = x.who.estate

SessionOk(s, x, C) ==
  \/ x = Idle
  \/ x.pc = "open" /\ OpenOk(s, x, C)
  \/ x.pc = "done" /\ DoneOk(s, x, C)

(* The rows that are committed.                                            *)
RowsOk(R, C) ==
  /\ \A r \in R : r.table = "source_records" => r.gen # NoSource
  /\ \A r \in R : r.table = "documents" => Blessed(r, C)

(* The verdict rows with a session's id are the one its answer calls for.  *)
LedgerOf(R, s) == {r \in Audits(R) : r.id = s}
Due(s, x) == IF x.pc = "done" THEN Verdict(s, x) ELSE {}

Good(R, T) ==
  /\ DOMAIN T = Session
  /\ \A s \in Session : SessionOk(s, T[s], Curated(T))
  /\ RowsOk(R, Curated(T))
  /\ \A s \in ApiSession : LedgerOf(R, s) = Due(s, T[s])

RuntimeInv == Good(db, tx)
----------------------------------------------------------------------------
(* More sessions of curators can only allow more.                          *)
LEMMA MoreCurated ==
  ASSUME NEW C, NEW C2, C \subseteq C2
  PROVE  /\ \A R : RowsOk(R, C) => RowsOk(R, C2)
         /\ \A call, who, hits : AllWithin(call, who, hits, C) => AllWithin(call, who, hits, C2)
         /\ \A s, x : OpenOk(s, x, C) => OpenOk(s, x, C2)
         /\ \A s, x : DoneOk(s, x, C) => DoneOk(s, x, C2)
         /\ \A s, x : SessionOk(s, x, C) => SessionOk(s, x, C2)
<1>1. ASSUME NEW R, RowsOk(R, C) PROVE RowsOk(R, C2)
  BY <1>1 DEF RowsOk, Blessed
<1>2. ASSUME NEW call, NEW who, NEW hits, AllWithin(call, who, hits, C)
      PROVE  AllWithin(call, who, hits, C2)
  BY <1>2 DEF AllWithin, Within
<1>3. ASSUME NEW s, NEW x, OpenOk(s, x, C) PROVE OpenOk(s, x, C2)
  <2>1. ASSUME Questioning(x, C) PROVE Questioning(x, C2)
    BY <1>2, <2>1 DEF Questioning
  <2>2. Program(s, x, C2)
    BY <1>3, <2>1 DEF OpenOk, Program
  <2> QED BY <1>3, <2>2 DEF OpenOk
<1>4. ASSUME NEW s, NEW x, DoneOk(s, x, C) PROVE DoneOk(s, x, C2)
  BY <1>2, <1>4 DEF DoneOk
<1>5. ASSUME NEW s, NEW x, SessionOk(s, x, C) PROVE SessionOk(s, x, C2)
  BY <1>3, <1>4, <1>5 DEF SessionOk
<1> QED BY <1>1, <1>2, <1>3, <1>4, <1>5

(* What one session does leaves the others as they were.                   *)
LEMMA OneSessionMoves ==
  ASSUME NEW R, NEW R2, NEW T, NEW T2, NEW s \in Session, Good(R, T),
         DOMAIN T2 = Session, \A u \in Session : u # s => T2[u] = T[u], T[s].pc # "done",
         SessionOk(s, T2[s], Curated(T2)), RowsOk(R2, Curated(T2)),
         s \in ApiSession => LedgerOf(R2, s) = Due(s, T2[s]),
         \A u \in ApiSession : u # s => LedgerOf(R2, u) = LedgerOf(R, u)
  PROVE  Good(R2, T2)
<1>1. Curated(T) \subseteq Curated(T2)
  BY DEF Curated, Session
<1>2. \A u \in Session : SessionOk(u, T2[u], Curated(T2))
  <2>1. \A u \in Session : SessionOk(u, T[u], Curated(T))
    BY DEF Good
  <2>2. \A u \in Session : SessionOk(u, T[u], Curated(T2))
    BY <1>1, <2>1, MoreCurated
  <2> QED BY <2>2
<1>3. \A u \in ApiSession : LedgerOf(R2, u) = Due(u, T2[u])
  <2>1. \A u \in ApiSession : LedgerOf(R, u) = Due(u, T[u])
    BY DEF Good
  <2> QED BY <2>1 DEF Session
<1> QED BY <1>2, <1>3 DEF Good

(* A session that stays open, or is opened, without touching the tables.   *)
LEMMA OpenMoves ==
  ASSUME NEW R, NEW T, NEW T2, NEW s \in Session, Good(R, T),
         DOMAIN T2 = Session, \A u \in Session : u # s => T2[u] = T[u], T[s].pc # "done",
         OpenOk(s, T2[s], Curated(T))
  PROVE  Good(R, T2)
<1>1. Curated(T) \subseteq Curated(T2)
  BY DEF Curated, Session
<1>2. T2[s].pc = "open"
  BY DEF OpenOk, Shape
<1>3. SessionOk(s, T2[s], Curated(T2))
  <2>1. OpenOk(s, T2[s], Curated(T2))
    BY <1>1, MoreCurated
  <2> QED BY <1>2, <2>1 DEF SessionOk
<1>4. RowsOk(R, Curated(T2))
  <2>1. RowsOk(R, Curated(T))
    BY DEF Good
  <2> QED BY <1>1, <2>1, MoreCurated
<1>5. s \in ApiSession => LedgerOf(R, s) = Due(s, T2[s])
  <2>1. s \in ApiSession => LedgerOf(R, s) = Due(s, T[s])
    BY DEF Good
  <2> QED BY <1>2, <2>1 DEF Due
<1> QED BY <1>3, <1>4, <1>5, OneSessionMoves

(* A session that ends without a verdict and without touching the tables.  *)
LEMMA OverMoves ==
  ASSUME NEW R, NEW T, NEW T2, NEW s \in Session, Good(R, T),
         DOMAIN T2 = Session, \A u \in Session : u # s => T2[u] = T[u], T[s].pc # "done",
         T2[s].pc = "done", T2[s].answer.code \notin Verdicts, DoneOk(s, T2[s], Curated(T))
  PROVE  Good(R, T2)
<1>1. Curated(T) \subseteq Curated(T2)
  BY DEF Curated, Session
<1>2. SessionOk(s, T2[s], Curated(T2))
  <2>1. DoneOk(s, T2[s], Curated(T2))
    BY <1>1, MoreCurated
  <2> QED BY <2>1 DEF SessionOk
<1>3. RowsOk(R, Curated(T2))
  <2>1. RowsOk(R, Curated(T))
    BY DEF Good
  <2> QED BY <1>1, <2>1, MoreCurated
<1>4. s \in ApiSession => LedgerOf(R, s) = Due(s, T2[s])
  <2>1. s \in ApiSession => LedgerOf(R, s) = Due(s, T[s])
    BY DEF Good
  <2> QED BY <2>1 DEF Due, Verdict
<1> QED BY <1>2, <1>3, <1>4, OneSessionMoves
----------------------------------------------------------------------------
(* Which session takes which step.                                         *)
LEMMA WhoseStep ==
  ASSUME NEW s \in Session, NEW C, NEW x, OpenOk(s, x, C), x.todo # << >>
  PROVE  LET do == Head(x.todo).do IN
         /\ do \in {"semantic", "lexical", "ground", "refuse"} =>
              s \in ApiSession /\ x.call \in ApiCall /\ x.call.op = "query"
         /\ do = "ingest" => s \in ApiSession /\ x.call.op = "ingest"
         /\ do = "scope" => (s \in ApiSession => x.call.op = "ingest")
         /\ do \in {"source", "delete", "new_source", "core", "intents", "line", "count"} =>
              s \notin ApiSession
         /\ do \in {"list", "classify", "status", "reset", "sources", "by_pack"} =>
              s \in ApiSession /\ x.call.op \notin {"query", "ingest"}
         /\ do \in {"classify", "status", "reset", "sources", "by_pack"} => x.call.op # "list"
         /\ s \in ApiSession /\ x.call.op = "query" => do \in {"semantic", "lexical", "ground", "refuse"}
         /\ s \in ApiSession /\ x.call.op \notin {"query", "ingest"} =>
              do \in {"list", "classify", "status", "reset", "sources", "by_pack"}
         /\ s \in ApiSession /\ x.call.op = "list" => do = "list"
<1>1. 1 \in DOMAIN x.todo /\ Head(x.todo) = x.todo[1]
  BY TailSteps DEF OpenOk, Shape
<1> DEFINE do == Head(x.todo).do
<1>2. CASE s \notin ApiSession
  <2>1. do \in {"scope", "source", "delete", "new_source", "core", "intents", "line", "count"}
    BY <1>1, <1>2 DEF OpenOk, Program, Loading, Do
  <2> QED BY <1>2, <2>1
<1>3. CASE s \in ApiSession /\ x.call.op = "query"
  <2>1. Questioning(x, C) /\ x.call \in ApiCall
    BY <1>3 DEF OpenOk, Program
  <2>2. do \in {"semantic", "lexical", "ground", "refuse"}
    <3>1. CASE x.call.refused
      <4>1. x.todo = <<[do |-> "refuse"]>>
        BY <2>1, <3>1 DEF Questioning, Asking
      <4> QED BY <4>1
    <3>2. CASE ~x.call.refused
      BY <1>1, <2>1, <3>2 DEF Questioning, Asking, Do
    <3> QED BY <3>1, <3>2
  <2> QED BY <1>3, <2>1, <2>2
<1>4. CASE s \in ApiSession /\ x.call.op = "ingest"
  <2>1. Ingestion(x)
    BY <1>4 DEF OpenOk, Program
  <2>2. do \in {"scope", "ingest"}
    BY <1>1, <2>1 DEF Ingestion, Do
  <2> QED BY <1>4, <2>2
<1>5. CASE s \in ApiSession /\ x.call.op # "query" /\ x.call.op # "ingest"
  <2>1. Reading(x)
    BY <1>5 DEF OpenOk, Program
  <2>2. do \in (IF x.call.op = "list" THEN {"list"}
           ELSE {"classify", "status", "reset", "sources", "by_pack", "list"})
    BY <1>1, <2>1 DEF Reading, Do
  <2> QED BY <1>5, <2>2
<1> QED BY <1>2, <1>3, <1>4, <1>5

(* A step that is taken leaves the rest of the program.                    *)
LEMMA RestOfProgram ==
  ASSUME NEW s \in Session, NEW C, NEW x, NEW y, OpenOk(s, x, C), x.todo # << >>,
         s \in ApiSession => x.call.op # "query",
         y.call = x.call, y.who = x.who, y.todo = Tail(x.todo),
         y.answer.code = x.answer.code,
         s \in ApiSession /\ x.call.op = "list" => y.answer.hits = x.answer.hits,
         s \in ApiSession /\ x.call.op # "ingest" => y.pend = << >>,
         y.source = x.source \/ y.source # NoSource,
         Head(x.todo).do = "source" => y.source # NoSource
  PROVE  Program(s, y, C)
<1>1. /\ 1 \in DOMAIN x.todo /\ Head(x.todo) = x.todo[1] /\ Len(x.todo) \in Nat \ {0}
      /\ DOMAIN x.todo = 1 .. Len(x.todo) /\ DOMAIN y.todo = 1 .. Len(x.todo) - 1
      /\ \A i \in DOMAIN y.todo : i + 1 \in DOMAIN x.todo /\ y.todo[i] = x.todo[i + 1]
  BY TailSteps DEF OpenOk, Shape
<1>2. ASSUME NEW D, Do(x, D) PROVE Do(y, D)
  BY <1>1, <1>2 DEF Do
<1>3. CASE s \notin ApiSession
  <2>1. Loading(x) /\ x.call \in LoadCall
    BY <1>3 DEF OpenOk, Program
  <2>2. ASSUME NEW i \in DOMAIN y.todo, y.todo[i].do = "core", y.source = NoSource
        PROVE  \E j \in DOMAIN y.todo : j < i /\ y.todo[j].do = "source"
    <3>1. i + 1 \in DOMAIN x.todo /\ x.todo[i + 1].do = "core" /\ x.source = NoSource
      BY <1>1, <2>2
    <3>2. PICK j \in DOMAIN x.todo : j < i + 1 /\ x.todo[j].do = "source"
      BY <2>1, <3>1 DEF Loading, SourceFirst
    <3>3. j # 1
      BY <1>1, <2>2, <3>2
    <3>4. j \in Nat /\ j > 1 /\ i \in Nat /\ i <= Len(x.todo) - 1
      BY <1>1, <3>2, <3>3
    <3>5. j - 1 \in DOMAIN y.todo /\ j - 1 < i /\ (j - 1) + 1 = j
      BY <1>1, <3>2, <3>4
    <3>6. y.todo[j - 1] = x.todo[j]
      BY <1>1, <3>5
    <3> QED BY <3>2, <3>5, <3>6
  <2>3. DeletesSources(y.todo)
    <3> SUFFICES ASSUME NEW i \in DOMAIN y.todo, y.todo[i].do = "delete"
                 PROVE  y.todo[i].row.table = "source_records"
      BY DEF DeletesSources
    <3>1. i + 1 \in DOMAIN x.todo /\ y.todo[i] = x.todo[i + 1]
      BY <1>1
    <3>2. x.todo[i + 1].do = "delete" => x.todo[i + 1].row.table = "source_records"
      BY <2>1, <3>1 DEF Loading, DeletesSources
    <3> QED BY <3>1, <3>2
  <2>4. Do(y, {"scope", "source", "delete", "new_source", "core", "intents", "line", "count"})
    BY <1>2, <2>1 DEF Loading
  <2>5. y.answer.code = "pending"
    BY <2>1 DEF Loading
  <2>6. Loading(y)
    BY <2>2, <2>3, <2>4, <2>5 DEF Loading, SourceFirst
  <2> QED BY <1>3, <2>1, <2>6 DEF Program
<1>4. CASE s \in ApiSession /\ x.call.op = "ingest"
  <2>1. Ingestion(x) /\ x.call \in ApiCall
    BY <1>4 DEF OpenOk, Program
  <2>2. Do(y, {"scope", "ingest"})
    BY <1>2, <2>1 DEF Ingestion
  <2>3. Ingestion(y)
    BY <2>1, <2>2 DEF Ingestion
  <2> QED BY <1>4, <2>1, <2>3 DEF Program
<1>5. CASE s \in ApiSession /\ x.call.op # "ingest"
  <2>1. Reading(x) /\ x.call \in ApiCall
    BY <1>5 DEF OpenOk, Program
  <2>2. Do(y, IF y.call.op = "list" THEN {"list"}
              ELSE {"classify", "status", "reset", "sources", "by_pack", "list"})
    BY <1>2, <2>1 DEF Reading
  <2>3. Reading(y)
    BY <1>5, <2>1, <2>2 DEF Reading
  <2> QED BY <1>5, <2>1, <2>3 DEF Program
<1> QED BY <1>3, <1>4, <1>5

(* A session that has written nothing new.                                 *)
LEMMA SameRows ==
  ASSUME NEW s, NEW x, NEW y, Written(s, x), y.who = x.who, y.rows = x.rows, y.gone = x.gone,
         y.answer.code = x.answer.code, x.answer.code = "pending",
         \A i \in DOMAIN y.pend : RowOk(s, x.who, y.pend[i]) /\ y.pend[i].table # "audit_events"
  PROVE  Written(s, y)
<1>1. Verdict(s, y) = Verdict(s, x)
  BY DEF Verdict, Verdicts
<1> QED BY <1>1 DEF Written

(* While nothing is answered there is no verdict.                          *)
LEMMA NotYetAnswered ==
  ASSUME NEW s \in Session, NEW C, NEW x, OpenOk(s, x, C),
         x.todo # << >> \/ s \notin ApiSession \/ x.call.op # "query"
  PROVE  x.answer.code = "pending"
<1>1. CASE s \notin ApiSession
  BY <1>1 DEF OpenOk, Program, Loading
<1>2. CASE s \in ApiSession /\ x.call.op = "query"
  BY <1>2 DEF OpenOk, Program, Questioning, Answered
<1>3. CASE s \in ApiSession /\ x.call.op = "ingest"
  BY <1>3 DEF OpenOk, Program, Ingestion
<1>4. CASE s \in ApiSession /\ x.call.op # "query" /\ x.call.op # "ingest"
  BY <1>4 DEF OpenOk, Program, Reading
<1> QED BY <1>1, <1>2, <1>3, <1>4
----------------------------------------------------------------------------
(* The actions of one session.                                             *)
LEMMA AtStep ==
  ASSUME RuntimeInv, NEW s \in Session, IsOpen(s)
  PROVE  /\ DOMAIN tx = Session /\ tx[s].pc = "open"
         /\ OpenOk(s, tx[s], Curated(tx))
<1>1. SessionOk(s, tx[s], Curated(tx)) /\ DOMAIN tx = Session
  BY DEF RuntimeInv, Good
<1> QED BY <1>1 DEF SessionOk, IsOpen, Idle

LEMMA FailMoves ==
  ASSUME RuntimeInv, NEW s \in Session, IsOpen(s), NEW code, code \notin Verdicts, Fail(s, code)
  PROVE  RuntimeInv'
<1>1. DOMAIN tx = Session /\ tx[s].pc = "open"
  BY AtStep
<1>2. db' = db
  BY DEF Fail
<1>3. /\ DOMAIN tx' = Session
      /\ \A u \in Session : u # s => tx'[u] = tx[u]
      /\ tx'[s] = Over(tx[s].call, tx[s].who, code, {})
  BY <1>1 DEF Fail
<1>4. tx'[s].pc = "done" /\ tx'[s].answer.code \notin Verdicts
  BY <1>3 DEF Over
<1>5. DoneOk(s, tx'[s], Curated(tx))
  BY <1>3 DEF Over, DoneOk, AllWithin
<1>6. Good(db, tx')
  BY <1>1, <1>3, <1>4, <1>5, OverMoves DEF RuntimeInv
<1> QED BY <1>2, <1>6 DEF RuntimeInv

LEMMA FlushMoves ==
  ASSUME RuntimeInv, NEW s \in Session, Flush(s)
  PROVE  RuntimeInv'
<1>1. CASE Fail(s, "integrity_error")
  BY <1>1, FailMoves DEF Flush, Verdicts
<1>2. ASSUME ~ Fail(s, "integrity_error") PROVE RuntimeInv'
  <2>1. /\ tx' = [tx EXCEPT ![s].pend = Tail(@), ![s].rows = @ \cup {Head(tx[s].pend)}]
        /\ db' = db /\ IsOpen(s) /\ tx[s].pend # << >>
    BY <1>2 DEF Flush
  <2>2. DOMAIN tx = Session /\ tx[s].pc = "open" /\ OpenOk(s, tx[s], Curated(tx))
    BY <2>1, AtStep
  <2>3. PICK x : x = tx[s]
    OBVIOUS
  <2>4. PICK y : y = tx'[s]
    OBVIOUS
  <2>5. Shape(x) /\ Program(s, x, Curated(tx)) /\ Written(s, x)
    BY <2>2, <2>3 DEF OpenOk
  <2>6. /\ DOMAIN tx' = Session
        /\ \A u \in Session : u # s => tx'[u] = tx[u]
        /\ y = [[x EXCEPT !.pend = Tail(@)] EXCEPT !.rows = @ \cup {Head(x.pend)}]
    BY <2>1, <2>2, <2>3, <2>4
  <2>7. /\ y.pc = "open" /\ DOMAIN y = DOMAIN x
        /\ y.call = x.call /\ y.who = x.who /\ y.todo = x.todo /\ y.gone = x.gone
        /\ y.source = x.source /\ y.found = x.found /\ y.answer = x.answer
        /\ y.pend = Tail(x.pend) /\ y.rows = x.rows \cup {Head(x.pend)}
    BY <2>5, <2>6 DEF Shape
  <2>8. /\ IsSeq(y.pend) /\ 1 \in DOMAIN x.pend /\ Head(x.pend) = x.pend[1]
        /\ \A i \in DOMAIN y.pend : i + 1 \in DOMAIN x.pend /\ y.pend[i] = x.pend[i + 1]
    BY <2>1, <2>3, <2>5, <2>7, TailSteps DEF Shape
  <2>9. Shape(y)
    BY <2>5, <2>7, <2>8 DEF Shape
  <2>10. RowOk(s, x.who, Head(x.pend)) /\ Head(x.pend).table # "audit_events"
    BY <2>5, <2>8 DEF Written
  <2>11. Written(s, y)
    <3>1. Audits(y.rows) = Audits(x.rows)
      BY <2>7, <2>10 DEF Audits
    <3>2. Verdict(s, y) = Verdict(s, x)
      BY <2>7 DEF Verdict
    <3>3. \A i \in DOMAIN y.pend : RowOk(s, x.who, y.pend[i]) /\ y.pend[i].table # "audit_events"
      BY <2>5, <2>8 DEF Written
    <3>4. \A r \in y.rows : RowOk(s, x.who, r)
      BY <2>5, <2>7, <2>10 DEF Written
    <3> QED BY <2>5, <2>7, <3>1, <3>2, <3>3, <3>4 DEF Written
  <2>12. Program(s, y, Curated(tx))
    <3>1. CASE s \notin ApiSession
      <4>1. Loading(x) /\ x.call \in LoadCall
        BY <2>5, <3>1 DEF Program
      <4>2. Loading(y)
        BY <2>7, <4>1 DEF Loading, Do
      <4> QED BY <2>7, <3>1, <4>1, <4>2 DEF Program
    <3>2. CASE s \in ApiSession /\ x.call.op = "query"
      BY <2>1, <2>3, <2>5, <3>2 DEF Program, Questioning
    <3>3. CASE s \in ApiSession /\ x.call.op = "ingest"
      BY <2>5, <2>7, <3>3 DEF Program, Ingestion, Do
    <3>4. CASE s \in ApiSession /\ x.call.op # "query" /\ x.call.op # "ingest"
      BY <2>1, <2>3, <2>5, <3>4 DEF Program, Reading
    <3> QED BY <3>1, <3>2, <3>3, <3>4
  <2>13. OpenOk(s, tx'[s], Curated(tx))
    BY <2>4, <2>9, <2>11, <2>12 DEF OpenOk
  <2>14. Good(db, tx')
    BY <2>2, <2>6, <2>13, OpenMoves DEF RuntimeInv
  <2> QED BY <2>1, <2>14 DEF RuntimeInv
<1> QED BY <1>1, <1>2

LEMMA DeadlockMoves ==
  ASSUME RuntimeInv, NEW s \in Session, BreakDeadlock(s)
  PROVE  RuntimeInv'
<1>1. PICK u \in Session : WaitsFor(s, u)
  BY DEF BreakDeadlock
<1>2. IsOpen(s)
  BY <1>1 DEF WaitsFor, Wanted
<1>3. Fail(s, "deadlock_detected")
  BY DEF BreakDeadlock
<1> QED BY <1>2, <1>3, FailMoves DEF Verdicts

(* One step of a session that is no question's.                            *)
Works(s, do, x, y) ==
  /\ y.pc = "open" /\ DOMAIN y = DOMAIN x /\ y.call = x.call /\ y.who = x.who
  /\ DOMAIN y.found = {1, 2} /\ DOMAIN y.answer = {"code", "hits"}
  /\ y.answer.code = x.answer.code
  /\ do = "list" => y.answer.hits = x.answer.hits
  /\ y.todo = Tail(x.todo) /\ IsSeq(y.pend)
  /\ do \notin {"ingest", "scope", "new_source", "core"} => y.pend = << >>
  /\ y.source = x.source \/ y.source # NoSource
  /\ do = "source" => y.source # NoSource
  /\ Written(s, x) /\ x.answer.code = "pending" => Written(s, y)

LEMMA WorkMoves ==
  ASSUME RuntimeInv, NEW s \in Session, NEW do, At(s, do),
         do \notin {"semantic", "lexical", "ground", "refuse"},
         NEW y, Works(s, do, tx[s], y), tx' = [tx EXCEPT ![s] = y], db' = db
  PROVE  RuntimeInv'
<1>1. /\ IsOpen(s) /\ tx[s].pend = << >> /\ tx[s].todo # << >> /\ Head(tx[s].todo).do = do
  BY DEF At
<1>2. DOMAIN tx = Session /\ tx[s].pc = "open" /\ OpenOk(s, tx[s], Curated(tx))
  BY <1>1, AtStep
<1>3. /\ DOMAIN tx' = Session
      /\ \A u \in Session : u # s => tx'[u] = tx[u]
      /\ y = tx'[s]
  BY <1>2
<1>4. /\ do = "ingest" => s \in ApiSession /\ tx[s].call.op = "ingest"
      /\ do = "scope" => (s \in ApiSession => tx[s].call.op = "ingest")
      /\ do \in {"source", "delete", "new_source", "core", "intents", "line", "count"} =>
              s \notin ApiSession
      /\ do \in {"list", "classify", "status", "reset", "sources", "by_pack"} =>
              s \in ApiSession /\ tx[s].call.op \notin {"query", "ingest"}
      /\ do \in {"classify", "status", "reset", "sources", "by_pack"} => tx[s].call.op # "list"
  BY <1>1, <1>2, WhoseStep
<1>5. /\ s \in ApiSession => tx[s].call.op # "query"
      /\ s \in ApiSession /\ tx[s].call.op \notin {"query", "ingest"} =>
              do \in {"list", "classify", "status", "reset", "sources", "by_pack"}
      /\ s \in ApiSession /\ tx[s].call.op = "list" => do = "list"
  BY <1>1, <1>2, WhoseStep
<1>6. tx[s].answer.code = "pending"
  BY <1>1, <1>2, NotYetAnswered
<1>7. Written(s, y)
  BY <1>2, <1>6 DEF OpenOk, Works
<1>8. Program(s, y, Curated(tx))
  BY <1>1, <1>2, <1>5, RestOfProgram DEF Works
<1>9. Shape(y)
  <2>1. Shape(tx[s])
    BY <1>2 DEF OpenOk
  <2>2. IsSeq(tx[s].todo)
    BY <2>1 DEF Shape
  <2>3. IsSeq(Tail(tx[s].todo))
    BY <1>1, <2>2, TailSteps
  <2>4. IsSeq(y.todo)
    BY <2>3 DEF Works
  <2> QED BY <2>1, <2>4 DEF Shape, Works
<1>10. OpenOk(s, tx'[s], Curated(tx))
  BY <1>3, <1>7, <1>8, <1>9 DEF OpenOk
<1>11. Good(db, tx')
  <2>1. Good(db, tx) /\ tx[s].pc # "done"
    BY <1>2 DEF RuntimeInv
  <2>2. ASSUME NEW T2, DOMAIN T2 = Session, \A u \in Session : u # s => T2[u] = tx[u],
               OpenOk(s, T2[s], Curated(tx))
        PROVE  Good(db, T2)
    BY <2>1, <2>2, OpenMoves
  <2> QED BY <1>3, <1>10, <2>2
<1> QED BY <1>11 DEF RuntimeInv

LEMMA ScopeMoves ==
  ASSUME RuntimeInv, NEW s \in Session, EnsureScope(s)
  PROVE  RuntimeInv'
<1>1. db' = db /\ At(s, "scope") /\ IsOpen(s)
  BY DEF EnsureScope, At
<1>2. DOMAIN tx = Session /\ Shape(tx[s])
  BY <1>1, AtStep DEF OpenOk
<1>3. PICK p, q : /\ p = << >> \/ \E t : p = <<TenantRow(t)>>
                  /\ q = << >> \/ \E t, e, l : q = <<ProjectRow(t, e, l)>>
                  /\ tx' = [tx EXCEPT ![s].todo = Rest(s), ![s].pend = p \o q]
  BY DEF EnsureScope
<1>4. PICK x : x = tx[s]
  OBVIOUS
<1>5. PICK y : y = [[x EXCEPT !.todo = Tail(x.todo)] EXCEPT !.pend = p \o q]
  OBVIOUS
<1>6. tx' = [tx EXCEPT ![s] = y]
  BY <1>2, <1>3, <1>4, <1>5 DEF Rest
<1>7. /\ y.pc = "open" /\ DOMAIN y = DOMAIN x
      /\ y.call = x.call /\ y.who = x.who /\ y.gone = x.gone /\ y.rows = x.rows
      /\ y.source = x.source /\ y.found = x.found /\ y.answer = x.answer
      /\ y.pend = p \o q /\ y.todo = Tail(x.todo)
  BY <1>2, <1>4, <1>5 DEF Shape
<1>8. IsSeq(p) /\ IsSeq(q) /\ IsSeq(y.pend)
  <2>1. IsSeq(p) /\ IsSeq(q)
    BY <1>3, ShortSteps
  <2> QED BY <1>7, <2>1, ConcatSteps
<1>9. \A i \in DOMAIN y.pend : y.pend[i].table \in {"tenants", "estate_projects"}
  <2>1. \A i \in DOMAIN p : p[i].table = "tenants"
    BY <1>3 DEF TenantRow
  <2>2. \A i \in DOMAIN q : q[i].table = "estate_projects"
    BY <1>3 DEF ProjectRow
  <2>3. ASSUME NEW i \in DOMAIN y.pend PROVE y.pend[i].table \in {"tenants", "estate_projects"}
    <3>1. (\E j \in DOMAIN p : y.pend[i] = p[j]) \/ (\E j \in DOMAIN q : y.pend[i] = q[j])
      BY <1>7, <1>8, <2>3, ConcatFrom
    <3> QED BY <2>1, <2>2, <3>1
  <2> QED BY <2>3
<1>10. Written(s, x) /\ x.answer.code = "pending" => Written(s, y)
  <2>1. \A i \in DOMAIN y.pend : RowOk(s, x.who, y.pend[i]) /\ y.pend[i].table # "audit_events"
    BY <1>9 DEF RowOk
  <2> QED BY <1>7, <2>1, SameRows
<1>11. DOMAIN y.found = {1, 2} /\ DOMAIN y.answer = {"code", "hits"}
  BY <1>2, <1>4, <1>7 DEF Shape
<1>12. Works(s, "scope", x, y)
  BY <1>7, <1>8, <1>10, <1>11 DEF Works
<1> QED BY <1>1, <1>4, <1>6, <1>12, WorkMoves

LEMMA DeleteMoves ==
  ASSUME RuntimeInv, NEW s \in Session, DeleteSource(s)
  PROVE  RuntimeInv'
<1>1. db' = db /\ At(s, "delete") /\ IsOpen(s)
  BY DEF DeleteSource, At
<1>2. DOMAIN tx = Session /\ Shape(tx[s]) /\ OpenOk(s, tx[s], Curated(tx))
  BY <1>1, AtStep DEF OpenOk
<1>3. PICK row : row = Head(tx[s].todo).row
  OBVIOUS
<1>4. PICK x : x = tx[s]
  OBVIOUS
<1>5. PICK y : y = [[x EXCEPT !.todo = Tail(x.todo)] EXCEPT !.gone = x.gone \cup (db \cap {row})]
  OBVIOUS
<1>6. tx' = [tx EXCEPT ![s] = y]
  BY <1>2, <1>3, <1>4, <1>5 DEF DeleteSource, Rest
<1>7. /\ y.pc = "open" /\ DOMAIN y = DOMAIN x
      /\ y.call = x.call /\ y.who = x.who /\ y.rows = x.rows
      /\ y.source = x.source /\ y.found = x.found /\ y.answer = x.answer
      /\ y.pend = x.pend /\ y.todo = Tail(x.todo)
      /\ y.gone = x.gone \cup (db \cap {row})
  BY <1>2, <1>4, <1>5 DEF Shape
<1>8. x.pend = << >> /\ IsSeq(y.pend) /\ y.pend = << >>
  BY <1>1, <1>4, <1>7, ShortSteps DEF At
<1>9. row.table = "source_records"
  <2>1. x.todo # << >> /\ Head(x.todo).do = "delete"
    BY <1>1, <1>4 DEF At
  <2>2. s \notin ApiSession
    BY <1>2, <1>4, <2>1, WhoseStep
  <2>3. Loading(x)
    BY <1>2, <1>4, <2>2 DEF OpenOk, Program
  <2>4. 1 \in DOMAIN x.todo /\ Head(x.todo) = x.todo[1]
    BY <1>2, <1>4, <2>1, TailSteps DEF Shape
  <2>5. x.todo[1].row.table = "source_records"
    BY <2>1, <2>3, <2>4 DEF Loading, DeletesSources
  <2> QED BY <1>3, <1>4, <2>4, <2>5
<1>10. ASSUME Written(s, x), x.answer.code = "pending" PROVE Written(s, y)
  <2>1. Verdict(s, y) = Verdict(s, x)
    BY <1>7 DEF Verdict
  <2>2. \A r \in y.gone : r.table = "source_records"
    BY <1>7, <1>9, <1>10 DEF Written
  <2> QED BY <1>7, <1>10, <2>1, <2>2 DEF Written
<1>11. DOMAIN y.found = {1, 2} /\ DOMAIN y.answer = {"code", "hits"}
  BY <1>2, <1>4, <1>7 DEF Shape
<1>12. Works(s, "delete", x, y)
  BY <1>7, <1>8, <1>10, <1>11 DEF Works
<1> QED BY <1>1, <1>4, <1>6, <1>12, WorkMoves

LEMMA NewSourceMoves ==
  ASSUME RuntimeInv, NEW s \in Session, NewSource(s)
  PROVE  RuntimeInv'
<1>1. db' = db /\ At(s, "new_source") /\ IsOpen(s)
  BY DEF NewSource, At
<1>2. DOMAIN tx = Session /\ Shape(tx[s])
  BY <1>1, AtStep DEF OpenOk
<1>3. PICK row : row = SourceRow(tx[s].call.pack, s)
  OBVIOUS
<1>4. PICK x : x = tx[s]
  OBVIOUS
<1>5. PICK y : y = [[x EXCEPT !.todo = Tail(x.todo)] EXCEPT !.pend = <<row>>]
  OBVIOUS
<1>6. tx' = [tx EXCEPT ![s] = y]
  BY <1>2, <1>3, <1>4, <1>5 DEF NewSource, Rest
<1>7. /\ y.pc = "open" /\ DOMAIN y = DOMAIN x
      /\ y.call = x.call /\ y.who = x.who /\ y.rows = x.rows /\ y.gone = x.gone
      /\ y.source = x.source /\ y.found = x.found /\ y.answer = x.answer
      /\ y.pend = <<row>> /\ y.todo = Tail(x.todo)
  BY <1>2, <1>4, <1>5 DEF Shape
<1>8. IsSeq(y.pend)
  BY <1>7, ShortSteps
<1>9. row.table = "source_records" /\ IsSource(row)
  BY <1>3, RuntimeSessions DEF SourceRow, IsSource
<1>10. Written(s, x) /\ x.answer.code = "pending" => Written(s, y)
  <2>1. \A i \in DOMAIN y.pend : RowOk(s, x.who, y.pend[i]) /\ y.pend[i].table # "audit_events"
    BY <1>7, <1>9 DEF RowOk
  <2> QED BY <1>7, <2>1, SameRows
<1>11. DOMAIN y.found = {1, 2} /\ DOMAIN y.answer = {"code", "hits"}
  BY <1>2, <1>4, <1>7 DEF Shape
<1>12. Works(s, "new_source", x, y)
  BY <1>7, <1>8, <1>10, <1>11 DEF Works
<1> QED BY <1>1, <1>4, <1>6, <1>12, WorkMoves

LEMMA LookMoves ==
  ASSUME RuntimeInv, NEW s \in Session, LookSource(s)
  PROVE  RuntimeInv'
<1>1. db' = db /\ At(s, "source") /\ IsOpen(s) /\ tx[s].todo # << >> /\ tx[s].pend = << >>
      /\ Head(tx[s].todo).do = "source"
  BY DEF LookSource, At
<1>2. DOMAIN tx = Session /\ Shape(tx[s]) /\ OpenOk(s, tx[s], Curated(tx))
  BY <1>1, AtStep DEF OpenOk
<1>3. PICK existing : existing = {r \in In("source_records", Visible(s)) : r.id = tx[s].call.pack}
  OBVIOUS
<1>4. PICK x : x = tx[s]
  OBVIOUS
<1>5. \A r \in existing : r.table = "source_records" /\ r.gen # NoSource
  <2>1. \A r \in db : r.table = "source_records" => r.gen # NoSource
    BY DEF RuntimeInv, Good, RowsOk
  <2>2. \A r \in x.rows : r.table = "source_records" => r.gen # NoSource
    BY <1>2, <1>4 DEF OpenOk, Written, RowOk, IsSource
  <2> QED BY <1>3, <1>4, <2>1, <2>2 DEF In, Visible
<1>6. s \notin ApiSession
  BY <1>1, <1>2, WhoseStep
<1>7. CASE existing # {} /\ ~tx[s].call.force
  <2>1. PICK r : r = CHOOSE e \in existing : TRUE
    OBVIOUS
  <2>2. r \in existing
    BY <1>7, <2>1
  <2>3. PICK y : y = [[x EXCEPT !.todo = Tail(x.todo)] EXCEPT !.source = r.gen]
    OBVIOUS
  <2>4. tx' = [tx EXCEPT ![s] = y]
    BY <1>2, <1>3, <1>4, <1>7, <2>1, <2>3 DEF LookSource, Rest
  <2>5. /\ y.pc = "open" /\ DOMAIN y = DOMAIN x
        /\ y.call = x.call /\ y.who = x.who /\ y.rows = x.rows /\ y.gone = x.gone
        /\ y.source = r.gen /\ y.found = x.found /\ y.answer = x.answer
        /\ y.pend = x.pend /\ y.todo = Tail(x.todo)
    BY <1>2, <1>4, <2>3 DEF Shape
  <2>6. y.pend = << >> /\ IsSeq(y.pend)
    BY <1>1, <1>4, <2>5, ShortSteps
  <2>7. Written(s, x) /\ x.answer.code = "pending" => Written(s, y)
    BY <2>5, <2>6, SameRows
  <2>8. DOMAIN y.found = {1, 2} /\ DOMAIN y.answer = {"code", "hits"}
    BY <1>2, <1>4, <2>5 DEF Shape
  <2>9. Works(s, "source", x, y)
    BY <1>5, <2>2, <2>5, <2>6, <2>7, <2>8 DEF Works
  <2> QED BY <1>1, <1>4, <2>4, <2>9, WorkMoves
<1>8. CASE existing = {} \/ tx[s].call.force
  <2>1. PICK r : r = CHOOSE e \in existing : TRUE
    OBVIOUS
  <2>2. PICK p : p = IF existing = {} THEN << >> ELSE <<[do |-> "delete", row |-> r]>>
    OBVIOUS
  <2>3. PICK q : q = <<[do |-> "new_source"]>>
    OBVIOUS
  <2>4. PICK y : y = [[x EXCEPT !.source = s] EXCEPT !.todo = p \o q \o Tail(x.todo)]
    OBVIOUS
  <2>5. tx' = [tx EXCEPT ![s] = y]
    BY <1>2, <1>3, <1>4, <1>8, <2>1, <2>2, <2>3, <2>4 DEF LookSource, Rest
  <2>6. /\ y.pc = "open" /\ DOMAIN y = DOMAIN x
        /\ y.call = x.call /\ y.who = x.who /\ y.rows = x.rows /\ y.gone = x.gone
        /\ y.source = s /\ y.found = x.found /\ y.answer = x.answer
        /\ y.pend = x.pend /\ y.todo = p \o q \o Tail(x.todo)
    BY <1>2, <1>4, <2>4 DEF Shape
  <2>7. Loading(x) /\ x.call \in LoadCall /\ Written(s, x)
    BY <1>2, <1>4, <1>6 DEF OpenOk, Program
  <2>8. IsSeq(p) /\ IsSeq(q) /\ IsSeq(x.todo) /\ IsSeq(Tail(x.todo))
    <3>1. IsSeq(p) /\ IsSeq(q)
      BY <2>2, <2>3, ShortSteps
    <3>2. IsSeq(x.todo)
      BY <1>2, <1>4 DEF Shape
    <3> QED BY <1>1, <1>4, <3>1, <3>2, TailSteps
  <2>9. \A i \in DOMAIN p : p[i].do = "delete" /\ p[i].row.table = "source_records"
    <3>1. CASE existing = {}
      BY <2>2, <3>1
    <3>2. CASE existing # {}
      <4>1. r \in existing
        BY <2>1, <3>2
      <4>2. p = <<[do |-> "delete", row |-> r]>> /\ r.table = "source_records"
        BY <1>5, <2>2, <3>2, <4>1
      <4> QED BY <4>2
    <3> QED BY <3>1, <3>2
  <2>10. \A i \in DOMAIN Tail(x.todo) :
           /\ Tail(x.todo)[i].do \in {"scope", "source", "delete", "new_source", "core",
                                      "intents", "line", "count"}
           /\ Tail(x.todo)[i].do = "delete" => Tail(x.todo)[i].row.table = "source_records"
    <3> TAKE i \in DOMAIN Tail(x.todo)
    <3>1. i + 1 \in DOMAIN x.todo /\ Tail(x.todo)[i] = x.todo[i + 1]
      BY <1>1, <1>4, <2>8, TailSteps
    <3> QED BY <2>7, <3>1 DEF Loading, Do, DeletesSources
  <2>11. IsSeq(p \o q) /\ IsSeq(y.todo)
    BY <2>6, <2>8, ConcatSteps
  <2>12. \A i \in DOMAIN (p \o q) :
           /\ (p \o q)[i].do \in {"delete", "new_source"}
           /\ (p \o q)[i].do = "delete" => (p \o q)[i].row.table = "source_records"
    <3>1. \A j \in DOMAIN q : q[j].do = "new_source"
      <4>1. DOMAIN q = {1} /\ q[1] = [do |-> "new_source"]
        BY <2>3
      <4>2. q[1].do = "new_source"
        BY <4>1
      <4> QED BY <4>1, <4>2
    <3>2. ASSUME NEW pq, pq = p \o q, NEW i \in DOMAIN pq
          PROVE  (\E j \in DOMAIN p : pq[i] = p[j]) \/ (\E j \in DOMAIN q : pq[i] = q[j])
      <4>1. IsSeq(p) /\ IsSeq(q)
        BY <2>8
      <4>2. \A k \in DOMAIN (p \o q) : (\E j \in DOMAIN p : (p \o q)[k] = p[j]) \/ (\E j \in DOMAIN q : (p \o q)[k] = q[j])
        BY <4>1, ConcatFrom
      <4> QED BY <3>2, <4>2
    <3>3. ASSUME NEW pq, pq = p \o q, NEW i \in DOMAIN pq
          PROVE  /\ pq[i].do \in {"delete", "new_source"}
                 /\ pq[i].do = "delete" => pq[i].row.table = "source_records"
      <4>1. (\E j \in DOMAIN p : pq[i] = p[j]) \/ (\E j \in DOMAIN q : pq[i] = q[j])
        BY <3>2, <3>3
      <4> QED BY <2>9, <3>1, <4>1
    <3> QED BY <3>3
  <2>13. \A i \in DOMAIN y.todo :
           /\ y.todo[i].do \in {"scope", "source", "delete", "new_source", "core",
                                "intents", "line", "count"}
           /\ y.todo[i].do = "delete" => y.todo[i].row.table = "source_records"
    <3> TAKE i \in DOMAIN y.todo
    <3>1. \/ \E j \in DOMAIN (p \o q) : y.todo[i] = (p \o q)[j]
          \/ \E j \in DOMAIN Tail(x.todo) : y.todo[i] = Tail(x.todo)[j]
      <4>1. PICK pq : pq = p \o q
        OBVIOUS
      <4>2. y.todo = pq \o Tail(x.todo) /\ IsSeq(pq) /\ IsSeq(Tail(x.todo))
        BY <2>6, <2>8, <2>11, <4>1
      <4>3. \/ \E j \in DOMAIN pq : y.todo[i] = pq[j]
            \/ \E j \in DOMAIN Tail(x.todo) : y.todo[i] = Tail(x.todo)[j]
        BY <4>2, ConcatFrom
      <4> QED BY <4>1, <4>3
    <3> QED BY <2>10, <2>12, <3>1
  <2>14. Loading(y)
    <3>1. SourceFirst(y.todo, y.source)
      BY <2>6, RuntimeSessions DEF SourceFirst
    <3>2. DeletesSources(y.todo)
      BY <2>13 DEF DeletesSources
    <3>3. Do(y, {"scope", "source", "delete", "new_source", "core", "intents", "line", "count"})
      BY <2>13 DEF Do
    <3> QED BY <2>6, <2>7, <3>1, <3>2, <3>3 DEF Loading
  <2>15. Shape(y)
    BY <1>2, <1>4, <2>6, <2>11 DEF Shape
  <2>16. Written(s, y)
    BY <2>6, <2>7 DEF Written, Verdict
  <2>17. Program(s, y, Curated(tx))
    BY <1>6, <2>6, <2>7, <2>14 DEF Program
  <2>18. OpenOk(s, y, Curated(tx))
    BY <2>15, <2>16, <2>17 DEF OpenOk
  <2>19. /\ DOMAIN tx' = Session /\ tx'[s] = y
         /\ \A u \in Session : u # s => tx'[u] = tx[u]
    BY <1>2, <2>5
  <2>20. Good(db, tx')
    <3>1. Good(db, tx) /\ tx[s].pc # "done"
      BY <1>2 DEF RuntimeInv, Shape
    <3>2. ASSUME NEW T2, DOMAIN T2 = Session, \A u \in Session : u # s => T2[u] = tx[u],
                 OpenOk(s, T2[s], Curated(tx))
          PROVE  Good(db, T2)
      BY <3>1, <3>2, OpenMoves
    <3> QED BY <2>18, <2>19, <3>2
  <2> QED BY <1>1, <2>20 DEF RuntimeInv
<1> QED BY <1>7, <1>8

LEMMA EmbedderFailMoves ==
  ASSUME RuntimeInv, NEW s \in Session, EmbedderFails(s)
  PROVE  RuntimeInv'
<1>1. IsOpen(s) /\ Fail(s, "no_embedder")
  BY DEF EmbedderFails, At
<1> QED BY <1>1, FailMoves DEF Verdicts

(* One step of a session that only fills its list of inserts.              *)
LEMMA InsertMoves ==
  ASSUME RuntimeInv, NEW s \in Session, NEW do, At(s, do), do \in {"ingest", "core"},
         NEW q, IsSeq(q), tx' = [tx EXCEPT ![s].todo = Rest(s), ![s].pend = q], db' = db,
         \A i \in DOMAIN q : RowOk(s, tx[s].who, q[i]) /\ q[i].table # "audit_events"
  PROVE  RuntimeInv'
<1>1. IsOpen(s)
  BY DEF At
<1>2. DOMAIN tx = Session /\ Shape(tx[s])
  BY <1>1, AtStep DEF OpenOk
<1>3. PICK x : x = tx[s]
  OBVIOUS
<1>4. PICK y : y = [[x EXCEPT !.todo = Tail(x.todo)] EXCEPT !.pend = q]
  OBVIOUS
<1>5. tx' = [tx EXCEPT ![s] = y]
  BY <1>2, <1>3, <1>4 DEF Rest
<1>6. /\ y.pc = "open" /\ DOMAIN y = DOMAIN x
      /\ y.call = x.call /\ y.who = x.who /\ y.rows = x.rows /\ y.gone = x.gone
      /\ y.source = x.source /\ y.found = x.found /\ y.answer = x.answer
      /\ y.pend = q /\ y.todo = Tail(x.todo)
  BY <1>2, <1>3, <1>4 DEF Shape
<1>7. Written(s, x) /\ x.answer.code = "pending" => Written(s, y)
  BY <1>3, <1>6, SameRows
<1>8. DOMAIN y.found = {1, 2} /\ DOMAIN y.answer = {"code", "hits"}
  BY <1>2, <1>3, <1>6 DEF Shape
<1>9. Works(s, do, x, y)
  BY <1>6, <1>7, <1>8 DEF Works
<1>10. do \notin {"semantic", "lexical", "ground", "refuse"}
  OBVIOUS
<1> QED BY <1>3, <1>5, <1>9, <1>10, WorkMoves

LEMMA IngestMoves ==
  ASSUME RuntimeInv, NEW s \in Session, Ingest(s)
  PROVE  RuntimeInv'
<1>1. At(s, "ingest") /\ IsOpen(s)
  BY DEF Ingest, At
<1>2. CASE Fail(s, "ingest_failed")
  BY <1>1, <1>2, FailMoves DEF Verdicts
<1>3. CASE ~Fail(s, "ingest_failed")
  <2>1. /\ OpenOk(s, tx[s], Curated(tx)) /\ tx[s].todo # << >> /\ Head(tx[s].todo).do = "ingest"
    BY <1>1, AtStep DEF At
  <2>2. s \in ApiSession /\ tx[s].call.op = "ingest"
    BY <2>1, WhoseStep
  <2>3. tx[s].call.layer = 1 => Curator(tx[s].who)
    BY <2>1, <2>2 DEF OpenOk, Program, Ingestion
  <2>4. PICK t, e, fingerprint, n :
          /\ db' = db
          /\ tx' = [tx EXCEPT ![s].todo = Rest(s), ![s].pend =
               <<DocumentRow(s, t, e, tx[s].call.layer, tx[s].call.pack, NoSource,
                             tx[s].call.cite, fingerprint, n)>>]
    BY <1>3 DEF Ingest
  <2>5. PICK row : row = DocumentRow(s, t, e, tx[s].call.layer, tx[s].call.pack, NoSource,
                             tx[s].call.cite, fingerprint, n)
    OBVIOUS
  <2>6. row.table = "documents" /\ row.id = s /\ row.layer = tx[s].call.layer
    BY <2>5 DEF DocumentRow
  <2>7. RowOk(s, tx[s].who, row)
    BY <2>2, <2>3, <2>6 DEF RowOk, Blessed
  <2>8. PICK q : q = <<row>>
    OBVIOUS
  <2>9. IsSeq(q) /\ \A i \in DOMAIN q : RowOk(s, tx[s].who, q[i]) /\ q[i].table # "audit_events"
    <3>1. DOMAIN q = {1} /\ q[1] = row
      BY <2>8
    <3>2. IsSeq(q)
      BY <2>8, ShortSteps
    <3> QED BY <2>6, <2>7, <3>1, <3>2
  <2>10. tx' = [tx EXCEPT ![s].todo = Rest(s), ![s].pend = q]
    BY <2>4, <2>5, <2>8
  <2> QED BY <1>1, <2>4, <2>9, <2>10, InsertMoves
<1> QED BY <1>2, <1>3

LEMMA CoreMoves ==
  ASSUME RuntimeInv, NEW s \in Session, LoadCore(s)
  PROVE  RuntimeInv'
<1>1. At(s, "core") /\ IsOpen(s) /\ db' = db
  BY DEF LoadCore, At
<1>2. OpenOk(s, tx[s], Curated(tx)) /\ tx[s].todo # << >> /\ Head(tx[s].todo).do = "core"
  BY <1>1, AtStep DEF At
<1>3. s \notin ApiSession
  BY <1>2, WhoseStep
<1>4. tx[s].source # NoSource
  <2>1. Loading(tx[s])
    BY <1>2, <1>3 DEF OpenOk, Program
  <2>2. IsSeq(tx[s].todo)
    BY <1>2 DEF OpenOk, Shape
  <2>3. /\ DOMAIN tx[s].todo = 1 .. Len(tx[s].todo) /\ 1 \in DOMAIN tx[s].todo
        /\ tx[s].todo[1].do = "core" /\ Len(tx[s].todo) \in Nat
    BY <1>2, <2>2, TailSteps
  <2>4. ~ \E j \in DOMAIN tx[s].todo : j < 1
    BY <2>3
  <2> QED BY <2>1, <2>3, <2>4 DEF Loading, SourceFirst
<1>5. PICK q : q = CoreRows(s)
  OBVIOUS
<1>6. IsSeq(q)
  <2>1. CoreDocs \in Seq(ToSet(CoreDocs))
    BY RuntimePacks
  <2>2. DOMAIN CoreDocs = 1 .. Len(CoreDocs) /\ Len(CoreDocs) \in Nat
    BY <2>1
  <2>3. q \in [1 .. Len(CoreDocs) -> {q[i] : i \in DOMAIN q}]
    BY <1>5, <2>2 DEF CoreRows
  <2>4. q \in Seq({q[i] : i \in DOMAIN q})
    BY <2>2, <2>3
  <2> QED BY <2>4 DEF IsSeq
<1>7. \A i \in DOMAIN q : RowOk(s, tx[s].who, q[i]) /\ q[i].table # "audit_events"
  <2> TAKE i \in DOMAIN q
  <2>1. q[i].table = "documents" /\ q[i].source = tx[s].source
    BY <1>5 DEF CoreRows, DocumentRow
  <2> QED BY <1>4, <2>1 DEF RowOk, Blessed
<1>8. tx' = [tx EXCEPT ![s].todo = Rest(s), ![s].pend = q]
  BY <1>5 DEF LoadCore
<1> QED BY <1>1, <1>6, <1>7, <1>8, InsertMoves

(* One step of a loader that writes rows of its pack.                      *)
LEMMA PackMoves ==
  ASSUME RuntimeInv, NEW s \in Session, NEW do, At(s, do), do \in {"intents", "line", "count"},
         NEW R, tx' = [tx EXCEPT ![s].todo = Rest(s), ![s].rows = R], db' = db,
         Audits(R) = Audits(tx[s].rows), \A r \in R : RowOk(s, tx[s].who, r)
  PROVE  RuntimeInv'
<1>1. IsOpen(s) /\ tx[s].pend = << >>
  BY DEF At
<1>2. DOMAIN tx = Session /\ Shape(tx[s])
  BY <1>1, AtStep DEF OpenOk
<1>3. PICK x : x = tx[s]
  OBVIOUS
<1>4. PICK y : y = [[x EXCEPT !.todo = Tail(x.todo)] EXCEPT !.rows = R]
  OBVIOUS
<1>5. tx' = [tx EXCEPT ![s] = y]
  BY <1>2, <1>3, <1>4 DEF Rest
<1>6. /\ y.pc = "open" /\ DOMAIN y = DOMAIN x
      /\ y.call = x.call /\ y.who = x.who /\ y.rows = R /\ y.gone = x.gone
      /\ y.source = x.source /\ y.found = x.found /\ y.answer = x.answer
      /\ y.pend = x.pend /\ y.todo = Tail(x.todo)
  BY <1>2, <1>3, <1>4 DEF Shape
<1>7. ASSUME Written(s, x) PROVE Written(s, y)
  <2>1. Verdict(s, y) = Verdict(s, x)
    BY <1>6 DEF Verdict
  <2> QED BY <1>3, <1>6, <1>7, <2>1 DEF Written
<1>8. DOMAIN y.found = {1, 2} /\ DOMAIN y.answer = {"code", "hits"}
  BY <1>2, <1>3, <1>6 DEF Shape
<1>9. y.pend = << >> /\ IsSeq(y.pend)
  BY <1>1, <1>3, <1>6, ShortSteps
<1>10. Works(s, do, x, y)
  BY <1>6, <1>7, <1>8, <1>9 DEF Works
<1>11. do \notin {"semantic", "lexical", "ground", "refuse"}
  OBVIOUS
<1> QED BY <1>3, <1>5, <1>10, <1>11, WorkMoves

LEMMA IntentMoves ==
  ASSUME RuntimeInv, NEW s \in Session, LoadIntents(s)
  PROVE  RuntimeInv'
<1>1. At(s, "intents") /\ IsOpen(s) /\ db' = db
  BY DEF LoadIntents, At
<1>2. \A r \in tx[s].rows : RowOk(s, tx[s].who, r)
  BY <1>1, AtStep DEF OpenOk, Written
<1>3. PICK I : I = {IntentRow(s, n, tx[s].source) : n \in 1 .. Utterances}
  OBVIOUS
<1>4. \A r \in I : r.table = "hospitality_intents"
  BY <1>3 DEF IntentRow
<1>5. PICK R : R = tx[s].rows \cup I
  OBVIOUS
<1>6. Audits(R) = Audits(tx[s].rows) /\ \A r \in R : RowOk(s, tx[s].who, r)
  BY <1>2, <1>4, <1>5 DEF Audits, RowOk
<1>7. tx' = [tx EXCEPT ![s].todo = Rest(s), ![s].rows = R]
  BY <1>3, <1>5 DEF LoadIntents
<1> QED BY <1>1, <1>6, <1>7, PackMoves

LEMMA LineMoves ==
  ASSUME RuntimeInv, NEW s \in Session, LoadLine(s)
  PROVE  RuntimeInv'
<1>1. At(s, "line") /\ IsOpen(s) /\ db' = db
  BY DEF LoadLine, At
<1>2. \A r \in tx[s].rows : RowOk(s, tx[s].who, r)
  BY <1>1, AtStep DEF OpenOk, Written
<1>3. PICK i : i = Head(tx[s].todo).line
  OBVIOUS
<1>4. PICK row : row = IF tx[s].call.pack = AssetPack
                       THEN AssetRow(s, i, Lines[i][1], Lines[i][2])
                       ELSE VehicleRow(s, i, Lines[i][1], Lines[i][2])
  OBVIOUS
<1>5. row.table \in {"facility_assets", "fleet_vehicles"}
  BY <1>4 DEF AssetRow, VehicleRow
<1>6. PICK R : R = tx[s].rows \cup {row}
  OBVIOUS
<1>7. Audits(R) = Audits(tx[s].rows) /\ \A r \in R : RowOk(s, tx[s].who, r)
  BY <1>2, <1>5, <1>6 DEF Audits, RowOk
<1>8. tx' = [tx EXCEPT ![s].todo = Rest(s), ![s].rows = R]
  BY <1>3, <1>4, <1>6 DEF LoadLine
<1> QED BY <1>1, <1>7, <1>8, PackMoves

LEMMA CountMoves ==
  ASSUME RuntimeInv, NEW s \in Session, Count(s)
  PROVE  RuntimeInv'
<1>1. At(s, "count") /\ IsOpen(s) /\ db' = db
  BY DEF Count, At
<1>2. \A r \in tx[s].rows : RowOk(s, tx[s].who, r)
  BY <1>1, AtStep DEF OpenOk, Written
<1> DEFINE docs == In("documents", tx[s].rows)
           others == tx[s].rows \ (docs \cup In("tenants", tx[s].rows)
                       \cup In("estate_projects", tx[s].rows) \cup In("source_records", tx[s].rows))
<1>3. PICK d, c, n : /\ d = Cardinality(docs) /\ c = Chunks(docs)
                     /\ n = IF docs # {} THEN Len(CoreDocs) ELSE Cardinality(others)
  OBVIOUS
<1>4. PICK R : R = {IF r.table = "source_records"
           THEN [r EXCEPT !.documents = d, !.chunks = c, !.records = n] ELSE r : r \in tx[s].rows}
  OBVIOUS
<1>5. ASSUME NEW r \in tx[s].rows, r.table = "source_records",
             NEW r2, r2 = [r EXCEPT !.documents = d, !.chunks = c, !.records = n]
      PROVE  r2.table = "source_records" /\ IsSource(r2)
  <2>1. IsSource(r)
    BY <1>2, <1>5 DEF RowOk
  <2> QED BY <1>5, <2>1 DEF IsSource
<1>6. \A r \in R : RowOk(s, tx[s].who, r)
  BY <1>2, <1>4, <1>5 DEF RowOk
<1>7. Audits(R) = Audits(tx[s].rows)
  BY <1>4, <1>5 DEF Audits
<1>8. tx' = [tx EXCEPT ![s].todo = Rest(s), ![s].rows = R]
  BY <1>3, <1>4 DEF Count
<1> QED BY <1>1, <1>6, <1>7, <1>8, PackMoves
----------------------------------------------------------------------------
(* Questions.                                                              *)

(* What a search over one layer's scope may return.                        *)
LEMMA InScopeWithin ==
  ASSUME NEW R, NEW C, RowsOk(R, C), NEW call, NEW who, NEW layer \in {1, 2},
         call.layer # 3 - layer, NEW t, NEW e,
         <<t, e>> = IF layer = 1 THEN <<PlatformTenant, PlatformProject>> ELSE <<who.tenant, who.estate>>
  PROVE  AllWithin(call, who, InScope(R, t, e, layer), C)
<1> SUFFICES ASSUME NEW c \in InScope(R, t, e, layer)
             PROVE  Within(call, who, c.document, C)
  BY DEF AllWithin
<1>1. c \in ChunkRows(R)
  BY DEF InScope
<1>2. PICK d \in In("documents", R) : \E i : c = [document |-> d, ordinal |-> i]
  BY <1>1 DEF ChunkRows
<1>3. c.document = d
  BY <1>2
<1>4. d \in R /\ d.table = "documents"
  BY <1>2 DEF In
<1>5. Blessed(d, C)
  BY <1>4 DEF RowsOk
<1>6. d.tenant = t /\ d.project = e /\ d.cite /\ d.layer = layer
  BY <1>3 DEF InScope
<1>7. CASE layer = 1
  <2>1. t = PlatformTenant /\ call.layer # 2
    BY <1>7
  <2> QED BY <1>3, <1>5, <1>6, <1>7, <2>1 DEF Within, Blessed
<1>8. CASE layer = 2
  <2>1. t = who.tenant /\ e = who.estate /\ call.layer # 1
    BY <1>8
  <2> QED BY <1>3, <1>6, <1>8, <2>1 DEF Within
<1> QED BY <1>7, <1>8

(* One search of a question.                                               *)
LEMMA FindMoves ==
  ASSUME RuntimeInv, NEW s \in Session, NEW do, At(s, do), do \in {"semantic", "lexical"},
         NEW layer, layer = Head(tx[s].todo).layer, NEW scope, scope = Scope(s, layer),
         NEW H, H \subseteq InScope(db, scope[1], scope[2], layer),
         tx' = [tx EXCEPT ![s].todo = Rest(s), ![s].found[layer] = @ \cup H], db' = db
  PROVE  RuntimeInv'
<1>1. /\ IsOpen(s) /\ tx[s].pend = << >> /\ tx[s].todo # << >> /\ Head(tx[s].todo).do = do
  BY DEF At
<1>2. DOMAIN tx = Session /\ tx[s].pc = "open" /\ OpenOk(s, tx[s], Curated(tx))
  BY <1>1, AtStep
<1>3. s \in ApiSession /\ tx[s].call \in ApiCall /\ tx[s].call.op = "query"
  BY <1>1, <1>2, WhoseStep
<1>4. PICK x : x = tx[s]
  OBVIOUS
<1>5. Shape(x) /\ Written(s, x) /\ Questioning(x, Curated(tx))
  BY <1>2, <1>3, <1>4 DEF OpenOk, Program
<1>6. /\ Len(x.todo) \in Nat \ {0} /\ DOMAIN x.todo = 1 .. Len(x.todo)
      /\ DOMAIN Tail(x.todo) = 1 .. Len(x.todo) - 1 /\ Len(Tail(x.todo)) = Len(x.todo) - 1
      /\ \A i \in DOMAIN Tail(x.todo) : i + 1 \in DOMAIN x.todo /\ Tail(x.todo)[i] = x.todo[i + 1]
      /\ 1 \in DOMAIN x.todo /\ Head(x.todo) = x.todo[1] /\ IsSeq(Tail(x.todo))
  BY <1>1, <1>4, <1>5, TailSteps DEF Shape
<1>7. ~x.call.refused
  <2>1. x.call.refused => x.todo = <<[do |-> "refuse"]>>
    BY <1>1, <1>4, <1>5 DEF Questioning, Asking
  <2>2. x.call.refused => Head(x.todo).do = "refuse"
    BY <2>1
  <2> QED BY <1>1, <1>4, <2>2
<1>8. /\ Do(x, {"semantic", "lexical", "ground"})
      /\ \A i \in DOMAIN x.todo :
            /\ x.todo[i].do = "ground" <=> i = Len(x.todo)
            /\ x.todo[i].do # "ground" => /\ x.todo[i].layer \in {1, 2}
                                          /\ x.call.layer # 3 - x.todo[i].layer
  BY <1>5, <1>7 DEF Questioning, Asking
<1>9. layer \in {1, 2} /\ x.call.layer # 3 - layer /\ Len(x.todo) # 1
  <2>1. x.todo[1].do # "ground" /\ layer = x.todo[1].layer
    BY <1>1, <1>4, <1>6
  <2> QED BY <1>6, <1>8, <2>1
<1>10. AllWithin(x.call, x.who, H, Curated(tx))
  <2>1. scope = <<scope[1], scope[2]>>
    BY DEF Scope
  <2>2. <<scope[1], scope[2]>> = IF layer = 1 THEN <<PlatformTenant, PlatformProject>>
                                ELSE <<x.who.tenant, x.who.estate>>
    BY <1>4, <2>1 DEF Scope
  <2>3. RowsOk(db, Curated(tx))
    BY DEF RuntimeInv, Good
  <2>4. AllWithin(x.call, x.who, InScope(db, scope[1], scope[2], layer), Curated(tx))
    BY <1>9, <2>2, <2>3, InScopeWithin
  <2> QED BY <2>4 DEF AllWithin
<1>11. PICK y : y = [[x EXCEPT !.todo = Tail(x.todo)] EXCEPT !.found[layer] = @ \cup H]
  OBVIOUS
<1>12. tx' = [tx EXCEPT ![s] = y]
  BY <1>2, <1>4, <1>5, <1>11 DEF Rest, Shape
<1>13. /\ y.pc = "open" /\ DOMAIN y = DOMAIN x
       /\ y.call = x.call /\ y.who = x.who /\ y.rows = x.rows /\ y.gone = x.gone
       /\ y.source = x.source /\ y.answer = x.answer
       /\ y.pend = x.pend /\ y.todo = Tail(x.todo)
       /\ y.found = [x.found EXCEPT ![layer] = @ \cup H]
  BY <1>5, <1>11 DEF Shape
<1>14. /\ DOMAIN y.found = {1, 2}
       /\ y.found[1] \subseteq x.found[1] \cup H /\ y.found[2] \subseteq x.found[2] \cup H
  BY <1>5, <1>9, <1>13 DEF Shape
<1>15. Shape(y)
  BY <1>5, <1>6, <1>13, <1>14 DEF Shape
<1>16. Written(s, y)
  BY <1>5, <1>13 DEF Written, Verdict
<1>17. Asking(y)
  <2>1. Do(y, {"semantic", "lexical", "ground"})
    BY <1>6, <1>8, <1>13 DEF Do
  <2>2. ASSUME NEW i \in DOMAIN y.todo
        PROVE  /\ y.todo[i].do = "ground" <=> i = Len(y.todo)
               /\ y.todo[i].do # "ground" => /\ y.todo[i].layer \in {1, 2}
                                             /\ y.call.layer # 3 - y.todo[i].layer
    <3>1. i + 1 \in DOMAIN x.todo /\ y.todo[i] = x.todo[i + 1] /\ Len(y.todo) = Len(x.todo) - 1
          /\ i \in Nat
      BY <1>6, <1>13
    <3>2. /\ x.todo[i + 1].do = "ground" <=> i + 1 = Len(x.todo)
          /\ x.todo[i + 1].do # "ground" => /\ x.todo[i + 1].layer \in {1, 2}
                                            /\ x.call.layer # 3 - x.todo[i + 1].layer
      BY <1>8, <3>1
    <3>3. i + 1 = Len(x.todo) <=> i = Len(y.todo)
      BY <1>6, <3>1
    <3> QED BY <1>13, <3>1, <3>2, <3>3
  <2> QED BY <1>7, <1>13, <2>1, <2>2 DEF Asking
<1>18. Questioning(y, Curated(tx))
  <2>1. y.todo # << >>
    <3>1. DOMAIN y.todo = 1 .. Len(x.todo) - 1
      BY <1>6, <1>13
    <3>2. PICK n : n = Len(x.todo)
      OBVIOUS
    <3>3. n \in Nat \ {0} /\ n # 1
      BY <1>6, <1>9, <3>2
    <3>4. 1 \in 1 .. n - 1
      BY <3>3
    <3>5. 1 \in DOMAIN y.todo
      BY <3>1, <3>2, <3>4
    <3> QED BY <3>5
  <2>2. Answered(y)
    BY <1>1, <1>4, <1>5, <1>13, <2>1 DEF Questioning, Answered
  <2>3. AllWithin(y.call, y.who, y.found[1] \cup y.found[2] \cup y.answer.hits, Curated(tx))
    BY <1>5, <1>10, <1>13, <1>14 DEF Questioning, AllWithin
  <2> QED BY <1>5, <1>13, <1>17, <2>2, <2>3 DEF Questioning
<1>19. OpenOk(s, y, Curated(tx))
  <2>1. Program(s, y, Curated(tx))
    BY <1>3, <1>4, <1>13, <1>18 DEF Program
  <2> QED BY <1>15, <1>16, <2>1 DEF OpenOk
<1>20. /\ DOMAIN tx' = Session /\ tx'[s] = y
       /\ \A u \in Session : u # s => tx'[u] = tx[u]
  BY <1>2, <1>12
<1>21. Good(db, tx')
  <2>1. Good(db, tx) /\ tx[s].pc # "done"
    BY <1>2 DEF RuntimeInv
  <2>2. ASSUME NEW T2, DOMAIN T2 = Session, \A u \in Session : u # s => T2[u] = tx[u],
               OpenOk(s, T2[s], Curated(tx))
        PROVE  Good(db, T2)
    BY <2>1, <2>2, OpenMoves
  <2> QED BY <1>19, <1>20, <2>2
<1> QED BY <1>21 DEF RuntimeInv

LEMMA SearchMoves ==
  ASSUME RuntimeInv, NEW s \in Session, SemanticSearch(s) \/ LexicalSearch(s)
  PROVE  RuntimeInv'
<1>1. PICK layer, scope : layer = Head(tx[s].todo).layer /\ scope = Scope(s, layer)
  OBVIOUS
<1>2. ASSUME SemanticSearch(s) PROVE RuntimeInv'
  <2>1. PICK H \in Semantic(db, scope[1], scope[2], layer) :
          tx' = [tx EXCEPT ![s].todo = Rest(s), ![s].found[layer] = @ \cup H]
    BY <1>1, <1>2 DEF SemanticSearch
  <2>2. H \subseteq InScope(db, scope[1], scope[2], layer)
    BY <2>1 DEF Semantic, AtMost, kSubset
  <2>3. At(s, "semantic") /\ db' = db
    BY <1>2 DEF SemanticSearch
  <2> QED BY <1>1, <2>1, <2>2, <2>3, FindMoves
<1>3. ASSUME LexicalSearch(s) PROVE RuntimeInv'
  <2>1. PICK H \in Lexical(db, scope[1], scope[2], layer) :
          tx' = [tx EXCEPT ![s].todo = Rest(s), ![s].found[layer] = @ \cup H]
    BY <1>1, <1>3 DEF LexicalSearch
  <2>2. H \subseteq InScope(db, scope[1], scope[2], layer)
    BY <2>1 DEF Lexical, AtMost, kSubset
  <2>3. At(s, "lexical") /\ db' = db
    BY <1>3 DEF LexicalSearch
  <2> QED BY <1>1, <2>1, <2>2, <2>3, FindMoves
<1> QED BY <1>2, <1>3

(* What the two ways of fusing return is some of what was found.           *)
LEMMA FusedHits ==
  ASSUME NEW found, NEW k
  PROVE  /\ \A layer : \A hits \in HybridSearch(found[layer], k) : hits \subseteq found[layer]
         /\ \A hits \in CombinedLayerSearch(found, k) : hits \subseteq found[1] \cup found[2]
<1>1. \A n, S : \A hits \in UpTo(n, S) : hits \subseteq S
  BY DEF UpTo, kSubset
<1>2. \A layer : \A hits \in HybridSearch(found[layer], k) : hits \subseteq found[layer]
  BY <1>1 DEF HybridSearch
<1>3. ASSUME NEW hits \in CombinedLayerSearch(found, k) PROVE hits \subseteq found[1] \cup found[2]
  <2>1. PICK h2 \in HybridSearch(found[2], k) :
          hits \in {h2 \cup h1 : h1 \in UNION {UpTo(k - Cardinality(h2), l1) :
                                     l1 \in HybridSearch(found[1], k)}}
    BY <1>3 DEF CombinedLayerSearch
  <2>2. PICK h1 \in UNION {UpTo(k - Cardinality(h2), l1) : l1 \in HybridSearch(found[1], k)} :
          hits = h2 \cup h1
    BY <2>1
  <2>3. PICK l1 \in HybridSearch(found[1], k) : h1 \in UpTo(k - Cardinality(h2), l1)
    BY <2>2
  <2>4. h1 \subseteq l1 /\ l1 \subseteq found[1] /\ h2 \subseteq found[2]
    BY <1>1, <1>2, <2>1, <2>3
  <2> QED BY <2>2, <2>4
<1> QED BY <1>2, <1>3

(* The verdict is the question's last step.                                *)
LEMMA RecordMoves ==
  ASSUME RuntimeInv, NEW s \in Session, NEW do, At(s, do), do \in {"ground", "refuse"},
         NEW hits, NEW verdict, Record(s, verdict, hits), db' = db,
         hits \subseteq tx[s].found[1] \cup tx[s].found[2],
         IF do = "refuse" THEN verdict = "out_of_scope" /\ hits = {}
                          ELSE verdict = RetrievalVerdict(hits)
  PROVE  RuntimeInv'
<1>1. /\ IsOpen(s) /\ tx[s].pend = << >> /\ tx[s].todo # << >> /\ Head(tx[s].todo).do = do
  BY DEF At
<1>2. DOMAIN tx = Session /\ tx[s].pc = "open" /\ OpenOk(s, tx[s], Curated(tx))
  BY <1>1, AtStep
<1>3. s \in ApiSession /\ tx[s].call \in ApiCall /\ tx[s].call.op = "query"
  BY <1>1, <1>2, WhoseStep
<1>4. PICK x : x = tx[s]
  OBVIOUS
<1>5. Shape(x) /\ Written(s, x) /\ Questioning(x, Curated(tx))
  BY <1>2, <1>3, <1>4 DEF OpenOk, Program
<1>6. /\ Len(x.todo) \in Nat \ {0} /\ DOMAIN x.todo = 1 .. Len(x.todo)
      /\ DOMAIN Tail(x.todo) = 1 .. Len(x.todo) - 1 /\ Len(Tail(x.todo)) = Len(x.todo) - 1
      /\ 1 \in DOMAIN x.todo /\ Head(x.todo) = x.todo[1] /\ IsSeq(Tail(x.todo))
  BY <1>1, <1>4, <1>5, TailSteps DEF Shape
<1>7. Len(x.todo) = 1 /\ (x.call.refused <=> do = "refuse")
  <2>1. CASE x.call.refused
    <3>1. x.todo = <<[do |-> "refuse"]>>
      BY <1>1, <1>4, <1>5, <2>1 DEF Questioning, Asking
    <3>2. Len(x.todo) = 1 /\ Head(x.todo).do = "refuse"
      BY <3>1
    <3> QED BY <1>1, <1>4, <2>1, <3>2
  <2>2. CASE ~x.call.refused
    <3>1. /\ Do(x, {"semantic", "lexical", "ground"})
          /\ \A i \in DOMAIN x.todo : x.todo[i].do = "ground" <=> i = Len(x.todo)
      BY <1>5, <2>2 DEF Questioning, Asking
    <3>2. x.todo[1].do = do /\ do # "refuse"
      BY <1>1, <1>4, <1>6, <3>1 DEF Do
    <3>3. 1 = Len(x.todo)
      BY <1>6, <3>1, <3>2
    <3> QED BY <2>2, <3>2, <3>3
  <2> QED BY <2>1, <2>2
<1>8. Tail(x.todo) = << >>
  <2> QED BY <1>6, <1>7, NothingLeft
<1>9. PICK row : row = VerdictRow(s, x.who, verdict, Cardinality(hits))
  OBVIOUS
<1>10. PICK y : y = [[[x EXCEPT !.todo = << >>] EXCEPT !.rows = @ \cup {row}]
                        EXCEPT !.answer = [code |-> verdict, hits |-> hits]]
  OBVIOUS
<1>11. tx' = [tx EXCEPT ![s] = y]
  BY <1>2, <1>4, <1>5, <1>8, <1>9, <1>10 DEF Record, Rest, Shape
<1>12. /\ y.pc = "open" /\ DOMAIN y = DOMAIN x
       /\ y.call = x.call /\ y.who = x.who /\ y.gone = x.gone
       /\ y.source = x.source /\ y.found = x.found
       /\ y.pend = x.pend /\ y.todo = << >> /\ y.rows = x.rows \cup {row}
       /\ y.answer = [code |-> verdict, hits |-> hits]
  BY <1>5, <1>10 DEF Shape
<1>13. y.answer.code = verdict /\ y.answer.hits = hits /\ DOMAIN y.answer = {"code", "hits"}
  BY <1>12
<1>14. Shape(y)
  BY <1>5, <1>12, <1>13, ShortSteps DEF Shape
<1>15. verdict \in Verdicts
  BY DEF Verdicts, RetrievalVerdict
<1>16. Written(s, y)
  <2>1. row.table = "audit_events"
    BY <1>9 DEF VerdictRow
  <2>2. x.answer.code = "pending"
    BY <1>1, <1>2, <1>4, NotYetAnswered
  <2>3. Audits(x.rows) = {}
    BY <1>5, <2>2 DEF Written, Verdict, Verdicts
  <2>4. Audits(y.rows) = {row}
    BY <1>12, <2>1, <2>3 DEF Audits
  <2>5. Verdict(s, y) = {row}
    BY <1>9, <1>12, <1>13, <1>15 DEF Verdict
  <2>6. RowOk(s, x.who, row)
    BY <2>1 DEF RowOk
  <2> QED BY <1>5, <1>12, <2>4, <2>5, <2>6 DEF Written
<1>17. Questioning(y, Curated(tx))
  <2>1. Asking(y)
    <3>1. DOMAIN y.todo = {}
      BY <1>12
    <3> QED BY <1>12, <3>1 DEF Asking, Do
  <2>2. Answered(y)
    BY <1>7, <1>12, <1>13 DEF Answered
  <2>3. y.call.refused => y.answer.hits = {}
    BY <1>7, <1>12, <1>13
  <2>4. AllWithin(y.call, y.who, y.found[1] \cup y.found[2] \cup y.answer.hits, Curated(tx))
    BY <1>4, <1>5, <1>12, <1>13 DEF Questioning, AllWithin
  <2>5. \A r \in y.rows : r.table # "documents"
    BY <1>5, <1>9, <1>12 DEF Questioning, VerdictRow
  <2> QED BY <1>5, <1>12, <2>1, <2>2, <2>3, <2>4, <2>5 DEF Questioning
<1>18. OpenOk(s, y, Curated(tx))
  <2>1. Program(s, y, Curated(tx))
    BY <1>3, <1>4, <1>12, <1>17 DEF Program
  <2> QED BY <1>14, <1>16, <2>1 DEF OpenOk
<1>19. /\ DOMAIN tx' = Session /\ tx'[s] = y
       /\ \A u \in Session : u # s => tx'[u] = tx[u]
  BY <1>2, <1>11
<1>20. Good(db, tx')
  <2>1. Good(db, tx) /\ tx[s].pc # "done"
    BY <1>2 DEF RuntimeInv
  <2>2. ASSUME NEW T2, DOMAIN T2 = Session, \A u \in Session : u # s => T2[u] = tx[u],
               OpenOk(s, T2[s], Curated(tx))
        PROVE  Good(db, T2)
    BY <2>1, <2>2, OpenMoves
  <2> QED BY <1>18, <1>19, <2>2
<1> QED BY <1>20 DEF RuntimeInv

LEMMA AnswerMoves ==
  ASSUME RuntimeInv, NEW s \in Session, Ground(s) \/ Refuse(s)
  PROVE  RuntimeInv'
<1>1. ASSUME Refuse(s) PROVE RuntimeInv'
  <2>1. At(s, "refuse") /\ Record(s, "out_of_scope", {}) /\ db' = db
    BY <1>1 DEF Refuse
  <2> QED BY <2>1, RecordMoves
<1>2. ASSUME Ground(s) PROVE RuntimeInv'
  <2>1. PICK hits : /\ Record(s, RetrievalVerdict(hits), hits)
                    /\ hits \in IF tx[s].call.layer = 0
                                THEN CombinedLayerSearch(tx[s].found, tx[s].call.k)
                                ELSE HybridSearch(tx[s].found[tx[s].call.layer], tx[s].call.k)
    BY <1>2 DEF Ground
  <2>2. At(s, "ground") /\ db' = db /\ IsOpen(s)
    BY <1>2 DEF Ground, At
  <2>3. tx[s].call.layer \in 0 .. 2
    <3>1. OpenOk(s, tx[s], Curated(tx)) /\ tx[s].todo # << >> /\ Head(tx[s].todo).do = "ground"
      BY <2>2, AtStep DEF At
    <3>2. tx[s].call \in ApiCall /\ tx[s].call.op = "query"
      BY <3>1, WhoseStep
    <3> QED BY <3>2, RuntimeQueries
  <2>4. hits \subseteq tx[s].found[1] \cup tx[s].found[2]
    <3>1. CASE tx[s].call.layer = 0
      BY <2>1, <3>1, FusedHits
    <3>2. CASE tx[s].call.layer # 0
      <4>1. hits \subseteq tx[s].found[tx[s].call.layer]
        BY <2>1, <3>2, FusedHits
      <4> QED BY <2>3, <3>2, <4>1
    <3> QED BY <3>1, <3>2
  <2> QED BY <2>1, <2>2, <2>4, RecordMoves
<1> QED BY <1>1, <1>2
----------------------------------------------------------------------------
(* Readers, the end of a session, and what comes between.                  *)

(* A reader that answers.                                                  *)
LEMMA FinishMoves ==
  ASSUME RuntimeInv, NEW s \in Session, NEW do, At(s, do),
         do \in {"list", "classify", "status", "reset"},
         NEW hits, Finish(s, "ok", hits), db' = db,
         do = "list" => \A h \in hits : h.tenant = tx[s].who.tenant /\ h.estate = tx[s].who.estate
  PROVE  RuntimeInv'
<1>1. /\ IsOpen(s) /\ tx[s].todo # << >> /\ Head(tx[s].todo).do = do
  BY DEF At
<1>2. DOMAIN tx = Session /\ tx[s].pc = "open" /\ OpenOk(s, tx[s], Curated(tx))
  BY <1>1, AtStep
<1>3. s \in ApiSession /\ tx[s].call.op # "query" /\ (tx[s].call.op = "list" => do = "list")
  BY <1>1, <1>2, WhoseStep
<1>4. /\ DOMAIN tx' = Session
      /\ \A u \in Session : u # s => tx'[u] = tx[u]
      /\ tx'[s] = Over(tx[s].call, tx[s].who, "ok", hits)
  BY <1>2 DEF Finish
<1>5. tx'[s].pc = "done" /\ tx'[s].answer.code \notin Verdicts
  BY <1>4 DEF Over, Verdicts
<1>6. DoneOk(s, tx'[s], Curated(tx))
  BY <1>3, <1>4 DEF Over, DoneOk
<1>7. Good(db, tx')
  <2>1. Good(db, tx) /\ tx[s].pc # "done"
    BY <1>2 DEF RuntimeInv
  <2>2. ASSUME NEW T2, DOMAIN T2 = Session, \A u \in Session : u # s => T2[u] = tx[u],
               T2[s].pc = "done", T2[s].answer.code \notin Verdicts, DoneOk(s, T2[s], Curated(tx))
        PROVE  Good(db, T2)
    BY <2>1, <2>2, OverMoves
  <2> QED BY <1>4, <1>5, <1>6, <2>2
<1> QED BY <1>7 DEF RuntimeInv

LEMMA ReaderMoves ==
  ASSUME RuntimeInv, NEW s \in Session,
         ListRows(s) \/ ClassifyIntent(s) \/ Status(s) \/ ResetEmbedder(s)
  PROVE  RuntimeInv'
<1>1. ASSUME ListRows(s) PROVE RuntimeInv'
  <2>1. PICK hits : /\ Finish(s, "ok", hits) /\ At(s, "list") /\ db' = db
                    /\ hits \subseteq {r \in In(tx[s].call.table, db) :
                                          /\ r.tenant = tx[s].who.tenant
                                          /\ r.estate = tx[s].who.estate}
    BY <1>1 DEF ListRows
  <2>2. \A h \in hits : h.tenant = tx[s].who.tenant /\ h.estate = tx[s].who.estate
    BY <2>1
  <2> QED BY <2>1, <2>2, FinishMoves
<1>2. ASSUME ClassifyIntent(s) PROVE RuntimeInv'
  <2>1. PICK hits : Finish(s, "ok", hits) /\ At(s, "classify") /\ db' = db
    BY <1>2 DEF ClassifyIntent
  <2> QED BY <2>1, FinishMoves
<1>3. ASSUME Status(s) PROVE RuntimeInv'
  <2>1. Finish(s, "ok", {}) /\ At(s, "status") /\ db' = db
    BY <1>3 DEF Status
  <2> QED BY <2>1, FinishMoves
<1>4. ASSUME ResetEmbedder(s) PROVE RuntimeInv'
  <2>1. Finish(s, "ok", {}) /\ At(s, "reset") /\ db' = db
    BY <1>4 DEF ResetEmbedder
  <2> QED BY <2>1, FinishMoves
<1> QED BY <1>1, <1>2, <1>3, <1>4

LEMMA InventoryMoves ==
  ASSUME RuntimeInv, NEW s \in Session, InventorySources(s) \/ InventoryDocuments(s)
  PROVE  RuntimeInv'
<1>1. PICK do, hits : /\ do \in {"sources", "by_pack"} /\ At(s, do) /\ db' = db
                      /\ tx' = [tx EXCEPT ![s].todo = Rest(s), ![s].answer.hits = hits]
  <2>1. CASE InventorySources(s)
    <3>1. PICK hits : hits = In("source_records", db)
      OBVIOUS
    <3>2. At(s, "sources") /\ db' = db /\ tx' = [tx EXCEPT ![s].todo = Rest(s), ![s].answer.hits = hits]
      BY <2>1, <3>1 DEF InventorySources
    <3> QED BY <3>2
  <2>2. CASE InventoryDocuments(s)
    <3>1. PICK hits : hits = tx[s].answer.hits \cup {d \in In("documents", db) : d.pack # NoPack}
      OBVIOUS
    <3>2. At(s, "by_pack") /\ db' = db /\ tx' = [tx EXCEPT ![s].todo = Rest(s), ![s].answer.hits = hits]
      BY <2>2, <3>1 DEF InventoryDocuments
    <3> QED BY <3>2
  <2> QED BY <2>1, <2>2
<1>2. IsOpen(s) /\ tx[s].pend = << >>
  BY <1>1 DEF At
<1>3. DOMAIN tx = Session /\ Shape(tx[s])
  BY <1>2, AtStep DEF OpenOk
<1>4. PICK x : x = tx[s]
  OBVIOUS
<1>5. PICK y : y = [[x EXCEPT !.todo = Tail(x.todo)] EXCEPT !.answer.hits = hits]
  OBVIOUS
<1>6. tx' = [tx EXCEPT ![s] = y]
  BY <1>1, <1>3, <1>4, <1>5 DEF Rest, Shape
<1>7. /\ y.pc = "open" /\ DOMAIN y = DOMAIN x
      /\ y.call = x.call /\ y.who = x.who /\ y.rows = x.rows /\ y.gone = x.gone
      /\ y.source = x.source /\ y.found = x.found
      /\ y.pend = x.pend /\ y.todo = Tail(x.todo)
      /\ y.answer = [x.answer EXCEPT !.hits = hits]
  BY <1>3, <1>4, <1>5 DEF Shape
<1>8. /\ y.answer.code = x.answer.code
      /\ DOMAIN y.found = {1, 2} /\ DOMAIN y.answer = {"code", "hits"}
  BY <1>3, <1>4, <1>7 DEF Shape
<1>9. y.pend = << >> /\ IsSeq(y.pend)
  BY <1>2, <1>4, <1>7, ShortSteps
<1>10. Written(s, x) /\ x.answer.code = "pending" => Written(s, y)
  BY <1>7, <1>8, <1>9, SameRows
<1>11. Works(s, do, x, y)
  BY <1>1, <1>7, <1>8, <1>9, <1>10 DEF Works
<1>12. do \notin {"semantic", "lexical", "ground", "refuse"}
  BY <1>1
<1> QED BY <1>1, <1>4, <1>6, <1>11, <1>12, WorkMoves

(* Commit: the session's rows reach the tables, and its verdict the ledger. *)
LEMMA CommitMoves ==
  ASSUME RuntimeInv, NEW s \in Session, Commit(s)
  PROVE  RuntimeInv'
<1>1. IsOpen(s) /\ tx[s].todo = << >> /\ db' = (db \ tx[s].gone) \cup tx[s].rows
  BY DEF Commit
<1>2. DOMAIN tx = Session /\ tx[s].pc = "open" /\ OpenOk(s, tx[s], Curated(tx))
  BY <1>1, AtStep
<1>3. PICK x : x = tx[s]
  OBVIOUS
<1>4. PICK code : code = IF x.answer.code = "pending" THEN "ok" ELSE x.answer.code
  OBVIOUS
<1>5. PICK y : y = Over(x.call, x.who, code, x.answer.hits)
  OBVIOUS
<1>6. /\ DOMAIN tx' = Session /\ tx'[s] = y
      /\ \A u \in Session : u # s => tx'[u] = tx[u]
  BY <1>2, <1>3, <1>4, <1>5 DEF Commit, Finish
<1>7. y.pc = "done" /\ y.call = x.call /\ y.who = x.who /\ y.answer.code = code /\ y.answer.hits = x.answer.hits
  BY <1>5 DEF Over
<1>8. Written(s, x) /\ Program(s, x, Curated(tx))
  BY <1>2, <1>3 DEF OpenOk
<1>9. Verdict(s, y) = Verdict(s, x)
  BY <1>4, <1>7 DEF Verdict, Verdicts
<1>10. DoneOk(s, y, Curated(tx))
  <2>1. CASE s \notin ApiSession
    BY <2>1 DEF DoneOk
  <2>2. CASE s \in ApiSession /\ x.call.op = "query"
    <3>1. Questioning(x, Curated(tx)) /\ x.call \in ApiCall
      BY <1>8, <2>2 DEF Program
    <3>2. x.answer.code = IF x.call.refused THEN "out_of_scope" ELSE RetrievalVerdict(x.answer.hits)
      BY <1>1, <1>3, <3>1 DEF Questioning, Answered
    <3>3. code = x.answer.code
      BY <1>4, <3>2 DEF RetrievalVerdict
    <3>4. AllWithin(y.call, y.who, y.answer.hits, Curated(tx))
      BY <1>7, <3>1 DEF Questioning, AllWithin
    <3>5. x.call.refused => x.answer.hits = {}
      BY <3>1 DEF Questioning
    <3>6. x.call.refused \in BOOLEAN
      BY <2>2, <3>1, RuntimeQueries
    <3>7. y.call.refused <=> y.answer.code = "out_of_scope"
      BY <1>7, <3>2, <3>3, <3>6 DEF RetrievalVerdict
    <3>8. y.answer.hits = {} <=> y.answer.code # "grounded"
      BY <1>7, <3>2, <3>3, <3>5, <3>6 DEF RetrievalVerdict
    <3> QED BY <1>7, <2>2, <3>4, <3>7, <3>8 DEF DoneOk
  <2>3. CASE s \in ApiSession /\ x.call.op # "query"
    <3>1. x.call.op = "list" => x.answer.hits = {}
      BY <1>8, <2>3 DEF Program, Reading
    <3> QED BY <1>7, <2>3, <3>1 DEF DoneOk
  <2> QED BY <2>1, <2>2, <2>3
<1>11. PICK R : R = (db \ x.gone) \cup x.rows
  OBVIOUS
<1>12. PICK C2 : C2 = Curated(tx')
  OBVIOUS
<1>13. Curated(tx) \subseteq C2
  BY <1>2, <1>6, <1>12 DEF Curated, Session
<1>14. RowsOk(R, C2)
  <2>1. RowsOk(db, C2)
    <3>1. RowsOk(db, Curated(tx))
      BY DEF RuntimeInv, Good
    <3> QED BY <1>13, <3>1, MoreCurated
  <2>2. ASSUME NEW r \in x.rows, r.table = "source_records" PROVE r.gen # NoSource
    BY <1>8, <2>2 DEF Written, RowOk, IsSource
  <2>3. ASSUME NEW r \in x.rows, r.table = "documents" PROVE Blessed(r, C2)
    <3>1. \/ Blessed(r, {})
          \/ r.id = s /\ s \in ApiSession /\ Curator(x.who)
      BY <1>8, <2>3 DEF Written, RowOk
    <3>2. CASE Blessed(r, {})
      BY <3>2 DEF Blessed
    <3>3. CASE r.layer = 1 /\ r.source = NoSource /\ r.id = s /\ s \in ApiSession /\ Curator(x.who)
      <4>1. x.call.op # "query"
        BY <1>8, <2>3, <3>3 DEF Program, Questioning
      <4>2. code = "ok"
        BY <1>2, <1>3, <1>4, <4>1, NotYetAnswered
      <4>3. s \in C2
        BY <1>6, <1>7, <1>12, <3>3, <4>2 DEF Curated
      <4> QED BY <3>3, <4>3 DEF Blessed
    <3> QED BY <3>1, <3>2, <3>3 DEF Blessed
  <2> QED BY <1>11, <2>1, <2>2, <2>3 DEF RowsOk
<1>15. \A r \in x.gone : r.table = "source_records"
  BY <1>8 DEF Written
<1>16. Audits(R) = Audits(db) \cup Verdict(s, y)
  <2>1. Audits(x.rows) = Verdict(s, y)
    BY <1>8, <1>9 DEF Written
  <2>2. Audits(R) = Audits(db) \cup Audits(x.rows)
    BY <1>11, <1>15 DEF Audits
  <2> QED BY <2>1, <2>2
<1>17. \A r \in Verdict(s, y) : r.id = s
  BY DEF Verdict, VerdictRow
<1>18. s \in ApiSession => LedgerOf(R, s) = Due(s, y)
  <2>1. s \in ApiSession => LedgerOf(db, s) = {}
    BY <1>2 DEF RuntimeInv, Good, Due
  <2> QED BY <1>7, <1>16, <1>17, <2>1 DEF LedgerOf, Due
<1>19. \A u \in ApiSession : u # s => LedgerOf(R, u) = LedgerOf(db, u)
  BY <1>16, <1>17 DEF LedgerOf
<1>20. SessionOk(s, y, C2)
  <2>1. DoneOk(s, y, C2)
    BY <1>10, <1>13, MoreCurated
  <2> QED BY <1>7, <2>1 DEF SessionOk
<1>21. Good(R, tx')
  <2>1. Good(db, tx) /\ tx[s].pc # "done"
    BY <1>2 DEF RuntimeInv
  <2>2. ASSUME NEW T2, DOMAIN T2 = Session, \A u \in Session : u # s => T2[u] = tx[u],
               SessionOk(s, T2[s], Curated(T2)), RowsOk(R, Curated(T2)),
               s \in ApiSession => LedgerOf(R, s) = Due(s, T2[s])
        PROVE  Good(R, T2)
    BY <1>19, <2>1, <2>2, OneSessionMoves
  <2> QED BY <1>6, <1>12, <1>14, <1>18, <1>20, <2>2
<1>22. db' = R
  BY <1>1, <1>3, <1>11
<1> QED BY <1>21, <1>22 DEF RuntimeInv

(* A restart ends the requests that are open.                              *)
LEMMA RestartMoves ==
  ASSUME RuntimeInv, Restart
  PROVE  RuntimeInv'
<1>1. db' = db
  BY DEF Restart
<1>2. PICK T2 : T2 = tx'
  OBVIOUS
<1>3. /\ DOMAIN T2 = Session
      /\ \A s \in Session : T2[s] = IF s \in ApiSession /\ IsOpen(s)
                                   THEN Over(tx[s].call, tx[s].who, "lost", {}) ELSE tx[s]
  BY <1>2 DEF Restart
<1>4. Curated(T2) = Curated(tx)
  <2>1. ASSUME NEW u \in ApiSession
        PROVE  u \in Curated(T2) <=> u \in Curated(tx)
    <3>1. CASE IsOpen(u)
      <4>1. T2[u] = Over(tx[u].call, tx[u].who, "lost", {})
        BY <1>3, <3>1 DEF Session
      <4> QED BY <3>1, <4>1 DEF Curated, Over, IsOpen
    <3>2. CASE ~IsOpen(u)
      <4>1. T2[u] = tx[u]
        BY <1>3, <3>2 DEF Session
      <4> QED BY <4>1 DEF Curated
    <3> QED BY <3>1, <3>2
  <2>2. Curated(T2) \subseteq ApiSession /\ Curated(tx) \subseteq ApiSession
    BY DEF Curated
  <2> QED BY <2>1, <2>2
<1>5. \A s \in Session : SessionOk(s, tx[s], Curated(tx))
  BY DEF RuntimeInv, Good
<1>6. ASSUME NEW s \in Session PROVE SessionOk(s, T2[s], Curated(T2))
  <2>1. CASE s \in ApiSession /\ IsOpen(s)
    <3>1. T2[s] = Over(tx[s].call, tx[s].who, "lost", {})
      BY <1>3, <2>1
    <3> QED BY <3>1 DEF SessionOk, DoneOk, Over, AllWithin, Verdicts
  <2>2. CASE ~(s \in ApiSession /\ IsOpen(s))
    BY <1>3, <1>4, <1>5, <2>2
  <2> QED BY <2>1, <2>2
<1>7. ASSUME NEW s \in ApiSession PROVE LedgerOf(db, s) = Due(s, T2[s])
  <2>1. LedgerOf(db, s) = Due(s, tx[s]) /\ s \in Session
    BY DEF RuntimeInv, Good, Session
  <2>2. CASE IsOpen(s)
    <3>1. T2[s] = Over(tx[s].call, tx[s].who, "lost", {})
      BY <1>3, <2>1, <2>2
    <3>2. Due(s, T2[s]) = {} /\ Due(s, tx[s]) = {}
      BY <2>2, <3>1 DEF Due, Verdict, Verdicts, Over, IsOpen
    <3> QED BY <2>1, <3>2
  <2>3. CASE ~IsOpen(s)
    BY <1>3, <2>1, <2>3
  <2> QED BY <2>2, <2>3
<1>8. RowsOk(db, Curated(T2))
  BY <1>4 DEF RuntimeInv, Good
<1>9. Good(db, T2)
  BY <1>3, <1>6, <1>7, <1>8 DEF Good
<1> QED BY <1>1, <1>2, <1>9 DEF RuntimeInv
----------------------------------------------------------------------------
(* Calls are given their programs.                                         *)
LEMMA StartOk ==
  ASSUME NEW s \in Session, NEW C, NEW call, NEW who, NEW todo, IsSeq(todo),
         NEW x, x = Start(call, who, todo), Program(s, x, C)
  PROVE  OpenOk(s, x, C)
<1>1. /\ x.pc = "open"
      /\ DOMAIN x = {"pc", "call", "who", "todo", "pend", "rows", "gone", "source", "found", "answer"}
      /\ x.todo = todo /\ x.pend = << >> /\ x.rows = {} /\ x.gone = {} /\ x.who = who
      /\ x.answer = [code |-> "pending", hits |-> {}] /\ x.found = [layer \in {1, 2} |-> {}]
  BY DEF Start
<1>2. Shape(x)
  BY <1>1, ShortSteps DEF Shape
<1>3. Written(s, x)
  <2>1. x.answer.code = "pending"
    BY <1>1
  <2>2. Verdict(s, x) = {}
    BY <2>1 DEF Verdict, Verdicts
  <2>3. Audits(x.rows) = {}
    BY <1>1 DEF Audits
  <2>4. DOMAIN x.pend = {}
    BY <1>1
  <2> QED BY <1>1, <2>2, <2>3, <2>4 DEF Written
<1> QED BY <1>2, <1>3 DEF OpenOk

(* A question's program.                                                   *)
LEMMA QueryStarts ==
  ASSUME NEW s \in ApiSession, NEW C, NEW call \in ApiCall, call.op = "query", NEW who,
         NEW x, x = Start(call, who, QueryProgram(call))
  PROVE  OpenOk(s, x, C)
<1>1. call.layer \in {0, 1, 2} /\ call.refused \in BOOLEAN
  BY RuntimeQueries
<1>2. PICK todo : todo = QueryProgram(call)
  OBVIOUS
<1>3. /\ x.call = call /\ x.who = who /\ x.todo = todo /\ x.pend = << >> /\ x.rows = {}
      /\ x.found[1] = {} /\ x.found[2] = {} /\ x.answer.code = "pending" /\ x.answer.hits = {}
  BY <1>2 DEF Start
<1>4. /\ IsSeq(todo) /\ todo # << >>
      /\ Asking(x)
  <2>1. CASE call.refused
    <3>1. todo = <<[do |-> "refuse"]>>
      BY <1>2, <2>1 DEF QueryProgram
    <3>2. IsSeq(todo) /\ todo # << >>
      BY <3>1, ShortSteps
    <3> QED BY <1>3, <2>1, <3>1, <3>2 DEF Asking
  <2>2. CASE ~call.refused /\ call.layer \in {1, 2}
    <3>1. PICK body : body = Search(call.layer)
      OBVIOUS
    <3>2. /\ IsSeq(body) /\ Len(body) = 2
          /\ body[1].do = "semantic" /\ body[1].layer = call.layer
          /\ body[2].do = "lexical" /\ body[2].layer = call.layer
      BY <3>1, ShortSteps DEF Search
    <3>3. todo = body \o <<[do |-> "ground"]>>
      <4>1. call.layer # 0
        BY <2>2
      <4> QED BY <1>2, <2>2, <3>1, <4>1 DEF QueryProgram
    <3>4. /\ IsSeq(todo) /\ DOMAIN todo = 1 .. 2 + 1 /\ Len(todo) = 2 + 1
          /\ todo[2 + 1] = [do |-> "ground"]
          /\ todo[1] = body[1] /\ todo[2] = body[2]
      <4>1. PICK last : last = <<[do |-> "ground"]>>
        OBVIOUS
      <4>2. todo = body \o last
        BY <3>3, <4>1
      <4>3. IsSeq(body) /\ IsSeq(last) /\ Len(last) = 1 /\ last[1] = [do |-> "ground"]
        BY <3>2, <4>1, ShortSteps
      <4>4. /\ IsSeq(body \o last) /\ Len(body \o last) = Len(body) + 1
            /\ DOMAIN (body \o last) = 1 .. Len(body) + 1
            /\ (body \o last)[Len(body) + 1] = last[1]
            /\ \A i \in 1 .. Len(body) : (body \o last)[i] = body[i]
        BY <4>3, ThenOne
      <4> QED BY <3>2, <4>2, <4>3, <4>4
    <3>5. /\ todo # << >> /\ DOMAIN todo = {1, 2, 3} /\ Len(todo) = 3 /\ todo[3].do = "ground"
      <4>1. 2 + 1 = 3 /\ 1 .. 3 = {1, 2, 3}
        OBVIOUS
      <4>2. DOMAIN todo = 1 .. 3 /\ Len(todo) = 3 /\ todo[3] = [do |-> "ground"]
        BY <3>4, <4>1
      <4>3. todo # << >>
        BY <4>2
      <4> QED BY <4>1, <4>2, <4>3
    <3>6. \A i \in DOMAIN todo :
            /\ todo[i].do \in {"semantic", "lexical", "ground"}
            /\ todo[i].do = "ground" <=> i = Len(todo)
            /\ todo[i].do # "ground" => /\ todo[i].layer \in {1, 2}
                                        /\ call.layer # 3 - todo[i].layer
      BY <2>2, <3>2, <3>4, <3>5
    <3> QED BY <1>3, <2>2, <3>4, <3>5, <3>6 DEF Asking, Do
  <2>3. CASE ~call.refused /\ call.layer = 0
    <3>1. PICK p, q : p = Search(2) /\ q = Search(1)
      OBVIOUS
    <3>2. /\ IsSeq(p) /\ Len(p) = 2
          /\ p[1].do = "semantic" /\ p[1].layer = 2 /\ p[2].do = "lexical" /\ p[2].layer = 2
      BY <3>1, ShortSteps DEF Search
    <3>3. /\ IsSeq(q) /\ Len(q) = 2
          /\ q[1].do = "semantic" /\ q[1].layer = 1 /\ q[2].do = "lexical" /\ q[2].layer = 1
      BY <3>1, ShortSteps DEF Search
    <3>4. PICK body : body = p \o q
      OBVIOUS
    <3>5. /\ IsSeq(body) /\ Len(body) = 4
          /\ body[1] = p[1] /\ body[2] = p[2] /\ body[3] = q[1] /\ body[4] = q[2]
      <4>1. /\ IsSeq(p \o q) /\ Len(p \o q) = 4
            /\ (p \o q)[1] = p[1] /\ (p \o q)[2] = p[2] /\ (p \o q)[3] = q[1] /\ (p \o q)[4] = q[2]
        BY <3>2, <3>3, ShortConcat
      <4> QED BY <3>4, <4>1
    <3>6. todo = body \o <<[do |-> "ground"]>>
      BY <1>2, <2>3, <3>1, <3>4 DEF QueryProgram
    <3>7. /\ IsSeq(todo) /\ DOMAIN todo = 1 .. 4 + 1 /\ Len(todo) = 4 + 1
          /\ todo[4 + 1] = [do |-> "ground"]
          /\ todo[1] = body[1] /\ todo[2] = body[2] /\ todo[3] = body[3] /\ todo[4] = body[4]
      <4>1. PICK last : last = <<[do |-> "ground"]>>
        OBVIOUS
      <4>2. todo = body \o last
        BY <3>6, <4>1
      <4>3. IsSeq(body) /\ IsSeq(last) /\ Len(last) = 1 /\ last[1] = [do |-> "ground"]
        BY <3>5, <4>1, ShortSteps
      <4>4. /\ IsSeq(body \o last) /\ Len(body \o last) = Len(body) + 1
            /\ DOMAIN (body \o last) = 1 .. Len(body) + 1
            /\ (body \o last)[Len(body) + 1] = last[1]
            /\ \A i \in 1 .. Len(body) : (body \o last)[i] = body[i]
        BY <4>3, ThenOne
      <4> QED BY <3>5, <4>2, <4>3, <4>4
    <3>8. /\ todo # << >> /\ DOMAIN todo = {1, 2, 3, 4, 5} /\ Len(todo) = 5 /\ todo[5].do = "ground"
      BY <3>7
    <3>9. \A i \in DOMAIN todo :
            /\ todo[i].do \in {"semantic", "lexical", "ground"}
            /\ todo[i].do = "ground" <=> i = Len(todo)
            /\ todo[i].do # "ground" => /\ todo[i].layer \in {1, 2}
                                        /\ call.layer # 3 - todo[i].layer
      BY <2>3, <3>2, <3>3, <3>5, <3>7, <3>8
    <3> QED BY <1>3, <2>3, <3>7, <3>8, <3>9 DEF Asking, Do
  <2> QED BY <1>1, <2>1, <2>2, <2>3
<1>5. Questioning(x, C)
  BY <1>3, <1>4 DEF Questioning, Answered, AllWithin
<1>6. Program(s, x, C)
  BY <1>3, <1>5 DEF Program
<1> QED BY <1>2, <1>4, <1>6, StartOk DEF Session

LEMMA IngestStarts ==
  ASSUME NEW s \in ApiSession, NEW C, NEW call \in ApiCall, call.op = "ingest", NEW who,
         call.layer = 1 => Curator(who),
         NEW x, x = Start(call, who, IngestProgram(call, who))
  PROVE  OpenOk(s, x, C)
<1>1. PICK todo : todo = IngestProgram(call, who)
  OBVIOUS
<1>2. x.call = call /\ x.who = who /\ x.todo = todo /\ x.answer.code = "pending"
  BY <1>1 DEF Start
<1>3. PICK scope : scope = IF call.layer = 1 THEN PlatformScope ELSE EstateScope(who)
  OBVIOUS
<1>4. scope.do = "scope"
  BY <1>3 DEF PlatformScope, EstateScope
<1>5. todo = <<scope, [do |-> "ingest"]>>
  BY <1>1, <1>3 DEF IngestProgram
<1>6. DOMAIN todo = {1, 2} /\ todo[1].do = "scope" /\ todo[2].do = "ingest"
  BY <1>4, <1>5
<1>7. IsSeq(todo)
  BY <1>5, ShortSteps
<1>8. Ingestion(x)
  BY <1>2, <1>6 DEF Ingestion, Do
<1>9. Program(s, x, C)
  BY <1>2, <1>8 DEF Program
<1> QED BY <1>1, <1>7, <1>9, StartOk DEF Session

LEMMA ReaderStarts ==
  ASSUME NEW s \in ApiSession, NEW C, NEW call \in ApiCall, call.op # "query", call.op # "ingest",
         NEW who, NEW todo,
         \/ todo = <<[do |-> "reset"]>> /\ call.op # "list"
         \/ todo = <<[do |-> "classify"]>> /\ call.op # "list"
         \/ todo = <<[do |-> "status"]>> /\ call.op # "list"
         \/ todo = <<[do |-> "sources"], [do |-> "by_pack"]>> /\ call.op # "list"
         \/ todo = <<[do |-> "list"]>>,
         NEW x, x = Start(call, who, todo)
  PROVE  OpenOk(s, x, C)
<1>1. x.call = call /\ x.who = who /\ x.todo = todo /\ x.answer.code = "pending"
      /\ x.answer.hits = {} /\ x.pend = << >>
  BY DEF Start
<1>2. IsSeq(todo)
  BY ShortSteps
<1>3. \A i \in DOMAIN todo :
        todo[i].do \in IF call.op = "list" THEN {"list"}
           ELSE {"classify", "status", "reset", "sources", "by_pack", "list"}
  OBVIOUS
<1>4. Reading(x)
  BY <1>1, <1>3 DEF Reading, Do
<1>5. Program(s, x, C)
  BY <1>1, <1>4 DEF Program
<1> QED BY <1>2, <1>5, StartOk DEF Session

(* A loader's program.                                                     *)
LEMMA LoadStarts ==
  ASSUME NEW s \in CliSession, NEW C, NEW call \in LoadCall, NEW who,
         NEW x, x = Start(call, who, LoadProgram(call))
  PROVE  OpenOk(s, x, C)
<1> DEFINE LoadSteps == {"scope", "source", "delete", "new_source", "core", "intents", "line", "count"}
<1>1. PICK todo : todo = LoadProgram(call)
  OBVIOUS
<1>2. x.call = call /\ x.who = who /\ x.todo = todo /\ x.answer.code = "pending"
  BY <1>1 DEF Start
<1>3. /\ IsSeq(todo) /\ \A i \in DOMAIN todo : todo[i].do \in LoadSteps \ {"delete"}
      /\ SourceFirst(todo, NoSource)
  <2>1. PlatformScope.do = "scope"
    BY DEF PlatformScope
  <2>2. CASE call.pack = CorePack
    <3>1. PICK body : body = <<PlatformScope, [do |-> "source"], [do |-> "core"]>>
      OBVIOUS
    <3>2. /\ IsSeq(body) /\ Len(body) = 3
          /\ body[1].do = "scope" /\ body[2].do = "source" /\ body[3].do = "core"
      BY <2>1, <3>1, ShortSteps
    <3>3. IsSeq(todo) /\ DOMAIN todo = {1, 2, 3, 4} /\ todo[1].do = "scope" /\ todo[2].do = "source"
          /\ todo[3].do = "core" /\ todo[4].do = "count"
      <4>1. todo = body \o <<[do |-> "count"]>>
        BY <1>1, <2>2, <3>1, RuntimePacks DEF LoadProgram
      <4>2. /\ IsSeq(todo) /\ DOMAIN todo = 1 .. 3 + 1
            /\ todo[3 + 1] = [do |-> "count"]
            /\ todo[1] = body[1] /\ todo[2] = body[2] /\ todo[3] = body[3]
        <5>1. PICK last : last = <<[do |-> "count"]>>
          OBVIOUS
        <5>2. todo = body \o last
          BY <4>1, <5>1
        <5>3. IsSeq(body) /\ IsSeq(last) /\ Len(last) = 1 /\ last[1] = [do |-> "count"]
          BY <3>2, <5>1, ShortSteps
        <5>4. /\ IsSeq(body \o last) /\ Len(body \o last) = Len(body) + 1
              /\ DOMAIN (body \o last) = 1 .. Len(body) + 1
              /\ (body \o last)[Len(body) + 1] = last[1]
              /\ \A i \in 1 .. Len(body) : (body \o last)[i] = body[i]
          BY <5>3, ThenOne
        <5> QED BY <3>2, <5>2, <5>3, <5>4
      <4> QED BY <3>2, <4>2
    <3>4. SourceFirst(todo, NoSource)
      BY <3>3 DEF SourceFirst
    <3> QED BY <3>3, <3>4
  <2>3. CASE call.pack # CorePack /\ call.pack = IntentPack
    <3>1. PICK body : body = <<PlatformScope, [do |-> "source"], [do |-> "intents"]>>
      OBVIOUS
    <3>2. /\ IsSeq(body) /\ Len(body) = 3
          /\ body[1].do = "scope" /\ body[2].do = "source" /\ body[3].do = "intents"
      BY <2>1, <3>1, ShortSteps
    <3>3. IsSeq(todo) /\ DOMAIN todo = {1, 2, 3, 4} /\ todo[1].do = "scope" /\ todo[2].do = "source"
          /\ todo[3].do = "intents" /\ todo[4].do = "count"
      <4>1. todo = body \o <<[do |-> "count"]>>
        BY <1>1, <2>3, <3>1, RuntimePacks DEF LoadProgram
      <4>2. /\ IsSeq(todo) /\ DOMAIN todo = 1 .. 3 + 1
            /\ todo[3 + 1] = [do |-> "count"]
            /\ todo[1] = body[1] /\ todo[2] = body[2] /\ todo[3] = body[3]
        <5>1. PICK last : last = <<[do |-> "count"]>>
          OBVIOUS
        <5>2. todo = body \o last
          BY <4>1, <5>1
        <5>3. IsSeq(body) /\ IsSeq(last) /\ Len(last) = 1 /\ last[1] = [do |-> "count"]
          BY <3>2, <5>1, ShortSteps
        <5>4. /\ IsSeq(body \o last) /\ Len(body \o last) = Len(body) + 1
              /\ DOMAIN (body \o last) = 1 .. Len(body) + 1
              /\ (body \o last)[Len(body) + 1] = last[1]
              /\ \A i \in 1 .. Len(body) : (body \o last)[i] = body[i]
          BY <5>3, ThenOne
        <5> QED BY <3>2, <5>2, <5>3, <5>4
      <4> QED BY <3>2, <4>2
    <3>4. SourceFirst(todo, NoSource)
      BY <3>3 DEF SourceFirst
    <3> QED BY <3>3, <3>4
  <2>4. CASE call.pack # CorePack /\ call.pack # IntentPack
    <3>1. PICK lines : lines = LineProgram
      OBVIOUS
    <3>2. todo = (<<[do |-> "source"]>> \o lines) \o <<[do |-> "count"]>>
      BY <1>1, <2>4, <3>1 DEF LoadProgram
    <3>3. IsSeq(lines)
      <4>1. Len(Lines) \in Nat
        BY RuntimePacks
      <4>2. DOMAIN lines = 1 .. 2 * Len(Lines) /\ 2 * Len(Lines) \in Nat
        BY <3>1, <4>1 DEF LineProgram
      <4>3. lines \in [1 .. 2 * Len(Lines) -> {lines[i] : i \in DOMAIN lines}]
        BY <3>1, <4>2 DEF LineProgram
      <4>4. PICK n : n = 2 * Len(Lines)
        OBVIOUS
      <4>5. lines \in [1 .. n -> {lines[i] : i \in DOMAIN lines}] /\ n \in Nat
        BY <4>2, <4>3, <4>4
      <4>6. lines \in Seq({lines[i] : i \in DOMAIN lines})
        BY <4>5
      <4> QED BY <4>6 DEF IsSeq
    <3>4. \A i \in DOMAIN lines : lines[i].do \in {"line", "scope"}
      BY <3>1 DEF LineProgram
    <3>5. PICK p : p = <<[do |-> "source"]>> \o lines
      OBVIOUS
    <3>6. IsSeq(<<[do |-> "source"]>>) /\ IsSeq(<<[do |-> "count"]>>)
      BY ShortSteps
    <3>7. IsSeq(p) /\ \A i \in DOMAIN p : p[i].do \in {"source", "line", "scope"}
      <4>1. PICK q : q = <<[do |-> "source"]>>
        OBVIOUS
      <4>2. IsSeq(q) /\ \A i \in DOMAIN q : q[i].do = "source"
        BY <3>6, <4>1
      <4>3. p = q \o lines
        BY <3>5, <4>1
      <4>4. \A i \in DOMAIN p : (\E j \in DOMAIN q : p[i] = q[j]) \/ (\E j \in DOMAIN lines : p[i] = lines[j])
        BY <3>3, <4>2, <4>3, ConcatFrom
      <4>5. IsSeq(p)
        BY <3>3, <4>2, <4>3, ConcatSteps
      <4> QED BY <3>4, <4>2, <4>4, <4>5
    <3>8. IsSeq(todo) /\ \A i \in DOMAIN todo : todo[i].do \in {"source", "line", "scope", "count"}
      <4>1. PICK q : q = <<[do |-> "count"]>>
        OBVIOUS
      <4>2. IsSeq(q) /\ \A i \in DOMAIN q : q[i].do = "count"
        BY <3>6, <4>1
      <4>3. todo = p \o q
        BY <3>2, <3>5, <4>1
      <4>4. \A i \in DOMAIN todo : (\E j \in DOMAIN p : todo[i] = p[j]) \/ (\E j \in DOMAIN q : todo[i] = q[j])
        BY <3>7, <4>2, <4>3, ConcatFrom
      <4>5. IsSeq(todo)
        BY <3>7, <4>2, <4>3, ConcatSteps
      <4> QED BY <3>7, <4>2, <4>4, <4>5
    <3>9. SourceFirst(todo, NoSource)
      BY <3>8 DEF SourceFirst
    <3> QED BY <3>8, <3>9
  <2> QED BY <2>2, <2>3, <2>4
<1>4. Loading(x)
  <2>1. SourceFirst(x.todo, x.source)
    BY <1>2, <1>3 DEF Start
  <2>2. DeletesSources(x.todo)
    BY <1>2, <1>3 DEF DeletesSources
  <2> QED BY <1>2, <1>3, <2>1, <2>2 DEF Loading, Do
<1>5. Program(s, x, C)
  BY <1>2, <1>4, RuntimeSessions DEF Program
<1> QED BY <1>1, <1>3, <1>5, StartOk DEF Session
----------------------------------------------------------------------------
(* A call is taken: refused at once, or given its program.                 *)
LEMMA OverOk ==
  ASSUME NEW s, NEW C, NEW call, NEW who, NEW code, code \notin Verdicts,
         NEW x, x = Over(call, who, code, {})
  PROVE  x.pc = "done" /\ x.answer.code \notin Verdicts /\ DoneOk(s, x, C)
<1>1. x.pc = "done" /\ x.answer.code = code /\ x.answer.hits = {}
  BY DEF Over
<1> QED BY <1>1 DEF DoneOk, AllWithin

LEMMA TakenMoves ==
  ASSUME RuntimeInv, NEW s \in Session, tx[s] = Idle, NEW y,
         tx' = [tx EXCEPT ![s] = y], db' = db,
         \/ OpenOk(s, y, Curated(tx))
         \/ y.pc = "done" /\ y.answer.code \notin Verdicts /\ DoneOk(s, y, Curated(tx))
  PROVE  RuntimeInv'
<1>1. DOMAIN tx = Session /\ Good(db, tx)
  BY DEF RuntimeInv, Good
<1>2. tx[s].pc # "done"
  BY DEF Idle
<1>3. ASSUME NEW T2, T2 = [tx EXCEPT ![s] = y] PROVE Good(db, T2)
  <2>1. DOMAIN T2 = Session /\ T2[s] = y /\ \A u \in Session : u # s => T2[u] = tx[u]
    BY <1>1, <1>3
  <2>2. CASE OpenOk(s, y, Curated(tx))
    <3>1. OpenOk(s, T2[s], Curated(tx))
      BY <2>1, <2>2
    <3> QED BY <1>1, <1>2, <2>1, <3>1, OpenMoves
  <2>3. CASE y.pc = "done" /\ y.answer.code \notin Verdicts /\ DoneOk(s, y, Curated(tx))
    <3>1. T2[s].pc = "done" /\ T2[s].answer.code \notin Verdicts /\ DoneOk(s, T2[s], Curated(tx))
      BY <2>1, <2>3
    <3> QED BY <1>1, <1>2, <2>1, <3>1, OverMoves
  <2> QED BY <2>2, <2>3
<1> QED BY <1>3 DEF RuntimeInv

LEMMA RequestMoves ==
  ASSUME RuntimeInv, NEW s \in ApiSession, NEW call \in ApiCall, Request(s, call)
  PROVE  RuntimeInv'
<1>1. s \in Session /\ tx[s] = Idle /\ db' = db
  BY DEF Request, Session
<1>2. PICK C : C = Curated(tx)
  OBVIOUS
<1>3. PICK code, who : /\ code = Denied(call.header, call.tenant, call.estate)
                       /\ who = ResolvePrincipal(call.header, call.tenant, call.estate)
  OBVIOUS
<1>4. PICK may : may = AuthorizeEstate(who, who.tenant, who.estate,
                                      call.op = "ingest" /\ call.layer = 1)
  OBVIOUS
<1>5. PICK y : y = IF code # "no" THEN Over(call, Blank, code, {})
           ELSE CASE call.op = "reset" ->
                       IF ~RequireAdmin(who) THEN Over(call, who, "admin_required", {})
                       ELSE IF ~AdminRoutes THEN Over(call, who, "admin_route_disabled", {})
                       ELSE Start(call, who, <<[do |-> "reset"]>>)
                  [] call.op \in {"classify", "status"} ->
                       Start(call, who, <<[do |-> call.op]>>)
                  [] call.op = "inventory" ->
                       Start(call, who, <<[do |-> "sources"], [do |-> "by_pack"]>>)
                  [] OTHER ->
                       IF ~may THEN Over(call, who, "curator_required", {})
                       ELSE CASE call.op = "query" -> Start(call, who, QueryProgram(call))
                              [] call.op = "ingest" -> Start(call, who, IngestProgram(call, who))
                              [] OTHER -> Start(call, who, <<[do |-> "list"]>>)
  OBVIOUS
<1>6. tx' = [tx EXCEPT ![s] = y]
  BY <1>3, <1>4, <1>5 DEF Request
<1>7. code \notin Verdicts
  BY <1>3, Zenon DEF Denied, Verdicts
<1>8. \/ OpenOk(s, y, C)
      \/ y.pc = "done" /\ y.answer.code \notin Verdicts /\ DoneOk(s, y, C)
  <2>1. CASE code # "no"
    <3>1. y = Over(call, Blank, code, {})
      BY <1>5, <2>1
    <3> QED BY <1>7, <3>1, OverOk
  <2>2. CASE code = "no" /\ call.op = "reset"
    <3>1. \/ y = Over(call, who, "admin_required", {})
          \/ y = Over(call, who, "admin_route_disabled", {})
          \/ y = Start(call, who, <<[do |-> "reset"]>>)
      BY <1>5, <2>2
    <3>2. "admin_required" \notin Verdicts /\ "admin_route_disabled" \notin Verdicts
      BY DEF Verdicts
    <3>3. CASE y = Over(call, who, "admin_required", {})
      BY <3>2, <3>3, OverOk
    <3>4. CASE y = Over(call, who, "admin_route_disabled", {})
      BY <3>2, <3>4, OverOk
    <3>5. CASE y = Start(call, who, <<[do |-> "reset"]>>)
      BY <2>2, <3>5, ReaderStarts
    <3> QED BY <3>1, <3>3, <3>4, <3>5
  <2>3. CASE code = "no" /\ call.op = "classify"
    <3>1. y = Start(call, who, <<[do |-> "classify"]>>)
      BY <1>5, <2>3
    <3> QED BY <2>3, <3>1, ReaderStarts
  <2>4. CASE code = "no" /\ call.op = "status"
    <3>1. y = Start(call, who, <<[do |-> "status"]>>)
      BY <1>5, <2>4
    <3> QED BY <2>4, <3>1, ReaderStarts
  <2>5. CASE code = "no" /\ call.op = "inventory"
    <3>1. y = Start(call, who, <<[do |-> "sources"], [do |-> "by_pack"]>>)
      BY <1>5, <2>5
    <3> QED BY <2>5, <3>1, ReaderStarts
  <2>6. CASE code = "no" /\ call.op \notin {"reset", "classify", "status", "inventory"} /\ ~may
    <3>1. y = Over(call, who, "curator_required", {})
      BY <1>5, <2>6
    <3>2. "curator_required" \notin Verdicts
      BY DEF Verdicts
    <3> QED BY <3>1, <3>2, OverOk
  <2>7. CASE code = "no" /\ call.op = "query" /\ may
    <3>1. y = Start(call, who, QueryProgram(call))
      BY <1>5, <2>7
    <3> QED BY <2>7, <3>1, QueryStarts
  <2>8. CASE code = "no" /\ call.op = "ingest" /\ may
    <3>1. y = Start(call, who, IngestProgram(call, who))
      BY <1>5, <2>8
    <3>2. call.layer = 1 => Curator(who)
      BY <1>4, <2>8 DEF AuthorizeEstate, Curator
    <3> QED BY <2>8, <3>1, <3>2, IngestStarts
  <2>9. CASE /\ code = "no" /\ may
             /\ call.op \notin {"reset", "classify", "status", "inventory", "query", "ingest"}
    <3>1. y = Start(call, who, <<[do |-> "list"]>>)
      BY <1>5, <2>9
    <3> QED BY <2>9, <3>1, ReaderStarts
  <2> QED BY <2>1, <2>2, <2>3, <2>4, <2>5, <2>6, <2>7, <2>8, <2>9
<1> QED BY <1>1, <1>2, <1>6, <1>8, TakenMoves

LEMMA LoadPackMoves ==
  ASSUME RuntimeInv, NEW s \in CliSession, NEW call \in LoadCall, LoadPack(s, call)
  PROVE  RuntimeInv'
<1>1. s \in Session /\ tx[s] = Idle /\ db' = db
  BY DEF LoadPack, Session
<1>2. PICK C : C = Curated(tx)
  OBVIOUS
<1>3. PICK y : y = IF call.full THEN Over(call, Blank, "full_profile_refused", {})
                   ELSE Start(call, Blank, LoadProgram(call))
  OBVIOUS
<1>4. tx' = [tx EXCEPT ![s] = y]
  BY <1>3 DEF LoadPack
<1>5. \/ OpenOk(s, y, C)
      \/ y.pc = "done" /\ y.answer.code \notin Verdicts /\ DoneOk(s, y, C)
  <2>1. CASE call.full
    <3>1. "full_profile_refused" \notin Verdicts
      BY DEF Verdicts
    <3> QED BY <1>3, <2>1, <3>1, OverOk
  <2>2. CASE ~call.full
    BY <1>3, <2>2, LoadStarts
  <2> QED BY <2>1, <2>2
<1> QED BY <1>1, <1>2, <1>4, <1>5, TakenMoves
----------------------------------------------------------------------------
(* Init, and every step.                                                   *)
LEMMA InitGood == RuntimeInit => RuntimeInv
<1> SUFFICES ASSUME RuntimeInit PROVE Good(db, tx)
  BY DEF RuntimeInv
<1>1. /\ DOMAIN tx = Session /\ \A s \in Session : tx[s] = Idle
      /\ db \in Corpora
  BY DEF RuntimeInit
<1>2. LeftBehind(db)
  BY <1>1, RuntimeCorpora
<1>3. \A s \in Session : SessionOk(s, tx[s], Curated(tx))
  BY <1>1 DEF SessionOk
<1>4. RowsOk(db, Curated(tx))
  <2>1. \A r \in db : r.table = "source_records" => r.gen # NoSource
    BY <1>2 DEF LeftBehind, In
  <2>2. \A r \in db : r.table = "documents" => Blessed(r, Curated(tx))
    BY <1>2 DEF LeftBehind, In, Blessed
  <2> QED BY <2>1, <2>2 DEF RowsOk
<1>5. ASSUME NEW s \in ApiSession PROVE LedgerOf(db, s) = Due(s, tx[s])
  <2>1. \A r \in db : r.id # s
    BY <1>2 DEF LeftBehind, Session
  <2>2. LedgerOf(db, s) = {}
    BY <2>1 DEF LedgerOf, Audits
  <2>3. Due(s, tx[s]) = {}
    BY <1>1 DEF Due, Idle, Session
  <2> QED BY <2>2, <2>3
<1> QED BY <1>1, <1>3, <1>4, <1>5 DEF Good

LEMMA StepMoves == ASSUME RuntimeInv, [RuntimeNext]_runtimeVars PROVE RuntimeInv'
<1>1. CASE RuntimeNext
  <2>1. ASSUME NEW s \in ApiSession, NEW call \in ApiCall, Request(s, call) PROVE RuntimeInv'
    BY <2>1, RequestMoves
  <2>2. ASSUME NEW s \in CliSession, NEW call \in LoadCall, LoadPack(s, call) PROVE RuntimeInv'
    BY <2>2, LoadPackMoves
  <2>3. ASSUME NEW s \in Session, Step(s) PROVE RuntimeInv'
    <3>1. CASE Flush(s)
      BY <3>1, FlushMoves
    <3>2. CASE BreakDeadlock(s)
      BY <3>2, DeadlockMoves
    <3>3. CASE EnsureScope(s)
      BY <3>3, ScopeMoves
    <3>4. CASE LookSource(s)
      BY <3>4, LookMoves
    <3>5. CASE DeleteSource(s)
      BY <3>5, DeleteMoves
    <3>6. CASE NewSource(s)
      BY <3>6, NewSourceMoves
    <3>7. CASE EmbedderFails(s)
      BY <3>7, EmbedderFailMoves
    <3>8. CASE Ingest(s)
      BY <3>8, IngestMoves
    <3>9. CASE LoadCore(s)
      BY <3>9, CoreMoves
    <3>10. CASE LoadIntents(s)
      BY <3>10, IntentMoves
    <3>11. CASE LoadLine(s)
      BY <3>11, LineMoves
    <3>12. CASE Count(s)
      BY <3>12, CountMoves
    <3>13. CASE SemanticSearch(s) \/ LexicalSearch(s)
      BY <3>13, SearchMoves
    <3>14. CASE Ground(s) \/ Refuse(s)
      BY <3>14, AnswerMoves
    <3>15. CASE ListRows(s) \/ ClassifyIntent(s) \/ Status(s) \/ ResetEmbedder(s)
      BY <3>15, ReaderMoves
    <3>16. CASE InventorySources(s) \/ InventoryDocuments(s)
      BY <3>16, InventoryMoves
    <3>17. CASE Commit(s)
      BY <3>17, CommitMoves
    <3>18. CASE SendAnswer(s)
      BY <3>18 DEF SendAnswer, RuntimeInv
    <3> QED BY <2>3, <3>1, <3>2, <3>3, <3>4, <3>5, <3>6, <3>7, <3>8, <3>9, <3>10, <3>11,
               <3>12, <3>13, <3>14, <3>15, <3>16, <3>17, <3>18 DEF Step
  <2>4. ASSUME NEW s \in Session, DatabaseFails(s) \/ Kill(s) PROVE RuntimeInv'
    <3>1. "database_error" \notin Verdicts /\ "killed" \notin Verdicts
      BY DEF Verdicts
    <3>2. \/ IsOpen(s) /\ (Fail(s, "database_error") \/ Fail(s, "killed"))
          \/ UNCHANGED <<db, tx>>
      BY <2>4 DEF DatabaseFails, Kill
    <3>3. CASE UNCHANGED <<db, tx>>
      BY <3>3 DEF RuntimeInv
    <3> QED BY <3>1, <3>2, <3>3, FailMoves
  <2>5. CASE Restart
    BY <2>5, RestartMoves
  <2>6. CASE Operator
    BY <2>6 DEF Operator, RuntimeInv
  <2> QED BY <1>1, <2>1, <2>2, <2>3, <2>4, <2>5, <2>6 DEF RuntimeNext, Work, Disturbance
<1>2. CASE UNCHANGED runtimeVars
  BY <1>2 DEF runtimeVars, RuntimeInv
<1> QED BY <1>1, <1>2

(* Whatever is asked, loaded and ingested side by side, fails, is killed   *)
(* or restarted: each session has a program of its own call before it, and *)
(* the ledger holds the verdicts that the finished questions call for.     *)
THEOREM RuntimeCorrect == RuntimeSpec => []RuntimeInv
<1>1. RuntimeInit => RuntimeInv
  BY InitGood
<1>2. RuntimeInv /\ [RuntimeNext]_runtimeVars => RuntimeInv'
  BY StepMoves
<1> QED BY <1>1, <1>2, PTL DEF RuntimeSpec

(* query_steward(), facilities_query() and fleet_query() answer only from  *)
(* the tenant and estate that resolve_principal() admitted the caller to;  *)
(* what a query takes from the platform's layer is citable and came with a *)
(* pack or from a curator.                                                 *)
THEOREM StewardAnswersStayInScope == RuntimeSpec => []AnswersStayInScope
<1>1. RuntimeInv => AnswersStayInScope
  <2> SUFFICES ASSUME RuntimeInv, NEW s \in ApiSession, IsDone(s), NEW h \in tx[s].answer.hits,
                      NEW who, who = tx[s].who, NEW call, call = tx[s].call
               PROVE  /\ call.op = "query" =>
                           /\ h.document.cite
                           /\ \/ /\ call.layer # 1 /\ h.document.layer = 2
                                 /\ h.document.tenant = who.tenant /\ h.document.project = who.estate
                              \/ /\ call.layer # 2 /\ h.document.layer = 1
                                 /\ h.document.tenant = PlatformTenant
                                 /\ \/ h.document.source # NoSource
                                    \/ h.document.id \in ApiSession /\ CuratedBy(h.document.id)
                      /\ call.op = "list" => h.tenant = who.tenant /\ h.estate = who.estate
    BY DEF AnswersStayInScope
  <2>1. DoneOk(s, tx[s], Curated(tx))
    <3>1. s \in Session
      BY DEF Session
    <3>2. SessionOk(s, tx[s], Curated(tx))
      BY <3>1 DEF RuntimeInv, Good
    <3> QED BY <3>2 DEF SessionOk, IsDone, Idle
  <2>2. \A u : u \in Curated(tx) => u \in ApiSession /\ CuratedBy(u)
    BY DEF Curated, CuratedBy, Curator, Served, IsDone
  <2>3. call.op = "query" => Within(call, who, h.document, Curated(tx))
    BY <2>1 DEF DoneOk, AllWithin
  <2>4. call.op = "list" => h.tenant = who.tenant /\ h.estate = who.estate
    BY <2>1 DEF DoneOk
  <2> QED BY <2>2, <2>3, <2>4 DEF Within
<1> QED BY <1>1, RuntimeCorrect, PTL

(* Whoever query_steward() tells a verdict finds exactly that one in the   *)
(* audit ledger, and whoever it tells of a failure finds none, through all *)
(* failures and restarts.  A question that is still open, whose answer was *)
(* lost, or whose COMMIT the connection did not outlive has none, or, if   *)
(* session_scope() had committed, the one it would have been told.         *)
THEOREM StewardVerdictPerAnswer == RuntimeSpec => []VerdictPerAnswer
<1>1. RuntimeInv => VerdictPerAnswer
  <2> SUFFICES ASSUME RuntimeInv, NEW s \in ApiSession, tx[s] # Idle, tx[s].call.op = "query",
                      NEW code, code = tx[s].answer.code, NEW hits, hits = tx[s].answer.hits,
                      NEW written, written = VerdictsOf(s)
               PROVE  IF Told(s) THEN HasItsVerdict(s) \/ (code \notin Verdicts /\ written = {})
                                 ELSE written = {} \/ (reply[s] # "none" /\ HasItsVerdict(s))
    BY DEF VerdictPerAnswer
  <2>1. IsOpen(s) \/ (IsDone(s) /\ DoneOk(s, tx[s], Curated(tx)))
    <3>1. s \in Session
      BY DEF Session
    <3>2. SessionOk(s, tx[s], Curated(tx))
      BY <3>1 DEF RuntimeInv, Good
    <3> QED BY <3>2 DEF SessionOk, IsDone, IsOpen
  <2>2. written = LedgerOf(db, s)
    BY DEF VerdictsOf, LedgerOf, Audits, In
  <2>3. CASE IsDone(s) /\ code \in Verdicts
    <3>1. LedgerOf(db, s) = Verdict(s, tx[s])
      BY <2>3 DEF RuntimeInv, Good, Due, IsDone
    <3>2. written = {VerdictRow(s, tx[s].who, code, Cardinality(hits))}
      BY <2>2, <2>3, <3>1 DEF Verdict
    <3>3. /\ tx[s].call.refused <=> code = "out_of_scope"
          /\ hits = {} <=> code # "grounded"
      BY <2>1, <2>3 DEF DoneOk, IsOpen, IsDone
    <3>4. HasItsVerdict(s)
      BY <2>3, <3>2, <3>3, Zenon DEF HasItsVerdict
    <3>5. ~Told(s) => reply[s] # "none"
      <4>1. code # "lost"
        BY <2>3 DEF Verdicts
      <4>2. ~Told(s) => reply[s] \in {"due", "lost"}
        BY <2>3, <4>1 DEF Told
      <4> QED BY <4>2
    <3> QED BY <3>4, <3>5
  <2>4. CASE IsDone(s) /\ code \notin Verdicts
    <3>1. LedgerOf(db, s) = Verdict(s, tx[s])
      BY <2>4 DEF RuntimeInv, Good, Due, IsDone
    <3>2. written = {}
      BY <2>2, <2>4, <3>1 DEF Verdict
    <3> QED BY <2>4, <3>2
  <2>5. CASE ~IsDone(s)
    <3>1. LedgerOf(db, s) = {}
      BY <2>5 DEF RuntimeInv, Good, Due, IsDone
    <3>2. ~Told(s)
      BY <2>5 DEF Told
    <3> QED BY <2>2, <3>1, <3>2
  <2> QED BY <2>3, <2>4, <2>5
<1> QED BY <1>1, RuntimeCorrect, PTL
----------------------------------------------------------------------------
(* What a loader has written, and what is left of its program.             *)

(* The rows of a session, inserted or still to be.                         *)
Mine(x) == x.rows \cup {x.pend[i] : i \in DOMAIN x.pend}
Sources(M) == {r \in M : r.table = "source_records"}
Contents(M) == {r \in M : r.table \notin {"tenants", "estate_projects", "source_records"}}
LineTables == {"hospitality_intents", "facility_assets", "fleet_vehicles"}

(* A loader's program ends with the steps that follow its source record:   *)
(* k of them are left after this one.                                      *)
BodySize(call) == IF call.pack \in {CorePack, IntentPack} THEN 2 ELSE 2 * Len(Lines) + 1
BodyStep(call, k) ==
  IF k = 0 THEN [do |-> "count"]
  ELSE IF call.pack = CorePack THEN [do |-> "core"]
  ELSE IF call.pack = IntentPack THEN [do |-> "intents"]
  ELSE LineProgram[2 * Len(Lines) + 1 - k]
Aligned(x) ==
  \A i \in DOMAIN x.todo : Len(x.todo) - i < BodySize(x.call) =>
    x.todo[i] = BodyStep(x.call, Len(x.todo) - i)

CoreRow(i, source, f) ==
  DocumentRow(CoreDocs[i], PlatformTenant, PlatformProject, 1, CorePack, source, TRUE, f, 1)
CoreSet(source, f) == {CoreRow(i, source, f) : i \in DOMAIN CoreDocs}
IntentSet(s, source) == {IntentRow(s, n, source) : n \in 1 .. Utterances}
LineRow(s, pack, i) ==
  IF pack = AssetPack THEN AssetRow(s, i, Lines[i][1], Lines[i][2])
                      ELSE VehicleRow(s, i, Lines[i][1], Lines[i][2])
LineSet(s, pack, k) == {LineRow(s, pack, i) : i \in {j \in DOMAIN Lines : 2 * j <= k}}

(* It has written what the steps taken so far write, and nothing else.     *)
Content(s, x) ==
  LET C == Contents(Mine(x))
      left == Len(x.todo)
  IN IF x.call.pack = CorePack
     THEN IF left >= 2 THEN C = {} ELSE \E f : C = CoreSet(x.source, f)
     ELSE IF x.call.pack = IntentPack
     THEN C = IF left >= 2 THEN {} ELSE IntentSet(s, x.source)
     ELSE C = LineSet(s, x.call.pack, 2 * Len(Lines) + 1 - left)

(* The source record counts what was written.                              *)
Counts(r, x) ==
  /\ r.documents = Cardinality(In("documents", Mine(x)))
  /\ r.chunks = Chunks(In("documents", Mine(x)))
  /\ x.call.pack # CorePack =>
       r.records = IF x.call.pack = IntentPack THEN Utterances ELSE Len(Lines)

(* The source record: not looked up yet; to be replaced; to be made; one   *)
(* that was there is used; its own is written.                             *)
OnlyForced(x) ==
  \A r \in x.gone : r.table = "source_records" /\ r.id = x.call.pack /\ x.call.force
Unlooked(x) ==
  /\ Len(x.todo) \in {BodySize(x.call) + 1, BodySize(x.call) + 2}
  /\ x.todo[Len(x.todo) - BodySize(x.call)].do = "source"
  /\ Len(x.todo) = BodySize(x.call) + 2 => x.todo[1].do = "scope"
  /\ x.gone = {} /\ Sources(Mine(x)) = {}
Replaces(s, x) ==
  /\ Len(x.todo) = BodySize(x.call) + 2
  /\ x.todo[1].do = "delete" /\ x.todo[2].do = "new_source"
  /\ x.todo[1].row.table = "source_records" /\ x.todo[1].row.id = x.call.pack
  /\ x.call.force /\ x.source = s
  /\ x.gone = {} /\ Sources(Mine(x)) = {}
Makes(s, x) ==
  /\ Len(x.todo) = BodySize(x.call) + 1 /\ x.todo[1].do = "new_source"
  /\ x.source = s /\ OnlyForced(x) /\ Sources(Mine(x)) = {}
Uses(x) == Len(x.todo) <= BodySize(x.call) /\ x.gone = {} /\ Sources(Mine(x)) = {}
Made(s, x) ==
  /\ Len(x.todo) <= BodySize(x.call)
  /\ x.source = s /\ OnlyForced(x)
  /\ \E r \in Mine(x) :
       /\ Sources(Mine(x)) = {r} /\ r.id = x.call.pack /\ r.gen = s
       /\ x.todo = << >> => Counts(r, x)

Loader(s, x) ==
  /\ Aligned(x) /\ Content(s, x) /\ (x.todo = << >> => x.pend = << >>)
  /\ Unlooked(x) \/ Replaces(s, x) \/ Makes(s, x) \/ Uses(x) \/ Made(s, x)

(* A request writes no source record and no row of a pack.                 *)
Asker(s, x) ==
  /\ x.gone = {}
  /\ \A r \in Mine(x) :
       /\ r.table \in {"tenants", "estate_projects", "documents", "audit_events"}
       /\ r.table = "documents" => r.source = NoSource
       /\ r.table = "audit_events" => r.id = s

Stage(s, x) == IF s \in ApiSession THEN Asker(s, x) ELSE Loader(s, x)
Staged(T) == \A s \in Session : T[s].pc = "open" => Stage(s, T[s])

(* The keys: those of the rows an open session wrote or deleted are its    *)
(* own, and no committed row has one unless the session deletes it.        *)
SameKey(q, r) == q.table = r.table /\ q.id = r.id
Apart(Q, R) == \A q \in Q, r \in R : ~SameKey(q, r)
OwnKeys(R, x) == x.gone \subseteq R /\ UniqueKeys(x.rows) /\ Apart(x.rows, R \ x.gone)
KeysOk(R, T) ==
  /\ KnownTables(R) /\ UniqueKeys(R)
  /\ \A s \in Session : T[s].pc = "open" => OwnKeys(R, T[s])
  /\ \A s, u \in Session : s # u /\ T[s].pc = "open" /\ T[u].pc = "open" =>
       Apart(T[s].rows \cup T[s].gone, T[u].rows \cup T[u].gone)
  /\ \A s \in Session : T[s].pc # "done" =>
       \A r \in R : r.table \in LineTables => r.id[1] # s

(* The packs: a source record that was there when a loader looked is there *)
(* or was replaced, and an inventory lists documents its records count.    *)
ForcedIntents(T) ==
  \E s \in CliSession : /\ T[s].pc = "done" /\ T[s].answer.code = "ok"
                        /\ T[s].call.pack = IntentPack /\ T[s].call.force = TRUE
FoundSource(R, T, x) ==
  Uses(x) => /\ SourceOf(x.call.pack, R) # {}
             /\ x.call.pack = IntentPack =>
                  (\E r \in SourceOf(IntentPack, R) : r.gen = x.source) \/ ForcedIntents(T)
ListsWhole(hits) ==
  \A r \in hits : r.table = "source_records" /\ r.id = CorePack =>
    Cardinality(Core(hits)) = r.documents
Lists(R, x) ==
  x.call.op = "inventory" =>
    \/ /\ Len(x.todo) = 2 /\ x.todo[1].do = "sources" /\ x.todo[2].do = "by_pack"
       /\ x.answer.hits = {}
    \/ /\ Len(x.todo) = 1 /\ x.todo[1].do = "by_pack"
       /\ \A h \in x.answer.hits : h.table = "source_records" /\ (h.id = CorePack => h \in R)
    \/ Len(x.todo) = 0 /\ ListsWhole(x.answer.hits)
PacksOk(R, T) ==
  /\ CoreWhole(R) /\ PackRowsCounted(R)
  /\ \A i \in In("hospitality_intents", R) : Traced(i, R) \/ ForcedIntents(T)
  /\ \A s \in CliSession : T[s].pc = "open" => FoundSource(R, T, T[s])
  /\ \A s \in ApiSession : T[s].pc = "open" => Lists(R, T[s])
  /\ \A s \in ApiSession : T[s].pc = "done" /\ T[s].call.op = "inventory" /\ T[s].answer.code = "ok" =>
       ListsWhole(T[s].answer.hits)

PacksInv == Staged(tx) /\ KeysOk(db, tx) /\ PacksOk(db, tx)

----------------------------------------------------------------------------
(* The rows of a session that has nothing left to insert.                  *)
LEMMA MineNone == ASSUME NEW x, x.pend = << >> PROVE Mine(x) = x.rows
  BY DEF Mine

LEMMA NotNone == ASSUME NEW q, Len(q) # 0 PROVE q # << >>
<1>1. Len(<< >>) = 0
  OBVIOUS
<1> QED BY <1>1

(* Sizes.                                                                  *)
LEMMA Sizes ==
  /\ Len(Lines) \in Nat \ {0} /\ DOMAIN Lines = 1 .. Len(Lines)
  /\ Len(CoreDocs) \in Nat \ {0} /\ DOMAIN CoreDocs = 1 .. Len(CoreDocs)
  /\ \A call : /\ BodySize(call) \in Nat /\ BodySize(call) >= 2
               /\ call.pack \in {CorePack, IntentPack} => BodySize(call) = 2
               /\ call.pack \notin {CorePack, IntentPack} => BodySize(call) = 2 * Len(Lines) + 1
<1>1. Len(Lines) \in Nat \ {0} /\ DOMAIN Lines = 1 .. Len(Lines)
  BY RuntimePacks
<1>2. Len(CoreDocs) \in Nat \ {0} /\ DOMAIN CoreDocs = 1 .. Len(CoreDocs)
  BY RuntimePacks
<1>3. ASSUME NEW call
      PROVE  /\ BodySize(call) \in Nat /\ BodySize(call) >= 2
             /\ call.pack \in {CorePack, IntentPack} => BodySize(call) = 2
             /\ call.pack \notin {CorePack, IntentPack} => BodySize(call) = 2 * Len(Lines) + 1
  BY <1>1 DEF BodySize
<1> QED BY <1>1, <1>2, <1>3

(* A line's scope is ensured before the line is written.                   *)
LEMMA LineSteps ==
  /\ IsSeq(LineProgram) /\ Len(LineProgram) = 2 * Len(Lines)
  /\ DOMAIN LineProgram = 1 .. 2 * Len(Lines)
  /\ \A i \in DOMAIN Lines :
       /\ LineProgram[2 * i] = [do |-> "line", line |-> i]
       /\ LineProgram[2 * i - 1].do = "scope"
<1>1. PICK n : n = Len(Lines)
  OBVIOUS
<1>2. n \in Nat \ {0} /\ DOMAIN Lines = 1 .. n
  BY <1>1, Sizes
<1>3. DOMAIN LineProgram = 1 .. 2 * n
  BY <1>1 DEF LineProgram
<1>4. PICK q : q = LineProgram
  OBVIOUS
<1>5. PICK m : m = 2 * n
  OBVIOUS
<1>6. m \in Nat /\ q = [k \in 1 .. m |-> q[k]]
  BY <1>1, <1>2, <1>4, <1>5 DEF LineProgram
<1>7. q \in [1 .. m -> {q[i] : i \in DOMAIN q}]
  BY <1>3, <1>4, <1>5, <1>6
<1>8. q \in Seq({q[i] : i \in DOMAIN q}) /\ Len(q) = m
  BY <1>6, <1>7
<1>9. ASSUME NEW i \in DOMAIN Lines
      PROVE  /\ LineProgram[2 * i] = [do |-> "line", line |-> i]
             /\ LineProgram[2 * i - 1].do = "scope"
  <2>1. i \in 1 .. n
    BY <1>2
  <2>2. /\ 2 * i \in 1 .. 2 * n /\ 2 * i - 1 \in 1 .. 2 * n
        /\ (2 * i) % 2 = 0 /\ (2 * i - 1) % 2 = 1 /\ (2 * i + 1) \div 2 = i
    <3>1. 2 * i \in 1 .. 2 * n /\ 2 * i - 1 \in 1 .. 2 * n /\ i \in Int
      BY <1>2, <2>1
    <3>2. (2 * i) % 2 = 0
      BY <3>1
    <3>3. (2 * i - 1) % 2 = 1
      BY <3>1
    <3>4. (2 * i + 1) \div 2 = i
      BY <3>1
    <3> QED BY <3>1, <3>2, <3>3, <3>4
  <2>3. LineProgram[2 * i] = [do |-> "line", line |-> i]
    BY <1>1, <2>2 DEF LineProgram
  <2>4. LineProgram[2 * i - 1].do = "scope"
    BY <1>1, <2>2 DEF LineProgram
  <2> QED BY <2>3, <2>4
<1> QED BY <1>1, <1>3, <1>4, <1>5, <1>8, <1>9 DEF IsSeq

(* What is left of a program keeps its place.                              *)
LEMMA RestAligned ==
  ASSUME NEW x, NEW y, IsSeq(x.todo), x.todo # << >>, y.todo = Tail(x.todo), y.call = x.call
  PROVE  /\ Len(y.todo) = Len(x.todo) - 1 /\ Len(x.todo) \in Nat \ {0}
         /\ Head(x.todo) = x.todo[1] /\ 1 \in DOMAIN x.todo
         /\ DOMAIN x.todo = 1 .. Len(x.todo) /\ DOMAIN y.todo = 1 .. Len(x.todo) - 1
         /\ \A i \in DOMAIN y.todo : i + 1 \in DOMAIN x.todo /\ y.todo[i] = x.todo[i + 1]
         /\ Aligned(x) => Aligned(y)
<1>1. /\ Len(y.todo) = Len(x.todo) - 1 /\ Len(x.todo) \in Nat \ {0}
      /\ Head(x.todo) = x.todo[1] /\ 1 \in DOMAIN x.todo
      /\ DOMAIN x.todo = 1 .. Len(x.todo) /\ DOMAIN y.todo = 1 .. Len(x.todo) - 1
      /\ \A i \in DOMAIN y.todo : i + 1 \in DOMAIN x.todo /\ y.todo[i] = x.todo[i + 1]
  BY TailSteps
<1>2. ASSUME Aligned(x) PROVE Aligned(y)
  <2> SUFFICES ASSUME NEW i \in DOMAIN y.todo, Len(y.todo) - i < BodySize(y.call)
               PROVE  y.todo[i] = BodyStep(y.call, Len(y.todo) - i)
    BY DEF Aligned
  <2>1. i + 1 \in DOMAIN x.todo /\ y.todo[i] = x.todo[i + 1]
    BY <1>1
  <2>2. Len(x.todo) - (i + 1) = Len(y.todo) - i
    BY <1>1
  <2>3. Len(x.todo) - (i + 1) < BodySize(x.call) => x.todo[i + 1] = BodyStep(x.call, Len(x.todo) - (i + 1))
    BY <1>2, <2>1 DEF Aligned
  <2> QED BY <2>1, <2>2, <2>3
<1> QED BY <1>1, <1>2

(* Where a loader is, by its next step.                                    *)
LEMMA NextStep ==
  ASSUME NEW s, NEW x, IsSeq(x.todo), x.todo # << >>, Loader(s, x)
  PROVE  LET do == x.todo[1].do
             n == Len(x.todo)
         IN /\ do = "core" => x.call.pack = CorePack /\ n = 2
            /\ do = "intents" => x.call.pack = IntentPack /\ n = 2
            /\ do = "line" => /\ x.call.pack \notin {CorePack, IntentPack}
                              /\ n <= BodySize(x.call) /\ x.todo[1].line \in DOMAIN Lines
                              /\ n = 2 * Len(Lines) + 2 - 2 * x.todo[1].line
            /\ do = "count" => n = 1
            /\ do = "scope" => \/ Unlooked(x) /\ n = BodySize(x.call) + 2
                               \/ /\ x.call.pack \notin {CorePack, IntentPack}
                                  /\ n <= BodySize(x.call)
                                  /\ \E i \in DOMAIN Lines : n = 2 * Len(Lines) + 3 - 2 * i
            /\ do = "source" => Unlooked(x) /\ n = BodySize(x.call) + 1
            /\ do = "delete" => Replaces(s, x)
            /\ do = "new_source" => Makes(s, x)
<1> DEFINE do == x.todo[1].do
<1>1. PICK n, N, L : n = Len(x.todo) /\ N = BodySize(x.call) /\ L = Len(Lines)
  OBVIOUS
<1>2. /\ n \in Nat \ {0} /\ DOMAIN x.todo = 1 .. n /\ 1 \in DOMAIN x.todo
  BY <1>1, TailSteps
<1>3. /\ N \in Nat /\ N >= 2 /\ L \in Nat \ {0} /\ DOMAIN Lines = 1 .. L
      /\ x.call.pack \in {CorePack, IntentPack} => N = 2
      /\ x.call.pack \notin {CorePack, IntentPack} => N = 2 * L + 1
  BY <1>1, Sizes
<1>4. CASE n > N
  <2>1. ~Uses(x) /\ ~Made(s, x)
    BY <1>1, <1>2, <1>3, <1>4 DEF Uses, Made
  <2>2. CASE Unlooked(x)
    <3>1. /\ n \in {N + 1, N + 2} /\ x.todo[n - N].do = "source"
          /\ n = N + 2 => do = "scope"
      BY <1>1, <2>2 DEF Unlooked
    <3>2. n = N + 1 => do = "source"
      BY <1>3, <3>1
    <3> QED BY <1>1, <1>2, <1>3, <2>2, <3>1, <3>2
  <2>3. CASE Replaces(s, x)
    BY <2>3 DEF Replaces
  <2>4. CASE Makes(s, x)
    BY <2>4 DEF Makes
  <2> QED BY <2>1, <2>2, <2>3, <2>4 DEF Loader
<1>5. CASE n <= N
  <2>1. x.todo[1] = BodyStep(x.call, n - 1)
    <3>1. n - 1 < N
      BY <1>2, <1>3, <1>5
    <3> QED BY <1>1, <1>2, <3>1 DEF Loader, Aligned
  <2>2. CASE n = 1
    <3>1. do = "count"
      BY <2>1, <2>2 DEF BodyStep
    <3> QED BY <1>1, <2>2, <3>1
  <2>3. CASE n # 1 /\ x.call.pack = CorePack
    <3>1. n = 2
      BY <1>2, <1>3, <1>5, <2>3
    <3>2. do = "core"
      BY <2>1, <2>3, <3>1 DEF BodyStep
    <3> QED BY <1>1, <2>3, <3>1, <3>2
  <2>4. CASE n # 1 /\ x.call.pack # CorePack /\ x.call.pack = IntentPack
    <3>1. n = 2
      BY <1>2, <1>3, <1>5, <2>4
    <3>2. do = "intents"
      BY <2>1, <2>4, <3>1 DEF BodyStep
    <3> QED BY <1>1, <2>4, <3>1, <3>2
  <2>5. CASE n # 1 /\ x.call.pack \notin {CorePack, IntentPack}
    <3>1. PICK k : k = 2 * L + 2 - n
      OBVIOUS
    <3>2. n <= 2 * L + 1 /\ n >= 2 /\ k \in 1 .. 2 * L
      BY <1>2, <1>3, <1>5, <2>5, <3>1
    <3>3. x.todo[1] = LineProgram[k]
      <4>1. n - 1 # 0
        BY <1>2, <2>5
      <4>2. x.todo[1] = LineProgram[2 * Len(Lines) + 1 - (n - 1)]
        BY <2>1, <2>5, <4>1 DEF BodyStep
      <4>3. 2 * L + 1 - (n - 1) = k
        BY <1>2, <1>3, <3>1
      <4> QED BY <1>1, <4>2, <4>3
    <3>4. PICK i \in 1 .. L : k = 2 * i \/ k = 2 * i - 1
      <4>1. CASE k % 2 = 0
        <5>1. k \div 2 \in 1 .. L /\ k = 2 * (k \div 2)
          BY <1>3, <3>2, <4>1
        <5> QED BY <5>1
      <4>2. CASE k % 2 # 0
        <5>1. (k + 1) \div 2 \in 1 .. L /\ k = 2 * ((k + 1) \div 2) - 1
          BY <1>3, <3>2, <4>2
        <5> QED BY <5>1
      <4> QED BY <4>1, <4>2
    <3>5. CASE k = 2 * i
      <4>1. do = "line" /\ x.todo[1].line = i
        <5>1. LineProgram[2 * i] = [do |-> "line", line |-> i]
          BY <1>3, <3>4, LineSteps
        <5>2. x.todo[1] = [do |-> "line", line |-> i]
          BY <3>3, <3>5, <5>1
        <5> QED BY <5>2
      <4>2. n = 2 * L + 2 - 2 * i
        BY <1>2, <1>3, <3>1, <3>5
      <4> QED BY <1>1, <1>3, <1>5, <2>5, <3>4, <4>1, <4>2
    <3>6. CASE k = 2 * i - 1
      <4>1. do = "scope"
        BY <1>3, <3>3, <3>4, <3>6, LineSteps
      <4>2. n = 2 * L + 3 - 2 * i
        BY <1>2, <1>3, <3>1, <3>6
      <4> QED BY <1>1, <1>3, <1>5, <2>5, <3>4, <4>1, <4>2
    <3> QED BY <3>4, <3>5, <3>6
  <2> QED BY <2>2, <2>3, <2>4, <2>5
<1> QED BY <1>2, <1>3, <1>4, <1>5

(* Steps that write no row of the pack.                                    *)
LEMMA SameContents ==
  ASSUME NEW s, NEW x, NEW y, Content(s, x), y.call = x.call,
         Contents(Mine(y)) = Contents(Mine(x)),
         NEW n \in Nat, NEW m \in Nat, n = Len(x.todo), m = Len(y.todo),
         x.call.pack \in {CorePack, IntentPack} =>
           (n >= 2 /\ m >= 2) \/ (n < 2 /\ m < 2 /\ y.source = x.source),
         x.call.pack \notin {CorePack, IntentPack} =>
           \A j \in DOMAIN Lines : 2 * j <= 2 * Len(Lines) + 1 - n <=> 2 * j <= 2 * Len(Lines) + 1 - m
  PROVE  Content(s, y)
<1>1. PICK C : C = Contents(Mine(x))
  OBVIOUS
<1>2. CASE x.call.pack = CorePack
  BY <1>1, <1>2 DEF Content
<1>3. CASE x.call.pack # CorePack /\ x.call.pack = IntentPack
  BY <1>1, <1>3 DEF Content
<1>4. CASE x.call.pack \notin {CorePack, IntentPack}
  <2>1. LineSet(s, x.call.pack, 2 * Len(Lines) + 1 - n) = LineSet(s, x.call.pack, 2 * Len(Lines) + 1 - m)
    BY <1>4 DEF LineSet
  <2>2. C = LineSet(s, x.call.pack, 2 * Len(Lines) + 1 - n)
    BY <1>1, <1>4 DEF Content
  <2> QED BY <1>1, <1>4, <2>1, <2>2 DEF Content
<1> QED BY <1>2, <1>3, <1>4

----------------------------------------------------------------------------
(* The steps of a loader.                                                  *)

Steps(x, y) ==
  /\ IsSeq(x.todo) /\ x.todo # << >> /\ x.pend = << >>
  /\ y.call = x.call /\ y.todo = Tail(x.todo)

LEMMA ScopeStage ==
  ASSUME NEW s, NEW x, NEW y, Loader(s, x), Steps(x, y), x.todo[1].do = "scope",
         y.rows = x.rows, y.gone = x.gone, y.source = x.source,
         \A i \in DOMAIN y.pend : y.pend[i].table \in {"tenants", "estate_projects"}
  PROVE  /\ Loader(s, y) /\ Sources(Mine(y)) = Sources(Mine(x))
         /\ Len(x.todo) # BodySize(x.call) + 1
<1>1. PICK n, N, L : n = Len(x.todo) /\ N = BodySize(x.call) /\ L = Len(Lines)
  OBVIOUS
<1>2. /\ Len(y.todo) = n - 1 /\ n \in Nat \ {0} /\ DOMAIN x.todo = 1 .. n /\ DOMAIN y.todo = 1 .. n - 1
      /\ \A i \in DOMAIN y.todo : i + 1 \in DOMAIN x.todo /\ y.todo[i] = x.todo[i + 1]
  BY <1>1, RestAligned DEF Steps
<1>3. /\ N \in Nat /\ N >= 2 /\ L \in Nat \ {0} /\ DOMAIN Lines = 1 .. L
      /\ x.call.pack \in {CorePack, IntentPack} => N = 2
      /\ x.call.pack \notin {CorePack, IntentPack} => N = 2 * L + 1
  BY <1>1, Sizes
<1>4. \/ Unlooked(x) /\ n = N + 2
      \/ /\ x.call.pack \notin {CorePack, IntentPack} /\ n <= N
         /\ \E i \in DOMAIN Lines : n = 2 * L + 3 - 2 * i
  BY <1>1, NextStep DEF Steps
<1>5. Mine(x) = x.rows
  BY MineNone DEF Steps
<1>6. Mine(y) = x.rows \cup {y.pend[i] : i \in DOMAIN y.pend}
  BY DEF Mine
<1>7. Sources(Mine(y)) = Sources(Mine(x)) /\ Contents(Mine(y)) = Contents(Mine(x))
  BY <1>5, <1>6 DEF Sources, Contents
<1>8. Aligned(y)
  BY RestAligned DEF Steps, Loader
<1>9. n >= 3
  BY <1>3, <1>4
<1>10. y.todo # << >>
  <2>1. Len(<< >>) = 0
    OBVIOUS
  <2> QED BY <1>2, <1>9, <2>1
<1>11. Content(s, y)
  <2>1. Content(s, x) /\ n - 1 \in Nat /\ y.call = x.call
    BY <1>2 DEF Loader, Steps
  <2>2. ASSUME x.call.pack \notin {CorePack, IntentPack}, NEW j \in DOMAIN Lines
        PROVE  2 * j <= 2 * L + 1 - n <=> 2 * j <= 2 * L + 1 - (n - 1)
    <3>1. CASE n = N + 2
      BY <1>3, <2>2, <3>1
    <3>2. CASE \E i \in DOMAIN Lines : n = 2 * L + 3 - 2 * i
      <4>1. PICK i \in DOMAIN Lines : n = 2 * L + 3 - 2 * i
        BY <3>2
      <4>2. L \in Nat /\ i \in Nat /\ j \in Nat
        BY <1>3, <2>2, <4>1
      <4>3. 2 * L + 1 - n = 2 * i - 2 /\ 2 * L + 1 - (n - 1) = 2 * i - 1
        BY <4>1, <4>2
      <4>4. 2 * j <= 2 * i - 2 <=> 2 * j <= 2 * i - 1
        BY <4>2
      <4> QED BY <4>3, <4>4
    <3> QED BY <1>4, <3>1, <3>2
  <2>3. x.call.pack \in {CorePack, IntentPack} => n >= 2 /\ n - 1 >= 2
    BY <1>2, <1>9
  <2> QED BY <1>1, <1>2, <1>7, <2>1, <2>2, <2>3, SameContents
<1>12. Unlooked(y) \/ Replaces(s, y) \/ Makes(s, y) \/ Uses(y) \/ Made(s, y)
  <2>1. CASE Unlooked(x) /\ n = N + 2
    <3>1. x.todo[2].do = "source" /\ x.gone = {} /\ Sources(Mine(x)) = {}
      <4>1. n - N = 2
        BY <1>3, <2>1
      <4> QED BY <1>1, <2>1, <4>1 DEF Unlooked
    <3>2. Len(y.todo) = N + 1 /\ Len(y.todo) - N = 1 /\ Len(y.todo) # N + 2
      BY <1>2, <1>3, <2>1
    <3>3. y.todo[1] = x.todo[2]
      <4>1. 1 \in DOMAIN y.todo
        BY <1>2, <1>9
      <4> QED BY <1>2, <4>1
    <3>4. Unlooked(y)
      BY <1>1, <1>7, <3>1, <3>2, <3>3 DEF Unlooked, Steps
    <3> QED BY <3>4
  <2>2. CASE n <= N
    <3>1. Len(y.todo) <= N
      BY <1>2, <1>3, <2>2
    <3>2. Uses(x) \/ Made(s, x)
      BY <1>1, <1>2, <1>3, <2>2 DEF Loader, Unlooked, Replaces, Makes
    <3>3. CASE Uses(x)
      BY <1>1, <1>7, <3>1, <3>3 DEF Uses, Steps
    <3>4. CASE Made(s, x)
      <4>1. PICK r \in Mine(x) : Sources(Mine(x)) = {r} /\ r.id = x.call.pack /\ r.gen = s
        BY <3>4 DEF Made
      <4>2. r \in Mine(y) /\ Sources(Mine(y)) = {r}
        BY <1>5, <1>6, <1>7, <4>1
      <4>3. x.source = s /\ OnlyForced(x)
        BY <3>4 DEF Made
      <4>4. y.source = s /\ OnlyForced(y)
        BY <4>3 DEF OnlyForced, Steps
      <4>5. r.id = y.call.pack /\ Len(y.todo) <= BodySize(y.call)
        BY <1>1, <3>1, <4>1 DEF Steps
      <4> QED BY <1>10, <4>1, <4>2, <4>4, <4>5 DEF Made
    <3> QED BY <3>2, <3>3, <3>4
  <2> QED BY <1>4, <2>1, <2>2
<1>13. n # N + 1
  BY <1>3, <1>4
<1> QED BY <1>1, <1>7, <1>8, <1>10, <1>11, <1>12, <1>13 DEF Loader

LEMMA LookUsesStage ==
  ASSUME NEW s, NEW x, NEW y, Loader(s, x), Steps(x, y), x.todo[1].do = "source",
         y.rows = x.rows, y.gone = x.gone, y.pend = << >>
  PROVE  Loader(s, y) /\ Uses(y) /\ Unlooked(x)
<1>1. PICK n, N, L : n = Len(x.todo) /\ N = BodySize(x.call) /\ L = Len(Lines)
  OBVIOUS
<1>2. /\ Len(y.todo) = n - 1 /\ n \in Nat \ {0}
  BY <1>1, RestAligned DEF Steps
<1>3. /\ N \in Nat /\ N >= 2 /\ L \in Nat \ {0} /\ DOMAIN Lines = 1 .. L
      /\ x.call.pack \notin {CorePack, IntentPack} => N = 2 * L + 1
  BY <1>1, Sizes
<1>4. Unlooked(x) /\ n = N + 1
  BY <1>1, NextStep DEF Steps
<1>5. Mine(x) = x.rows /\ Mine(y) = x.rows
  BY MineNone DEF Steps
<1>6. Aligned(y)
  BY RestAligned DEF Steps, Loader
<1>7. Content(s, y)
  <2>1. Content(s, x) /\ n - 1 \in Nat /\ y.call = x.call
    BY <1>2 DEF Loader, Steps
  <2>2. \A j \in DOMAIN Lines : x.call.pack \notin {CorePack, IntentPack} =>
          (2 * j <= 2 * L + 1 - n <=> 2 * j <= 2 * L + 1 - (n - 1))
    BY <1>3, <1>4
  <2>3. n >= 2 /\ n - 1 >= 2
    BY <1>3, <1>4
  <2> QED BY <1>1, <1>2, <1>5, <2>1, <2>2, <2>3, SameContents
<1>8. Uses(y)
  <2>1. x.gone = {} /\ Sources(Mine(x)) = {}
    BY <1>4 DEF Unlooked
  <2>2. Len(y.todo) <= BodySize(y.call)
    BY <1>1, <1>2, <1>3, <1>4 DEF Steps
  <2> QED BY <1>5, <2>1, <2>2 DEF Uses
<1> QED BY <1>4, <1>6, <1>7, <1>8 DEF Loader

(* Steps put before what is left of a program.                             *)
Joined(p, q, t, w) ==
  /\ IsSeq(w) /\ Len(p) \in Nat /\ Len(t) \in Nat
  /\ Len(w) = Len(p) + 1 + Len(t)
  /\ \A i \in 1 .. Len(p) : w[i] = p[i]
  /\ w[Len(p) + 1] = q[1]
  /\ \A i \in 1 .. Len(t) : w[Len(p) + 1 + i] = t[i]

LEMMA PutBefore ==
  ASSUME NEW p, NEW q, NEW t, IsSeq(p), IsSeq(q), IsSeq(t), Len(q) = 1
  PROVE  Joined(p, q, t, p \o q \o t)
<1>1. PICK a, b, u : a = Len(p) /\ b = Len(t) /\ u = p \o q
  OBVIOUS
<1>2. /\ IsSeq(u) /\ a \in Nat /\ Len(u) = a + 1 /\ u[a + 1] = q[1]
      /\ \A i \in 1 .. a : u[i] = p[i]
  BY <1>1, ThenOne
<1>3. PICK w : w = u \o t
  OBVIOUS
<1>4. /\ IsSeq(w) /\ b \in Nat /\ DOMAIN w = 1 .. (a + 1) + b /\ Len(w) = (a + 1) + b
      /\ \A i \in DOMAIN w : w[i] = IF i <= a + 1 THEN u[i] ELSE t[i - (a + 1)]
  <2>1. /\ IsSeq(u \o t) /\ Len(t) \in Nat /\ Len(u \o t) = Len(u) + Len(t)
        /\ DOMAIN (u \o t) = 1 .. Len(u) + Len(t)
        /\ \A i \in DOMAIN (u \o t) : (u \o t)[i] = IF i <= Len(u) THEN u[i] ELSE t[i - Len(u)]
    BY <1>2, ConcatSteps
  <2> QED BY <1>1, <1>2, <1>3, <2>1
<1>5. \A i \in 1 .. a : w[i] = p[i]
  BY <1>2, <1>4
<1>6. w[a + 1] = q[1]
  BY <1>2, <1>4
<1>7. ASSUME NEW i \in 1 .. b PROVE w[a + 1 + i] = t[i]
  <2>1. a + 1 + i \in 1 .. (a + 1) + b /\ ~(a + 1 + i <= a + 1) /\ (a + 1 + i) - (a + 1) = i
    BY <1>2, <1>4
  <2> QED BY <1>4, <2>1
<1>8. w = p \o q \o t
  BY <1>1, <1>3
<1>9. Joined(p, q, t, w)
  BY <1>1, <1>2, <1>4, <1>5, <1>6, <1>7 DEF Joined
<1> QED BY <1>8, <1>9

LEMMA LookMakesStage ==
  ASSUME NEW s, NEW x, NEW y, Loader(s, x), IsSeq(x.todo), x.todo # << >>, x.pend = << >>,
         x.todo[1].do = "source", y.call = x.call,
         y.rows = x.rows, y.gone = x.gone, y.pend = << >>, y.source = s,
         IsSeq(y.todo), NEW a \in {0, 1}, Len(y.todo) = a + Len(x.todo),
         y.todo[a + 1].do = "new_source",
         \A i \in 1 .. Len(x.todo) - 1 : y.todo[a + 1 + i] = x.todo[i + 1],
         a = 1 => /\ y.todo[1].do = "delete" /\ x.call.force
                  /\ y.todo[1].row.table = "source_records" /\ y.todo[1].row.id = x.call.pack
  PROVE  Loader(s, y) /\ ~Uses(y)
<1>1. PICK n, N, L, w : n = Len(x.todo) /\ N = BodySize(x.call) /\ L = Len(Lines) /\ w = y.todo
  OBVIOUS
<1>2. n \in Nat \ {0} /\ DOMAIN x.todo = 1 .. n
  BY <1>1, TailSteps
<1>3. /\ N \in Nat /\ N >= 2 /\ L \in Nat \ {0} /\ DOMAIN Lines = 1 .. L
      /\ x.call.pack \notin {CorePack, IntentPack} => N = 2 * L + 1
  BY <1>1, Sizes
<1>4. Unlooked(x) /\ n = N + 1
  BY <1>1, NextStep
<1>5. Mine(x) = x.rows /\ Mine(y) = x.rows
  BY MineNone
<1>6. Len(w) = a + n /\ Len(w) > N /\ a + n \in Nat
  BY <1>1, <1>2, <1>3, <1>4
<1>7. y.todo # << >>
  <2>1. Len(<< >>) = 0
    OBVIOUS
  <2> QED BY <1>1, <1>3, <1>6, <2>1
<1>8. DOMAIN w = 1 .. a + n
  BY <1>1, <1>6, <1>7, TailSteps
<1>9. Aligned(y)
  <2> SUFFICES ASSUME NEW i \in 1 .. a + n, (a + n) - i < N
               PROVE  w[i] = BodyStep(x.call, (a + n) - i)
    BY <1>1, <1>6, <1>8 DEF Aligned
  <2>1. PICK k : k = i - a
    OBVIOUS
  <2>2. k \in 2 .. n /\ i = a + 1 + (k - 1) /\ k - 1 \in 1 .. n - 1 /\ (k - 1) + 1 = k
        /\ n - k = (a + n) - i
    BY <1>2, <1>3, <1>4, <2>1
  <2>3. w[i] = x.todo[k]
    BY <1>1, <2>2
  <2>4. n - k < N => x.todo[k] = BodyStep(x.call, n - k)
    <3>1. k \in DOMAIN x.todo
      BY <1>2, <2>2
    <3>2. Aligned(x)
      BY DEF Loader
    <3>3. Len(x.todo) - k < BodySize(x.call) => x.todo[k] = BodyStep(x.call, Len(x.todo) - k)
      BY <3>1, <3>2 DEF Aligned
    <3> QED BY <1>1, <3>3
  <2> QED BY <2>2, <2>3, <2>4
<1>10. Content(s, y)
  <2>1. Content(s, x) /\ n \in Nat
    BY <1>2 DEF Loader
  <2>2. \A j \in DOMAIN Lines : x.call.pack \notin {CorePack, IntentPack} =>
          (2 * j <= 2 * L + 1 - n <=> 2 * j <= 2 * L + 1 - (a + n))
    BY <1>3, <1>4
  <2>3. n >= 2 /\ a + n >= 2
    BY <1>3, <1>4
  <2>4. Contents(Mine(y)) = Contents(Mine(x)) /\ Len(y.todo) = a + n
    BY <1>1, <1>5, <1>6
  <2>5. \A j \in DOMAIN Lines : x.call.pack \notin {CorePack, IntentPack} =>
          (2 * j <= 2 * Len(Lines) + 1 - n <=> 2 * j <= 2 * Len(Lines) + 1 - (a + n))
    BY <1>1, <2>2
  <2> QED BY <1>1, <1>6, <2>1, <2>3, <2>4, <2>5, SameContents
<1>11. x.gone = {} /\ Sources(Mine(y)) = {}
  BY <1>4, <1>5 DEF Unlooked
<1>12. ~Uses(y)
  <2>1. ~(Len(w) <= N)
    BY <1>3, <1>6
  <2> QED BY <1>1, <2>1 DEF Uses
<1>13. CASE a = 0
  <2>1. Len(y.todo) = BodySize(y.call) + 1
    <3>1. Len(w) = N + 1
      BY <1>3, <1>4, <1>6, <1>13
    <3> QED BY <1>1, <3>1
  <2>2. OnlyForced(y)
    BY <1>11 DEF OnlyForced
  <2>3. y.todo[1].do = "new_source"
    BY <1>13
  <2>4. Makes(s, y)
    BY <1>11, <2>1, <2>2, <2>3 DEF Makes
  <2> QED BY <1>7, <1>9, <1>10, <1>12, <2>4 DEF Loader
<1>14. CASE a = 1
  <2>1. Len(y.todo) = BodySize(y.call) + 2
    <3>1. Len(w) = N + 2
      BY <1>3, <1>4, <1>6, <1>14
    <3> QED BY <1>1, <3>1
  <2>2. y.todo[2].do = "new_source"
    BY <1>14
  <2>3. Replaces(s, y)
    BY <1>11, <1>14, <2>1, <2>2 DEF Replaces
  <2> QED BY <1>7, <1>9, <1>10, <1>12, <2>3 DEF Loader
<1> QED BY <1>13, <1>14

LEMMA DeleteStage ==
  ASSUME NEW s, NEW x, NEW y, Loader(s, x), Steps(x, y), x.todo[1].do = "delete",
         y.rows = x.rows, y.pend = << >>, y.source = x.source,
         NEW R, y.gone = x.gone \cup (R \cap {x.todo[1].row})
  PROVE  Loader(s, y) /\ ~Uses(y)
<1>1. PICK n, N, L : n = Len(x.todo) /\ N = BodySize(x.call) /\ L = Len(Lines)
  OBVIOUS
<1>2. /\ Len(y.todo) = n - 1 /\ n \in Nat \ {0} /\ DOMAIN y.todo = 1 .. n - 1
      /\ \A i \in DOMAIN y.todo : i + 1 \in DOMAIN x.todo /\ y.todo[i] = x.todo[i + 1]
  BY <1>1, RestAligned DEF Steps
<1>3. /\ N \in Nat /\ N >= 2 /\ L \in Nat \ {0} /\ DOMAIN Lines = 1 .. L
      /\ x.call.pack \notin {CorePack, IntentPack} => N = 2 * L + 1
  BY <1>1, Sizes
<1>4. Replaces(s, x)
  BY NextStep DEF Steps
<1>5. Mine(x) = x.rows /\ Mine(y) = x.rows
  BY MineNone DEF Steps
<1>6. Aligned(y)
  BY RestAligned DEF Steps, Loader
<1>7. n = N + 2 /\ x.todo[2].do = "new_source"
  BY <1>1, <1>4 DEF Replaces
<1>8. Content(s, y)
  <2>1. Content(s, x) /\ n - 1 \in Nat /\ y.call = x.call
    BY <1>2 DEF Loader, Steps
  <2>2. \A j \in DOMAIN Lines : x.call.pack \notin {CorePack, IntentPack} =>
          (2 * j <= 2 * L + 1 - n <=> 2 * j <= 2 * L + 1 - (n - 1))
    BY <1>3, <1>7
  <2>3. n >= 2 /\ n - 1 >= 2
    BY <1>3, <1>7
  <2> QED BY <1>1, <1>2, <1>5, <2>1, <2>2, <2>3, SameContents
<1>9. Makes(s, y)
  <2>1. y.todo[1].do = "new_source"
    <3>1. 1 \in DOMAIN y.todo
      BY <1>2, <1>3, <1>7
    <3>2. y.todo[1] = x.todo[2]
      BY <1>2, <3>1
    <3> QED BY <1>7, <3>2
  <2>2. Len(y.todo) = BodySize(y.call) + 1
    BY <1>1, <1>2, <1>3, <1>7 DEF Steps
  <2>3. OnlyForced(y)
    BY <1>4 DEF OnlyForced, Replaces, Steps
  <2>4. y.source = s /\ Sources(Mine(y)) = {}
    BY <1>4, <1>5 DEF Replaces
  <2> QED BY <2>1, <2>2, <2>3, <2>4 DEF Makes
<1>10. ~Uses(y) /\ y.todo # << >>
  <2>1. Len(<< >>) = 0
    OBVIOUS
  <2> QED BY <1>1, <1>2, <1>3, <1>7, <2>1 DEF Uses, Steps
<1> QED BY <1>6, <1>8, <1>9, <1>10 DEF Loader

LEMMA NewSourceStage ==
  ASSUME NEW s, NEW x, NEW y, Loader(s, x), Steps(x, y), x.todo[1].do = "new_source",
         y.rows = x.rows, y.gone = x.gone, y.source = x.source,
         y.pend = <<SourceRow(x.call.pack, s)>>
  PROVE  Loader(s, y) /\ ~Uses(y)
<1>1. PICK n, N, L : n = Len(x.todo) /\ N = BodySize(x.call) /\ L = Len(Lines)
  OBVIOUS
<1>2. /\ Len(y.todo) = n - 1 /\ n \in Nat \ {0}
  BY <1>1, RestAligned DEF Steps
<1>3. /\ N \in Nat /\ N >= 2 /\ L \in Nat \ {0} /\ DOMAIN Lines = 1 .. L
      /\ x.call.pack \notin {CorePack, IntentPack} => N = 2 * L + 1
  BY <1>1, Sizes
<1>4. Makes(s, x)
  BY NextStep DEF Steps
<1>5. PICK r : r = SourceRow(x.call.pack, s)
  OBVIOUS
<1>6. r.table = "source_records" /\ r.id = x.call.pack /\ r.gen = s
  BY <1>5 DEF SourceRow
<1>7. Mine(x) = x.rows /\ Mine(y) = x.rows \cup {r}
  <2>1. {y.pend[i] : i \in DOMAIN y.pend} = {r}
    BY <1>5
  <2> QED BY <2>1, MineNone DEF Steps, Mine
<1>8. Sources(Mine(y)) = {r} /\ Contents(Mine(y)) = Contents(Mine(x)) /\ r \in Mine(y)
  <2>1. Sources(x.rows) = {}
    BY <1>4, <1>7 DEF Makes
  <2> QED BY <1>6, <1>7, <2>1 DEF Sources, Contents
<1>9. n = N + 1
  BY <1>1, <1>4 DEF Makes
<1>10. Aligned(y)
  BY RestAligned DEF Steps, Loader
<1>11. Content(s, y)
  <2>1. Content(s, x) /\ n - 1 \in Nat /\ y.call = x.call
    BY <1>2 DEF Loader, Steps
  <2>2. \A j \in DOMAIN Lines : x.call.pack \notin {CorePack, IntentPack} =>
          (2 * j <= 2 * L + 1 - n <=> 2 * j <= 2 * L + 1 - (n - 1))
    BY <1>3, <1>9
  <2>3. n >= 2 /\ n - 1 >= 2
    BY <1>3, <1>9
  <2> QED BY <1>1, <1>2, <1>8, <2>1, <2>2, <2>3, SameContents
<1>12. y.todo # << >>
  <2>1. Len(<< >>) = 0
    OBVIOUS
  <2> QED BY <1>2, <1>3, <1>9, <2>1
<1>13. Made(s, y)
  <2>1. y.source = s /\ OnlyForced(y)
    BY <1>4 DEF OnlyForced, Makes, Steps
  <2>2. Len(y.todo) <= BodySize(y.call) /\ r.id = y.call.pack
    BY <1>1, <1>2, <1>3, <1>6, <1>9 DEF Steps
  <2> QED BY <1>6, <1>8, <1>12, <2>1, <2>2 DEF Made
<1> QED BY <1>8, <1>10, <1>11, <1>12, <1>13 DEF Loader, Uses

(* Once the source record is looked up, its record stays as it is.         *)
LEMMA LaterPhase ==
  ASSUME NEW s, NEW x, NEW y, Loader(s, x), Len(x.todo) \in Nat, Len(y.todo) \in Nat,
         Len(x.todo) <= BodySize(x.call), Len(y.todo) <= Len(x.todo), y.todo # << >>,
         y.call = x.call, y.gone = x.gone, y.source = x.source,
         Sources(Mine(y)) = Sources(Mine(x))
  PROVE  (Uses(y) \/ Made(s, y)) /\ (Uses(y) => Uses(x))
<1>1. PICK n, m, N : n = Len(x.todo) /\ m = Len(y.todo) /\ N = BodySize(x.call)
  OBVIOUS
<1>2. n \in Nat /\ m \in Nat /\ N \in Nat /\ n <= N /\ m <= N
  <2>1. N \in Nat
    BY <1>1, Sizes
  <2> QED BY <1>1, <2>1
<1>3. Uses(x) \/ Made(s, x)
  BY <1>1, <1>2 DEF Loader, Unlooked, Replaces, Makes
<1>4. Uses(y) => Uses(x)
  BY <1>1, <1>2 DEF Uses
<1>5. Uses(x) => Uses(y)
  BY <1>1, <1>2 DEF Uses
<1>6. ASSUME Made(s, x) PROVE Made(s, y)
  <2>1. PICK r \in Mine(x) : Sources(Mine(x)) = {r} /\ r.id = x.call.pack /\ r.gen = s
    BY <1>6 DEF Made
  <2>2. r \in Mine(y)
    BY <2>1 DEF Sources
  <2>3. y.source = s /\ OnlyForced(y)
    BY <1>6 DEF Made, OnlyForced
  <2>4. Len(y.todo) <= BodySize(y.call)
    BY <1>1, <1>2
  <2> QED BY <2>1, <2>2, <2>3, <2>4 DEF Made
<1> QED BY <1>3, <1>4, <1>5, <1>6

LEMMA CoreStage ==
  ASSUME NEW s, NEW x, NEW y, Loader(s, x), Steps(x, y), x.todo[1].do = "core",
         y.rows = x.rows, y.gone = x.gone, y.source = x.source, NEW f,
         DOMAIN y.pend = DOMAIN CoreDocs,
         \A i \in DOMAIN CoreDocs : y.pend[i] = CoreRow(i, x.source, f)
  PROVE  Loader(s, y) /\ (Uses(y) => Uses(x))
<1>1. x.call.pack = CorePack /\ Len(x.todo) = 2 /\ Len(y.todo) = 1
  BY NextStep, RestAligned DEF Steps
<1>2. BodySize(x.call) = 2
  BY <1>1, Sizes
<1>3. Aligned(y)
  BY RestAligned DEF Steps, Loader
<1>4. y.todo # << >> /\ 1 < 2 /\ ~(1 >= 2)
  <2>1. Len(<< >>) = 0
    OBVIOUS
  <2> QED BY <1>1, <2>1
<1>5. Mine(x) = x.rows /\ Mine(y) = x.rows \cup CoreSet(x.source, f)
  <2>1. {y.pend[i] : i \in DOMAIN y.pend} = CoreSet(x.source, f)
    BY DEF CoreSet
  <2> QED BY <2>1, MineNone DEF Steps, Mine
<1>6. \A r \in CoreSet(x.source, f) : r.table = "documents"
  BY DEF CoreSet, CoreRow, DocumentRow
<1>7. Sources(Mine(y)) = Sources(Mine(x))
  BY <1>5, <1>6 DEF Sources
<1>8. Contents(Mine(y)) = CoreSet(x.source, f)
  <2>1. Contents(Mine(x)) = {}
    BY <1>1 DEF Loader, Content
  <2> QED BY <1>5, <1>6, <2>1 DEF Contents
<1>9. Content(s, y)
  BY <1>1, <1>4, <1>8 DEF Content, Steps
<1>10. (Uses(y) \/ Made(s, y)) /\ (Uses(y) => Uses(x))
  <2>1. /\ Len(x.todo) \in Nat /\ Len(y.todo) \in Nat /\ Len(y.todo) <= Len(x.todo)
        /\ Len(x.todo) <= BodySize(x.call)
    BY <1>1, <1>2
  <2>2. y.call = x.call
    BY DEF Steps
  <2> QED BY <1>4, <1>7, <2>1, <2>2, LaterPhase
<1> QED BY <1>3, <1>4, <1>9, <1>10 DEF Loader

LEMMA IntentStage ==
  ASSUME NEW s, NEW x, NEW y, Loader(s, x), Steps(x, y), x.todo[1].do = "intents",
         y.rows = x.rows \cup IntentSet(s, x.source), y.gone = x.gone, y.source = x.source,
         y.pend = << >>
  PROVE  Loader(s, y) /\ (Uses(y) => Uses(x)) /\ Contents(x.rows) = {}
<1>1. x.call.pack = IntentPack /\ Len(x.todo) = 2 /\ Len(y.todo) = 1
  BY NextStep, RestAligned DEF Steps
<1>2. BodySize(x.call) = 2 /\ IntentPack # CorePack
  BY <1>1, Sizes, RuntimePacks
<1>3. Aligned(y)
  BY RestAligned DEF Steps, Loader
<1>4. y.todo # << >> /\ ~(1 >= 2)
  <2>1. Len(y.todo) # 0
    BY <1>1
  <2>2. y.todo # << >>
    BY <2>1, NotNone, Zenon
  <2> QED BY <2>2
<1>5. Mine(x) = x.rows /\ Mine(y) = x.rows \cup IntentSet(s, x.source)
  BY MineNone DEF Steps
<1>6. \A r \in IntentSet(s, x.source) : r.table = "hospitality_intents"
  BY DEF IntentSet, IntentRow
<1>7. Sources(Mine(y)) = Sources(Mine(x))
  BY <1>5, <1>6 DEF Sources
<1>8. Contents(Mine(x)) = {} /\ Contents(Mine(y)) = IntentSet(s, x.source)
  <2>1. Contents(Mine(x)) = {}
    BY <1>1, <1>2 DEF Loader, Content
  <2> QED BY <1>5, <1>6, <2>1 DEF Contents
<1>9. Content(s, y)
  BY <1>1, <1>2, <1>4, <1>8 DEF Content, Steps
<1>10. (Uses(y) \/ Made(s, y)) /\ (Uses(y) => Uses(x))
  <2>1. /\ Len(x.todo) \in Nat /\ Len(y.todo) \in Nat /\ Len(y.todo) <= Len(x.todo)
        /\ Len(x.todo) <= BodySize(x.call)
    BY <1>1, <1>2
  <2>2. y.call = x.call
    BY DEF Steps
  <2> QED BY <1>4, <1>7, <2>1, <2>2, LaterPhase
<1> QED BY <1>3, <1>4, <1>5, <1>8, <1>9, <1>10 DEF Loader

LEMMA LineStage ==
  ASSUME NEW s, NEW x, NEW y, Loader(s, x), Steps(x, y), x.todo[1].do = "line",
         NEW i, i = x.todo[1].line,
         y.rows = x.rows \cup {LineRow(s, x.call.pack, i)}, y.gone = x.gone, y.source = x.source,
         y.pend = << >>
  PROVE  /\ Loader(s, y) /\ (Uses(y) => Uses(x))
         /\ Contents(x.rows) = LineSet(s, x.call.pack, 2 * i - 1)
         /\ i \in DOMAIN Lines /\ x.call.pack \notin {CorePack, IntentPack}
<1>1. PICK n, N, L, row : /\ n = Len(x.todo) /\ N = BodySize(x.call) /\ L = Len(Lines)
                          /\ row = LineRow(s, x.call.pack, i)
  OBVIOUS
<1>2. /\ Len(y.todo) = n - 1 /\ n \in Nat \ {0} /\ DOMAIN x.todo = 1 .. n
  BY <1>1, RestAligned DEF Steps
<1>3. /\ x.call.pack \notin {CorePack, IntentPack} /\ n <= N /\ i \in DOMAIN Lines
      /\ n = 2 * L + 2 - 2 * i
  BY <1>1, NextStep DEF Steps
<1>4. L \in Nat \ {0} /\ DOMAIN Lines = 1 .. L /\ N = 2 * L + 1 /\ i \in 1 .. L
  BY <1>1, <1>3, Sizes
<1>5. 2 * L + 1 - n = 2 * i - 1 /\ 2 * L + 1 - (n - 1) = 2 * i /\ n >= 2
  <2>1. L \in Nat /\ i \in Nat /\ i <= L /\ n = 2 * L + 2 - 2 * i
    BY <1>3, <1>4
  <2>2. PICK a, b, m : a = L /\ b = i /\ m = n
    OBVIOUS
  <2>3. a \in Nat /\ b \in Nat /\ b <= a /\ m = 2 * a + 2 - 2 * b
    BY <2>1, <2>2
  <2>4. 2 * a + 1 - m = 2 * b - 1 /\ 2 * a + 1 - (m - 1) = 2 * b /\ m >= 2
    BY <2>3
  <2> QED BY <2>2, <2>4
<1>6. Aligned(y)
  BY RestAligned DEF Steps, Loader
<1>7. y.todo # << >>
  <2>1. Len(<< >>) = 0
    OBVIOUS
  <2> QED BY <1>2, <1>5, <2>1
<1>8. Mine(x) = x.rows /\ Mine(y) = x.rows \cup {row}
  BY <1>1, MineNone DEF Steps
<1>9. row.table \in {"facility_assets", "fleet_vehicles"}
  BY <1>1 DEF LineRow, AssetRow, VehicleRow
<1>10. Sources(Mine(y)) = Sources(Mine(x))
  BY <1>8, <1>9 DEF Sources
<1>11. Contents(Mine(x)) = LineSet(s, x.call.pack, 2 * i - 1)
  <2>1. Contents(Mine(x)) = LineSet(s, x.call.pack, 2 * Len(Lines) + 1 - Len(x.todo))
    BY <1>3 DEF Loader, Content
  <2> QED BY <1>1, <1>5, <2>1
<1>12. Contents(Mine(y)) = LineSet(s, x.call.pack, 2 * i)
  <2>1. Contents(Mine(y)) = Contents(Mine(x)) \cup {row}
    BY <1>8, <1>9 DEF Contents
  <2>2. {j \in DOMAIN Lines : 2 * j <= 2 * i} = {j \in DOMAIN Lines : 2 * j <= 2 * i - 1} \cup {i}
    BY <1>4
  <2>3. LineSet(s, x.call.pack, 2 * i) = LineSet(s, x.call.pack, 2 * i - 1) \cup {row}
    BY <1>1, <2>2 DEF LineSet
  <2> QED BY <1>11, <2>1, <2>3
<1>13. Content(s, y)
  <2>1. Contents(Mine(y)) = LineSet(s, x.call.pack, 2 * Len(Lines) + 1 - Len(y.todo))
    BY <1>1, <1>2, <1>5, <1>12
  <2> QED BY <1>3, <2>1 DEF Content, Steps
<1>14. (Uses(y) \/ Made(s, y)) /\ (Uses(y) => Uses(x))
  <2>1. n - 1 \in Nat /\ n - 1 <= n /\ n \in Nat
    BY <1>2
  <2> QED BY <1>1, <1>2, <1>3, <1>7, <1>10, <2>1, LaterPhase DEF Steps
<1> QED BY <1>3, <1>6, <1>7, <1>8, <1>11, <1>13, <1>14 DEF Loader

(* A session that inserts the next of its rows.                            *)
LEMMA MineFlush ==
  ASSUME NEW x, NEW y, IsSeq(x.pend), x.pend # << >>,
         y.pend = Tail(x.pend), y.rows = x.rows \cup {Head(x.pend)}
  PROVE  Mine(y) = Mine(x)
<1>1. /\ DOMAIN x.pend = 1 .. Len(x.pend) /\ Len(x.pend) \in Nat \ {0}
      /\ DOMAIN y.pend = 1 .. Len(x.pend) - 1 /\ Head(x.pend) = x.pend[1] /\ 1 \in DOMAIN x.pend
      /\ \A i \in DOMAIN y.pend : i + 1 \in DOMAIN x.pend /\ y.pend[i] = x.pend[i + 1]
  BY TailSteps
<1>2. ASSUME NEW r \in Mine(y) PROVE r \in Mine(x)
  BY <1>1, <1>2 DEF Mine
<1>3. ASSUME NEW r \in Mine(x) PROVE r \in Mine(y)
  <2>1. CASE r \in x.rows
    BY <2>1 DEF Mine
  <2>2. ASSUME NEW i \in DOMAIN x.pend, r = x.pend[i] PROVE r \in Mine(y)
    <3>1. CASE i = 1
      BY <1>1, <2>2, <3>1 DEF Mine
    <3>2. CASE i # 1
      <4>1. i - 1 \in DOMAIN y.pend /\ (i - 1) + 1 = i
        BY <1>1, <3>2
      <4>2. y.pend[i - 1] = r
        BY <1>1, <2>2, <4>1
      <4> QED BY <4>1, <4>2 DEF Mine
    <3> QED BY <3>1, <3>2
  <2> QED BY <2>1, <2>2 DEF Mine
<1> QED BY <1>2, <1>3

LEMMA FlushStage ==
  ASSUME NEW s, NEW x, NEW y, Stage(s, x), x.pend # << >>, Mine(y) = Mine(x),
         y.todo = x.todo, y.call = x.call, y.gone = x.gone, y.source = x.source
  PROVE  Stage(s, y) /\ (Uses(y) => Uses(x))
<1>1. Uses(y) <=> Uses(x)
  BY DEF Uses
<1>2. Asker(s, x) => Asker(s, y)
  BY DEF Asker
<1>3. ASSUME Loader(s, x) PROVE Loader(s, y)
  <2>1. Aligned(y) /\ Content(s, y) /\ x.todo # << >>
    BY <1>3 DEF Loader, Aligned, Content
  <2>2. Unlooked(x) => Unlooked(y)
    BY DEF Unlooked
  <2>3. Replaces(s, x) => Replaces(s, y)
    BY DEF Replaces
  <2>4. Makes(s, x) => Makes(s, y)
    BY DEF Makes, OnlyForced
  <2>5. Made(s, x) => Made(s, y)
    BY <2>1 DEF Made, OnlyForced
  <2> QED BY <1>1, <1>3, <2>1, <2>2, <2>3, <2>4, <2>5 DEF Loader
<1> QED BY <1>1, <1>2, <1>3 DEF Stage

----------------------------------------------------------------------------
(* How many rows a load writes.                                            *)
LEMMA CountOf ==
  ASSUME NEW n \in Nat, NEW g, g = [i \in 1 .. n |-> g[i]], NEW S, S = {g[i] : i \in 1 .. n},
         \A i, j \in 1 .. n : g[i] = g[j] => i = j
  PROVE  Cardinality(S) = n
<1>1. g \in [1 .. n -> S] /\ DOMAIN g = 1 .. n
  OBVIOUS
<1>2. g \in Bijection(1 .. n, S)
  BY <1>1 DEF Bijection, Injection, Surjection, IsInjective
<1>3. IsFiniteSet(1 .. n) /\ Cardinality(1 .. n) = n
  <2>1. 1 \in Int /\ n \in Int
    OBVIOUS
  <2>2. IsFiniteSet(1 .. n) /\ Cardinality(1 .. n) = IF 1 > n THEN 0 ELSE n - 1 + 1
    BY <2>1, FS_Interval
  <2> QED BY <2>2
<1>4. ExistsBijection(1 .. n, S)
  BY <1>2 DEF ExistsBijection
<1>5. Cardinality(S) = Cardinality(1 .. n)
  BY <1>3, <1>4, FS_Bijection
<1> QED BY <1>3, <1>5

LEMMA CoreCount ==
  ASSUME NEW source, NEW f
  PROVE  /\ Cardinality(CoreSet(source, f)) = Len(CoreDocs) /\ CoreSet(source, f) # {}
         /\ {d.id : d \in CoreSet(source, f)} = ToSet(CoreDocs)
         /\ \A d \in CoreSet(source, f) : d.table = "documents" /\ d.pack = CorePack /\ d.source = source
<1>1. PICK n : n = Len(CoreDocs)
  OBVIOUS
<1>2. n \in Nat \ {0} /\ DOMAIN CoreDocs = 1 .. n
  BY <1>1, Sizes
<1>3. PICK g : g = [i \in 1 .. n |-> CoreRow(i, source, f)]
  OBVIOUS
<1>4. \A i \in 1 .. n : /\ g[i] = CoreRow(i, source, f) /\ g[i].id = CoreDocs[i] /\ g[i].table = "documents"
                        /\ g[i].pack = CorePack /\ g[i].source = source
  BY <1>3 DEF CoreRow, DocumentRow
<1>5. CoreSet(source, f) = {g[i] : i \in 1 .. n}
  BY <1>2, <1>4 DEF CoreSet
<1>6. \A i, j \in 1 .. n : g[i] = g[j] => i = j
  <2> SUFFICES ASSUME NEW i \in 1 .. n, NEW j \in 1 .. n, g[i] = g[j] PROVE i = j
    OBVIOUS
  <2>1. CoreDocs[i] = CoreDocs[j]
    BY <1>4
  <2>2. \A a, b \in DOMAIN CoreDocs : CoreDocs[a] = CoreDocs[b] => a = b
    BY RuntimePacks DEF IsInjective
  <2> QED BY <1>2, <2>1, <2>2
<1>7. Cardinality(CoreSet(source, f)) = n
  <2>1. g = [i \in 1 .. n |-> g[i]] /\ n \in Nat
    BY <1>2, <1>3
  <2> QED BY <1>5, <1>6, <2>1, CountOf
<1>8. {d.id : d \in CoreSet(source, f)} = ToSet(CoreDocs)
  <2>1. ToSet(CoreDocs) = {CoreDocs[i] : i \in 1 .. n}
    BY <1>2 DEF ToSet
  <2> QED BY <1>4, <1>5, <2>1
<1>9. CoreSet(source, f) # {}
  <2>1. 1 \in 1 .. n
    BY <1>2
  <2>2. g[1] \in CoreSet(source, f)
    BY <1>5, <2>1
  <2> QED BY <2>2
<1>10. \A d \in CoreSet(source, f) : d.table = "documents" /\ d.pack = CorePack /\ d.source = source
  BY <1>4, <1>5
<1> QED BY <1>1, <1>7, <1>8, <1>9, <1>10

LEMMA IntentCount ==
  ASSUME NEW s, NEW source
  PROVE  /\ Cardinality(IntentSet(s, source)) = Utterances /\ IntentSet(s, source) # {}
         /\ \A r \in IntentSet(s, source) :
              r.table = "hospitality_intents" /\ r.id[1] = s /\ r.source = source
         /\ UniqueKeys(IntentSet(s, source))
<1>1. PICK n : n = Utterances
  OBVIOUS
<1>2. n \in Nat \ {0}
  BY <1>1, RuntimePacks
<1>3. PICK g : g = [i \in 1 .. n |-> IntentRow(s, i, source)]
  OBVIOUS
<1>4. \A i \in 1 .. n : /\ g[i] = IntentRow(s, i, source) /\ g[i].id = <<s, i>>
                        /\ g[i].table = "hospitality_intents" /\ g[i].source = source
  BY <1>3 DEF IntentRow
<1>5. IntentSet(s, source) = {g[i] : i \in 1 .. n}
  BY <1>1, <1>4 DEF IntentSet
<1>6. \A i, j \in 1 .. n : g[i].id = g[j].id => i = j
  BY <1>4
<1>7. Cardinality(IntentSet(s, source)) = n
  <2>1. g = [i \in 1 .. n |-> g[i]] /\ n \in Nat
    BY <1>2, <1>3
  <2> QED BY <1>5, <1>6, <2>1, CountOf
<1>8. IntentSet(s, source) # {}
  <2>1. 1 \in 1 .. n
    BY <1>2
  <2>2. g[1] \in IntentSet(s, source)
    BY <1>5, <2>1
  <2> QED BY <2>2
<1>9. UniqueKeys(IntentSet(s, source))
  BY <1>5, <1>6 DEF UniqueKeys
<1>10. \A r \in IntentSet(s, source) : r.table = "hospitality_intents" /\ r.id[1] = s /\ r.source = source
  BY <1>4, <1>5
<1> QED BY <1>1, <1>7, <1>8, <1>9, <1>10

LineTable(pack) == IF pack = AssetPack THEN "facility_assets" ELSE "fleet_vehicles"
LEMMA LineRows ==
  ASSUME NEW s, NEW pack, NEW k, NEW r \in LineSet(s, pack, k)
  PROVE  /\ r.table = LineTable(pack) /\ r.id[1] = s
         /\ \E i \in DOMAIN Lines : r.id = <<s, i>> /\ 2 * i <= k
<1>1. PICK i \in {j \in DOMAIN Lines : 2 * j <= k} : r = LineRow(s, pack, i)
  BY DEF LineSet
<1>2. r.table = LineTable(pack) /\ r.id = <<s, i>>
  BY <1>1 DEF LineRow, LineTable, AssetRow, VehicleRow
<1> QED BY <1>1, <1>2

LEMMA LineCount ==
  ASSUME NEW s, NEW pack
  PROVE  LET S == LineSet(s, pack, 2 * Len(Lines) + 1) IN Cardinality(S) = Len(Lines) /\ S # {}
<1>1. PICK n, S : n = Len(Lines) /\ S = LineSet(s, pack, 2 * n + 1)
  OBVIOUS
<1>2. n \in Nat \ {0} /\ DOMAIN Lines = 1 .. n
  BY <1>1, Sizes
<1>3. PICK g : g = [i \in 1 .. n |-> LineRow(s, pack, i)]
  OBVIOUS
<1>4. \A i \in 1 .. n : g[i] = LineRow(s, pack, i) /\ g[i].id = <<s, i>>
  BY <1>3 DEF LineRow, AssetRow, VehicleRow
<1>5. {j \in DOMAIN Lines : 2 * j <= 2 * n + 1} = 1 .. n
  BY <1>2
<1>6. S = {g[i] : i \in 1 .. n}
  BY <1>1, <1>4, <1>5 DEF LineSet
<1>7. \A i, j \in 1 .. n : g[i] = g[j] => i = j
  <2> SUFFICES ASSUME NEW i \in 1 .. n, NEW j \in 1 .. n, g[i] = g[j] PROVE i = j
    OBVIOUS
  <2>1. <<s, i>> = <<s, j>>
    BY <1>4
  <2> QED BY <2>1
<1>8. Cardinality(S) = n
  <2>1. g = [i \in 1 .. n |-> g[i]] /\ n \in Nat
    BY <1>2, <1>3
  <2> QED BY <1>6, <1>7, <2>1, CountOf
<1>9. S # {}
  <2>1. g[1] \in S
    BY <1>2, <1>6
  <2> QED BY <2>1
<1> QED BY <1>1, <1>8, <1>9

(* A load's rows are of its pack's table, and its own.                     *)
LEMMA ContentOf ==
  ASSUME NEW s, NEW x, Content(s, x), Len(x.todo) \in Nat
  PROVE  /\ x.call.pack = CorePack => \A r \in Contents(Mine(x)) : r.table = "documents"
         /\ x.call.pack # CorePack => \A r \in Contents(Mine(x)) : r.table \in LineTables /\ r.id[1] = s
<1>1. CASE x.call.pack = CorePack
  BY <1>1, CoreCount DEF Content
<1>2. CASE x.call.pack # CorePack /\ x.call.pack = IntentPack
  BY <1>2, IntentCount DEF Content, LineTables
<1>3. CASE x.call.pack \notin {CorePack, IntentPack}
  <2>1. Contents(Mine(x)) = LineSet(s, x.call.pack, 2 * Len(Lines) + 1 - Len(x.todo))
    BY <1>3 DEF Content
  <2> DEFINE k == 2 * Len(Lines) + 1 - Len(x.todo)
  <2> HIDE DEF k
  <2>2. ASSUME NEW r \in Contents(Mine(x)) PROVE r.table \in LineTables /\ r.id[1] = s
    <3>1. r \in LineSet(s, x.call.pack, k)
      BY <2>1 DEF k
    <3>2. r.table = LineTable(x.call.pack) /\ r.id[1] = s
      BY <3>1, LineRows
    <3> QED BY <3>2 DEF LineTable, LineTables
  <2> QED BY <1>3, <2>2
<1> QED BY <1>1, <1>2, <1>3

(* What the last step does to the rows.                                    *)
Recounted(M, N, d, c, k) ==
  /\ Contents(N) = Contents(M) /\ In("documents", N) = In("documents", M)
  /\ Sources(M) = {} <=> Sources(N) = {}
  /\ \A r \in M : Sources(M) = {r} =>
       \E q \in N : /\ Sources(N) = {q} /\ q.id = r.id /\ q.gen = r.gen
                    /\ q.documents = d /\ q.chunks = c /\ q.records = k
  /\ \A q \in N : \E r \in M : q.table = r.table /\ q.id = r.id /\ (r.table # "source_records" => q = r)
  /\ UniqueKeys(M) => UniqueKeys(N)
LEMMA CountRows ==
  ASSUME NEW M, NEW N, NEW d, NEW c, NEW k, \A r \in M : r.table = "source_records" => IsSource(r),
         N = {IF r.table = "source_records"
              THEN [r EXCEPT !.documents = d, !.chunks = c, !.records = k] ELSE r : r \in M}
  PROVE  Recounted(M, N, d, c, k)
<1>1. PICK g : g = [r \in M |-> [r EXCEPT !.documents = d, !.chunks = c, !.records = k]]
  OBVIOUS
<1>2. N = {IF r.table = "source_records" THEN g[r] ELSE r : r \in M}
  BY <1>1
<1>3. ASSUME NEW r \in M, r.table = "source_records"
      PROVE  /\ g[r].table = "source_records" /\ g[r].id = r.id /\ g[r].gen = r.gen
             /\ g[r].documents = d /\ g[r].chunks = c /\ g[r].records = k
  <2>1. g[r] = [r EXCEPT !.documents = d, !.chunks = c, !.records = k]
    BY <1>1
  <2>2. DOMAIN r = {"table", "id", "gen", "documents", "chunks", "records"}
    BY <1>3 DEF IsSource
  <2> QED BY <1>3, <2>1, <2>2
<1>4. \A r : r.table # "source_records" => (r \in N <=> r \in M)
  BY <1>2, <1>3
<1>5. Contents(N) = Contents(M) /\ In("documents", N) = In("documents", M)
  BY <1>4 DEF Contents, In
<1>6. Sources(N) = {g[r] : r \in Sources(M)}
  BY <1>2, <1>3 DEF Sources
<1>7. ASSUME NEW r \in M, Sources(M) = {r}
      PROVE  \E q \in N : /\ Sources(N) = {q} /\ q.id = r.id /\ q.gen = r.gen
                          /\ q.documents = d /\ q.chunks = c /\ q.records = k
  <2>1. r.table = "source_records"
    BY <1>7 DEF Sources
  <2>2. Sources(N) = {g[r]}
    BY <1>6, <1>7
  <2>3. g[r] \in N
    BY <2>2 DEF Sources
  <2> QED BY <1>3, <2>1, <2>2, <2>3
<1>8. ASSUME NEW q \in N
      PROVE  \E r \in M : /\ q.table = r.table /\ q.id = r.id /\ (r.table # "source_records" => q = r)
                          /\ q = IF r.table = "source_records" THEN g[r] ELSE r
  <2>1. PICK r \in M : q = IF r.table = "source_records" THEN g[r] ELSE r
    BY <1>2, <1>8
  <2> QED BY <1>3, <2>1
<1>9. ASSUME UniqueKeys(M), NEW q1 \in N, NEW q2 \in N, q1.table = q2.table, q1.id = q2.id
      PROVE  q1 = q2
  <2>1. PICK r1 \in M : /\ q1.table = r1.table /\ q1.id = r1.id
                        /\ q1 = IF r1.table = "source_records" THEN g[r1] ELSE r1
    BY <1>8
  <2>2. PICK r2 \in M : /\ q2.table = r2.table /\ q2.id = r2.id
                        /\ q2 = IF r2.table = "source_records" THEN g[r2] ELSE r2
    BY <1>8
  <2>3. r1.table = r2.table /\ r1.id = r2.id
    BY <1>9, <2>1, <2>2
  <2>4. r1 = r2
    BY <1>9, <2>1, <2>2, <2>3, Zenon DEF UniqueKeys
  <2> QED BY <2>1, <2>2, <2>4
<1>10. Sources(M) = {} <=> Sources(N) = {}
  BY <1>6
<1>11. UniqueKeys(M) => UniqueKeys(N)
  BY <1>9 DEF UniqueKeys
<1>12. \A q \in N : \E r \in M : q.table = r.table /\ q.id = r.id /\ (r.table # "source_records" => q = r)
  BY <1>8
<1> QED BY <1>5, <1>7, <1>10, <1>11, <1>12 DEF Recounted

(* What a program that has written its pack holds.                         *)
LEMMA AllWritten ==
  ASSUME NEW s, NEW x, Content(s, x), NEW n \in {0, 1}, Len(x.todo) = n
  PROVE  /\ x.call.pack = CorePack => \E f : Contents(Mine(x)) = CoreSet(x.source, f)
         /\ x.call.pack = IntentPack => Contents(Mine(x)) = IntentSet(s, x.source)
         /\ x.call.pack \notin {CorePack, IntentPack} =>
              Contents(Mine(x)) = LineSet(s, x.call.pack, 2 * Len(Lines) + 1)
<1>1. CorePack # IntentPack /\ ~(n >= 2)
  BY RuntimePacks
<1>2. PICK L : L = Len(Lines)
  OBVIOUS
<1>3. L \in Nat \ {0} /\ DOMAIN Lines = 1 .. L
  BY <1>2, Sizes
<1>4. LineSet(s, x.call.pack, 2 * L + 1 - n) = LineSet(s, x.call.pack, 2 * L + 1)
  <2>1. \A j \in DOMAIN Lines : 2 * j <= 2 * L + 1 - n <=> 2 * j <= 2 * L + 1
    BY <1>3
  <2> QED BY <2>1 DEF LineSet
<1>5. x.call.pack \notin {CorePack, IntentPack} => Contents(Mine(x)) = LineSet(s, x.call.pack, 2 * L + 1)
  BY <1>2, <1>4 DEF Content
<1> QED BY <1>1, <1>2, <1>5 DEF Content

(* The number of its records.                                              *)
LEMMA RecordCount ==
  ASSUME NEW s, NEW x, Content(s, x), NEW n \in {0, 1}, Len(x.todo) = n, x.call.pack # CorePack,
         NEW docs, docs = In("documents", Mine(x)),
         NEW others, others = Mine(x) \ (docs \cup In("tenants", Mine(x))
                           \cup In("estate_projects", Mine(x)) \cup In("source_records", Mine(x)))
  PROVE  docs = {} /\ Cardinality(others) = IF x.call.pack = IntentPack THEN Utterances ELSE Len(Lines)
<1>1. \A r \in Contents(Mine(x)) : r.table \in LineTables
  <2>1. Len(x.todo) \in Nat
    OBVIOUS
  <2> QED BY <2>1, ContentOf
<1>2. docs = {}
  BY <1>1 DEF In, Contents, LineTables
<1>3. others = Contents(Mine(x))
  BY <1>2 DEF In, Contents
<1>4. CASE x.call.pack = IntentPack
  <2>1. others = IntentSet(s, x.source)
    BY <1>3, <1>4, AllWritten
  <2>2. Cardinality(IntentSet(s, x.source)) = Utterances
    BY IntentCount
  <2> QED BY <1>2, <1>4, <2>1, <2>2
<1>5. CASE x.call.pack # IntentPack
  <2>1. others = LineSet(s, x.call.pack, 2 * Len(Lines) + 1)
    BY <1>3, <1>5, AllWritten
  <2>2. Cardinality(LineSet(s, x.call.pack, 2 * Len(Lines) + 1)) = Len(Lines)
    BY LineCount
  <2> QED BY <1>2, <1>5, <2>1, <2>2
<1> QED BY <1>4, <1>5

LEMMA CountStage ==
  ASSUME NEW s, NEW x, NEW y, Loader(s, x), Steps(x, y), x.todo[1].do = "count",
         NEW d, d = Cardinality(In("documents", x.rows)), NEW c, c = Chunks(In("documents", x.rows)),
         NEW k, x.call.pack # CorePack => k = IF x.call.pack = IntentPack THEN Utterances ELSE Len(Lines),
         Recounted(x.rows, y.rows, d, c, k),
         y.gone = x.gone, y.source = x.source, y.pend = << >>
  PROVE  Loader(s, y) /\ (Uses(y) => Uses(x))
<1>1. Len(x.todo) = 1 /\ Len(y.todo) = 0 /\ y.todo = << >> /\ DOMAIN y.todo = {}
  <2>1. Len(x.todo) = 1 /\ Len(y.todo) = Len(x.todo) - 1 /\ DOMAIN y.todo = 1 .. Len(x.todo) - 1
    BY NextStep, RestAligned DEF Steps
  <2>2. IsSeq(y.todo)
    BY TailSteps DEF Steps
  <2>3. Len(y.todo) = 0 /\ DOMAIN y.todo = {}
    BY <2>1
  <2> QED BY <2>1, <2>2, <2>3, NothingLeft
<1>2. y.call = x.call /\ x.pend = << >>
  BY DEF Steps
<1>3. Mine(x) = x.rows /\ Mine(y) = y.rows
  BY <1>2, MineNone
<1>4. Aligned(y)
  BY <1>1 DEF Aligned
<1>5. Contents(Mine(y)) = Contents(Mine(x)) /\ In("documents", Mine(y)) = In("documents", Mine(x))
      /\ (Sources(Mine(x)) = {} <=> Sources(Mine(y)) = {})
  BY <1>3 DEF Recounted
<1>6. Content(s, y)
  <2>1. PICK N : N = BodySize(x.call)
    OBVIOUS
  <2>2. \A j \in DOMAIN Lines : 2 * j <= 2 * Len(Lines) + 1 - 1 <=> 2 * j <= 2 * Len(Lines) + 1 - 0
    <3>1. PICK L : L = Len(Lines)
      OBVIOUS
    <3>2. L \in Nat /\ DOMAIN Lines = 1 .. L
      BY <3>1, Sizes
    <3>3. \A j \in 1 .. L : 2 * j <= 2 * L + 1 - 1 <=> 2 * j <= 2 * L + 1 - 0
      BY <3>2
    <3> QED BY <3>1, <3>2, <3>3
  <2>3. Content(s, x) /\ 1 \in Nat /\ 0 \in Nat /\ 1 < 2 /\ 0 < 2
    BY DEF Loader
  <2> QED BY <1>1, <1>2, <1>5, <2>2, <2>3, SameContents
<1>7. PICK N : N = BodySize(x.call)
  OBVIOUS
<1>8. N \in Nat /\ N >= 2 /\ 1 <= N /\ 0 <= N /\ 1 # N + 1 /\ 1 # N + 2
  BY <1>7, Sizes
<1>9. Uses(x) \/ Made(s, x)
  BY <1>1, <1>7, <1>8 DEF Loader, Unlooked, Replaces, Makes
<1>10. Uses(x) <=> Uses(y)
  BY <1>1, <1>2, <1>5, <1>7, <1>8 DEF Uses
<1>11. ASSUME Made(s, x) PROVE Made(s, y)
  <2>1. PICK r \in Mine(x) : Sources(Mine(x)) = {r} /\ r.id = x.call.pack /\ r.gen = s
    BY <1>11 DEF Made
  <2>2. PICK q \in Mine(y) : /\ Sources(Mine(y)) = {q} /\ q.id = r.id /\ q.gen = r.gen
                             /\ q.documents = d /\ q.chunks = c /\ q.records = k
    BY <1>3, <2>1 DEF Recounted
  <2>3. Counts(q, y)
    BY <1>2, <1>3, <1>5, <2>2 DEF Counts
  <2>4. y.source = s /\ OnlyForced(y)
    BY <1>2, <1>11 DEF Made, OnlyForced
  <2>5. Len(y.todo) <= BodySize(y.call)
    BY <1>1, <1>2, <1>7, <1>8
  <2> QED BY <1>2, <2>1, <2>2, <2>3, <2>4, <2>5 DEF Made
<1> QED BY <1>4, <1>6, <1>9, <1>10, <1>11 DEF Loader

(* The programs of the loaders.                                            *)
LEMMA ShortProgram ==
  ASSUME NEW call, call.pack \in {CorePack, IntentPack}
  PROVE  /\ IsSeq(LoadProgram(call)) /\ Len(LoadProgram(call)) = 4 /\ DOMAIN LoadProgram(call) = 1 .. 4
         /\ LoadProgram(call)[1].do = "scope" /\ LoadProgram(call)[2].do = "source"
         /\ LoadProgram(call)[3] = [do |-> IF call.pack = CorePack THEN "core" ELSE "intents"]
         /\ LoadProgram(call)[4] = [do |-> "count"]
<1>1. PICK third : third = [do |-> IF call.pack = CorePack THEN "core" ELSE "intents"]
  OBVIOUS
<1>2. PICK body, last, todo : /\ body = <<PlatformScope, [do |-> "source"], third>>
                              /\ last = <<[do |-> "count"]>> /\ todo = LoadProgram(call)
  OBVIOUS
<1>3. /\ IsSeq(body) /\ Len(body) = 3
      /\ body[1].do = "scope" /\ body[2].do = "source" /\ body[3] = third
  <2>1. PlatformScope.do = "scope"
    BY DEF PlatformScope
  <2> QED BY <1>2, <2>1, ShortSteps
<1>4. IsSeq(last) /\ Len(last) = 1 /\ last[1] = [do |-> "count"]
  BY <1>2, ShortSteps
<1>5. todo = body \o last
  <2>1. CASE call.pack = CorePack
    <3>1. call.pack # IntentPack
      BY <2>1, RuntimePacks
    <3> QED BY <1>1, <1>2, <2>1, <3>1 DEF LoadProgram
  <2>2. CASE call.pack # CorePack /\ call.pack = IntentPack
    BY <1>1, <1>2, <2>2 DEF LoadProgram
  <2> QED BY <2>1, <2>2
<1>6. /\ IsSeq(body \o last) /\ Len(body \o last) = Len(body) + 1
      /\ DOMAIN (body \o last) = 1 .. Len(body) + 1
      /\ (body \o last)[Len(body) + 1] = last[1]
      /\ \A i \in 1 .. Len(body) : (body \o last)[i] = body[i]
  BY <1>3, <1>4, ThenOne
<1>7. /\ IsSeq(todo) /\ Len(todo) = 4 /\ DOMAIN todo = 1 .. 4
      /\ todo[4] = [do |-> "count"] /\ \A i \in 1 .. 3 : todo[i] = body[i]
  BY <1>3, <1>4, <1>5, <1>6
<1> QED BY <1>1, <1>2, <1>3, <1>7

LEMMA LinesProgram ==
  ASSUME NEW call, call.pack \notin {CorePack, IntentPack}
  PROVE  /\ IsSeq(LoadProgram(call)) /\ Len(LoadProgram(call)) = 2 * Len(Lines) + 2
         /\ DOMAIN LoadProgram(call) = 1 .. 2 * Len(Lines) + 2
         /\ LoadProgram(call)[1].do = "source"
         /\ LoadProgram(call)[2 * Len(Lines) + 2] = [do |-> "count"]
         /\ \A k \in 1 .. 2 * Len(Lines) : LoadProgram(call)[k + 1] = LineProgram[k]
<1>1. PICK first, last, lines, todo :
        /\ first = <<[do |-> "source"]>> /\ last = <<[do |-> "count"]>>
        /\ lines = LineProgram /\ todo = LoadProgram(call)
  OBVIOUS
<1>2. PICK n : n = 2 * Len(Lines)
  OBVIOUS
<1>3. n \in Nat
  BY <1>2, Sizes
<1>4. IsSeq(first) /\ Len(first) = 1 /\ first[1] = [do |-> "source"] /\ first[1].do = "source"
  <2>1. Len(first) = 1 /\ first[1] = [do |-> "source"]
    BY <1>1
  <2> QED BY <1>1, <2>1, ShortSteps
<1>5. IsSeq(last) /\ Len(last) = 1 /\ last[1] = [do |-> "count"]
  BY <1>1, ShortSteps
<1>6. IsSeq(lines) /\ Len(lines) = n /\ DOMAIN lines = 1 .. n
  BY <1>1, <1>2, LineSteps
<1>7. PICK u : u = first \o lines
  OBVIOUS
<1>8. /\ IsSeq(u) /\ Len(u) = n + 1 /\ u[1] = first[1]
      /\ \A k \in 1 .. n : u[k + 1] = lines[k]
  <2>1. /\ IsSeq(first \o lines) /\ DOMAIN (first \o lines) = 1 .. Len(first) + Len(lines)
        /\ Len(first \o lines) = Len(first) + Len(lines)
        /\ \A i \in DOMAIN (first \o lines) :
             (first \o lines)[i] = IF i <= Len(first) THEN first[i] ELSE lines[i - Len(first)]
    BY <1>4, <1>6, ConcatSteps
  <2>2. /\ IsSeq(u) /\ DOMAIN u = 1 .. n + 1 /\ Len(u) = n + 1
        /\ \A i \in 1 .. n + 1 : u[i] = IF i <= 1 THEN first[i] ELSE lines[i - 1]
    BY <1>3, <1>4, <1>6, <1>7, <2>1
  <2>3. u[1] = first[1]
    BY <1>3, <2>2
  <2>4. ASSUME NEW k \in 1 .. n PROVE u[k + 1] = lines[k]
    <3>1. k + 1 \in 1 .. n + 1 /\ ~(k + 1 <= 1) /\ (k + 1) - 1 = k
      BY <1>3
    <3> QED BY <2>2, <3>1
  <2> QED BY <2>2, <2>3, <2>4
<1>9. todo = u \o last
  <2>1. LoadProgram(call) = (<<[do |-> "source"]>> \o LineProgram) \o <<[do |-> "count"]>>
    BY DEF LoadProgram
  <2> QED BY <1>1, <1>7, <2>1
<1>10. /\ IsSeq(u \o last) /\ Len(u \o last) = Len(u) + 1 /\ DOMAIN (u \o last) = 1 .. Len(u) + 1
       /\ (u \o last)[Len(u) + 1] = last[1] /\ \A i \in 1 .. Len(u) : (u \o last)[i] = u[i]
  BY <1>5, <1>8, ThenOne
<1>11. /\ IsSeq(todo) /\ Len(todo) = (n + 1) + 1 /\ DOMAIN todo = 1 .. (n + 1) + 1
       /\ todo[(n + 1) + 1] = last[1] /\ \A i \in 1 .. n + 1 : todo[i] = u[i]
  BY <1>8, <1>9, <1>10
<1>12. (n + 1) + 1 = n + 2 /\ 1 \in 1 .. n + 1
  BY <1>3
<1>13. \A k \in 1 .. n : todo[k + 1] = lines[k]
  <2> TAKE k \in 1 .. n
  <2>1. k + 1 \in 1 .. n + 1
    BY <1>3
  <2> QED BY <1>8, <1>11, <2>1
<1> QED BY <1>1, <1>2, <1>4, <1>5, <1>8, <1>11, <1>12, <1>13

LEMMA LoaderStarts ==
  ASSUME NEW s, NEW call, NEW x, x = Start(call, Blank, LoadProgram(call))
  PROVE  Loader(s, x) /\ ~Uses(x)
<1>1. PICK todo : todo = LoadProgram(call)
  OBVIOUS
<1>2. /\ x.call = call /\ x.todo = todo /\ x.pend = << >> /\ x.rows = {} /\ x.gone = {}
  BY <1>1 DEF Start
<1>3. Mine(x) = {} /\ Sources(Mine(x)) = {} /\ Contents(Mine(x)) = {}
  BY <1>2, MineNone DEF Sources, Contents
<1>4. PICK N, L : N = BodySize(call) /\ L = Len(Lines)
  OBVIOUS
<1>5. L \in Nat \ {0} /\ DOMAIN Lines = 1 .. L
  BY <1>4, Sizes
<1>6. CASE call.pack \in {CorePack, IntentPack}
  <2>1. /\ Len(todo) = 4 /\ DOMAIN todo = 1 .. 4
        /\ todo[1].do = "scope" /\ todo[2].do = "source"
        /\ todo[3] = [do |-> IF call.pack = CorePack THEN "core" ELSE "intents"]
        /\ todo[4] = [do |-> "count"]
    BY <1>1, <1>6, ShortProgram
  <2>2. N = 2
    BY <1>4, <1>6, Sizes
  <2>3. Aligned(x)
    <3> SUFFICES ASSUME NEW i \in 1 .. 4, 4 - i < 2 PROVE todo[i] = BodyStep(call, 4 - i)
      BY <1>2, <1>4, <2>1, <2>2 DEF Aligned
    <3>1. CASE i = 3
      <4>1. BodyStep(call, 1) = todo[3]
        BY <1>6, <2>1 DEF BodyStep
      <4> QED BY <3>1, <4>1
    <3>2. CASE i = 4
      <4>1. BodyStep(call, 0) = todo[4]
        BY <2>1 DEF BodyStep
      <4> QED BY <3>2, <4>1
    <3> QED BY <3>1, <3>2
  <2>4. Content(s, x)
    BY <1>2, <1>3, <1>6, <2>1 DEF Content
  <2>5. Unlooked(x) /\ ~Uses(x)
    BY <1>2, <1>3, <1>4, <2>1, <2>2 DEF Unlooked, Uses
  <2>6. x.todo # << >>
    BY <1>2, <2>1
  <2> QED BY <2>3, <2>4, <2>5, <2>6 DEF Loader
<1>7. CASE call.pack \notin {CorePack, IntentPack}
  <2>1. /\ Len(todo) = 2 * L + 2 /\ DOMAIN todo = 1 .. 2 * L + 2 /\ todo[1].do = "source"
        /\ todo[2 * L + 2] = [do |-> "count"]
        /\ \A k \in 1 .. 2 * L : todo[k + 1] = LineProgram[k]
    BY <1>1, <1>4, <1>7, LinesProgram
  <2>2. N = 2 * L + 1
    BY <1>4, <1>7, Sizes
  <2>3. Aligned(x)
    <3> SUFFICES ASSUME NEW i \in 1 .. 2 * L + 2, (2 * L + 2) - i < 2 * L + 1
                 PROVE  todo[i] = BodyStep(call, (2 * L + 2) - i)
      BY <1>2, <1>4, <2>1, <2>2 DEF Aligned
    <3>1. CASE i = 2 * L + 2
      <4>1. (2 * L + 2) - i = 0
        BY <1>5, <3>1
      <4>2. BodyStep(call, 0) = [do |-> "count"]
        BY DEF BodyStep
      <4> QED BY <2>1, <3>1, <4>1, <4>2
    <3>2. CASE i # 2 * L + 2
      <4>1. PICK k : k = i - 1
        OBVIOUS
      <4>2. /\ k \in 1 .. 2 * L /\ k + 1 = i /\ (2 * L + 2) - i # 0
            /\ 2 * L + 1 - ((2 * L + 2) - i) = k
        BY <1>5, <3>2, <4>1
      <4>3. todo[i] = LineProgram[k]
        BY <2>1, <4>2
      <4>4. BodyStep(call, (2 * L + 2) - i) = LineProgram[2 * Len(Lines) + 1 - ((2 * L + 2) - i)]
        BY <1>7, <4>2 DEF BodyStep
      <4> QED BY <1>4, <4>2, <4>3, <4>4
    <3> QED BY <3>1, <3>2
  <2>4. Content(s, x)
    <3>1. {j \in DOMAIN Lines : 2 * j <= 2 * L + 1 - (2 * L + 2)} = {}
      BY <1>5
    <3>2. LineSet(s, call.pack, 2 * L + 1 - (2 * L + 2)) = {}
      BY <3>1 DEF LineSet
    <3> QED BY <1>2, <1>3, <1>4, <1>7, <2>1, <3>2 DEF Content
  <2>5. Len(todo) = N + 1 /\ Len(todo) - N = 1 /\ ~(Len(todo) <= N) /\ Len(todo) # N + 2
    BY <1>5, <2>1, <2>2
  <2>6. Unlooked(x) /\ ~Uses(x)
    BY <1>2, <1>3, <1>4, <2>1, <2>5 DEF Unlooked, Uses
  <2>7. x.todo # << >>
    <3>1. Len(x.todo) # 0
      BY <1>2, <1>5, <2>1
    <3> QED BY <3>1, NotNone
  <2> QED BY <2>3, <2>4, <2>6, <2>7 DEF Loader
<1> QED BY <1>6, <1>7

----------------------------------------------------------------------------
(* The keys of one session, and what its steps change of the others'.      *)
Held(R, T, s, y) ==
  /\ OwnKeys(R, y)
  /\ \A u \in Session : u # s /\ T[u].pc = "open" => Apart(y.rows \cup y.gone, T[u].rows \cup T[u].gone)

LEMMA ApartBoth == ASSUME NEW Q, NEW R, Apart(Q, R) PROVE Apart(R, Q)
  BY DEF Apart, SameKey

LEMMA KeysTurn ==
  ASSUME NEW R, NEW T, NEW T2, NEW s \in Session, KeysOk(R, T), T[s].pc # "done",
         \A u \in Session : u # s => T2[u] = T[u], Held(R, T, s, T2[s])
  PROVE  KeysOk(R, T2)
<1>1. PICK y : y = T2[s]
  OBVIOUS
<1>2. \A u \in Session : T2[u].pc = "open" => OwnKeys(R, T2[u])
  BY DEF KeysOk, Held
<1>3. ASSUME NEW u \in Session, NEW v \in Session, u # v, T2[u].pc = "open", T2[v].pc = "open"
      PROVE  Apart(T2[u].rows \cup T2[u].gone, T2[v].rows \cup T2[v].gone)
  <2>1. CASE u # s /\ v # s
    BY <1>3, <2>1 DEF KeysOk
  <2>2. CASE u = s
    BY <1>3, <2>2 DEF Held
  <2>3. CASE v = s
    <3>1. Apart(T2[v].rows \cup T2[v].gone, T2[u].rows \cup T2[u].gone)
      BY <1>3, <2>3 DEF Held
    <3> QED BY <3>1, ApartBoth
  <2> QED BY <2>1, <2>2, <2>3
<1>4. ASSUME NEW u \in Session, T2[u].pc # "done", NEW r \in R, r.table \in LineTables
      PROVE  r.id[1] # u
  <2>1. T[u].pc # "done"
    BY <1>4
  <2> QED BY <1>4, <2>1 DEF KeysOk
<1> QED BY <1>2, <1>3, <1>4 DEF KeysOk

(* A session whose rows stay as they are keeps its keys.                   *)
LEMMA SameHeld ==
  ASSUME NEW R, NEW T, NEW s \in Session, KeysOk(R, T), T[s].pc = "open", NEW y,
         y.rows = T[s].rows, y.gone = T[s].gone
  PROVE  Held(R, T, s, y)
  BY DEF KeysOk, Held, OwnKeys

(* An insert of a key that nobody has.                                     *)
LEMMA AddHeld ==
  ASSUME NEW R, NEW T, NEW s \in Session, KeysOk(R, T), T[s].pc = "open", NEW x, x = T[s], NEW y, NEW N,
         y.rows = x.rows \cup N, y.gone = x.gone, UniqueKeys(N), Apart(N, x.rows), Apart(N, R \ x.gone),
         \A u \in Session : u # s /\ T[u].pc = "open" => Apart(N, T[u].rows \cup T[u].gone)
  PROVE  Held(R, T, s, y)
<1>1. OwnKeys(R, x)
  BY DEF KeysOk
<1>2. UniqueKeys(y.rows)
  <2> SUFFICES ASSUME NEW q \in x.rows \cup N, NEW r \in x.rows \cup N, SameKey(q, r) PROVE q = r
    BY DEF UniqueKeys, SameKey
  <2>1. CASE q \in N /\ r \in N
    BY <2>1 DEF UniqueKeys, SameKey
  <2>2. CASE q \in x.rows /\ r \in x.rows
    BY <1>1, <2>2 DEF OwnKeys, UniqueKeys, SameKey
  <2>3. CASE q \in N /\ r \in x.rows
    BY <2>3 DEF Apart
  <2>4. CASE q \in x.rows /\ r \in N
    <3>1. Apart(x.rows, N)
      BY ApartBoth
    <3> QED BY <2>4, <3>1 DEF Apart
  <2> QED BY <2>1, <2>2, <2>3, <2>4
<1>3. Apart(y.rows, R \ y.gone) /\ y.gone \subseteq R
  BY <1>1 DEF OwnKeys, Apart
<1>4. ASSUME NEW u \in Session, u # s, T[u].pc = "open"
      PROVE  Apart(y.rows \cup y.gone, T[u].rows \cup T[u].gone)
  <2>1. Apart(x.rows \cup x.gone, T[u].rows \cup T[u].gone)
    BY <1>4 DEF KeysOk
  <2>2. Apart(N, T[u].rows \cup T[u].gone)
    BY <1>4
  <2>3. y.rows \cup y.gone = (x.rows \cup x.gone) \cup N
    OBVIOUS
  <2> QED BY <2>1, <2>2, <2>3 DEF Apart
<1> QED BY <1>2, <1>3, <1>4 DEF Held, OwnKeys
----------------------------------------------------------------------------
(* The packs, when the tables stay as they are.                            *)
LEMMA FoundStill ==
  ASSUME NEW R, NEW T, NEW x, NEW y, FoundSource(R, T, x), y.call = x.call, y.source = x.source,
         Uses(y) => Uses(x)
  PROVE  FoundSource(R, T, y)
  BY DEF FoundSource

LEMMA ForcedStill ==
  ASSUME NEW T, NEW T2, \A u \in CliSession : T[u].pc = "done" => T2[u] = T[u], ForcedIntents(T)
  PROVE  ForcedIntents(T2)
  BY DEF ForcedIntents

PacksSo(R, T) == Staged(T) /\ KeysOk(R, T) /\ PacksOk(R, T)

LEMMA PacksTurn ==
  ASSUME NEW R, NEW T, NEW T2, NEW s \in Session, PacksSo(R, T), T[s].pc # "done",
         \A u \in Session : u # s => T2[u] = T[u], NEW y, T2[s] = y, y.pc = "open",
         Stage(s, y), Held(R, T, s, y),
         s \in CliSession => FoundSource(R, T, y), s \in ApiSession => Lists(R, y)
  PROVE  PacksSo(R, T2)
<1>1. KeysOk(R, T2)
  BY KeysTurn DEF PacksSo
<1>2. Staged(T2)
  BY DEF PacksSo, Staged
<1>3. ForcedIntents(T) => ForcedIntents(T2)
  <2>1. \A u \in CliSession : T[u].pc = "done" => T2[u] = T[u]
    BY DEF Session
  <2> QED BY <2>1, ForcedStill
<1>4. ASSUME NEW u \in CliSession, T2[u].pc = "open" PROVE FoundSource(R, T2, T2[u])
  <2>1. FoundSource(R, T, T2[u])
    BY <1>4 DEF PacksSo, PacksOk, Session
  <2> QED BY <1>3, <2>1 DEF FoundSource
<1>5. ASSUME NEW u \in ApiSession, T2[u].pc = "open" PROVE Lists(R, T2[u])
  BY <1>5 DEF PacksSo, PacksOk, Session
<1>6. ASSUME NEW u \in ApiSession, T2[u].pc = "done", T2[u].call.op = "inventory", T2[u].answer.code = "ok"
      PROVE  ListsWhole(T2[u].answer.hits)
  <2>1. T2[u] = T[u]
    BY <1>6 DEF Session
  <2> QED BY <1>6, <2>1 DEF PacksSo, PacksOk
<1>7. CoreWhole(R) /\ PackRowsCounted(R)
  BY DEF PacksSo, PacksOk
<1>8. \A i \in In("hospitality_intents", R) : Traced(i, R) \/ ForcedIntents(T2)
  BY <1>3 DEF PacksSo, PacksOk
<1>9. PacksOk(R, T2)
  BY <1>4, <1>5, <1>6, <1>7, <1>8 DEF PacksOk
<1> QED BY <1>1, <1>2, <1>9 DEF PacksSo

(* Sessions that end without writing.                                      *)
LEMMA PacksOver ==
  ASSUME NEW R, NEW T, NEW T2, PacksSo(R, T), NEW E \in SUBSET Session,
         \A u \in Session \ E : T2[u] = T[u],
         \A u \in E : T[u].pc # "done" /\ T2[u].pc = "done",
         \A u \in E \cap ApiSession : T2[u].call.op = "inventory" /\ T2[u].answer.code = "ok" =>
           ListsWhole(T2[u].answer.hits)
  PROVE  PacksSo(R, T2)
<1>1. \A u \in Session : T2[u].pc = "open" => T2[u] = T[u]
  OBVIOUS
<1>2. KeysOk(R, T2)
  <2>1. \A u \in Session : T2[u].pc = "open" => OwnKeys(R, T2[u])
    BY <1>1 DEF PacksSo, KeysOk
  <2>2. \A u, v \in Session : u # v /\ T2[u].pc = "open" /\ T2[v].pc = "open" =>
          Apart(T2[u].rows \cup T2[u].gone, T2[v].rows \cup T2[v].gone)
    BY <1>1 DEF PacksSo, KeysOk
  <2>3. \A u \in Session : T2[u].pc # "done" => T[u].pc # "done"
    OBVIOUS
  <2>4. \A u \in Session : T2[u].pc # "done" => \A r \in R : r.table \in LineTables => r.id[1] # u
    BY <2>3 DEF PacksSo, KeysOk
  <2>5. KnownTables(R) /\ UniqueKeys(R)
    BY DEF PacksSo, KeysOk
  <2> QED BY <2>1, <2>2, <2>4, <2>5 DEF KeysOk
<1>3. Staged(T2)
  BY <1>1 DEF PacksSo, Staged
<1>4. ForcedIntents(T) => ForcedIntents(T2)
  <2>1. \A u \in CliSession : T[u].pc = "done" => T2[u] = T[u]
    BY DEF Session
  <2> QED BY <2>1, ForcedStill
<1>5. ASSUME NEW u \in CliSession, T2[u].pc = "open" PROVE FoundSource(R, T2, T2[u])
  <2>1. u \in Session /\ T2[u] = T[u]
    BY <1>1, <1>5 DEF Session
  <2>2. FoundSource(R, T, T[u])
    BY <1>5, <2>1 DEF PacksSo, PacksOk
  <2> QED BY <1>4, <2>1, <2>2 DEF FoundSource
<1>6. ASSUME NEW u \in ApiSession, T2[u].pc = "open" PROVE Lists(R, T2[u])
  BY <1>1, <1>6 DEF PacksSo, PacksOk, Session
<1>7. ASSUME NEW u \in ApiSession, T2[u].pc = "done", T2[u].call.op = "inventory", T2[u].answer.code = "ok"
      PROVE  ListsWhole(T2[u].answer.hits)
  <2>1. CASE u \in E
    BY <1>7, <2>1
  <2>2. CASE u \notin E
    <3>1. T2[u] = T[u]
      BY <2>2 DEF Session
    <3> QED BY <1>7, <3>1 DEF PacksSo, PacksOk
  <2> QED BY <2>1, <2>2
<1>8. CoreWhole(R) /\ PackRowsCounted(R)
  BY DEF PacksSo, PacksOk
<1>9. \A i \in In("hospitality_intents", R) : Traced(i, R) \/ ForcedIntents(T2)
  BY <1>4 DEF PacksSo, PacksOk
<1>10. PacksOk(R, T2)
  BY <1>5, <1>6, <1>7, <1>8, <1>9 DEF PacksOk
<1> QED BY <1>2, <1>3, <1>10 DEF PacksSo

----------------------------------------------------------------------------
(* The steps of one session.                                               *)

(* A session that stays open, or is opened.                                *)
LEMMA TurnKeeps ==
  ASSUME RuntimeInv, PacksInv, NEW s \in Session, tx[s].pc # "done", NEW y,
         tx' = [tx EXCEPT ![s] = y], db' = db, y.pc = "open", Stage(s, y), Held(db, tx, s, y),
         s \in CliSession => FoundSource(db, tx, y), s \in ApiSession => Lists(db, y)
  PROVE  PacksInv'
<1>1. DOMAIN tx = Session
  BY DEF RuntimeInv, Good
<1>2. PacksSo(db, tx)
  BY DEF PacksInv, PacksSo
<1>3. (\A u \in Session : u # s => tx'[u] = tx[u]) /\ tx'[s] = y
  BY <1>1
<1>4. ASSUME NEW T2, \A u \in Session : u # s => T2[u] = tx[u], T2[s] = y PROVE PacksSo(db, T2)
  BY <1>2, <1>4, PacksTurn
<1>5. PacksSo(db, tx')
  BY <1>3, <1>4
<1> QED BY <1>5 DEF PacksInv, PacksSo

(* A session that ends without a commit.                                   *)
LEMMA EndKeeps ==
  ASSUME RuntimeInv, PacksInv, NEW s \in Session, tx[s].pc # "done", NEW y,
         tx' = [tx EXCEPT ![s] = y], db' = db, y.pc = "done",
         s \in ApiSession => ~(y.call.op = "inventory" /\ y.answer.code = "ok")
  PROVE  PacksInv'
<1>1. DOMAIN tx = Session
  BY DEF RuntimeInv, Good
<1>2. PacksSo(db, tx)
  BY DEF PacksInv, PacksSo
<1>3. (\A u \in Session : u # s => tx'[u] = tx[u]) /\ tx'[s] = y
  BY <1>1
<1>4. ASSUME NEW T2, \A u \in Session : u # s => T2[u] = tx[u], T2[s] = y PROVE PacksSo(db, T2)
  <2>1. PICK E : E = {s}
    OBVIOUS
  <2>2. E \in SUBSET Session
    BY <2>1
  <2>3. \A u \in Session \ E : T2[u] = tx[u]
    BY <1>4, <2>1
  <2>4. \A u \in E : tx[u].pc # "done" /\ T2[u].pc = "done"
    BY <1>4, <2>1
  <2>5. \A u \in E \cap ApiSession : T2[u].call.op = "inventory" /\ T2[u].answer.code = "ok" =>
           ListsWhole(T2[u].answer.hits)
    BY <1>4, <2>1
  <2> QED BY <1>2, <2>2, <2>3, <2>4, <2>5, PacksOver
<1>5. PacksSo(db, tx')
  BY <1>3, <1>4
<1> QED BY <1>5 DEF PacksInv, PacksSo

LEMMA FailKeeps ==
  ASSUME RuntimeInv, PacksInv, NEW s \in Session, IsOpen(s), NEW code, code # "ok", Fail(s, code)
  PROVE  PacksInv'
<1>1. PICK y : y = Over(tx[s].call, tx[s].who, code, {})
  OBVIOUS
<1>2. DOMAIN tx = Session /\ tx[s].pc = "open"
  BY AtStep
<1>3. tx' = [tx EXCEPT ![s] = y] /\ db' = db
  BY <1>1, <1>2 DEF Fail
<1>4. y.pc = "done" /\ y.answer.code = code
  BY <1>1 DEF Over
<1> QED BY <1>2, <1>3, <1>4, EndKeeps

LEMMA FailuresKeep ==
  ASSUME RuntimeInv, PacksInv, NEW s \in Session,
         BreakDeadlock(s) \/ EmbedderFails(s) \/ DatabaseFails(s) \/ Kill(s)
  PROVE  PacksInv'
<1>0. CASE UNCHANGED <<db, tx>>
  BY <1>0 DEF PacksInv
<1> SUFFICES ASSUME ~ UNCHANGED <<db, tx>> PROVE PacksInv'
  BY <1>0
<1>1. PICK code \in {"deadlock_detected", "no_embedder", "database_error", "killed"} : Fail(s, code)
  BY DEF BreakDeadlock, EmbedderFails, DatabaseFails, Kill
<1>2. IsOpen(s)
  <2>1. CASE BreakDeadlock(s)
    <3>1. PICK u \in Session : WaitsFor(s, u)
      BY <2>1 DEF BreakDeadlock
    <3> QED BY <3>1 DEF WaitsFor, Wanted
  <2>2. CASE ~BreakDeadlock(s)
    BY <2>2 DEF EmbedderFails, DatabaseFails, Kill, At
  <2> QED BY <2>1, <2>2
<1> QED BY <1>1, <1>2, FailKeeps

LEMMA RestartKeeps ==
  ASSUME RuntimeInv, PacksInv, Restart
  PROVE  PacksInv'
<1>1. PacksSo(db, tx)
  BY DEF PacksInv, PacksSo
<1>2. PICK E : E = {u \in Session : u \in ApiSession /\ IsOpen(u)}
  OBVIOUS
<1>3. db' = db /\ E \in SUBSET Session
  BY <1>2 DEF Restart
<1>4. \A u \in Session \ E : tx'[u] = tx[u]
  BY <1>2 DEF Restart
<1>5. \A u \in E : tx'[u] = Over(tx[u].call, tx[u].who, "lost", {})
  BY <1>2 DEF Restart
<1>6. \A u \in E : tx[u].pc # "done" /\ tx'[u].pc = "done" /\ tx'[u].answer.code = "lost"
  <2> TAKE u \in E
  <2>1. tx[u].pc = "open"
    BY <1>2 DEF IsOpen
  <2>2. PICK y : y = tx'[u]
    OBVIOUS
  <2>3. y = Over(tx[u].call, tx[u].who, "lost", {})
    BY <1>5, <2>2
  <2>4. y.pc = "done" /\ y.answer.code = "lost"
    BY <2>3 DEF Over
  <2> QED BY <2>1, <2>2, <2>4
<1>7. ASSUME NEW T2, \A u \in Session \ E : T2[u] = tx[u],
             \A u \in E : tx[u].pc # "done" /\ T2[u].pc = "done" /\ T2[u].answer.code = "lost"
      PROVE  PacksSo(db, T2)
  <2>1. \A u \in E \cap ApiSession : T2[u].call.op = "inventory" /\ T2[u].answer.code = "ok" =>
           ListsWhole(T2[u].answer.hits)
    BY <1>7
  <2> QED BY <1>1, <1>3, <1>7, <2>1, PacksOver
<1>8. PacksSo(db, tx')
  BY <1>4, <1>6, <1>7
<1> QED BY <1>3, <1>8 DEF PacksInv, PacksSo

(* What is known of a session when it takes a step.                        *)
LEMMA TakesStep ==
  ASSUME RuntimeInv, PacksInv, NEW s \in Session, NEW do, At(s, do), NEW x, x = tx[s]
  PROVE  /\ DOMAIN tx = Session /\ x.pc = "open" /\ OpenOk(s, x, Curated(tx)) /\ Shape(x) /\ Written(s, x)
         /\ IsSeq(x.todo) /\ x.todo # << >> /\ x.pend = << >>
         /\ Head(x.todo) = x.todo[1] /\ x.todo[1].do = do
         /\ Stage(s, x) /\ KeysOk(db, tx)
         /\ s \in CliSession => FoundSource(db, tx, x)
         /\ s \in ApiSession => Lists(db, x)
         /\ s \in ApiSession => Asker(s, x)
         /\ s \notin ApiSession => s \in CliSession /\ Loader(s, x)
<1>1. IsOpen(s) /\ x.todo # << >> /\ x.pend = << >> /\ Head(x.todo).do = do
  BY DEF At
<1>2. DOMAIN tx = Session /\ x.pc = "open" /\ OpenOk(s, x, Curated(tx))
  BY <1>1, AtStep
<1>3. Shape(x) /\ Written(s, x) /\ IsSeq(x.todo)
  BY <1>2 DEF OpenOk, Shape
<1>4. Head(x.todo) = x.todo[1]
  BY <1>1, <1>3, TailSteps
<1>5. Stage(s, x) /\ KeysOk(db, tx)
  BY <1>2 DEF PacksInv, Staged
<1>6. /\ s \in CliSession => FoundSource(db, tx, x)
      /\ s \in ApiSession => Lists(db, x)
  BY <1>2 DEF PacksInv, PacksOk
<1>7. /\ s \in ApiSession => Asker(s, x)
      /\ s \notin ApiSession => s \in CliSession /\ Loader(s, x)
  BY <1>5 DEF Stage, Session
<1> QED BY <1>1, <1>2, <1>3, <1>4, <1>5, <1>6, <1>7

(* A loader's step.                                                        *)
LEMMA LoaderKeeps ==
  ASSUME RuntimeInv, PacksInv, NEW s \in CliSession, s \in Session, s \notin ApiSession,
         NEW x, x = tx[s], x.pc = "open",
         NEW y, tx' = [tx EXCEPT ![s] = y], db' = db, y.pc = "open", Loader(s, y),
         Held(db, tx, s, y), y.call = x.call, Uses(y) => Uses(x) /\ y.source = x.source
  PROVE  PacksInv'
<1>1. FoundSource(db, tx, x)
  BY DEF PacksInv, PacksOk
<1>2. FoundSource(db, tx, y)
  BY <1>1 DEF FoundSource
<1>3. Stage(s, y)
  BY DEF Stage
<1>4. tx[s].pc # "done"
  OBVIOUS
<1> QED BY <1>2, <1>3, <1>4, TurnKeeps

LEMMA ScopeKeeps ==
  ASSUME RuntimeInv, PacksInv, NEW s \in Session, EnsureScope(s)
  PROVE  PacksInv'
<1>1. db' = db /\ At(s, "scope")
  BY DEF EnsureScope
<1>2. PICK x : x = tx[s]
  OBVIOUS
<1>3. /\ DOMAIN tx = Session /\ x.pc = "open" /\ OpenOk(s, x, Curated(tx)) /\ Shape(x)
      /\ IsSeq(x.todo) /\ x.todo # << >> /\ x.pend = << >>
      /\ Head(x.todo) = x.todo[1] /\ x.todo[1].do = "scope" /\ KeysOk(db, tx)
      /\ s \in ApiSession => Asker(s, x)
      /\ s \notin ApiSession => s \in CliSession /\ Loader(s, x)
  BY <1>1, <1>2, TakesStep
<1>4. PICK p, q : /\ p = << >> \/ \E t : p = <<TenantRow(t)>>
                  /\ q = << >> \/ \E t, e, l : q = <<ProjectRow(t, e, l)>>
                  /\ tx' = [tx EXCEPT ![s].todo = Rest(s), ![s].pend = p \o q]
  BY DEF EnsureScope
<1>5. PICK y : y = [[x EXCEPT !.todo = Tail(x.todo)] EXCEPT !.pend = p \o q]
  OBVIOUS
<1>6. tx' = [tx EXCEPT ![s] = y]
  BY <1>2, <1>3, <1>4, <1>5 DEF Rest
<1>7. /\ y.pc = "open" /\ y.call = x.call /\ y.gone = x.gone /\ y.rows = x.rows
      /\ y.source = x.source /\ y.answer = x.answer
      /\ y.pend = p \o q /\ y.todo = Tail(x.todo)
  BY <1>3, <1>5 DEF Shape
<1>8. \A i \in DOMAIN y.pend : y.pend[i].table \in {"tenants", "estate_projects"}
  <2>1. IsSeq(p) /\ IsSeq(q)
    BY <1>4, ShortSteps
  <2>2. \A i \in DOMAIN p : p[i].table = "tenants"
    BY <1>4 DEF TenantRow
  <2>3. \A i \in DOMAIN q : q[i].table = "estate_projects"
    BY <1>4 DEF ProjectRow
  <2>4. ASSUME NEW i \in DOMAIN y.pend PROVE y.pend[i].table \in {"tenants", "estate_projects"}
    <3>1. (\E j \in DOMAIN p : y.pend[i] = p[j]) \/ (\E j \in DOMAIN q : y.pend[i] = q[j])
      BY <1>7, <2>1, <2>4, ConcatFrom
    <3> QED BY <2>2, <2>3, <3>1
  <2> QED BY <2>4
<1>9. Held(db, tx, s, y)
  BY <1>2, <1>3, <1>7, SameHeld
<1>10. CASE s \in ApiSession
  <2>1. Asker(s, y)
    <3>1. \A r \in Mine(y) : r \in Mine(x) \/ r.table \in {"tenants", "estate_projects"}
      BY <1>7, <1>8 DEF Mine
    <3> QED BY <1>3, <1>7, <1>10, <3>1 DEF Asker
  <2>2. x.call.op = "ingest"
    BY <1>3, <1>10, WhoseStep
  <2>3. Lists(db, y)
    BY <1>7, <2>2 DEF Lists
  <2>4. Stage(s, y) /\ tx[s].pc # "done" /\ s \notin CliSession
    BY <1>2, <1>3, <1>10, <2>1, RuntimeSessions DEF Stage
  <2> QED BY <1>1, <1>6, <1>7, <1>9, <2>3, <2>4, TurnKeeps
<1>11. CASE s \notin ApiSession
  <2>1. Steps(x, y)
    BY <1>3, <1>7 DEF Steps
  <2>2. Loader(s, y) /\ Sources(Mine(y)) = Sources(Mine(x)) /\ Len(x.todo) # BodySize(x.call) + 1
    BY <1>3, <1>7, <1>8, <1>11, <2>1, ScopeStage
  <2>3. Uses(y) => Uses(x)
    <3>1. Len(y.todo) = Len(x.todo) - 1 /\ Len(x.todo) \in Nat
      BY <1>3, <1>7, RestAligned
    <3>2. BodySize(x.call) \in Nat
      BY Sizes
    <3>3. Len(y.todo) <= BodySize(x.call) => Len(x.todo) <= BodySize(x.call)
      BY <2>2, <3>1, <3>2
    <3> QED BY <1>7, <2>2, <3>3 DEF Uses
  <2> QED BY <1>1, <1>2, <1>3, <1>6, <1>7, <1>9, <1>11, <2>2, <2>3, LoaderKeeps
<1> QED BY <1>10, <1>11

LEMMA LookKeeps ==
  ASSUME RuntimeInv, PacksInv, NEW s \in Session, LookSource(s)
  PROVE  PacksInv'
<1>1. db' = db /\ At(s, "source")
  BY DEF LookSource
<1>2. PICK x : x = tx[s]
  OBVIOUS
<1>3. /\ DOMAIN tx = Session /\ x.pc = "open" /\ OpenOk(s, x, Curated(tx)) /\ Shape(x)
      /\ IsSeq(x.todo) /\ x.todo # << >> /\ x.pend = << >>
      /\ Head(x.todo) = x.todo[1] /\ x.todo[1].do = "source" /\ KeysOk(db, tx)
      /\ s \notin ApiSession => s \in CliSession /\ Loader(s, x)
  BY <1>1, <1>2, TakesStep
<1>4. s \notin ApiSession /\ s \in CliSession /\ Loader(s, x)
  BY <1>3, WhoseStep
<1>5. Unlooked(x)
  BY <1>3, <1>4, NextStep
<1>6. PICK existing : existing = {r \in In("source_records", Visible(s)) : r.id = x.call.pack}
  OBVIOUS
<1>7. existing = SourceOf(x.call.pack, db)
  <2>1. x.gone = {} /\ Sources(x.rows) = {}
    BY <1>3, <1>5, MineNone DEF Unlooked
  <2> QED BY <1>2, <1>6, <2>1 DEF SourceOf, In, Visible, Sources
<1>8. CASE existing # {} /\ ~x.call.force
  <2>1. PICK r : r = CHOOSE e \in existing : TRUE
    OBVIOUS
  <2>2. r \in existing
    BY <1>8, <2>1
  <2>3. PICK y : y = [[x EXCEPT !.todo = Tail(x.todo)] EXCEPT !.source = r.gen]
    OBVIOUS
  <2>4. tx' = [tx EXCEPT ![s] = y]
    BY <1>2, <1>3, <1>6, <1>8, <2>1, <2>3 DEF LookSource, Rest
  <2>5. /\ y.pc = "open" /\ y.call = x.call /\ y.rows = x.rows /\ y.gone = x.gone
        /\ y.source = r.gen /\ y.pend = << >> /\ y.todo = Tail(x.todo)
    BY <1>3, <2>3 DEF Shape
  <2>6. Steps(x, y)
    BY <1>3, <2>5 DEF Steps
  <2>7. Loader(s, y)
    BY <1>3, <1>4, <2>5, <2>6, LookUsesStage
  <2>8. Held(db, tx, s, y)
    BY <1>2, <1>3, <2>5, SameHeld
  <2>9. FoundSource(db, tx, y)
    BY <1>7, <2>2, <2>5 DEF FoundSource
  <2>10. Stage(s, y) /\ tx[s].pc # "done"
    BY <1>2, <1>3, <1>4, <2>7 DEF Stage
  <2> QED BY <1>1, <1>4, <2>4, <2>5, <2>8, <2>9, <2>10, TurnKeeps
<1>9. CASE ~(existing # {} /\ ~x.call.force)
  <2>1. PICK r : r = CHOOSE e \in existing : TRUE
    OBVIOUS
  <2>2. PICK p : p = IF existing = {} THEN << >> ELSE <<[do |-> "delete", row |-> r]>>
    OBVIOUS
  <2>3. PICK q : q = <<[do |-> "new_source"]>>
    OBVIOUS
  <2>4. PICK t : t = Tail(x.todo)
    OBVIOUS
  <2>5. PICK a : a = IF existing = {} THEN 0 ELSE 1
    OBVIOUS
  <2>6. PICK y : y = [[x EXCEPT !.source = s] EXCEPT !.todo = p \o q \o t]
    OBVIOUS
  <2>7. tx' = [tx EXCEPT ![s] = y]
    BY <1>2, <1>3, <1>6, <1>9, <2>1, <2>2, <2>3, <2>4, <2>6 DEF LookSource, Rest
  <2>8. /\ y.pc = "open" /\ y.call = x.call /\ y.rows = x.rows /\ y.gone = x.gone
        /\ y.source = s /\ y.pend = << >> /\ y.todo = p \o q \o t
    BY <1>3, <2>6 DEF Shape
  <2>9. IsSeq(p) /\ IsSeq(q) /\ Len(q) = 1 /\ q[1].do = "new_source"
    <3>1. IsSeq(p)
      BY <2>2, ShortSteps
    <3>2. IsSeq(q)
      BY <2>3, ShortSteps
    <3>3. Len(q) = 1 /\ q[1] = [do |-> "new_source"]
      BY <2>3
    <3>4. q[1].do = "new_source"
      BY <3>3
    <3> QED BY <3>1, <3>2, <3>3, <3>4
  <2>10. /\ IsSeq(t) /\ Len(t) = Len(x.todo) - 1 /\ Len(x.todo) \in Nat \ {0}
         /\ DOMAIN t = 1 .. Len(x.todo) - 1
         /\ \A i \in DOMAIN t : t[i] = x.todo[i + 1]
    BY <1>3, <2>4, TailSteps
  <2>11. a \in {0, 1} /\ Len(p) = a
    BY <2>2, <2>5
  <2>12. /\ IsSeq(y.todo) /\ Len(y.todo) = a + 1 + (Len(x.todo) - 1) /\ y.todo[a + 1] = q[1]
         /\ \A i \in 1 .. Len(p) : y.todo[i] = p[i]
         /\ \A i \in 1 .. Len(t) : y.todo[a + 1 + i] = t[i]
    <3>1. Joined(p, q, t, p \o q \o t)
      BY <2>9, <2>10, PutBefore
    <3>2. Joined(p, q, t, y.todo)
      BY <2>8, <3>1
    <3>3. /\ IsSeq(y.todo) /\ Len(y.todo) = Len(p) + 1 + Len(t)
          /\ \A i \in 1 .. Len(p) : y.todo[i] = p[i]
          /\ y.todo[Len(p) + 1] = q[1]
          /\ \A i \in 1 .. Len(t) : y.todo[Len(p) + 1 + i] = t[i]
      BY <3>2 DEF Joined
    <3> QED BY <2>10, <2>11, <3>3
  <2>13. Len(y.todo) = a + Len(x.todo)
    <3>1. PICK n, l : n = Len(x.todo) /\ l = Len(y.todo)
      OBVIOUS
    <3>2. n \in Nat /\ a \in Nat
      BY <2>10, <2>11, <3>1
    <3>3. l = a + 1 + (n - 1)
      BY <2>12, <3>1
    <3>4. l = a + n
      BY <3>2, <3>3
    <3> QED BY <3>1, <3>4
  <2>14. y.todo[a + 1].do = "new_source"
    BY <2>9, <2>12
  <2>15. \A i \in 1 .. Len(x.todo) - 1 : y.todo[a + 1 + i] = x.todo[i + 1]
    BY <2>10, <2>12
  <2>16. ASSUME a = 1
         PROVE  /\ y.todo[1].do = "delete" /\ x.call.force
                /\ y.todo[1].row.table = "source_records" /\ y.todo[1].row.id = x.call.pack
    <3>1. existing # {} /\ x.call.force
      BY <1>9, <2>5, <2>16
    <3>2. r \in SourceOf(x.call.pack, db)
      BY <1>7, <2>1, <3>1
    <3>3. r.table = "source_records" /\ r.id = x.call.pack
      BY <3>2 DEF SourceOf, In
    <3>4. p = <<[do |-> "delete", row |-> r]>>
      BY <2>2, <3>1
    <3>5. p[1] = [do |-> "delete", row |-> r]
      BY <3>4
    <3>6. y.todo[1] = p[1]
      BY <2>11, <2>12, <2>16
    <3>7. y.todo[1] = [do |-> "delete", row |-> r]
      BY <3>5, <3>6
    <3> QED BY <3>1, <3>3, <3>7
  <2>17. Loader(s, y) /\ ~Uses(y)
    <3>1. IsSeq(x.todo) /\ x.todo # << >> /\ x.pend = << >> /\ x.todo[1].do = "source"
      BY <1>3
    <3>2. /\ y.call = x.call /\ y.rows = x.rows /\ y.gone = x.gone /\ y.pend = << >> /\ y.source = s
          /\ IsSeq(y.todo) /\ a \in {0, 1}
      BY <2>8, <2>11, <2>12
    <3>3. a = 1 => /\ y.todo[1].do = "delete" /\ x.call.force
                   /\ y.todo[1].row.table = "source_records" /\ y.todo[1].row.id = x.call.pack
      BY <2>16
    <3> QED BY <1>4, <3>1, <3>2, <2>13, <2>14, <2>15, <3>3, LookMakesStage, Zenon
  <2>18. Held(db, tx, s, y)
    BY <1>2, <1>3, <2>8, SameHeld
  <2> QED BY <1>1, <1>2, <1>3, <1>4, <2>7, <2>8, <2>17, <2>18, LoaderKeeps
<1> QED BY <1>8, <1>9

LEMMA NewSourceKeeps ==
  ASSUME RuntimeInv, PacksInv, NEW s \in Session, NewSource(s)
  PROVE  PacksInv'
<1>1. db' = db /\ At(s, "new_source")
  BY DEF NewSource
<1>2. PICK x : x = tx[s]
  OBVIOUS
<1>3. /\ DOMAIN tx = Session /\ x.pc = "open" /\ OpenOk(s, x, Curated(tx)) /\ Shape(x)
      /\ IsSeq(x.todo) /\ x.todo # << >> /\ x.pend = << >>
      /\ Head(x.todo) = x.todo[1] /\ x.todo[1].do = "new_source" /\ KeysOk(db, tx)
      /\ s \notin ApiSession => s \in CliSession /\ Loader(s, x)
  BY <1>1, <1>2, TakesStep
<1>4. s \notin ApiSession /\ s \in CliSession /\ Loader(s, x)
  BY <1>3, WhoseStep
<1>5. PICK y : y = [[x EXCEPT !.todo = Tail(x.todo)] EXCEPT !.pend = <<SourceRow(x.call.pack, s)>>]
  OBVIOUS
<1>6. tx' = [tx EXCEPT ![s] = y]
  BY <1>2, <1>3, <1>5 DEF NewSource, Rest
<1>7. /\ y.pc = "open" /\ y.call = x.call /\ y.gone = x.gone /\ y.rows = x.rows
      /\ y.source = x.source /\ y.pend = <<SourceRow(x.call.pack, s)>> /\ y.todo = Tail(x.todo)
  BY <1>3, <1>5 DEF Shape
<1>8. Steps(x, y)
  BY <1>3, <1>7 DEF Steps
<1>9. Loader(s, y) /\ ~Uses(y)
  BY <1>3, <1>4, <1>7, <1>8, NewSourceStage
<1>10. Held(db, tx, s, y)
  BY <1>2, <1>3, <1>7, SameHeld
<1> QED BY <1>1, <1>2, <1>3, <1>4, <1>6, <1>7, <1>9, <1>10, LoaderKeeps

LEMMA CoreKeeps ==
  ASSUME RuntimeInv, PacksInv, NEW s \in Session, LoadCore(s)
  PROVE  PacksInv'
<1>1. db' = db /\ At(s, "core")
  BY DEF LoadCore
<1>2. PICK x : x = tx[s]
  OBVIOUS
<1>3. /\ DOMAIN tx = Session /\ x.pc = "open" /\ OpenOk(s, x, Curated(tx)) /\ Shape(x)
      /\ IsSeq(x.todo) /\ x.todo # << >> /\ x.pend = << >>
      /\ Head(x.todo) = x.todo[1] /\ x.todo[1].do = "core" /\ KeysOk(db, tx)
      /\ s \notin ApiSession => s \in CliSession /\ Loader(s, x)
  BY <1>1, <1>2, TakesStep
<1>4. s \notin ApiSession /\ s \in CliSession /\ Loader(s, x)
  BY <1>3, WhoseStep
<1>5. PICK f : f = EmbedderOf(s)
  OBVIOUS
<1>6. PICK q : q = CoreRows(s)
  OBVIOUS
<1>7. DOMAIN q = DOMAIN CoreDocs /\ \A i \in DOMAIN CoreDocs : q[i] = CoreRow(i, x.source, f)
  BY <1>2, <1>5, <1>6 DEF CoreRows, CoreRow
<1>8. PICK y : y = [[x EXCEPT !.todo = Tail(x.todo)] EXCEPT !.pend = q]
  OBVIOUS
<1>9. tx' = [tx EXCEPT ![s] = y]
  BY <1>2, <1>3, <1>6, <1>8 DEF LoadCore, Rest
<1>10. /\ y.pc = "open" /\ y.call = x.call /\ y.gone = x.gone /\ y.rows = x.rows
       /\ y.source = x.source /\ y.pend = q /\ y.todo = Tail(x.todo)
  BY <1>3, <1>8 DEF Shape
<1>11. Steps(x, y)
  BY <1>3, <1>10 DEF Steps
<1>12. Loader(s, y) /\ (Uses(y) => Uses(x))
  BY <1>3, <1>4, <1>7, <1>10, <1>11, CoreStage
<1>13. Held(db, tx, s, y)
  BY <1>2, <1>3, <1>10, SameHeld
<1> QED BY <1>1, <1>2, <1>3, <1>4, <1>9, <1>10, <1>12, <1>13, LoaderKeeps

----------------------------------------------------------------------------
(* The keys a step takes.                                                  *)
LEMMA OtherKeys == ASSUME NEW Q, NEW R, Keys(Q) \cap Keys(R) = {} PROVE Apart(Q, R)
<1> SUFFICES ASSUME NEW q \in Q, NEW r \in R, SameKey(q, r) PROVE FALSE
  BY DEF Apart
<1>1. <<q.table, q.id>> \in Keys(Q)
  BY DEF Keys
<1>2. <<r.table, r.id>> \in Keys(R)
  BY DEF Keys
<1>3. <<q.table, q.id>> = <<r.table, r.id>>
  BY DEF SameKey
<1> QED BY <1>1, <1>2, <1>3

(* Who does not wait has a key that no other session holds.                *)
LEMMA WaitFree ==
  ASSUME NEW s \in Session, ~Waits(s), NEW row, Wanted(s) = Keys({row}),
         NEW u \in Session, u # s, tx[u].pc = "open"
  PROVE  Apart({row}, tx[u].rows \cup tx[u].gone)
<1>1. ~WaitsFor(s, u)
  BY DEF Waits
<1>2. Wanted(s) \cap Holds(u) = {}
  BY <1>1 DEF WaitsFor
<1>3. Holds(u) = Keys(tx[u].rows \cup tx[u].gone)
  BY DEF Holds, IsOpen
<1>4. Keys({row}) \cap Keys(tx[u].rows \cup tx[u].gone) = {}
  BY <1>2, <1>3
<1> QED BY <1>4, OtherKeys

(* The rows of the pack's own tables have the session's id in their key.   *)
LEMMA OwnLines ==
  ASSUME RuntimeInv, PacksInv, NEW s \in Session, tx[s].pc = "open",
         NEW N, \A r \in N : r.table \in LineTables /\ r.id[1] = s
  PROVE  /\ Apart(N, db \ tx[s].gone)
         /\ \A u \in Session : u # s /\ tx[u].pc = "open" => Apart(N, tx[u].rows \cup tx[u].gone)
<1>1. Apart(N, db \ tx[s].gone)
  BY DEF PacksInv, KeysOk, Apart, SameKey
<1>2. ASSUME NEW u \in Session, u # s, tx[u].pc = "open"
      PROVE  Apart(N, tx[u].rows \cup tx[u].gone)
  <2>1. PICK x : x = tx[u]
    OBVIOUS
  <2>2. Stage(u, x) /\ Shape(x) /\ Written(u, x)
    BY <1>2, <2>1, AtStep DEF PacksInv, Staged, OpenOk, IsOpen
  <2>3. ASSUME NEW r \in x.rows, r.table \in LineTables PROVE r.id[1] = u
    <3>1. r \in Contents(Mine(x)) /\ r \in Mine(x)
      BY <2>3 DEF Contents, Mine, LineTables
    <3>2. ~Asker(u, x)
      BY <2>3, <3>1 DEF Asker, LineTables
    <3>3. Content(u, x)
      BY <2>2, <3>2 DEF Stage, Loader
    <3>4. Len(x.todo) \in Nat
      BY <2>2 DEF Shape, IsSeq
    <3>5. r.table # "documents"
      BY <2>3 DEF LineTables
    <3>6. /\ x.call.pack = CorePack => \A q \in Contents(Mine(x)) : q.table = "documents"
          /\ x.call.pack # CorePack => \A q \in Contents(Mine(x)) : q.table \in LineTables /\ q.id[1] = u
      BY <3>3, <3>4, ContentOf
    <3> QED BY <3>1, <3>5, <3>6
  <2>4. \A r \in x.gone : r.table \notin LineTables
    BY <2>2 DEF Written, LineTables
  <2> SUFFICES ASSUME NEW q \in N, NEW r \in x.rows \cup x.gone, SameKey(q, r) PROVE FALSE
    BY <2>1 DEF Apart
  <2>5. q.table \in LineTables /\ q.id[1] = s /\ r.table = q.table /\ r.id = q.id
    BY DEF SameKey
  <2>6. r \in x.rows
    BY <2>4, <2>5
  <2>7. r.id[1] = u
    BY <2>3, <2>5, <2>6
  <2> QED BY <1>2, <2>5, <2>7
<1> QED BY <1>1, <1>2

(* Rows that only change in what is no key.                                *)
LEMMA KeysHeld ==
  ASSUME NEW R, NEW T, NEW s \in Session, KeysOk(R, T), T[s].pc = "open", NEW x, x = T[s], NEW y,
         UniqueKeys(y.rows), y.gone = x.gone, \A q \in y.rows : \E r \in x.rows : SameKey(q, r)
  PROVE  Held(R, T, s, y)
<1>1. OwnKeys(R, x)
  BY DEF KeysOk
<1>2. ASSUME NEW W, Apart(x.rows, W) PROVE Apart(y.rows, W)
  BY <1>2 DEF Apart, SameKey
<1>3. OwnKeys(R, y)
  BY <1>1, <1>2 DEF OwnKeys
<1>4. ASSUME NEW u \in Session, u # s, T[u].pc = "open"
      PROVE  Apart(y.rows \cup y.gone, T[u].rows \cup T[u].gone)
  <2>1. PICK W : W = T[u].rows \cup T[u].gone
    OBVIOUS
  <2>2. Apart(x.rows \cup x.gone, W)
    BY <1>4, <2>1 DEF KeysOk
  <2>3. Apart(x.rows, W) /\ Apart(y.gone, W)
    BY <2>2 DEF Apart
  <2>4. Apart(y.rows, W)
    BY <1>2, <2>3
  <2>5. Apart(y.rows \cup y.gone, W)
    BY <2>3, <2>4 DEF Apart
  <2> QED BY <2>1, <2>5
<1> QED BY <1>3, <1>4 DEF Held

LEMMA DeleteKeeps ==
  ASSUME RuntimeInv, PacksInv, NEW s \in Session, DeleteSource(s)
  PROVE  PacksInv'
<1>1. db' = db /\ At(s, "delete") /\ ~Waits(s)
  BY DEF DeleteSource
<1>2. PICK x : x = tx[s]
  OBVIOUS
<1>3. /\ DOMAIN tx = Session /\ x.pc = "open" /\ OpenOk(s, x, Curated(tx)) /\ Shape(x)
      /\ IsSeq(x.todo) /\ x.todo # << >> /\ x.pend = << >>
      /\ Head(x.todo) = x.todo[1] /\ x.todo[1].do = "delete" /\ KeysOk(db, tx)
      /\ s \notin ApiSession => s \in CliSession /\ Loader(s, x)
  BY <1>1, <1>2, TakesStep
<1>4. s \notin ApiSession /\ s \in CliSession /\ Loader(s, x)
  BY <1>3, WhoseStep
<1>5. PICK row : row = x.todo[1].row
  OBVIOUS
<1>6. PICK y : y = [[x EXCEPT !.todo = Tail(x.todo)] EXCEPT !.gone = x.gone \cup (db \cap {row})]
  OBVIOUS
<1>7. tx' = [tx EXCEPT ![s] = y]
  BY <1>2, <1>3, <1>5, <1>6 DEF DeleteSource, Rest
<1>8. /\ y.pc = "open" /\ y.call = x.call /\ y.gone = x.gone \cup (db \cap {row}) /\ y.rows = x.rows
      /\ y.source = x.source /\ y.pend = << >> /\ y.todo = Tail(x.todo)
  BY <1>3, <1>6 DEF Shape
<1>9. Steps(x, y)
  BY <1>3, <1>8 DEF Steps
<1>10. Loader(s, y) /\ ~Uses(y)
  BY <1>3, <1>4, <1>5, <1>8, <1>9, DeleteStage
<1>11. Wanted(s) = Keys({row})
  BY <1>1, <1>2, <1>3, <1>5 DEF Wanted, IsOpen
<1>12. Held(db, tx, s, y)
  <2>1. OwnKeys(db, x)
    BY <1>2, <1>3 DEF KeysOk
  <2>2. OwnKeys(db, y)
    BY <1>8, <2>1 DEF OwnKeys, Apart
  <2>3. ASSUME NEW u \in Session, u # s, tx[u].pc = "open"
        PROVE  Apart(y.rows \cup y.gone, tx[u].rows \cup tx[u].gone)
    <3>1. PICK W : W = tx[u].rows \cup tx[u].gone
      OBVIOUS
    <3>2. Apart(x.rows \cup x.gone, W)
      BY <1>2, <1>3, <2>3, <3>1 DEF KeysOk
    <3>3. Apart({row}, W)
      BY <1>1, <1>11, <2>3, <3>1, WaitFree
    <3>4. \A q \in y.rows \cup y.gone : q \in x.rows \cup x.gone \/ q \in {row}
      BY <1>8
    <3>5. Apart(y.rows \cup y.gone, W)
      BY <3>2, <3>3, <3>4 DEF Apart
    <3> QED BY <3>1, <3>5
  <2> QED BY <2>2, <2>3 DEF Held
<1> QED BY <1>1, <1>2, <1>3, <1>4, <1>7, <1>8, <1>10, <1>12, LoaderKeeps

LEMMA IntentsKeep ==
  ASSUME RuntimeInv, PacksInv, NEW s \in Session, LoadIntents(s)
  PROVE  PacksInv'
<1>1. db' = db /\ At(s, "intents")
  BY DEF LoadIntents
<1>2. PICK x : x = tx[s]
  OBVIOUS
<1>3. /\ DOMAIN tx = Session /\ x.pc = "open" /\ OpenOk(s, x, Curated(tx)) /\ Shape(x)
      /\ IsSeq(x.todo) /\ x.todo # << >> /\ x.pend = << >>
      /\ Head(x.todo) = x.todo[1] /\ x.todo[1].do = "intents" /\ KeysOk(db, tx)
      /\ s \notin ApiSession => s \in CliSession /\ Loader(s, x)
  BY <1>1, <1>2, TakesStep
<1>4. s \notin ApiSession /\ s \in CliSession /\ Loader(s, x)
  BY <1>3, WhoseStep
<1>5. PICK N : N = IntentSet(s, x.source)
  OBVIOUS
<1>6. PICK y : y = [[x EXCEPT !.todo = Tail(x.todo)] EXCEPT !.rows = x.rows \cup N]
  OBVIOUS
<1>7. tx' = [tx EXCEPT ![s] = y]
  BY <1>2, <1>3, <1>5, <1>6 DEF LoadIntents, Rest, IntentSet
<1>8. /\ y.pc = "open" /\ y.call = x.call /\ y.gone = x.gone /\ y.rows = x.rows \cup N
      /\ y.source = x.source /\ y.pend = << >> /\ y.todo = Tail(x.todo)
  BY <1>3, <1>6 DEF Shape
<1>9. Steps(x, y)
  BY <1>3, <1>8 DEF Steps
<1>10. Loader(s, y) /\ (Uses(y) => Uses(x)) /\ Contents(x.rows) = {}
  BY <1>3, <1>4, <1>5, <1>8, <1>9, IntentStage
<1>11. UniqueKeys(N) /\ \A r \in N : r.table = "hospitality_intents" /\ r.id[1] = s
  BY <1>5, IntentCount
<1>12. \A r \in N : r.table \in LineTables /\ r.id[1] = s
  BY <1>11 DEF LineTables
<1>13. Apart(N, x.rows)
  BY <1>10, <1>11 DEF Apart, SameKey, Contents
<1>14. Held(db, tx, s, y)
  <2>1. /\ Apart(N, db \ x.gone)
        /\ \A u \in Session : u # s /\ tx[u].pc = "open" => Apart(N, tx[u].rows \cup tx[u].gone)
    BY <1>2, <1>3, <1>12, OwnLines
  <2> QED BY <1>2, <1>3, <1>8, <1>11, <1>13, <2>1, AddHeld
<1> QED BY <1>1, <1>2, <1>3, <1>4, <1>7, <1>8, <1>10, <1>14, LoaderKeeps

LEMMA LineKeeps ==
  ASSUME RuntimeInv, PacksInv, NEW s \in Session, LoadLine(s)
  PROVE  PacksInv'
<1>1. db' = db /\ At(s, "line")
  BY DEF LoadLine
<1>2. PICK x : x = tx[s]
  OBVIOUS
<1>3. /\ DOMAIN tx = Session /\ x.pc = "open" /\ OpenOk(s, x, Curated(tx)) /\ Shape(x)
      /\ IsSeq(x.todo) /\ x.todo # << >> /\ x.pend = << >>
      /\ Head(x.todo) = x.todo[1] /\ x.todo[1].do = "line" /\ KeysOk(db, tx)
      /\ s \notin ApiSession => s \in CliSession /\ Loader(s, x)
  BY <1>1, <1>2, TakesStep
<1>4. s \notin ApiSession /\ s \in CliSession /\ Loader(s, x)
  BY <1>3, WhoseStep
<1>5. PICK i : i = x.todo[1].line
  OBVIOUS
<1>6. PICK row : row = LineRow(s, x.call.pack, i)
  OBVIOUS
<1>7. PICK N : N = {row}
  OBVIOUS
<1>8. PICK y : y = [[x EXCEPT !.todo = Tail(x.todo)] EXCEPT !.rows = x.rows \cup N]
  OBVIOUS
<1>9. tx' = [tx EXCEPT ![s] = y]
  BY <1>2, <1>3, <1>5, <1>6, <1>7, <1>8 DEF LoadLine, Rest, LineRow
<1>10. /\ y.pc = "open" /\ y.call = x.call /\ y.gone = x.gone /\ y.rows = x.rows \cup N
       /\ y.source = x.source /\ y.pend = << >> /\ y.todo = Tail(x.todo)
  BY <1>3, <1>8 DEF Shape
<1>11. Steps(x, y)
  BY <1>3, <1>10 DEF Steps
<1>12. /\ Loader(s, y) /\ (Uses(y) => Uses(x))
       /\ Contents(x.rows) = LineSet(s, x.call.pack, 2 * i - 1)
       /\ i \in DOMAIN Lines /\ x.call.pack \notin {CorePack, IntentPack}
  BY <1>3, <1>4, <1>5, <1>6, <1>7, <1>10, <1>11, LineStage
<1>13. row.table = LineTable(x.call.pack) /\ row.id = <<s, i>>
  BY <1>6 DEF LineRow, LineTable, AssetRow, VehicleRow
<1>14. row.table \in LineTables /\ row.id[1] = s
  BY <1>13 DEF LineTable, LineTables
<1>15. Apart(N, x.rows)
  <2> SUFFICES ASSUME NEW r \in x.rows, SameKey(row, r) PROVE FALSE
    BY <1>7 DEF Apart
  <2>1. r.table \in LineTables /\ r.id = <<s, i>>
    BY <1>13, <1>14 DEF SameKey
  <2>2. r \in Contents(x.rows)
    BY <2>1 DEF Contents, LineTables
  <2>3. PICK k : k = 2 * i - 1
    OBVIOUS
  <2>4. r \in LineSet(s, x.call.pack, k)
    BY <1>12, <2>2, <2>3
  <2>5. PICK j \in DOMAIN Lines : r.id = <<s, j>> /\ 2 * j <= k
    BY <2>4, LineRows
  <2>6. i = j /\ i \in Nat
    BY <1>12, <2>1, <2>5, Sizes
  <2> QED BY <2>3, <2>5, <2>6
<1>16. Held(db, tx, s, y)
  <2>1. \A r \in N : r.table \in LineTables /\ r.id[1] = s
    BY <1>7, <1>14
  <2>2. /\ Apart(N, db \ x.gone)
        /\ \A u \in Session : u # s /\ tx[u].pc = "open" => Apart(N, tx[u].rows \cup tx[u].gone)
    BY <1>2, <1>3, <2>1, OwnLines
  <2>3. UniqueKeys(N)
    BY <1>7 DEF UniqueKeys
  <2> QED BY <1>2, <1>3, <1>10, <1>15, <2>2, <2>3, AddHeld
<1> QED BY <1>1, <1>2, <1>3, <1>4, <1>9, <1>10, <1>12, <1>16, LoaderKeeps

LEMMA CountKeeps ==
  ASSUME RuntimeInv, PacksInv, NEW s \in Session, Count(s)
  PROVE  PacksInv'
<1>1. db' = db /\ At(s, "count")
  BY DEF Count
<1>2. PICK x : x = tx[s]
  OBVIOUS
<1>3. /\ DOMAIN tx = Session /\ x.pc = "open" /\ OpenOk(s, x, Curated(tx)) /\ Shape(x) /\ Written(s, x)
      /\ IsSeq(x.todo) /\ x.todo # << >> /\ x.pend = << >>
      /\ Head(x.todo) = x.todo[1] /\ x.todo[1].do = "count" /\ KeysOk(db, tx)
      /\ s \notin ApiSession => s \in CliSession /\ Loader(s, x)
  BY <1>1, <1>2, TakesStep
<1>4. s \notin ApiSession /\ s \in CliSession /\ Loader(s, x)
  BY <1>3, WhoseStep
<1>5. PICK rows, docs, others :
        /\ rows = x.rows /\ docs = In("documents", rows)
        /\ others = rows \ (docs \cup In("tenants", rows) \cup In("estate_projects", rows)
                                 \cup In("source_records", rows))
  OBVIOUS
<1>6. PICK d, c, k : /\ d = Cardinality(docs) /\ c = Chunks(docs)
                     /\ k = IF docs # {} THEN Len(CoreDocs) ELSE Cardinality(others)
  OBVIOUS
<1>7. PICK N : N = {IF r.table = "source_records"
           THEN [r EXCEPT !.documents = d, !.chunks = c, !.records = k] ELSE r : r \in rows}
  OBVIOUS
<1>8. PICK y : y = [[x EXCEPT !.todo = Tail(x.todo)] EXCEPT !.rows = N]
  OBVIOUS
<1>9. tx' = [tx EXCEPT ![s] = y]
  <2>1. tx' = [tx EXCEPT ![s].todo = Rest(s), ![s].rows = N]
    BY <1>2, <1>5, <1>6, <1>7 DEF Count
  <2>2. Rest(s) = Tail(x.todo) /\ tx[s] = x
    BY <1>2, <1>3 DEF Rest
  <2> QED BY <1>3, <1>8, <2>1, <2>2
<1>10. /\ y.pc = "open" /\ y.call = x.call /\ y.gone = x.gone /\ y.rows = N
       /\ y.source = x.source /\ y.pend = << >> /\ y.todo = Tail(x.todo)
  BY <1>3, <1>8 DEF Shape
<1>11. Steps(x, y)
  BY <1>3, <1>10 DEF Steps
<1>12. Recounted(rows, N, d, c, k)
  <2>1. \A r \in rows : r.table = "source_records" => IsSource(r)
    BY <1>3, <1>5 DEF Written, RowOk
  <2> QED BY <1>7, <2>1, CountRows
<1>13. Mine(x) = rows /\ Len(x.todo) = 1 /\ Content(s, x)
  BY <1>3, <1>4, <1>5, MineNone, NextStep DEF Loader
<1>14. x.call.pack # CorePack => k = IF x.call.pack = IntentPack THEN Utterances ELSE Len(Lines)
  <2>1. ASSUME x.call.pack # CorePack
        PROVE  docs = {} /\ Cardinality(others) = IF x.call.pack = IntentPack THEN Utterances ELSE Len(Lines)
    BY <1>5, <1>13, <2>1, RecordCount
  <2> QED BY <1>6, <2>1
<1>15. Loader(s, y) /\ (Uses(y) => Uses(x))
  BY <1>4, <1>3, <1>5, <1>6, <1>10, <1>11, <1>12, <1>14, CountStage
<1>16. Held(db, tx, s, y)
  <2>1. UniqueKeys(rows)
    BY <1>2, <1>3, <1>5 DEF KeysOk, OwnKeys
  <2>2. UniqueKeys(N) /\ \A q \in N : \E r \in rows : SameKey(q, r)
    BY <1>12, <2>1 DEF Recounted, SameKey
  <2> QED BY <1>2, <1>3, <1>5, <1>10, <2>2, KeysHeld
<1> QED BY <1>1, <1>2, <1>3, <1>4, <1>9, <1>10, <1>15, <1>16, LoaderKeeps

LEMMA FlushKeeps ==
  ASSUME RuntimeInv, PacksInv, NEW s \in Session, Flush(s)
  PROVE  PacksInv'
<1>1. IsOpen(s) /\ tx[s].pend # << >> /\ ~Waits(s)
  BY DEF Flush
<1>2. CASE Fail(s, "integrity_error")
  BY <1>1, <1>2, FailKeeps
<1>3. ASSUME ~Fail(s, "integrity_error") PROVE PacksInv'
  <2>1. /\ tx' = [tx EXCEPT ![s].pend = Tail(@), ![s].rows = @ \cup {Head(tx[s].pend)}]
        /\ db' = db /\ Wanted(s) \cap Keys(Visible(s)) = {}
    BY <1>3 DEF Flush
  <2>2. PICK x : x = tx[s]
    OBVIOUS
  <2>3. DOMAIN tx = Session /\ x.pc = "open" /\ Shape(x) /\ x.pend # << >>
    BY <1>1, <2>2, AtStep DEF OpenOk
  <2>4. Stage(s, x) /\ KeysOk(db, tx)
    BY <2>2, <2>3 DEF PacksInv, Staged
  <2>5. PICK row : row = Head(x.pend)
    OBVIOUS
  <2>6. PICK N : N = {row}
    OBVIOUS
  <2>7. PICK y : y = [[x EXCEPT !.pend = Tail(@)] EXCEPT !.rows = @ \cup N]
    OBVIOUS
  <2>8. tx' = [tx EXCEPT ![s] = y]
    BY <2>1, <2>2, <2>3, <2>5, <2>6, <2>7
  <2>9. /\ y.pc = "open" /\ y.call = x.call /\ y.gone = x.gone /\ y.rows = x.rows \cup N
        /\ y.source = x.source /\ y.todo = x.todo /\ y.answer = x.answer /\ y.pend = Tail(x.pend)
    BY <2>3, <2>7 DEF Shape
  <2>10. Mine(y) = Mine(x)
    BY <2>3, <2>5, <2>6, <2>9, MineFlush DEF Shape
  <2>11. Stage(s, y) /\ (Uses(y) => Uses(x))
    BY <2>3, <2>4, <2>9, <2>10, FlushStage
  <2>12. Wanted(s) = Keys(N)
    BY <2>2, <2>3, <2>5, <2>6 DEF Wanted, IsOpen
  <2>13. Held(db, tx, s, y)
    <3>1. Visible(s) = (db \ x.gone) \cup x.rows
      BY <2>2 DEF Visible
    <3>2. Apart(N, (db \ x.gone) \cup x.rows)
      BY <2>1, <2>12, <3>1, OtherKeys
    <3>3. Apart(N, x.rows) /\ Apart(N, db \ x.gone)
      BY <3>2 DEF Apart
    <3>4. \A u \in Session : u # s /\ tx[u].pc = "open" => Apart(N, tx[u].rows \cup tx[u].gone)
      BY <1>1, <2>6, <2>12, WaitFree
    <3>5. UniqueKeys(N)
      BY <2>6 DEF UniqueKeys
    <3> QED BY <2>2, <2>3, <2>4, <2>9, <3>3, <3>4, <3>5, AddHeld
  <2>14. s \in CliSession => FoundSource(db, tx, y)
    <3>1. s \in CliSession => FoundSource(db, tx, x)
      BY <2>2, <2>3 DEF PacksInv, PacksOk
    <3> QED BY <2>9, <2>11, <3>1, FoundStill
  <2>15. s \in ApiSession => Lists(db, y)
    <3>1. s \in ApiSession => Lists(db, x)
      BY <2>2, <2>3 DEF PacksInv, PacksOk
    <3> QED BY <2>9, <3>1 DEF Lists
  <2>16. tx[s].pc # "done"
    BY <2>2, <2>3
  <2> QED BY <2>1, <2>8, <2>9, <2>11, <2>13, <2>14, <2>15, <2>16, TurnKeeps
<1> QED BY <1>2, <1>3
----------------------------------------------------------------------------
(* Requests.                                                               *)

(* A request's step that inserts nothing yet.                              *)
LEMMA AskerKeeps ==
  ASSUME RuntimeInv, PacksInv, NEW s \in ApiSession, s \in Session, NEW x, x = tx[s], x.pc = "open",
         NEW y, tx' = [tx EXCEPT ![s] = y], db' = db, y.pc = "open", Asker(s, x),
         y.rows = x.rows, y.gone = x.gone, Lists(db, y),
         \A i \in DOMAIN y.pend : y.pend[i].table = "documents" /\ y.pend[i].source = NoSource
  PROVE  PacksInv'
<1>1. Asker(s, y)
  <2>1. \A r \in Mine(y) : r \in Mine(x) \/ (r.table = "documents" /\ r.source = NoSource)
    BY DEF Mine
  <2> QED BY <2>1 DEF Asker
<1>2. KeysOk(db, tx)
  BY DEF PacksInv
<1>3. Held(db, tx, s, y)
  BY <1>2, SameHeld
<1>4. Stage(s, y) /\ tx[s].pc # "done" /\ s \notin CliSession
  BY <1>1, RuntimeSessions DEF Stage
<1> QED BY <1>3, <1>4, TurnKeeps

LEMMA IngestKeeps ==
  ASSUME RuntimeInv, PacksInv, NEW s \in Session, Ingest(s)
  PROVE  PacksInv'
<1>1. At(s, "ingest") /\ IsOpen(s)
  BY DEF Ingest, At
<1>2. CASE Fail(s, "ingest_failed")
  BY <1>1, <1>2, FailKeeps
<1>3. CASE ~Fail(s, "ingest_failed")
  <2>1. PICK x : x = tx[s]
    OBVIOUS
  <2>2. /\ DOMAIN tx = Session /\ x.pc = "open" /\ OpenOk(s, x, Curated(tx)) /\ Shape(x)
        /\ x.todo # << >> /\ Head(x.todo) = x.todo[1] /\ x.todo[1].do = "ingest"
        /\ s \in ApiSession => Asker(s, x)
    BY <1>1, <2>1, TakesStep
  <2>3. s \in ApiSession /\ x.call.op = "ingest" /\ Asker(s, x)
    BY <2>2, WhoseStep
  <2>4. PICK t, e, fingerprint, n :
          /\ db' = db
          /\ tx' = [tx EXCEPT ![s].todo = Rest(s), ![s].pend =
               <<DocumentRow(s, t, e, tx[s].call.layer, tx[s].call.pack, NoSource,
                             tx[s].call.cite, fingerprint, n)>>]
    BY <1>3 DEF Ingest
  <2>5. PICK row : row = DocumentRow(s, t, e, tx[s].call.layer, tx[s].call.pack, NoSource,
                             tx[s].call.cite, fingerprint, n)
    OBVIOUS
  <2>6. row.table = "documents" /\ row.source = NoSource
    BY <2>5 DEF DocumentRow
  <2>7. PICK q : q = <<row>>
    OBVIOUS
  <2>8. PICK y : y = [[x EXCEPT !.todo = Tail(x.todo)] EXCEPT !.pend = q]
    OBVIOUS
  <2>9. tx' = [tx EXCEPT ![s] = y]
    BY <2>1, <2>2, <2>4, <2>5, <2>7, <2>8 DEF Rest
  <2>10. y.pc = "open" /\ y.call = x.call /\ y.gone = x.gone /\ y.rows = x.rows /\ y.pend = q
    BY <2>2, <2>8 DEF Shape
  <2>11. \A i \in DOMAIN q : q[i] = row
    BY <2>7
  <2>12. \A i \in DOMAIN y.pend : y.pend[i].table = "documents" /\ y.pend[i].source = NoSource
    BY <2>6, <2>10, <2>11
  <2>13. Lists(db, y)
    BY <2>3, <2>10 DEF Lists
  <2> QED BY <2>1, <2>2, <2>3, <2>4, <2>9, <2>10, <2>12, <2>13, AskerKeeps
<1> QED BY <1>2, <1>3

LEMMA FindKeeps ==
  ASSUME RuntimeInv, PacksInv, NEW s \in Session, NEW do, do \in {"semantic", "lexical"}, At(s, do),
         NEW layer, NEW H, db' = db,
         tx' = [tx EXCEPT ![s].todo = Rest(s), ![s].found[layer] = @ \cup H]
  PROVE  PacksInv'
<1>2. PICK x : x = tx[s]
  OBVIOUS
<1>3. /\ DOMAIN tx = Session /\ x.pc = "open" /\ OpenOk(s, x, Curated(tx)) /\ Shape(x)
      /\ x.todo # << >> /\ x.pend = << >> /\ Head(x.todo) = x.todo[1] /\ x.todo[1].do = do
      /\ s \in ApiSession => Asker(s, x)
  BY <1>2, TakesStep
<1>4. s \in ApiSession /\ x.call.op = "query" /\ Asker(s, x)
  BY <1>3, WhoseStep
<1>5. PICK y : y = [[x EXCEPT !.todo = Tail(x.todo)] EXCEPT !.found[layer] = @ \cup H]
  OBVIOUS
<1>6. tx' = [tx EXCEPT ![s] = y]
  BY <1>2, <1>3, <1>5 DEF Rest, Shape
<1>7. y.pc = "open" /\ y.call = x.call /\ y.gone = x.gone /\ y.rows = x.rows /\ y.pend = << >>
  BY <1>3, <1>5 DEF Shape
<1>8. Lists(db, y)
  BY <1>4, <1>7 DEF Lists
<1>9. \A i \in DOMAIN y.pend : y.pend[i].table = "documents" /\ y.pend[i].source = NoSource
  BY <1>7
<1> QED BY <1>2, <1>3, <1>4, <1>6, <1>7, <1>8, <1>9, AskerKeeps

LEMMA SearchKeeps ==
  ASSUME RuntimeInv, PacksInv, NEW s \in Session, SemanticSearch(s) \/ LexicalSearch(s)
  PROVE  PacksInv'
<1>1. ASSUME SemanticSearch(s) PROVE PacksInv'
  <2>1. At(s, "semantic") /\ db' = db
    BY <1>1 DEF SemanticSearch
  <2>2. PICK layer, H : tx' = [tx EXCEPT ![s].todo = Rest(s), ![s].found[layer] = @ \cup H]
    BY <1>1 DEF SemanticSearch
  <2> QED BY <2>1, <2>2, FindKeeps
<1>2. ASSUME LexicalSearch(s) PROVE PacksInv'
  <2>1. At(s, "lexical") /\ db' = db
    BY <1>2 DEF LexicalSearch
  <2>2. PICK layer, H : tx' = [tx EXCEPT ![s].todo = Rest(s), ![s].found[layer] = @ \cup H]
    BY <1>2 DEF LexicalSearch
  <2> QED BY <2>1, <2>2, FindKeeps
<1> QED BY <1>1, <1>2

(* The verdict's key is the session's own.                                 *)
LEMMA AnswerKeeps ==
  ASSUME RuntimeInv, PacksInv, NEW s \in Session, Ground(s) \/ Refuse(s)
  PROVE  PacksInv'
<1>1. PICK do, verdict, hits :
        do \in {"ground", "refuse"} /\ At(s, do) /\ db' = db /\ Record(s, verdict, hits)
  <2>1. CASE Ground(s)
    BY <2>1 DEF Ground
  <2>2. CASE Refuse(s)
    BY <2>2 DEF Refuse
  <2> QED BY <2>1, <2>2
<1>2. PICK x : x = tx[s]
  OBVIOUS
<1>3. /\ DOMAIN tx = Session /\ x.pc = "open" /\ OpenOk(s, x, Curated(tx)) /\ Shape(x) /\ Written(s, x)
      /\ x.todo # << >> /\ x.pend = << >> /\ Head(x.todo) = x.todo[1] /\ x.todo[1].do = do
      /\ KeysOk(db, tx)
      /\ s \in ApiSession => Asker(s, x)
  BY <1>1, <1>2, TakesStep
<1>4. s \in ApiSession /\ x.call.op = "query" /\ Asker(s, x)
  BY <1>1, <1>3, WhoseStep
<1>5. PICK row : row = VerdictRow(s, x.who, verdict, Cardinality(hits))
  OBVIOUS
<1>6. row.table = "audit_events" /\ row.id = s
  BY <1>5 DEF VerdictRow
<1>7. PICK N, a : N = {row} /\ a = [code |-> verdict, hits |-> hits]
  OBVIOUS
<1>8. PICK y : y = [[[x EXCEPT !.todo = Tail(x.todo)] EXCEPT !.rows = @ \cup N] EXCEPT !.answer = a]
  OBVIOUS
<1>9. tx' = [tx EXCEPT ![s] = y]
  BY <1>1, <1>2, <1>3, <1>5, <1>7, <1>8 DEF Record, Rest
<1>10. /\ y.pc = "open" /\ y.call = x.call /\ y.gone = x.gone /\ y.rows = x.rows \cup N
       /\ y.pend = << >>
  BY <1>3, <1>8 DEF Shape
<1>11. Asker(s, y)
  <2>1. \A r \in Mine(y) : r \in Mine(x) \/ r = row
    BY <1>7, <1>10 DEF Mine
  <2> QED BY <1>4, <1>6, <1>10, <2>1 DEF Asker
<1>12. Apart(N, x.rows)
  <2>1. x.answer.code = "pending"
    BY <1>3, NotYetAnswered
  <2>2. Audits(x.rows) = {}
    BY <1>3, <2>1 DEF Written, Verdict, Verdicts
  <2> QED BY <1>6, <1>7, <2>2 DEF Apart, SameKey, Audits
<1>13. Apart(N, db \ x.gone)
  <2>1. LedgerOf(db, s) = {}
    BY <1>2, <1>3, <1>4 DEF RuntimeInv, Good, Due
  <2> QED BY <1>6, <1>7, <2>1 DEF Apart, SameKey, LedgerOf, Audits
<1>14. ASSUME NEW u \in Session, u # s, tx[u].pc = "open" PROVE Apart(N, tx[u].rows \cup tx[u].gone)
  <2>1. PICK z : z = tx[u]
    OBVIOUS
  <2>2. Written(u, z)
    BY <1>14, <2>1, AtStep DEF OpenOk, IsOpen
  <2>3. \A r \in Verdict(u, z) : r.id = u
    BY DEF Verdict, VerdictRow
  <2>4. \A r \in z.rows : r.table = "audit_events" => r.id = u
    BY <2>2, <2>3 DEF Written, Audits
  <2>5. \A r \in z.gone : r.table # "audit_events"
    BY <2>2 DEF Written
  <2>6. Apart(N, z.rows \cup z.gone)
    BY <1>6, <1>7, <1>14, <2>4, <2>5 DEF Apart, SameKey
  <2> QED BY <2>1, <2>6
<1>15. Held(db, tx, s, y)
  <2>1. UniqueKeys(N)
    BY <1>7 DEF UniqueKeys
  <2>2. \A u \in Session : u # s /\ tx[u].pc = "open" => Apart(N, tx[u].rows \cup tx[u].gone)
    BY <1>14
  <2> QED BY <1>2, <1>3, <1>10, <1>12, <1>13, <2>1, <2>2, AddHeld
<1>16. Lists(db, y)
  BY <1>4, <1>10 DEF Lists
<1>17. Stage(s, y) /\ tx[s].pc # "done" /\ s \notin CliSession
  BY <1>2, <1>3, <1>4, <1>11, RuntimeSessions DEF Stage
<1> QED BY <1>1, <1>9, <1>10, <1>15, <1>16, <1>17, TurnKeeps

(* A reader that answers is no inventory.                                  *)
LEMMA FinishKeeps ==
  ASSUME RuntimeInv, PacksInv, NEW s \in Session, NEW do, do \in {"list", "classify", "status", "reset"},
         At(s, do), NEW hits, Finish(s, "ok", hits), db' = db
  PROVE  PacksInv'
<1>1. PICK x : x = tx[s]
  OBVIOUS
<1>2. /\ DOMAIN tx = Session /\ x.pc = "open" /\ IsSeq(x.todo) /\ x.todo # << >> /\ x.todo[1].do = do
      /\ s \in ApiSession => Lists(db, x)
  BY <1>1, TakesStep
<1>3. s \in ApiSession => x.call.op # "inventory"
  <2>1. Len(x.todo) # 0
    BY <1>2, TailSteps
  <2> QED BY <1>2, <2>1 DEF Lists
<1>4. PICK y : y = Over(x.call, x.who, "ok", hits)
  OBVIOUS
<1>5. tx' = [tx EXCEPT ![s] = y]
  BY <1>1, <1>2, <1>4 DEF Finish
<1>6. y.pc = "done" /\ y.call = x.call
  BY <1>4 DEF Over
<1>7. tx[s].pc # "done"
  BY <1>1, <1>2
<1> QED BY <1>3, <1>5, <1>6, <1>7, EndKeeps

LEMMA ReaderKeeps ==
  ASSUME RuntimeInv, PacksInv, NEW s \in Session,
         ListRows(s) \/ ClassifyIntent(s) \/ Status(s) \/ ResetEmbedder(s)
  PROVE  PacksInv'
<1>1. ASSUME ListRows(s) PROVE PacksInv'
  <2>1. PICK hits : Finish(s, "ok", hits) /\ At(s, "list") /\ db' = db
    BY <1>1 DEF ListRows
  <2> QED BY <2>1, FinishKeeps
<1>2. ASSUME ClassifyIntent(s) PROVE PacksInv'
  <2>1. PICK hits : Finish(s, "ok", hits) /\ At(s, "classify") /\ db' = db
    BY <1>2 DEF ClassifyIntent
  <2> QED BY <2>1, FinishKeeps
<1>3. ASSUME Status(s) PROVE PacksInv'
  <2>1. Finish(s, "ok", {}) /\ At(s, "status") /\ db' = db
    BY <1>3 DEF Status
  <2> QED BY <2>1, FinishKeeps
<1>4. ASSUME ResetEmbedder(s) PROVE PacksInv'
  <2>1. Finish(s, "ok", {}) /\ At(s, "reset") /\ db' = db
    BY <1>4 DEF ResetEmbedder
  <2> QED BY <2>1, FinishKeeps
<1> QED BY <1>1, <1>2, <1>3, <1>4

(* An inventory's two statements.                                          *)
LEMMA ListKeeps ==
  ASSUME RuntimeInv, PacksInv, NEW s \in Session, NEW do, do \in {"sources", "by_pack"}, At(s, do),
         NEW hits, tx' = [tx EXCEPT ![s].todo = Rest(s), ![s].answer.hits = hits], db' = db,
         IF do = "sources" THEN hits = In("source_records", db)
         ELSE hits = tx[s].answer.hits \cup {d \in In("documents", db) : d.pack # NoPack}
  PROVE  PacksInv'
<1>1. PICK x : x = tx[s]
  OBVIOUS
<1>2. /\ DOMAIN tx = Session /\ x.pc = "open" /\ OpenOk(s, x, Curated(tx)) /\ Shape(x)
      /\ IsSeq(x.todo) /\ x.todo # << >> /\ x.pend = << >>
      /\ Head(x.todo) = x.todo[1] /\ x.todo[1].do = do
  BY <1>1, TakesStep
<1>3. s \in ApiSession
  BY <1>2, WhoseStep
<1>4. Lists(db, x) /\ Asker(s, x)
  BY <1>1, <1>3, TakesStep
<1>5. PICK y : y = [[x EXCEPT !.todo = Tail(x.todo)] EXCEPT !.answer.hits = hits]
  OBVIOUS
<1>6. tx' = [tx EXCEPT ![s] = y]
  BY <1>1, <1>2, <1>5 DEF Rest, Shape
<1>7. /\ y.pc = "open" /\ y.call = x.call /\ y.gone = x.gone /\ y.rows = x.rows
      /\ y.pend = << >> /\ y.todo = Tail(x.todo) /\ y.answer.hits = hits
  BY <1>2, <1>5 DEF Shape
<1>8. /\ Len(x.todo) \in Nat \ {0} /\ Len(y.todo) = Len(x.todo) - 1
      /\ DOMAIN y.todo = 1 .. Len(x.todo) - 1 /\ \A i \in DOMAIN y.todo : y.todo[i] = x.todo[i + 1]
  BY <1>2, <1>7, TailSteps
<1>9. CASE x.call.op # "inventory"
  <2>1. Lists(db, y)
    BY <1>7, <1>9 DEF Lists
  <2>2. \A i \in DOMAIN y.pend : y.pend[i].table = "documents" /\ y.pend[i].source = NoSource
    BY <1>7
  <2> QED BY <1>1, <1>2, <1>3, <1>4, <1>6, <1>7, <2>1, <2>2, AskerKeeps
<1>10. CASE x.call.op = "inventory"
  <2>1. Lists(db, y)
    <3>1. CASE do = "sources"
      <4>1. Len(x.todo) = 2 /\ x.todo[2].do = "by_pack"
        BY <1>2, <1>4, <1>8, <1>10, <3>1 DEF Lists
      <4>2. Len(y.todo) = 1 /\ y.todo[1].do = "by_pack"
        BY <1>8, <4>1
      <4>3. \A h \in hits : h.table = "source_records" /\ h \in db
        BY <3>1 DEF In
      <4> QED BY <1>7, <4>2, <4>3 DEF Lists
    <3>2. CASE do = "by_pack"
      <4>1. /\ Len(x.todo) = 1
            /\ \A h \in x.answer.hits : h.table = "source_records" /\ (h.id = CorePack => h \in db)
        BY <1>2, <1>4, <1>8, <1>10, <3>2 DEF Lists
      <4>2. Len(y.todo) = 0
        BY <1>8, <4>1
      <4>3. PICK docs : docs = {d \in In("documents", db) : d.pack # NoPack}
        OBVIOUS
      <4>4. hits = x.answer.hits \cup docs
        BY <1>1, <3>2, <4>3
      <4>5. Core(hits) = Core(db)
        <5>1. CorePack # NoPack
          BY RuntimePacks
        <5>2. In("documents", hits) = docs
          BY <4>1, <4>3, <4>4 DEF In
        <5> QED BY <4>3, <5>1, <5>2 DEF Core
      <4>6. ASSUME NEW r \in hits, r.table = "source_records", r.id = CorePack
            PROVE  Cardinality(Core(hits)) = r.documents
        <5>1. r \in db
          BY <4>1, <4>3, <4>4, <4>6 DEF In
        <5>2. r \in SourceOf(CorePack, db)
          BY <4>6, <5>1 DEF SourceOf, In
        <5>3. r.documents = Cardinality(Core(db))
          BY <5>2 DEF PacksInv, PacksOk, CoreWhole
        <5> QED BY <4>5, <5>3
      <4>7. ListsWhole(hits)
        BY <4>6 DEF ListsWhole
      <4> QED BY <1>7, <4>2, <4>7 DEF Lists
    <3> QED BY <3>1, <3>2
  <2>2. \A i \in DOMAIN y.pend : y.pend[i].table = "documents" /\ y.pend[i].source = NoSource
    BY <1>7
  <2> QED BY <1>1, <1>2, <1>3, <1>4, <1>6, <1>7, <2>1, <2>2, AskerKeeps
<1> QED BY <1>9, <1>10

LEMMA InventoryKeeps ==
  ASSUME RuntimeInv, PacksInv, NEW s \in Session, InventorySources(s) \/ InventoryDocuments(s)
  PROVE  PacksInv'
<1>1. CASE InventorySources(s)
  <2>1. PICK hits : hits = In("source_records", db)
    OBVIOUS
  <2>2. At(s, "sources") /\ db' = db /\ tx' = [tx EXCEPT ![s].todo = Rest(s), ![s].answer.hits = hits]
    BY <1>1, <2>1 DEF InventorySources
  <2> QED BY <2>1, <2>2, ListKeeps
<1>2. CASE InventoryDocuments(s)
  <2>1. PICK hits : hits = tx[s].answer.hits \cup {d \in In("documents", db) : d.pack # NoPack}
    OBVIOUS
  <2>2. At(s, "by_pack") /\ db' = db /\ tx' = [tx EXCEPT ![s].todo = Rest(s), ![s].answer.hits = hits]
    BY <1>2, <2>1 DEF InventoryDocuments
  <2> QED BY <2>1, <2>2, ListKeeps
<1> QED BY <1>1, <1>2
----------------------------------------------------------------------------
(* Calls are taken.                                                        *)

(* A session that starts has nothing written.                              *)
LEMMA StartKeeps ==
  ASSUME RuntimeInv, PacksInv, NEW s \in Session, tx[s] = Idle, db' = db,
         NEW call, NEW who, NEW todo, NEW y, y = Start(call, who, todo), tx' = [tx EXCEPT ![s] = y],
         s \in ApiSession => Lists(db, y), s \notin ApiSession => Loader(s, y) /\ ~Uses(y)
  PROVE  PacksInv'
<1>1. y.pc = "open" /\ y.rows = {} /\ y.gone = {} /\ y.pend = << >>
  BY DEF Start
<1>2. Mine(y) = {}
  BY <1>1, MineNone
<1>3. Stage(s, y)
  <2>1. Asker(s, y)
    BY <1>1, <1>2 DEF Asker
  <2> QED BY <2>1 DEF Stage
<1>4. Held(db, tx, s, y)
  BY <1>1 DEF Held, OwnKeys, UniqueKeys, Apart
<1>5. s \in CliSession => FoundSource(db, tx, y)
  BY RuntimeSessions DEF FoundSource
<1>6. tx[s].pc # "done"
  BY DEF Idle
<1> QED BY <1>1, <1>3, <1>4, <1>5, <1>6, TurnKeeps

LEMMA RefusedKeeps ==
  ASSUME RuntimeInv, PacksInv, NEW s \in Session, tx[s] = Idle, db' = db,
         NEW call, NEW who, NEW code, code # "ok",
         NEW y, y = Over(call, who, code, {}), tx' = [tx EXCEPT ![s] = y]
  PROVE  PacksInv'
<1>1. y.pc = "done" /\ y.answer.code = code
  BY DEF Over
<1>2. tx[s].pc # "done"
  BY DEF Idle
<1> QED BY <1>1, <1>2, EndKeeps

LEMMA LoadPackKeeps ==
  ASSUME RuntimeInv, PacksInv, NEW s \in CliSession, NEW call \in LoadCall, LoadPack(s, call)
  PROVE  PacksInv'
<1>1. s \in Session /\ s \notin ApiSession /\ tx[s] = Idle /\ db' = db
  BY RuntimeSessions DEF LoadPack, Session
<1>2. CASE call.full
  <2>1. PICK y : y = Over(call, Blank, "full_profile_refused", {})
    OBVIOUS
  <2>2. tx' = [tx EXCEPT ![s] = y]
    BY <1>2, <2>1 DEF LoadPack
  <2> QED BY <1>1, <2>1, <2>2, RefusedKeeps
<1>3. CASE ~call.full
  <2>1. PICK y : y = Start(call, Blank, LoadProgram(call))
    OBVIOUS
  <2>2. tx' = [tx EXCEPT ![s] = y]
    BY <1>3, <2>1 DEF LoadPack
  <2>3. Loader(s, y) /\ ~Uses(y)
    BY <2>1, LoaderStarts
  <2> QED BY <1>1, <2>1, <2>2, <2>3, StartKeeps
<1> QED BY <1>2, <1>3

LEMMA RequestKeeps ==
  ASSUME RuntimeInv, PacksInv, NEW s \in ApiSession, NEW call \in ApiCall, Request(s, call)
  PROVE  PacksInv'
<1>1. s \in Session /\ tx[s] = Idle /\ db' = db
  BY DEF Request, Session
<1>2. PICK code, who : /\ code = Denied(call.header, call.tenant, call.estate)
                       /\ who = ResolvePrincipal(call.header, call.tenant, call.estate)
  OBVIOUS
<1>3. PICK may : may = AuthorizeEstate(who, who.tenant, who.estate,
                                      call.op = "ingest" /\ call.layer = 1)
  OBVIOUS
<1>4. PICK y : y = IF code # "no" THEN Over(call, Blank, code, {})
           ELSE CASE call.op = "reset" ->
                       IF ~RequireAdmin(who) THEN Over(call, who, "admin_required", {})
                       ELSE IF ~AdminRoutes THEN Over(call, who, "admin_route_disabled", {})
                       ELSE Start(call, who, <<[do |-> "reset"]>>)
                  [] call.op \in {"classify", "status"} ->
                       Start(call, who, <<[do |-> call.op]>>)
                  [] call.op = "inventory" ->
                       Start(call, who, <<[do |-> "sources"], [do |-> "by_pack"]>>)
                  [] OTHER ->
                       IF ~may THEN Over(call, who, "curator_required", {})
                       ELSE CASE call.op = "query" -> Start(call, who, QueryProgram(call))
                              [] call.op = "ingest" -> Start(call, who, IngestProgram(call, who))
                              [] OTHER -> Start(call, who, <<[do |-> "list"]>>)
  OBVIOUS
<1>5. tx' = [tx EXCEPT ![s] = y]
  BY <1>2, <1>3, <1>4 DEF Request
<1>6. code # "ok"
  BY <1>2, Zenon DEF Denied
<1>7. CASE code # "no"
  <2>1. y = Over(call, Blank, code, {})
    BY <1>4, <1>7
  <2> QED BY <1>1, <1>5, <1>6, <2>1, RefusedKeeps
<1>8. CASE code = "no" /\ call.op = "inventory"
  <2>1. PICK todo : todo = <<[do |-> "sources"], [do |-> "by_pack"]>>
    OBVIOUS
  <2>2. y = Start(call, who, todo)
    BY <1>4, <1>8, <2>1
  <2>3. y.call = call /\ y.todo = todo /\ y.answer = [code |-> "pending", hits |-> {}]
    BY <2>2 DEF Start
  <2>4. Len(todo) = 2 /\ todo[1] = [do |-> "sources"] /\ todo[2] = [do |-> "by_pack"]
    BY <2>1
  <2>5. todo[1].do = "sources" /\ todo[2].do = "by_pack"
    BY <2>4
  <2>6. y.answer.hits = {}
    BY <2>3
  <2>7. Lists(db, y)
    BY <2>3, <2>4, <2>5, <2>6 DEF Lists
  <2> QED BY <1>1, <1>5, <2>2, <2>7, StartKeeps
<1>9. CASE code = "no" /\ call.op # "inventory"
  <2>1. \/ \E c \in {"admin_required", "admin_route_disabled", "curator_required"} : y = Over(call, who, c, {})
        \/ \E todo : y = Start(call, who, todo)
    BY <1>4, <1>9, Zenon
  <2>2. ASSUME NEW c \in {"admin_required", "admin_route_disabled", "curator_required"},
               y = Over(call, who, c, {})
        PROVE  PacksInv'
    BY <1>1, <1>5, <2>2, RefusedKeeps
  <2>3. ASSUME NEW todo, y = Start(call, who, todo) PROVE PacksInv'
    <3>1. y.call = call
      BY <2>3 DEF Start
    <3>2. Lists(db, y)
      BY <1>9, <3>1 DEF Lists
    <3> QED BY <1>1, <1>5, <2>3, <3>2, StartKeeps
  <2> QED BY <2>1, <2>2, <2>3
<1> QED BY <1>7, <1>8, <1>9

----------------------------------------------------------------------------
(* Commit.                                                                 *)

(* The keys after a commit.                                                *)
LEMMA KeysCommit ==
  ASSUME NEW R, NEW T, NEW T2, NEW s \in Session, KeysOk(R, T), T[s].pc = "open", NEW x, x = T[s],
         \A u \in Session : u # s => T2[u] = T[u], T2[s].pc = "done",
         NEW R2, R2 = (R \ x.gone) \cup x.rows, KnownTables(x.rows),
         \A r \in x.rows : r.table \in LineTables => r.id[1] = s
  PROVE  KeysOk(R2, T2)
<1>1. OwnKeys(R, x) /\ KnownTables(R) /\ UniqueKeys(R)
  BY DEF KeysOk
<1>2. KnownTables(R2)
  BY <1>1 DEF KnownTables
<1>3. UniqueKeys(R2)
  <2> SUFFICES ASSUME NEW q \in R2, NEW r \in R2, SameKey(q, r) PROVE q = r
    BY DEF UniqueKeys, SameKey
  <2>1. CASE q \in x.rows /\ r \in x.rows
    BY <1>1, <2>1 DEF OwnKeys, UniqueKeys, SameKey
  <2>2. CASE q \in R \ x.gone /\ r \in R \ x.gone
    BY <1>1, <2>2 DEF UniqueKeys, SameKey
  <2>3. CASE q \in x.rows /\ r \in R \ x.gone
    BY <1>1, <2>3 DEF OwnKeys, Apart
  <2>4. CASE q \in R \ x.gone /\ r \in x.rows
    <3>1. SameKey(r, q)
      BY DEF SameKey
    <3> QED BY <1>1, <2>4, <3>1 DEF OwnKeys, Apart
  <2> QED BY <2>1, <2>2, <2>3, <2>4
<1>4. ASSUME NEW u \in Session, T2[u].pc = "open" PROVE OwnKeys(R2, T2[u])
  <2>1. u # s /\ T2[u] = T[u]
    BY <1>4
  <2>2. PICK z : z = T[u]
    OBVIOUS
  <2>3. OwnKeys(R, z) /\ Apart(x.rows \cup x.gone, z.rows \cup z.gone)
    BY <1>4, <2>1, <2>2 DEF KeysOk
  <2>4. z.gone \subseteq R2
    <3> SUFFICES ASSUME NEW r \in z.gone, r \in x.gone PROVE FALSE
      BY <2>3 DEF OwnKeys
    <3> QED BY <2>3 DEF Apart, SameKey
  <2>5. Apart(z.rows, R2 \ z.gone)
    <3> SUFFICES ASSUME NEW q \in z.rows, NEW r \in R2, r \notin z.gone, SameKey(q, r) PROVE FALSE
      BY DEF Apart
    <3>1. CASE r \in R
      BY <2>3, <3>1 DEF OwnKeys, Apart
    <3>2. CASE r \in x.rows
      <4>1. SameKey(r, q)
        BY DEF SameKey
      <4> QED BY <2>3, <3>2, <4>1 DEF Apart
    <3> QED BY <3>1, <3>2
  <2>6. OwnKeys(R2, z)
    BY <2>3, <2>4, <2>5 DEF OwnKeys
  <2> QED BY <2>1, <2>2, <2>6
<1>5. ASSUME NEW u \in Session, NEW v \in Session, u # v, T2[u].pc = "open", T2[v].pc = "open"
      PROVE  Apart(T2[u].rows \cup T2[u].gone, T2[v].rows \cup T2[v].gone)
  <2>1. T2[u] = T[u] /\ T2[v] = T[v]
    BY <1>5
  <2> QED BY <1>5, <2>1 DEF KeysOk
<1>6. ASSUME NEW u \in Session, T2[u].pc # "done", NEW r \in R2, r.table \in LineTables
      PROVE  r.id[1] # u
  <2>1. u # s /\ T[u].pc # "done"
    BY <1>6
  <2>2. CASE r \in R
    BY <1>6, <2>1, <2>2 DEF KeysOk
  <2>3. CASE r \in x.rows
    BY <1>6, <2>1, <2>3
  <2> QED BY <2>2, <2>3
<1> QED BY <1>2, <1>3, <1>4, <1>5, <1>6 DEF KeysOk

(* The tables of a session's rows.                                         *)
LEMMA RowTables ==
  ASSUME NEW s \in Session, NEW x, Stage(s, x), IsSeq(x.todo)
  PROVE  /\ KnownTables(x.rows)
         /\ \A r \in x.rows : r.table \in LineTables => r.id[1] = s
<1>1. x.rows \subseteq Mine(x)
  BY DEF Mine
<1>2. CASE Asker(s, x)
  BY <1>1, <1>2 DEF Asker, KnownTables, LineTables
<1>3. CASE ~Asker(s, x)
  <2>1. Content(s, x) /\ Len(x.todo) \in Nat
    BY <1>3 DEF Stage, Loader, IsSeq
  <2>2. /\ x.call.pack = CorePack => \A r \in Contents(Mine(x)) : r.table = "documents"
        /\ x.call.pack # CorePack => \A r \in Contents(Mine(x)) : r.table \in LineTables /\ r.id[1] = s
    BY <2>1, ContentOf
  <2>3. \A r \in x.rows : r \in Contents(Mine(x)) \/ r.table \in {"tenants", "estate_projects", "source_records"}
    BY <1>1 DEF Contents
  <2>4. \A r \in x.rows : r.table \in {"tenants", "estate_projects", "source_records", "documents"}
                          \/ (r.table \in LineTables /\ r.id[1] = s)
    BY <2>2, <2>3
  <2> QED BY <2>4 DEF KnownTables, LineTables
<1> QED BY <1>2, <1>3

(* The source records after a loader's commit: as they were, or its own    *)
(* one in the place of those it deleted.                                   *)
SourceLeft(s, x, R, R2) ==
  /\ \A p : p # x.call.pack => SourceOf(p, R2) = SourceOf(p, R)
  /\ \/ Uses(x) /\ SourceOf(x.call.pack, R2) = SourceOf(x.call.pack, R)
     \/ /\ x.source = s
        /\ \E r : SourceOf(x.call.pack, R2) = {r} /\ r.gen = s /\ Counts(r, x)
        /\ SourceOf(x.call.pack, R) = {} \/ x.call.force
LEMMA SourcesAfter ==
  ASSUME NEW s, NEW x, Loader(s, x), x.todo = << >>, x.pend = << >>, NEW R, OwnKeys(R, x),
         NEW R2, R2 = (R \ x.gone) \cup x.rows
  PROVE  SourceLeft(s, x, R, R2)
<1>1. Mine(x) = x.rows
  BY MineNone
<1>2. Uses(x) \/ Made(s, x)
  <2>1. Len(x.todo) = 0
    OBVIOUS
  <2>2. PICK N : N = BodySize(x.call)
    OBVIOUS
  <2>3. N \in Nat /\ 0 # N + 1 /\ 0 # N + 2
    BY <2>2, Sizes
  <2> QED BY <2>1, <2>2, <2>3 DEF Loader, Unlooked, Replaces, Makes
<1>3. CASE Uses(x)
  <2>1. x.gone = {} /\ Sources(x.rows) = {}
    BY <1>1, <1>3 DEF Uses
  <2>2. \A p : SourceOf(p, R2) = SourceOf(p, R)
    BY <2>1 DEF SourceOf, In, Sources
  <2> QED BY <1>3, <2>2 DEF SourceLeft
<1>4. CASE Made(s, x)
  <2>1. PICK r : r \in x.rows /\ Sources(x.rows) = {r} /\ r.id = x.call.pack /\ r.gen = s /\ Counts(r, x)
    BY <1>1, <1>4 DEF Made
  <2>2. r.table = "source_records"
    BY <2>1 DEF Sources
  <2>3. \A q \in x.gone : q.table = "source_records" /\ q.id = x.call.pack /\ x.call.force
    BY <1>4 DEF Made, OnlyForced
  <2>4. Apart(x.rows, R \ x.gone)
    BY DEF OwnKeys
  <2>5. \A q \in R : q.table = "source_records" /\ q.id = x.call.pack => q \in x.gone
    BY <2>1, <2>2, <2>4 DEF Apart, SameKey
  <2>6. \A p : p # x.call.pack => SourceOf(p, R2) = SourceOf(p, R)
    <3> SUFFICES ASSUME NEW p, p # x.call.pack PROVE SourceOf(p, R2) = SourceOf(p, R)
      OBVIOUS
    <3>1. \A q \in x.rows : q.table = "source_records" => q.id = x.call.pack
      BY <2>1 DEF Sources
    <3> QED BY <2>3, <3>1 DEF SourceOf, In
  <2>7. SourceOf(x.call.pack, R2) = {r}
    <3>1. \A q \in SourceOf(x.call.pack, R2) : q = r
      BY <2>1, <2>5 DEF SourceOf, In, Sources
    <3>2. r \in SourceOf(x.call.pack, R2)
      BY <2>1, <2>2 DEF SourceOf, In
    <3> QED BY <3>1, <3>2
  <2>8. SourceOf(x.call.pack, R) = {} \/ x.call.force
    BY <2>3, <2>5 DEF SourceOf, In
  <2>9. x.source = s
    BY <1>4 DEF Made
  <2> QED BY <2>1, <2>6, <2>7, <2>8, <2>9 DEF SourceLeft
<1> QED BY <1>2, <1>3, <1>4

(* The other tables after a loader's commit.                               *)
TablesLeft(x, R, R2) ==
  /\ \A t \in LineTables : In(t, R2) = In(t, R) \cup In(t, Contents(x.rows))
  /\ Core(R2) = Core(R) \cup Core(Contents(x.rows))
LEMMA TablesAfter ==
  ASSUME NEW x, NEW R, \A r \in x.gone : r.table = "source_records", NEW R2, R2 = (R \ x.gone) \cup x.rows
  PROVE  TablesLeft(x, R, R2)
<1>1. ASSUME NEW t, t \notin {"tenants", "estate_projects", "source_records"}
      PROVE  In(t, R2) = In(t, R) \cup In(t, Contents(x.rows))
  BY <1>1 DEF In, Contents
<1>2. \A t \in LineTables : In(t, R2) = In(t, R) \cup In(t, Contents(x.rows))
  BY <1>1 DEF LineTables
<1>3. In("documents", R2) = In("documents", R) \cup In("documents", Contents(x.rows))
  BY <1>1
<1>4. Core(R2) = Core(R) \cup Core(Contents(x.rows))
  BY <1>3 DEF Core
<1> QED BY <1>2, <1>4 DEF TablesLeft

(* Once it is loaded, the service core does not change and no load of it   *)
(* gets to its commit.                                                     *)
CoreLeft(x, R, R2) ==
  Core(R) # {} => /\ x.call.pack # CorePack /\ Core(R2) = Core(R)
                  /\ SourceOf(CorePack, R2) = SourceOf(CorePack, R)

(* The service core after a loader's commit.  A second load of it never    *)
(* gets there: its documents have the ids of those that are committed.     *)
LEMMA CoreAfter ==
  ASSUME NEW R, NEW T, NEW s, s # NoSource, NEW x, Loader(s, x), x.todo = << >>, x.pend = << >>,
         OwnKeys(R, x), NEW R2, SourceLeft(s, x, R, R2),
         \A r \in x.gone : r.table = "source_records",
         TablesLeft(x, R, R2), CoreWhole(R), FoundSource(R, T, x)
  PROVE  /\ CoreWhole(R2)
         /\ SourceOf(CorePack, R) \subseteq SourceOf(CorePack, R2)
         /\ CoreLeft(x, R, R2)
<1>1. Mine(x) = x.rows /\ Content(s, x) /\ Len(x.todo) = 0
  BY MineNone DEF Loader
<1>2. CASE x.call.pack # CorePack
  <2>1. \A r \in Contents(x.rows) : r.table \in LineTables
    BY <1>1, <1>2, ContentOf
  <2>2. Core(Contents(x.rows)) = {}
    BY <2>1 DEF Core, In, LineTables
  <2>3. Core(R2) = Core(R)
    BY <2>2 DEF TablesLeft
  <2>4. SourceOf(CorePack, R2) = SourceOf(CorePack, R)
    BY <1>2 DEF SourceLeft
  <2>5. CoreWhole(R2)
    BY <2>3, <2>4 DEF CoreWhole
  <2> QED BY <1>2, <2>3, <2>4, <2>5 DEF CoreLeft
<1>3. CASE x.call.pack = CorePack
  <2>1. PICK f : Contents(x.rows) = CoreSet(x.source, f)
    BY <1>1, <1>3, AllWritten
  <2>2. PICK D : D = CoreSet(x.source, f)
    OBVIOUS
  <2>3. /\ Cardinality(D) = Len(CoreDocs) /\ D # {} /\ {d.id : d \in D} = ToSet(CoreDocs)
        /\ \A d \in D : d.table = "documents" /\ d.pack = CorePack /\ d.source = x.source
    BY <2>2, CoreCount
  <2>4. D \subseteq x.rows
    BY <2>1, <2>2 DEF Contents
  <2>5. Core(R) = {}
    <3> SUFFICES ASSUME Core(R) # {} PROVE FALSE
      OBVIOUS
    <3>1. {d.id : d \in Core(R)} = ToSet(CoreDocs)
      BY DEF CoreWhole
    <3>2. PICK d : d \in D
      BY <2>3
    <3>3. d.id \in {e.id : e \in Core(R)}
      BY <2>3, <3>1, <3>2
    <3>4. PICK e : e \in Core(R) /\ e.id = d.id
      BY <3>3
    <3>5. e \in R /\ e.table = "documents"
      BY <3>4 DEF Core, In
    <3>6. e \notin x.gone
      BY <3>5
    <3>7. SameKey(d, e)
      BY <2>3, <3>2, <3>4, <3>5 DEF SameKey
    <3>8. d \in x.rows /\ e \in R \ x.gone
      BY <2>4, <3>2, <3>5, <3>6
    <3> QED BY <3>7, <3>8 DEF OwnKeys, Apart
  <2>6. SourceOf(CorePack, R) = {}
    BY <2>5 DEF CoreWhole
  <2>7. ~Uses(x)
    BY <1>3, <2>6 DEF FoundSource
  <2>8. PICK r : SourceOf(CorePack, R2) = {r} /\ r.gen = s /\ Counts(r, x)
    BY <1>3, <2>7 DEF SourceLeft
  <2>9. x.source = s
    BY <2>7 DEF SourceLeft
  <2>10. Core(R2) = D
    <3>1. Core(D) = D
      BY <2>3, <2>9 DEF Core, In
    <3> QED BY <2>1, <2>2, <2>5, <3>1 DEF TablesLeft
  <2>11. In("documents", x.rows) = D
    <3>1. In("documents", x.rows) \subseteq D
      BY <2>1, <2>2 DEF In, Contents
    <3>2. D \subseteq In("documents", x.rows)
      BY <2>3, <2>4 DEF In
    <3> QED BY <3>1, <3>2
  <2>12. r.documents = Cardinality(D) /\ r.chunks = Chunks(D)
    BY <1>1, <2>8, <2>11 DEF Counts
  <2>13. \A d \in D : d.source = r.gen
    BY <2>3, <2>8, <2>9
  <2>14. CoreWhole(R2)
    <3>1. \A q \in SourceOf(CorePack, R2) : q = r
      BY <2>8
    <3>2. Core(R2) # {} /\ SourceOf(CorePack, R2) # {}
      BY <2>3, <2>8, <2>10
    <3>3. /\ {d.id : d \in Core(R2)} = ToSet(CoreDocs)
          /\ Cardinality(Core(R2)) = Len(CoreDocs)
      BY <2>3, <2>10
    <3>4. \A q \in SourceOf(CorePack, R2) :
             /\ q.documents = Cardinality(Core(R2))
             /\ q.chunks = Chunks(Core(R2))
             /\ \A d \in Core(R2) : d.source = q.gen
      BY <2>10, <2>12, <2>13, <3>1
    <3> QED BY <3>2, <3>3, <3>4 DEF CoreWhole
  <2> QED BY <2>5, <2>6, <2>14 DEF CoreLeft
<1> QED BY <1>2, <1>3

(* The rows of another pack, and their one source record.                  *)
LEMMA RowsAfter ==
  ASSUME NEW p, NEW t, NEW n, NEW R, RowsCounted(p, t, n, R), NEW s, NEW x, NEW R2, SourceLeft(s, x, R, R2),
         NEW N, In(t, R2) = In(t, R) \cup N, x.call.pack # p => N = {},
         x.call.pack = p => /\ N # {}
                            /\ Uses(x) => SourceOf(p, R) # {}
                            /\ \A r : Counts(r, x) => r.records = n
  PROVE  RowsCounted(p, t, n, R2)
<1>1. CASE x.call.pack # p
  <2>1. SourceOf(p, R2) = SourceOf(p, R) /\ In(t, R2) = In(t, R)
    BY <1>1 DEF SourceLeft
  <2> QED BY <2>1 DEF RowsCounted
<1>2. CASE x.call.pack = p /\ Uses(x) /\ SourceOf(p, R2) = SourceOf(p, R)
  BY <1>2 DEF RowsCounted
<1>3. CASE x.call.pack = p /\ \E r : SourceOf(p, R2) = {r} /\ Counts(r, x)
  <2>1. PICK r : SourceOf(p, R2) = {r} /\ Counts(r, x)
    BY <1>3
  <2>2. r.records = n /\ In(t, R2) # {}
    BY <1>3, <2>1
  <2>3. \A q \in SourceOf(p, R2) : q.records = n
    BY <2>1, <2>2
  <2> QED BY <2>1, <2>2, <2>3 DEF RowsCounted
<1> QED BY <1>1, <1>2, <1>3 DEF SourceLeft

(* The contents of a pack other than the service core.                     *)
LEMMA PackRows ==
  ASSUME NEW s, NEW x, Loader(s, x), x.todo = << >>, x.pend = << >>,
         x.call.pack \in {CorePack, IntentPack, AssetPack, VehiclePack},
         NEW C, C = Contents(x.rows)
  PROVE  /\ x.call.pack = IntentPack =>
              In("hospitality_intents", C) # {} /\ \A i \in In("hospitality_intents", C) : i.source = x.source
         /\ x.call.pack # IntentPack => In("hospitality_intents", C) = {}
         /\ x.call.pack = AssetPack => In("facility_assets", C) # {}
         /\ x.call.pack # AssetPack => In("facility_assets", C) = {}
         /\ x.call.pack = VehiclePack => In("fleet_vehicles", C) # {}
         /\ x.call.pack # VehiclePack => In("fleet_vehicles", C) = {}
<1>1. C = Contents(Mine(x)) /\ Content(s, x) /\ Len(x.todo) = 0
  BY MineNone DEF Loader
<1>2. CASE x.call.pack = CorePack
  <2>1. \A r \in C : r.table = "documents"
    BY <1>1, <1>2, ContentOf
  <2>2. In("hospitality_intents", C) = {} /\ In("facility_assets", C) = {} /\ In("fleet_vehicles", C) = {}
    BY <2>1 DEF In
  <2> QED BY <1>2, <2>2, RuntimePacks
<1>3. CASE x.call.pack = IntentPack
  <2>1. C = IntentSet(s, x.source)
    BY <1>1, <1>3, AllWritten
  <2>2. C # {} /\ \A r \in C : r.table = "hospitality_intents" /\ r.source = x.source
    BY <2>1, IntentCount
  <2>3. In("hospitality_intents", C) = C /\ In("facility_assets", C) = {} /\ In("fleet_vehicles", C) = {}
    BY <2>2 DEF In
  <2> QED BY <1>3, <2>2, <2>3, RuntimePacks
<1>4. CASE x.call.pack \in {AssetPack, VehiclePack}
  <2>1. x.call.pack \notin {CorePack, IntentPack}
    BY <1>4, RuntimePacks
  <2>2. C = LineSet(s, x.call.pack, 2 * Len(Lines) + 1)
    BY <1>1, <2>1, AllWritten
  <2>3. C # {}
    BY <2>2, LineCount
  <2>4. \A r \in C : r.table = LineTable(x.call.pack)
    BY <2>2, LineRows
  <2>5. CASE x.call.pack = AssetPack
    <3>1. \A r \in C : r.table = "facility_assets"
      BY <2>4, <2>5 DEF LineTable
    <3>2. In("hospitality_intents", C) = {} /\ In("facility_assets", C) = C /\ In("fleet_vehicles", C) = {}
      BY <3>1 DEF In
    <3> QED BY <2>1, <2>3, <2>5, <3>2, RuntimePacks
  <2>6. CASE x.call.pack = VehiclePack
    <3>1. \A r \in C : r.table = "fleet_vehicles"
      BY <2>4, <2>6, RuntimePacks DEF LineTable
    <3>2. In("hospitality_intents", C) = {} /\ In("facility_assets", C) = {} /\ In("fleet_vehicles", C) = C
      BY <3>1 DEF In
    <3> QED BY <2>1, <2>3, <2>6, <3>2, RuntimePacks
  <2> QED BY <1>4, <2>5, <2>6
<1> QED BY <1>2, <1>3, <1>4

(* The packs after a loader's commit.                                      *)
LEMMA PackRowsAfter ==
  ASSUME NEW R, NEW T, NEW s, NEW x, Loader(s, x), x.todo = << >>, x.pend = << >>,
         x.call.pack \in {CorePack, IntentPack, AssetPack, VehiclePack},
         NEW R2, SourceLeft(s, x, R, R2),
         TablesLeft(x, R, R2),
         PackRowsCounted(R), FoundSource(R, T, x)
  PROVE  PackRowsCounted(R2)
<1>1. PICK C : C = Contents(x.rows)
  OBVIOUS
<1>2. /\ In("hospitality_intents", R2) = In("hospitality_intents", R) \cup In("hospitality_intents", C)
      /\ In("facility_assets", R2) = In("facility_assets", R) \cup In("facility_assets", C)
      /\ In("fleet_vehicles", R2) = In("fleet_vehicles", R) \cup In("fleet_vehicles", C)
  BY <1>1 DEF TablesLeft, LineTables
<1>3. /\ x.call.pack = IntentPack => In("hospitality_intents", C) # {}
      /\ x.call.pack # IntentPack => In("hospitality_intents", C) = {}
      /\ x.call.pack = AssetPack => In("facility_assets", C) # {}
      /\ x.call.pack # AssetPack => In("facility_assets", C) = {}
      /\ x.call.pack = VehiclePack => In("fleet_vehicles", C) # {}
      /\ x.call.pack # VehiclePack => In("fleet_vehicles", C) = {}
  BY <1>1, PackRows
<1>4. ASSUME NEW p, x.call.pack = p, Uses(x) PROVE SourceOf(p, R) # {}
  BY <1>4 DEF FoundSource
<1>5. ASSUME x.call.pack = IntentPack, NEW r, Counts(r, x) PROVE r.records = Utterances
  BY <1>5, RuntimePacks DEF Counts
<1>6. ASSUME NEW p \in {AssetPack, VehiclePack}, x.call.pack = p, NEW r, Counts(r, x)
      PROVE  r.records = Len(Lines)
  BY <1>6, RuntimePacks DEF Counts
<1>7. /\ RowsCounted(IntentPack, "hospitality_intents", Utterances, R)
      /\ RowsCounted(AssetPack, "facility_assets", Len(Lines), R)
      /\ RowsCounted(VehiclePack, "fleet_vehicles", Len(Lines), R)
  BY DEF PackRowsCounted
<1>8. RowsCounted(IntentPack, "hospitality_intents", Utterances, R2)
  BY <1>2, <1>3, <1>4, <1>5, <1>7, RowsAfter
<1>9. RowsCounted(AssetPack, "facility_assets", Len(Lines), R2)
  BY <1>2, <1>3, <1>4, <1>6, <1>7, RowsAfter
<1>10. RowsCounted(VehiclePack, "fleet_vehicles", Len(Lines), R2)
  BY <1>2, <1>3, <1>4, <1>6, <1>7, RowsAfter
<1> QED BY <1>8, <1>9, <1>10 DEF PackRowsCounted

LEMMA TracesAfter ==
  ASSUME NEW R, NEW T, NEW T2, NEW s, NEW x, Loader(s, x), x.todo = << >>, x.pend = << >>,
         x.call.pack \in {CorePack, IntentPack, AssetPack, VehiclePack},
         NEW R2, SourceLeft(s, x, R, R2),
         TablesLeft(x, R, R2),
         PackRowsCounted(R), FoundSource(R, T, x),
         \A i \in In("hospitality_intents", R) : Traced(i, R) \/ ForcedIntents(T),
         ForcedIntents(T) => ForcedIntents(T2),
         x.call.pack = IntentPack /\ x.call.force => ForcedIntents(T2)
  PROVE  \A i \in In("hospitality_intents", R2) : Traced(i, R2) \/ ForcedIntents(T2)
<1> SUFFICES ASSUME ~ForcedIntents(T2), NEW i \in In("hospitality_intents", R2)
             PROVE  \E r \in SourceOf(IntentPack, R2) : r.gen = i.source
  BY DEF Traced
<1>1. PICK C : C = Contents(x.rows)
  OBVIOUS
<1>2. In("hospitality_intents", R2) = In("hospitality_intents", R) \cup In("hospitality_intents", C)
  BY <1>1 DEF TablesLeft, LineTables
<1>3. /\ x.call.pack = IntentPack => \A j \in In("hospitality_intents", C) : j.source = x.source
      /\ x.call.pack # IntentPack => In("hospitality_intents", C) = {}
  BY <1>1, PackRows
<1>4. \A j \in In("hospitality_intents", R) : \E r \in SourceOf(IntentPack, R) : r.gen = j.source
  BY DEF Traced
<1>5. CASE x.call.pack # IntentPack
  <2>1. SourceOf(IntentPack, R2) = SourceOf(IntentPack, R)
    BY <1>5 DEF SourceLeft
  <2> QED BY <1>2, <1>3, <1>4, <1>5, <2>1
<1>6. CASE x.call.pack = IntentPack /\ Uses(x) /\ SourceOf(IntentPack, R2) = SourceOf(IntentPack, R)
  <2>1. \E r \in SourceOf(IntentPack, R) : r.gen = x.source
    BY <1>6 DEF FoundSource
  <2> QED BY <1>2, <1>3, <1>4, <1>6, <2>1
<1>7. CASE /\ x.call.pack = IntentPack /\ x.source = s /\ SourceOf(IntentPack, R) = {}
           /\ \E r : SourceOf(IntentPack, R2) = {r} /\ r.gen = s
  <2>1. In("hospitality_intents", R) = {}
    BY <1>7 DEF PackRowsCounted, RowsCounted
  <2>2. i.source = s
    BY <1>2, <1>3, <1>7, <2>1
  <2> QED BY <1>7, <2>2
<1> QED BY <1>5, <1>6, <1>7 DEF SourceLeft

(* What another loader found is there, or was replaced by force.           *)
LEMMA FoundAfter ==
  ASSUME NEW R, NEW T, NEW T2, NEW s, NEW x, NEW R2, SourceLeft(s, x, R, R2),
         NEW z, FoundSource(R, T, z), ForcedIntents(T) => ForcedIntents(T2),
         x.call.pack = IntentPack /\ x.call.force => ForcedIntents(T2)
  PROVE  FoundSource(R2, T2, z)
<1> SUFFICES ASSUME Uses(z)
             PROVE  /\ SourceOf(z.call.pack, R2) # {}
                    /\ z.call.pack = IntentPack =>
                         (\E r \in SourceOf(IntentPack, R2) : r.gen = z.source) \/ ForcedIntents(T2)
  BY DEF FoundSource
<1>1. /\ SourceOf(z.call.pack, R) # {}
      /\ z.call.pack = IntentPack =>
           (\E r \in SourceOf(IntentPack, R) : r.gen = z.source) \/ ForcedIntents(T)
  BY DEF FoundSource
<1>2. CASE SourceOf(z.call.pack, R2) = SourceOf(z.call.pack, R)
  BY <1>1, <1>2
<1>3. CASE SourceOf(z.call.pack, R2) # SourceOf(z.call.pack, R)
  <2>1. z.call.pack = x.call.pack /\ ~ (SourceOf(x.call.pack, R2) = SourceOf(x.call.pack, R))
    BY <1>3 DEF SourceLeft
  <2>2. SourceOf(z.call.pack, R2) # {}
    BY <2>1 DEF SourceLeft
  <2>3. x.call.force
    BY <1>1, <2>1 DEF SourceLeft
  <2> QED BY <2>1, <2>2, <2>3
<1> QED BY <1>2, <1>3

(* What an inventory listed is there.                                      *)
LEMMA ListsAfter ==
  ASSUME NEW R, NEW R2, SourceOf(CorePack, R) \subseteq SourceOf(CorePack, R2),
         NEW z, Lists(R, z)
  PROVE  Lists(R2, z)
<1>1. \A h \in R : h.table = "source_records" /\ h.id = CorePack => h \in R2
  BY DEF SourceOf, In
<1>2. CASE z.call.op # "inventory"
  BY <1>2 DEF Lists
<1>3. CASE z.call.op = "inventory"
  <2>1. CASE /\ Len(z.todo) = 1 /\ z.todo[1].do = "by_pack"
             /\ \A h \in z.answer.hits : h.table = "source_records" /\ (h.id = CorePack => h \in R)
    <3>1. \A h \in z.answer.hits : h.table = "source_records" /\ (h.id = CorePack => h \in R2)
      BY <1>1, <2>1
    <3> QED BY <2>1, <3>1 DEF Lists
  <2>2. CASE ~ (/\ Len(z.todo) = 1 /\ z.todo[1].do = "by_pack"
                /\ \A h \in z.answer.hits : h.table = "source_records" /\ (h.id = CorePack => h \in R))
    BY <1>3, <2>2 DEF Lists
  <2> QED BY <2>1, <2>2
<1> QED BY <1>2, <1>3

(* The tables after the commit of a request: no pack's have changed.       *)
LEMMA RequestAfter ==
  ASSUME NEW R, NEW s, NEW x, Asker(s, x), NEW R2, R2 = (R \ x.gone) \cup x.rows
  PROVE  /\ \A t \in LineTables : In(t, R2) = In(t, R)
         /\ \A p : SourceOf(p, R2) = SourceOf(p, R)
         /\ Core(R2) = Core(R)
<1>1. R2 = R \cup x.rows
  BY DEF Asker
<1>2. \A r \in x.rows : /\ r.table \in {"tenants", "estate_projects", "documents", "audit_events"}
                        /\ r.table = "documents" => r.source = NoSource
  BY DEF Asker, Mine
<1>3. \A t \in LineTables : In(t, R2) = In(t, R)
  BY <1>1, <1>2 DEF In, LineTables
<1>4. \A p : SourceOf(p, R2) = SourceOf(p, R)
  BY <1>1, <1>2 DEF SourceOf, In
<1>5. Core(R2) = Core(R)
  BY <1>1, <1>2 DEF Core, In
<1> QED BY <1>3, <1>4, <1>5

(* What a commit, written as R2 over R, does to the packs.                 *)
PacksLeft(R, R2, T, T2) ==
  /\ CoreWhole(R2) /\ PackRowsCounted(R2)
  /\ \A i \in In("hospitality_intents", R2) : Traced(i, R2) \/ ForcedIntents(T2)
  /\ SourceOf(CorePack, R) \subseteq SourceOf(CorePack, R2)
  /\ \A z : FoundSource(R, T, z) => FoundSource(R2, T2, z)

LEMMA LoaderLeaves ==
  ASSUME NEW R, NEW T, NEW T2, PacksOk(R, T), NEW s, s # NoSource, NEW x, Loader(s, x),
         x.todo = << >>, x.pend = << >>, OwnKeys(R, x), FoundSource(R, T, x),
         x.call.pack \in {CorePack, IntentPack, AssetPack, VehiclePack},
         \A r \in x.gone : r.table = "source_records", NEW R2, SourceLeft(s, x, R, R2), TablesLeft(x, R, R2),
         ForcedIntents(T) => ForcedIntents(T2),
         x.call.pack = IntentPack /\ x.call.force => ForcedIntents(T2)
  PROVE  PacksLeft(R, R2, T, T2)
<1>1. CoreWhole(R)
  BY DEF PacksOk
<1>2. PackRowsCounted(R)
  BY DEF PacksOk
<1>3. \A i \in In("hospitality_intents", R) : Traced(i, R) \/ ForcedIntents(T)
  BY DEF PacksOk
<1>4. CoreWhole(R2) /\ SourceOf(CorePack, R) \subseteq SourceOf(CorePack, R2)
  BY <1>1, CoreAfter
<1>5. PackRowsCounted(R2)
  BY <1>2, PackRowsAfter
<1>6. \A i \in In("hospitality_intents", R2) : Traced(i, R2) \/ ForcedIntents(T2)
  BY <1>2, <1>3, TracesAfter
<1>7. ASSUME NEW z, FoundSource(R, T, z) PROVE FoundSource(R2, T2, z)
  BY <1>7, FoundAfter
<1> QED BY <1>4, <1>5, <1>6, <1>7 DEF PacksLeft

LEMMA AskerLeaves ==
  ASSUME NEW R, NEW T, NEW T2, PacksOk(R, T), NEW s, NEW x, Asker(s, x),
         NEW R2, R2 = (R \ x.gone) \cup x.rows, ForcedIntents(T) => ForcedIntents(T2)
  PROVE  PacksLeft(R, R2, T, T2)
<1>1. /\ \A t \in LineTables : In(t, R2) = In(t, R)
      /\ \A p : SourceOf(p, R2) = SourceOf(p, R)
      /\ Core(R2) = Core(R)
  BY RequestAfter
<1>2. /\ CoreWhole(R) /\ PackRowsCounted(R)
      /\ \A i \in In("hospitality_intents", R) : Traced(i, R) \/ ForcedIntents(T)
  BY DEF PacksOk
<1>3. CoreWhole(R2)
  BY <1>1, <1>2 DEF CoreWhole
<1>4. PackRowsCounted(R2)
  BY <1>1, <1>2 DEF PackRowsCounted, RowsCounted, LineTables
<1>5. \A i \in In("hospitality_intents", R2) : Traced(i, R2) \/ ForcedIntents(T2)
  BY <1>1, <1>2 DEF Traced, LineTables
<1>6. \A z : FoundSource(R, T, z) => FoundSource(R2, T2, z)
  BY <1>1 DEF FoundSource
<1> QED BY <1>1, <1>3, <1>4, <1>5, <1>6 DEF PacksLeft

LEMMA PacksCommit ==
  ASSUME NEW R, NEW T, NEW T2, NEW s \in Session, PacksSo(R, T), T[s].pc = "open", NEW x, x = T[s],
         IsSeq(x.todo), x.todo = << >>, x.pend = << >>,
         \A r \in x.gone : r.table = "source_records",
         NEW R2, R2 = (R \ x.gone) \cup x.rows,
         \A u \in Session : u # s => T2[u] = T[u],
         NEW y, T2[s] = y, y.pc = "done", y.call = x.call, y.answer.hits = x.answer.hits,
         s \notin ApiSession => x.call \in LoadCall /\ y.answer.code = "ok"
  PROVE  PacksSo(R2, T2)
<1>1. Stage(s, x) /\ KeysOk(R, T) /\ PacksOk(R, T) /\ OwnKeys(R, x)
  BY DEF PacksSo, Staged, KeysOk
<1>2. KeysOk(R2, T2)
  BY <1>1, RowTables, KeysCommit
<1>3. Staged(T2)
  BY DEF PacksSo, Staged
<1>4. ForcedIntents(T) => ForcedIntents(T2)
  <2>1. \A u \in CliSession : T[u].pc = "done" => T2[u] = T[u]
    BY DEF Session
  <2> QED BY <2>1, ForcedStill
<1>5. PacksLeft(R, R2, T, T2)
  <2>1. CASE s \in ApiSession
    <3>1. Asker(s, x)
      BY <1>1, <2>1 DEF Stage
    <3> QED BY <1>1, <1>4, <3>1, AskerLeaves
  <2>2. CASE s \notin ApiSession
    <3>1. Loader(s, x) /\ s \in CliSession
      BY <1>1, <2>2 DEF Stage, Session
    <3>2. FoundSource(R, T, x)
      BY <1>1, <3>1 DEF PacksOk
    <3>3. x.call.pack \in {CorePack, IntentPack, AssetPack, VehiclePack} /\ x.call.force \in BOOLEAN
      BY <2>2, RuntimeLoads
    <3>4. x.call.pack = IntentPack /\ x.call.force => ForcedIntents(T2)
      BY <2>2, <3>1, <3>3 DEF ForcedIntents
    <3>5. s # NoSource
      BY RuntimeSessions
    <3>6. SourceLeft(s, x, R, R2)
      BY <1>1, <3>1, SourcesAfter
    <3>7. TablesLeft(x, R, R2)
      BY TablesAfter
    <3>8. PacksOk(R, T) /\ OwnKeys(R, x)
      BY <1>1
    <3> QED BY <1>4, <3>1, <3>2, <3>3, <3>4, <3>5, <3>6, <3>7, <3>8, LoaderLeaves
  <2> QED BY <2>1, <2>2
<1>6. ASSUME NEW u \in CliSession, T2[u].pc = "open" PROVE FoundSource(R2, T2, T2[u])
  <2>1. u \in Session /\ T2[u] = T[u]
    BY <1>6 DEF Session
  <2>2. FoundSource(R, T, T[u])
    BY <1>1, <1>6, <2>1 DEF PacksOk
  <2> QED BY <1>5, <2>1, <2>2 DEF PacksLeft
<1>7. ASSUME NEW u \in ApiSession, T2[u].pc = "open" PROVE Lists(R2, T2[u])
  <2>1. u \in Session /\ T2[u] = T[u]
    BY <1>7 DEF Session
  <2>2. Lists(R, T[u])
    BY <1>1, <1>7, <2>1 DEF PacksOk
  <2>3. Lists(R2, T[u])
    BY <1>5, <2>2, ListsAfter DEF PacksLeft
  <2> QED BY <2>1, <2>3
<1>8. ASSUME NEW u \in ApiSession, T2[u].pc = "done", T2[u].call.op = "inventory", T2[u].answer.code = "ok"
      PROVE  ListsWhole(T2[u].answer.hits)
  <2>1. CASE u = s
    <3>1. x.call.op = "inventory" /\ Lists(R, x)
      BY <1>1, <1>8, <2>1 DEF PacksOk
    <3>2. Len(x.todo) = 0
      OBVIOUS
    <3>3. ListsWhole(x.answer.hits)
      BY <3>1, <3>2 DEF Lists
    <3> QED BY <2>1, <3>3
  <2>2. CASE u # s
    <3>1. T2[u] = T[u]
      BY <2>2 DEF Session
    <3> QED BY <1>1, <1>8, <3>1 DEF PacksOk
  <2> QED BY <2>1, <2>2
<1>9. PacksOk(R2, T2)
  BY <1>5, <1>6, <1>7, <1>8 DEF PacksOk, PacksLeft
<1> QED BY <1>2, <1>3, <1>9 DEF PacksSo

LEMMA CommitKeeps ==
  ASSUME RuntimeInv, PacksInv, NEW s \in Session, Commit(s)
  PROVE  PacksInv'
<1>1. IsOpen(s) /\ tx[s].todo = << >> /\ tx[s].pend = << >>
  BY DEF Commit
<1>2. DOMAIN tx = Session /\ tx[s].pc = "open" /\ OpenOk(s, tx[s], Curated(tx))
  BY <1>1, AtStep
<1>3. PICK x : x = tx[s]
  OBVIOUS
<1>4. PICK code : code = IF x.answer.code = "pending" THEN "ok" ELSE x.answer.code
  OBVIOUS
<1>5. PICK y : y = Over(x.call, x.who, code, x.answer.hits)
  OBVIOUS
<1>6. tx'[s] = y /\ \A u \in Session : u # s => tx'[u] = tx[u]
  BY <1>2, <1>3, <1>4, <1>5 DEF Commit, Finish
<1>7. db' = (db \ x.gone) \cup x.rows
  BY <1>3 DEF Commit
<1>8. y.pc = "done" /\ y.call = x.call /\ y.answer.code = code /\ y.answer.hits = x.answer.hits
  BY <1>5 DEF Over
<1>9. Shape(x) /\ Program(s, x, Curated(tx)) /\ Written(s, x)
  BY <1>2, <1>3 DEF OpenOk
<1>10. IsSeq(x.todo) /\ \A r \in x.gone : r.table = "source_records"
  BY <1>9 DEF Shape, Written
<1>11. s \notin ApiSession => x.call \in LoadCall /\ y.answer.code = "ok"
  BY <1>4, <1>8, <1>9 DEF Program, Loading
<1>12. PacksSo(db, tx)
  BY DEF PacksInv, PacksSo
<1>13. ASSUME NEW T2, NEW R2, R2 = (db \ x.gone) \cup x.rows,
              T2[s] = y, \A u \in Session : u # s => T2[u] = tx[u]
       PROVE  PacksSo(R2, T2)
  BY <1>1, <1>2, <1>3, <1>8, <1>10, <1>11, <1>12, <1>13, PacksCommit
<1>14. PacksSo(db', tx')
  BY <1>6, <1>7, <1>13
<1> QED BY <1>14 DEF PacksInv, PacksSo

----------------------------------------------------------------------------
(* Init, and every step.                                                   *)
LEMMA InitPacks == RuntimeInit => PacksInv
<1> SUFFICES ASSUME RuntimeInit PROVE Staged(tx) /\ KeysOk(db, tx) /\ PacksOk(db, tx)
  BY DEF PacksInv
<1>1. LeftBehind(db) /\ \A s \in Session : tx[s].pc = "idle"
  BY RuntimeCorpora DEF RuntimeInit, Idle
<1>2. /\ KnownTables(db) /\ UniqueKeys(db) /\ CoreWhole(db) /\ PackRowsCounted(db)
      /\ \A i \in In("hospitality_intents", db) : Traced(i, db)
      /\ \A r \in db : r.table \in LineTables => r.id[1] \notin Session
  BY <1>1 DEF LeftBehind, LineTables
<1>3. Staged(tx)
  BY <1>1 DEF Staged
<1>4. KeysOk(db, tx)
  BY <1>1, <1>2 DEF KeysOk
<1>5. PacksOk(db, tx)
  <2>1. \A s \in ApiSession \cup CliSession : tx[s].pc = "idle"
    BY <1>1 DEF Session
  <2> QED BY <1>2, <2>1 DEF PacksOk
<1> QED BY <1>3, <1>4, <1>5

LEMMA StepKeeps ==
  ASSUME RuntimeInv, PacksInv, NEW s \in Session, Step(s)
  PROVE  PacksInv'
<1>1. CASE Flush(s)
  BY <1>1, FlushKeeps
<1>2. CASE BreakDeadlock(s) \/ EmbedderFails(s)
  BY <1>2, FailuresKeep
<1>3. CASE EnsureScope(s)
  BY <1>3, ScopeKeeps
<1>4. CASE LookSource(s)
  BY <1>4, LookKeeps
<1>5. CASE DeleteSource(s)
  BY <1>5, DeleteKeeps
<1>6. CASE NewSource(s)
  BY <1>6, NewSourceKeeps
<1>7. CASE Ingest(s)
  BY <1>7, IngestKeeps
<1>8. CASE LoadCore(s)
  BY <1>8, CoreKeeps
<1>9. CASE LoadIntents(s)
  BY <1>9, IntentsKeep
<1>10. CASE LoadLine(s)
  BY <1>10, LineKeeps
<1>11. CASE Count(s)
  BY <1>11, CountKeeps
<1>12. CASE SemanticSearch(s) \/ LexicalSearch(s)
  BY <1>12, SearchKeeps
<1>13. CASE Ground(s) \/ Refuse(s)
  BY <1>13, AnswerKeeps
<1>14. CASE ListRows(s) \/ ClassifyIntent(s) \/ Status(s) \/ ResetEmbedder(s)
  BY <1>14, ReaderKeeps
<1>15. CASE InventorySources(s) \/ InventoryDocuments(s)
  BY <1>15, InventoryKeeps
<1>16. CASE Commit(s)
  BY <1>16, CommitKeeps
<1>17. CASE SendAnswer(s)
  BY <1>17 DEF SendAnswer, PacksInv
<1> QED BY <1>1, <1>2, <1>3, <1>4, <1>5, <1>6, <1>7, <1>8, <1>9, <1>10, <1>11, <1>12, <1>13,
           <1>14, <1>15, <1>16, <1>17 DEF Step

LEMMA PacksStep == ASSUME RuntimeInv, PacksInv, [RuntimeNext]_runtimeVars PROVE PacksInv'
<1>1. CASE RuntimeNext
  <2>1. ASSUME NEW s \in ApiSession, NEW call \in ApiCall, Request(s, call) PROVE PacksInv'
    BY <2>1, RequestKeeps
  <2>2. ASSUME NEW s \in CliSession, NEW call \in LoadCall, LoadPack(s, call) PROVE PacksInv'
    BY <2>2, LoadPackKeeps
  <2>3. ASSUME NEW s \in Session, Step(s) PROVE PacksInv'
    BY <2>3, StepKeeps
  <2>4. ASSUME NEW s \in Session, DatabaseFails(s) \/ Kill(s) PROVE PacksInv'
    BY <2>4, FailuresKeep
  <2>5. CASE Restart
    BY <2>5, RestartKeeps
  <2>6. CASE Operator
    BY <2>6 DEF Operator, PacksInv
  <2> QED BY <1>1, <2>1, <2>2, <2>3, <2>4, <2>5, <2>6 DEF RuntimeNext, Work, Disturbance
<1>2. CASE UNCHANGED runtimeVars
  BY <1>2 DEF runtimeVars, PacksInv
<1> QED BY <1>1, <1>2
----------------------------------------------------------------------------
(* The auth tables and the embedder.                                       *)
LEMMA TablesStay ==
  ASSUME AuthTypeOK, Operator
  PROVE  AuthTypeOK'
<1>1. CASE SeedPilotFixture
  <2>1. [role |-> "admin", enabled |-> TRUE] \in PilotPrincipal
    BY DEF PilotPrincipal
  <2>2. [principal |-> Pilot, live |-> TRUE] \in PilotAccessToken
    BY AuthPilot DEF PilotAccessToken
  <2>3. [principal |-> Pilot, tenant |-> PilotTenant, estate |-> PilotEstate, role |-> "admin"] \in EstateAccess
    BY AuthPilot DEF EstateAccess
  <2>4. DOMAIN accounts' \subseteq Principal /\ \A p \in DOMAIN accounts' : accounts'[p] \in PilotPrincipal
    <3>1. CASE Pilot \in DOMAIN accounts
      BY <1>1, <3>1 DEF SeedPilotFixture, AuthTypeOK, AuthTables
    <3>2. CASE Pilot \notin DOMAIN accounts
      BY <1>1, <2>1, <3>2, AuthPilot DEF SeedPilotFixture, AuthTypeOK, AuthTables, Put
    <3> QED BY <3>1, <3>2
  <2>5. DOMAIN tokens' \subseteq Token /\ \A t \in DOMAIN tokens' : tokens'[t] \in PilotAccessToken
    <3>1. CASE PilotToken \in DOMAIN tokens
      BY <1>1, <3>1 DEF SeedPilotFixture, AuthTypeOK, AuthTables
    <3>2. CASE PilotToken \notin DOMAIN tokens
      BY <1>1, <2>2, <3>2, AuthPilot DEF SeedPilotFixture, AuthTypeOK, AuthTables, Put
    <3> QED BY <3>1, <3>2
  <2>6. access' \subseteq EstateAccess
    <3>1. access \subseteq EstateAccess
      BY DEF AuthTypeOK, AuthTables
    <3> QED BY <1>1, <2>3, <3>1 DEF SeedPilotFixture
  <2> QED BY <2>4, <2>5, <2>6 DEF AuthTypeOK, AuthTables
<1>2. ASSUME NEW t \in Token, Revoke(t) PROVE AuthTypeOK'
  <2>1. PICK f : f = tokens
    OBVIOUS
  <2>2. tokens' = [f EXCEPT ![t].live = FALSE] /\ t \in DOMAIN f /\ accounts' = accounts /\ access' = access
    BY <1>2, <2>1 DEF Revoke
  <2>3. DOMAIN f \subseteq Token /\ \A u \in DOMAIN f : f[u] \in PilotAccessToken
    BY <2>1 DEF AuthTypeOK, AuthTables
  <2>4. [f[t] EXCEPT !.live = FALSE] \in PilotAccessToken
    BY <2>2, <2>3 DEF PilotAccessToken
  <2>5. DOMAIN tokens' = DOMAIN f /\ \A u \in DOMAIN f : tokens'[u] \in PilotAccessToken
    BY <2>2, <2>3, <2>4
  <2> QED BY <2>2, <2>3, <2>5 DEF AuthTypeOK, AuthTables
<1>3. ASSUME NEW p \in Principal, Disable(p) PROVE AuthTypeOK'
  <2>1. PICK f : f = accounts
    OBVIOUS
  <2>2. accounts' = [f EXCEPT ![p].enabled = FALSE] /\ p \in DOMAIN f /\ tokens' = tokens /\ access' = access
    BY <1>3, <2>1 DEF Disable
  <2>3. DOMAIN f \subseteq Principal /\ \A q \in DOMAIN f : f[q] \in PilotPrincipal
    BY <2>1 DEF AuthTypeOK, AuthTables
  <2>4. [f[p] EXCEPT !.enabled = FALSE] \in PilotPrincipal
    BY <2>2, <2>3 DEF PilotPrincipal
  <2>5. DOMAIN accounts' = DOMAIN f /\ \A q \in DOMAIN f : accounts'[q] \in PilotPrincipal
    BY <2>2, <2>3, <2>4
  <2> QED BY <2>2, <2>3, <2>5 DEF AuthTypeOK, AuthTables
<1>4. ASSUME NEW a \in access, Ungrant(a) PROVE AuthTypeOK'
  BY <1>4 DEF Ungrant, AuthTypeOK, AuthTables
<1> QED BY <1>1, <1>2, <1>3, <1>4 DEF Operator

EmbedderOk == backend \in Backend /\ provider \in Backend \cup {NoProvider}
LEMMA WorkLeaves ==
  ASSUME EmbedderOk, Work
  PROVE  EmbedderOk' /\ UNCHANGED authVars
<1>1. ASSUME NEW s, Cache(s) PROVE provider' \in Backend \cup {NoProvider}
  BY <1>1 DEF Cache, EmbedderOf, EmbedderOk
<1>2. ASSUME NEW s \in ApiSession, NEW call \in ApiCall, Request(s, call)
      PROVE  EmbedderOk' /\ UNCHANGED authVars
  BY <1>2 DEF Request, EmbedderOk
<1>3. ASSUME NEW s \in CliSession, NEW call \in LoadCall, LoadPack(s, call)
      PROVE  EmbedderOk' /\ UNCHANGED authVars
  BY <1>3 DEF LoadPack, EmbedderOk
<1>4. ASSUME NEW s \in Session, Step(s) PROVE EmbedderOk' /\ UNCHANGED authVars
  <2>1. CASE \/ Flush(s) \/ BreakDeadlock(s) \/ EnsureScope(s) \/ LookSource(s) \/ DeleteSource(s)
             \/ NewSource(s) \/ EmbedderFails(s) \/ LoadCore(s) \/ LoadIntents(s) \/ LoadLine(s)
    BY <2>1 DEF EmbedderOk, Flush, BreakDeadlock, EnsureScope, LookSource, DeleteSource, NewSource,
                EmbedderFails, LoadCore, LoadIntents, LoadLine
  <2>2. CASE \/ Count(s) \/ LexicalSearch(s) \/ Ground(s) \/ Refuse(s) \/ ListRows(s) \/ ClassifyIntent(s)
             \/ InventorySources(s) \/ InventoryDocuments(s) \/ Commit(s) \/ SendAnswer(s)
    BY <2>2 DEF EmbedderOk, Count, LexicalSearch, Ground, Refuse, ListRows, ClassifyIntent,
                InventorySources, InventoryDocuments, Commit, SendAnswer
  <2>3. CASE Ingest(s) \/ SemanticSearch(s) \/ Status(s) \/ ResetEmbedder(s)
    BY <1>1, <2>3 DEF EmbedderOk, Ingest, SemanticSearch, Status, ResetEmbedder
  <2> QED BY <1>4, <2>1, <2>2, <2>3 DEF Step
<1> QED BY <1>2, <1>3, <1>4 DEF Work

RepliesOk == reply \in [ApiSession -> {"none", "due", "sent", "lost"}]
LEMMA RepliesStay ==
  ASSUME RepliesOk, [RuntimeNext]_runtimeVars
  PROVE  RepliesOk'
<1>1. CASE UNCHANGED runtimeVars
  BY <1>1 DEF runtimeVars, RepliesOk
<1>2. CASE Restart \/ Operator
  BY <1>2 DEF Restart, Operator, RepliesOk
<1>3. ASSUME NEW s \in Session, DatabaseFails(s) \/ Kill(s) PROVE RepliesOk'
  BY <1>3 DEF DatabaseFails, Kill, RepliesOk
<1>4. ASSUME NEW s \in ApiSession, NEW call \in ApiCall, Request(s, call) PROVE RepliesOk'
  BY <1>4 DEF Request, RepliesOk
<1>5. ASSUME NEW s \in CliSession, NEW call \in LoadCall, LoadPack(s, call) PROVE RepliesOk'
  BY <1>5 DEF LoadPack, RepliesOk
<1>6. ASSUME NEW s \in Session, Step(s) PROVE RepliesOk'
  <2>1. CASE \/ Flush(s) \/ BreakDeadlock(s) \/ EnsureScope(s) \/ LookSource(s) \/ DeleteSource(s)
             \/ NewSource(s) \/ EmbedderFails(s) \/ LoadCore(s) \/ LoadIntents(s) \/ LoadLine(s)
    BY <2>1 DEF RepliesOk, Flush, BreakDeadlock, EnsureScope, LookSource, DeleteSource, NewSource,
                EmbedderFails, LoadCore, LoadIntents, LoadLine
  <2>2. CASE \/ Count(s) \/ LexicalSearch(s) \/ Ground(s) \/ Refuse(s) \/ ListRows(s) \/ ClassifyIntent(s)
             \/ InventorySources(s) \/ InventoryDocuments(s)
    BY <2>2 DEF RepliesOk, Count, LexicalSearch, Ground, Refuse, ListRows, ClassifyIntent,
                InventorySources, InventoryDocuments
  <2>3. CASE Ingest(s) \/ SemanticSearch(s) \/ Status(s) \/ ResetEmbedder(s)
    BY <2>3 DEF RepliesOk, Ingest, SemanticSearch, Status, ResetEmbedder
  <2>4. CASE Commit(s) \/ SendAnswer(s)
    BY <2>4 DEF RepliesOk, Commit, SendAnswer
  <2> QED BY <1>6, <2>1, <2>2, <2>3, <2>4 DEF Step
<1> QED BY <1>1, <1>2, <1>3, <1>4, <1>5, <1>6 DEF RuntimeNext, Work, Disturbance

TypesInv == AuthTypeOK /\ EmbedderOk /\ RepliesOk
LEMMA TypesStep == ASSUME TypesInv, [RuntimeNext]_runtimeVars PROVE TypesInv'
<1>0. RepliesOk'
  BY RepliesStay DEF TypesInv
<1>1. CASE Work
  <2>1. EmbedderOk' /\ UNCHANGED authVars
    BY <1>1, WorkLeaves DEF TypesInv
  <2> QED BY <1>0, <2>1 DEF TypesInv, authVars, AuthTypeOK
<1>2. CASE \E s \in Session : DatabaseFails(s) \/ Kill(s)
  BY <1>0, <1>2 DEF TypesInv, EmbedderOk, DatabaseFails, Kill, authVars, AuthTypeOK
<1>3. CASE Restart
  BY <1>0, <1>3 DEF TypesInv, EmbedderOk, Restart, authVars, AuthTypeOK
<1>4. CASE Operator
  <2>1. UNCHANGED <<backend, provider>>
    BY <1>4 DEF Operator
  <2>2. AuthTypeOK'
    BY <1>4, TablesStay DEF TypesInv
  <2> QED BY <1>0, <2>1, <2>2 DEF TypesInv, EmbedderOk
<1>5. CASE UNCHANGED runtimeVars
  BY <1>0, <1>5 DEF runtimeVars, TypesInv, EmbedderOk, authVars, AuthTypeOK
<1> QED BY <1>1, <1>2, <1>3, <1>4, <1>5 DEF RuntimeNext, Disturbance
----------------------------------------------------------------------------
(* Whatever has been done so far, each open loader has written what the    *)
(* steps taken of its program write, the keys are apart, and what it found *)
(* of its pack is still there.                                             *)
THEOREM PacksCorrect == RuntimeSpec => [](PacksInv /\ TypesInv)
<1>1. RuntimeInit => PacksInv /\ TypesInv
  <2> SUFFICES ASSUME RuntimeInit PROVE PacksInv /\ TypesInv
    OBVIOUS
  <2>1. AuthTypeOK
    BY RuntimeEnrolled DEF RuntimeInit, AuthTypeOK
  <2>2. EmbedderOk
    BY DEF RuntimeInit, EmbedderOk
  <2>3. RepliesOk
    BY DEF RuntimeInit, RepliesOk
  <2> QED BY <2>1, <2>2, <2>3, InitPacks DEF TypesInv
<1>2. RuntimeInv /\ PacksInv /\ TypesInv /\ [RuntimeNext]_runtimeVars => PacksInv' /\ TypesInv'
  BY PacksStep, TypesStep
<1> QED BY <1>1, <1>2, RuntimeCorrect, PTL DEF RuntimeSpec

(* Whatever the loaders, curators, operators and failures do, in any       *)
(* order, the unique keys hold; the service core is in the tables with all *)
(* its documents, once, under the one source record that counts them, or   *)
(* not at all, and an inventory that lists the record lists them; each     *)
(* other pack's rows come with the record that counts one load of it, and  *)
(* utterances lose theirs only to load_intents() with force.               *)
THEOREM StewardPacksWhole == RuntimeSpec => []PacksWhole
<1>1. RuntimeInv /\ PacksInv /\ TypesInv => PacksWhole
  <2> SUFFICES ASSUME RuntimeInv, PacksInv, TypesInv PROVE PacksWhole
    OBVIOUS
  <2>1. RuntimeTypeOK
    <3>1. KnownTables(db) /\ UniqueKeys(db)
      BY DEF PacksInv, KeysOk
    <3>2. \A s \in Session : tx[s].pc \in {"idle", "open", "done"}
      BY DEF RuntimeInv, Good, SessionOk, Idle
    <3> QED BY <3>1, <3>2 DEF RuntimeTypeOK, TypesInv, EmbedderOk, RepliesOk
  <2>2. PacksOk(db, tx)
    BY DEF PacksInv
  <2>3. CorePackWhole
    <3>1. ASSUME NEW s \in ApiSession, Served(s), tx[s].call.op = "inventory", NEW r \in tx[s].answer.hits,
                 r.table = "source_records", r.id = CorePack
          PROVE  Cardinality(Core(tx[s].answer.hits)) = r.documents
      <4>1. ListsWhole(tx[s].answer.hits)
        BY <2>2, <3>1 DEF PacksOk, Served, IsDone
      <4> QED BY <3>1, <4>1 DEF ListsWhole
    <3> QED BY <2>2, <3>1 DEF CorePackWhole, PacksOk
  <2>4. PackRowsTraceable
    <3>1. ForcedIntents(tx) => Loaded(IntentPack, TRUE)
      BY DEF ForcedIntents, Loaded, Served, IsDone
    <3> QED BY <2>2, <3>1 DEF PackRowsTraceable, PacksOk
  <2> QED BY <2>1, <2>3, <2>4 DEF PacksWhole
<1> QED BY <1>1, RuntimeCorrect, PacksCorrect, PTL

----------------------------------------------------------------------------
(* What a step does to the committed rows.                                 *)
LEMMA OnlyCommits ==
  ASSUME [RuntimeNext]_runtimeVars, db' # db
  PROVE  \E s \in Session : Commit(s)
<1>1. RuntimeNext
  BY DEF runtimeVars
<1>2. Work
  BY <1>1 DEF RuntimeNext, Disturbance, DatabaseFails, Kill, Fail, Restart, Operator
<1>3. PICK s \in Session : Step(s)
  BY <1>2 DEF Work, Request, LoadPack
<1>4. Flush(s) \/ BreakDeadlock(s) \/ EmbedderFails(s) \/ Ingest(s) => db' = db
  BY DEF Flush, BreakDeadlock, EmbedderFails, Ingest, Fail
<1>5. EnsureScope(s) \/ LookSource(s) \/ DeleteSource(s) \/ NewSource(s) => db' = db
  BY DEF EnsureScope, LookSource, DeleteSource, NewSource
<1>6. LoadCore(s) \/ LoadIntents(s) \/ LoadLine(s) \/ Count(s) => db' = db
  BY DEF LoadCore, LoadIntents, LoadLine, Count
<1>7. SemanticSearch(s) \/ LexicalSearch(s) \/ Ground(s) \/ Refuse(s) => db' = db
  BY DEF SemanticSearch, LexicalSearch, Ground, Refuse
<1>8. ListRows(s) \/ ClassifyIntent(s) \/ Status(s) \/ ResetEmbedder(s) => db' = db
  BY DEF ListRows, ClassifyIntent, Status, ResetEmbedder
<1>9. InventorySources(s) \/ InventoryDocuments(s) \/ SendAnswer(s) => db' = db
  BY DEF InventorySources, InventoryDocuments, SendAnswer
<1> QED BY <1>3, <1>4, <1>5, <1>6, <1>7, <1>8, <1>9 DEF Step

(* A commit keeps what is loaded.                                          *)
KeptLoaded(R, R2, x) ==
  /\ \A pack : SourceOf(pack, R) # {} => SourceOf(pack, R2) # {}
  /\ \A table \in LineTables : In(table, R) \subseteq In(table, R2)
  /\ Core(R) # {} => Core(R2) = Core(R) /\ SourceOf(CorePack, R2) = SourceOf(CorePack, R)

LEMMA CommitKeepsLoaded ==
  ASSUME RuntimeInv, PacksInv, NEW s \in Session, Commit(s), NEW x, x = tx[s]
  PROVE  /\ KeptLoaded(db, db', x)
         /\ Core(db) # {} /\ s \in CliSession => x.call.pack # CorePack
<1>1. IsOpen(s) /\ x.todo = << >> /\ x.pend = << >>
  BY DEF Commit
<1>2. tx[s].pc = "open" /\ Program(s, x, Curated(tx)) /\ Written(s, x)
  BY <1>1, AtStep DEF OpenOk
<1>3. PICK R, R2 : R = db /\ R2 = db'
  OBVIOUS
<1>4. R2 = (R \ x.gone) \cup x.rows
  BY <1>3 DEF Commit
<1>5. Stage(s, x) /\ PacksOk(R, tx) /\ OwnKeys(R, x)
  BY <1>2, <1>3 DEF PacksInv, Staged, KeysOk
<1>6. CASE s \in ApiSession
  <2>1. Asker(s, x) /\ s \notin CliSession
    BY <1>5, <1>6, RuntimeSessions DEF Stage
  <2>2. /\ \A t \in LineTables : In(t, R2) = In(t, R)
        /\ \A p : SourceOf(p, R2) = SourceOf(p, R)
        /\ Core(R2) = Core(R)
    BY <1>4, <2>1, RequestAfter
  <2>3. KeptLoaded(R, R2, x)
    BY <2>2 DEF KeptLoaded
  <2> QED BY <1>3, <2>1, <2>3
<1>7. CASE s \notin ApiSession
  <2>1. s \in CliSession /\ Loader(s, x) /\ s # NoSource
    BY <1>5, <1>7, RuntimeSessions DEF Stage, Session
  <2>2. \A r \in x.gone : r.table = "source_records"
    BY <1>2 DEF Written
  <2>3. FoundSource(R, tx, x)
    BY <1>2, <1>5, <2>1 DEF PacksOk
  <2>4. SourceLeft(s, x, R, R2)
    BY <1>1, <1>4, <1>5, <2>1, SourcesAfter
  <2>5. TablesLeft(x, R, R2)
    BY <1>4, <2>2, TablesAfter
  <2>6. CoreWhole(R)
    BY <1>5 DEF PacksOk
  <2>7. CoreLeft(x, R, R2)
    BY <1>1, <1>5, <2>1, <2>2, <2>3, <2>4, <2>5, <2>6, CoreAfter
  <2>8. \A pack : SourceOf(pack, R) # {} => SourceOf(pack, R2) # {}
    <3> SUFFICES ASSUME NEW pack, SourceOf(pack, R) # {} PROVE SourceOf(pack, R2) # {}
      OBVIOUS
    <3>1. CASE pack # x.call.pack
      BY <2>4, <3>1 DEF SourceLeft
    <3>2. CASE pack = x.call.pack
      BY <2>4, <3>2 DEF SourceLeft
    <3> QED BY <3>1, <3>2
  <2>9. \A table \in LineTables : In(table, R) \subseteq In(table, R2)
    BY <2>5 DEF TablesLeft
  <2>10. KeptLoaded(R, R2, x)
    BY <2>7, <2>8, <2>9 DEF KeptLoaded, CoreLeft
  <2> QED BY <1>3, <2>7, <2>10 DEF CoreLeft
<1> QED BY <1>6, <1>7

(* Loads, forced or not, and everything that runs or fails beside them     *)
(* leave what a pack's earlier load committed: upsert_source_record()      *)
(* puts a record in the place of the one it deletes, no row of a line goes *)
(* and the documents of the service core are committed only once.          *)
THEOREM StewardLoadedStays == RuntimeSpec => [][LoadedStays]_runtimeVars
<1>1. RuntimeInv /\ PacksInv /\ [RuntimeNext]_runtimeVars => [LoadedStays]_runtimeVars
  <2> SUFFICES ASSUME RuntimeInv, PacksInv, [RuntimeNext]_runtimeVars PROVE LoadedStays
    OBVIOUS
  <2>1. ASSUME NEW s \in CliSession, Core(db) # {}, Commit(s) PROVE tx[s].call.pack # CorePack
    BY <2>1, CommitKeepsLoaded DEF Session
  <2>2. /\ \A pack : SourceOf(pack, db) # {} => SourceOf(pack, db') # {}
        /\ \A table \in LineTables : In(table, db) \subseteq In(table, db')
        /\ Core(db) # {} => Core(db') = Core(db) /\ SourceOf(CorePack, db') = SourceOf(CorePack, db)
    <3>1. CASE db' = db
      BY <3>1
    <3>2. CASE db' # db
      <4>1. PICK s \in Session : Commit(s)
        BY <3>2, OnlyCommits
      <4>2. KeptLoaded(db, db', tx[s])
        BY <4>1, CommitKeepsLoaded
      <4> QED BY <4>2 DEF KeptLoaded
    <3> QED BY <3>1, <3>2
  <2> QED BY <2>1, <2>2 DEF LoadedStays, LineTables
<1> QED BY <1>1, RuntimeCorrect, PacksCorrect, PTL DEF RuntimeSpec

(* persist_audit_event() only ever adds: the ledger keeps every committed  *)
(* verdict as it is, and gets a new one only by the commit of a query,     *)
(* which is about to be answered with it.                                  *)
THEOREM StewardLedgerOnlyGrows == RuntimeSpec => [][LedgerOnlyGrows]_runtimeVars
<1>1. RuntimeInv /\ [RuntimeNext]_runtimeVars => [LedgerOnlyGrows]_runtimeVars
  <2> SUFFICES ASSUME RuntimeInv, [RuntimeNext]_runtimeVars PROVE LedgerOnlyGrows
    OBVIOUS
  <2>1. CASE db' = db
    BY <2>1 DEF LedgerOnlyGrows
  <2>2. CASE db' # db
    <3>1. PICK s \in Session : Commit(s)
      BY <2>2, OnlyCommits
    <3>2. PICK x : x = tx[s]
      OBVIOUS
    <3>3. DOMAIN tx = Session /\ Written(s, x) /\ Program(s, x, Curated(tx))
      BY <3>1, <3>2, AtStep DEF Commit, OpenOk
    <3>4. db' = (db \ x.gone) \cup x.rows
      BY <3>1, <3>2 DEF Commit
    <3>5. /\ \A r \in x.gone : r.table = "source_records"
          /\ {r \in x.rows : r.table = "audit_events"} = Verdict(s, x)
      BY <3>3 DEF Written, Audits
    <3>6. In("audit_events", db) \subseteq In("audit_events", db')
      BY <3>4, <3>5 DEF In
    <3>7. \A r \in In("audit_events", db') \ In("audit_events", db) : r \in Verdict(s, x)
      BY <3>4, <3>5 DEF In
    <3>8. \A r \in Verdict(s, x) :
            /\ r = VerdictRow(s, x.who, x.answer.code, Cardinality(x.answer.hits))
            /\ x.answer.code \in Verdicts
      BY DEF Verdict
    <3>9. \A r \in Verdict(s, x) : r.id = s /\ r.status = x.answer.code /\ x.answer.code \in Verdicts
      BY <3>8 DEF VerdictRow
    <3>10. x.answer.code \in Verdicts => s \in ApiSession /\ tx'[s].answer.code = x.answer.code
      <4> SUFFICES ASSUME x.answer.code \in Verdicts
                   PROVE  s \in ApiSession /\ tx'[s].answer.code = x.answer.code
        OBVIOUS
      <4>1. x.answer.code # "pending"
        BY DEF Verdicts
      <4>2. s \in ApiSession
        BY <3>3, <4>1 DEF Program, Loading
      <4>3. tx'[s] = Over(x.call, x.who, x.answer.code, x.answer.hits)
        BY <3>1, <3>2, <3>3, <4>1 DEF Commit, Finish
      <4>4. tx'[s].answer.code = x.answer.code
        BY <4>3 DEF Over
      <4> QED BY <4>2, <4>4
    <3> QED BY <3>1, <3>6, <3>7, <3>8, <3>9, <3>10 DEF LedgerOnlyGrows
  <2> QED BY <2>1, <2>2
<1> QED BY <1>1, RuntimeCorrect, PTL DEF RuntimeSpec
============================================================================
