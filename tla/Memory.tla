-------------------------------- MODULE Memory --------------------------------
(***************************************************************************)
(* Institutional memory (internal/memory/store.go, rag.go,                 *)
(* engine/memory_hooks.go, cli/recall.go): runs of several processes write *)
(* facts and index them, `uta recall --reindex` builds the index anew, and *)
(* planners and `uta recall` search it.  Every statement is atomic, an     *)
(* operation of several statements is not: no transaction is opened.  A    *)
(* text is the set of its words.  Facts are never deleted.                 *)
(***************************************************************************)
EXTENDS Integers, FiniteSets, Sequences, SequencesExt, Functions

CONSTANTS Procs,
          Embedders,     \* [name, dim]; NoEmbedder is the keyword index alone
          NoEmbedder,
          FactInputs,    \* the facts written, one after the other: [words, tags]
          Goals,         \* queries, sets of words
          StopWords,
          TopK,
          MaxOps         \* bound: operations begun

VARIABLES facts,     \* institutional_facts
          docs,      \* rag_documents: id -> [ref, words], ref the fact
          fts,       \* rag_fts: id -> the words it is found by
          vec,       \* rag_vec: whether it exists, its dimension, id -> [name, ref]
          meta,      \* rag_vec_meta: its row, or NoEmbedder
          task,      \* what each process is at, see Idle
          begun,     \* number of operations begun
          cut,       \* facts whose indexing a crash or a failed statement cut short (history)
          last,      \* the process that emptied rag_documents last (history)
          disturbed, reindexed   \* whether a reindex ran beside an indexing or was cut short in
                                 \* its reset, and whether any ran (history)

history == <<cut, last, disturbed, reindexed>>
vars == <<facts, docs, fts, vec, meta, task, begun, history>>

Idle == [pc |-> "idle", op |-> "none", embedder |-> NoEmbedder,
         queue |-> <<>>,   \* the facts still to be indexed
         doc |-> 0,        \* the id of the document being indexed
         goal |-> {}, words |-> <<>>, near |-> <<>>,   \* a search and its two lists
         answer |-> <<>>]

NoTable == [exists |-> FALSE, dim |-> 0, rows |-> <<>>]
Nobody == "nobody"

Init ==
  /\ facts = <<>> /\ docs = <<>> /\ fts = <<>> /\ vec = NoTable /\ meta = NoEmbedder
  /\ task = [p \in Procs |-> Idle]
  /\ begun = 0 /\ cut = {} /\ last = Nobody /\ disturbed = FALSE /\ reindexed = FALSE

Goto(p, step) == task' = [task EXCEPT ![p].pc = step]
Leave(p) == task' = [task EXCEPT ![p] = Idle]
With(f, x, v) == [y \in DOMAIN f \union {x} |-> IF y = x THEN v ELSE f[y]]

-----------------------------------------------------------------------------
(* An operation begins, in the environment of its process.                 *)
Begin(p, what, step, queue, goal) ==
  /\ task[p].pc = "idle" /\ begun < MaxOps
  /\ begun' = begun + 1
  /\ \E e \in Embedders \union {NoEmbedder} :
       task' = [task EXCEPT ![p] = [Idle EXCEPT !.pc = step, !.op = what, !.embedder = e,
                                                !.queue = queue, !.goal = goal]]

Busy(p, what) == \E q \in Procs \ {p} : task[q].op \in what

(* Write: the fact first, which is the source of truth.                    *)
Write(p) ==
  /\ Len(facts) < Len(FactInputs)
  /\ facts' = Append(facts, FactInputs[Len(facts) + 1])
  /\ Begin(p, "write", "doc", <<Len(facts')>>, {})
  /\ disturbed' = (disturbed \/ Busy(p, {"reindex"}))
  /\ UNCHANGED <<docs, fts, vec, meta, cut, last, reindexed>>

BeginReindex(p) ==
  /\ Begin(p, "reindex", "empty docs", <<>>, {})
  /\ disturbed' = (disturbed \/ Busy(p, {"write", "reindex"}))
  /\ reindexed' = TRUE
  /\ UNCHANGED <<facts, docs, fts, vec, meta, cut, last>>

(* The reset.  rag_fts keeps no bodies of its own: what is to be deleted   *)
(* is looked up in rag_documents, and by then only what another process    *)
(* has just put there is found: the other entries stay.                    *)
EmptyDocs(p) ==
  /\ task[p].pc = "empty docs"
  /\ docs' = <<>> /\ last' = p
  /\ Goto(p, "empty fts")
  /\ UNCHANGED <<facts, fts, vec, meta, begun, cut, disturbed, reindexed>>

EmptyFts(p) ==
  /\ task[p].pc = "empty fts"
  /\ fts' = [id \in DOMAIN fts |-> IF id \in DOMAIN docs THEN fts[id] \ docs[id].words
                                                       ELSE fts[id]]
  /\ Goto(p, "drop vec")
  /\ UNCHANGED <<facts, docs, vec, meta, begun, history>>

DropVec(p) ==
  /\ task[p].pc = "drop vec"
  /\ vec' = NoTable
  /\ Goto(p, "empty meta")
  /\ UNCHANGED <<facts, docs, fts, meta, begun, history>>

EmptyMeta(p) ==
  /\ task[p].pc = "empty meta"
  /\ meta' = NoEmbedder
  /\ Goto(p, "read facts")
  /\ UNCHANGED <<facts, docs, fts, vec, begun, history>>

ReadFacts(p) ==
  /\ task[p].pc = "read facts"
  /\ IF facts = <<>> THEN Leave(p)
     ELSE task' = [task EXCEPT ![p].queue = [i \in DOMAIN facts |-> i], ![p].pc = "doc"]
  /\ UNCHANGED <<facts, docs, fts, vec, meta, begun, history>>

-----------------------------------------------------------------------------
(* IndexDocument, statement by statement, and on to the next fact.         *)
Finish(p) ==
  IF Len(task[p].queue) = 1 THEN Leave(p)
  ELSE task' = [task EXCEPT ![p].queue = Tail(@), ![p].pc = "doc"]

NewId == IF docs = <<>> THEN 1 ELSE 1 + CHOOSE m \in DOMAIN docs : \A n \in DOMAIN docs : n <= m

(* A document that cannot be inserted ends the write, silently, and the    *)
(* reindex, with an error; anything later is a warning.                    *)
InsertDoc(p) ==
  /\ task[p].pc = "doc"
  /\ LET f == Head(task[p].queue) IN
     \/ /\ docs' = With(docs, NewId, [ref |-> f, words |-> facts[f].words])
        /\ task' = [task EXCEPT ![p].doc = NewId, ![p].pc = "fts"]
        /\ UNCHANGED cut
     \/ cut' = cut \union Range(task[p].queue) /\ Leave(p) /\ UNCHANGED docs
  /\ UNCHANGED <<facts, fts, vec, meta, begun, last, disturbed, reindexed>>

InsertFts(p) ==
  /\ task[p].pc = "fts"
  /\ LET f == Head(task[p].queue)  id == task[p].doc IN
     \/ /\ fts' = With(fts, id, facts[f].words \union (IF id \in DOMAIN fts THEN fts[id] ELSE {}))
        /\ cut' = IF task[p].op = "reindex" /\ last = p THEN cut \ {f} ELSE cut
        /\ IF task[p].embedder = NoEmbedder THEN Finish(p) ELSE Goto(p, "embed")
     \/ cut' = cut \union {f} /\ Finish(p) /\ UNCHANGED fts
  /\ UNCHANGED <<facts, docs, vec, meta, begun, last, disturbed, reindexed>>

\* broken: compares the dimension only
Fits_Dim(e) == meta.dim = e.dim

(* ensureVecTable's comparison with the model the vectors are of.          *)
Fits(e) == meta = e

(* The embedder answers, or does not; then rag_vec_meta is read.           *)
Embed(p) ==
  /\ task[p].pc = "embed"
  /\ \/ Finish(p)
     \/ meta = NoEmbedder /\ Goto(p, "create")
     \/ meta # NoEmbedder /\ Fits(task[p].embedder) /\ Goto(p, "vector")
  /\ UNCHANGED <<facts, docs, fts, vec, meta, begun, history>>

(* CREATE TABLE IF NOT EXISTS: an older one keeps its dimension.           *)
CreateVec(p) ==
  /\ task[p].pc = "create"
  /\ vec' = IF vec.exists THEN vec
            ELSE [exists |-> TRUE, dim |-> task[p].embedder.dim, rows |-> <<>>]
  /\ Goto(p, "pin")
  /\ UNCHANGED <<facts, docs, fts, meta, begun, history>>

(* The row is there already when another process was faster.               *)
Pin(p) ==
  /\ task[p].pc = "pin"
  /\ IF meta = NoEmbedder THEN meta' = task[p].embedder /\ Goto(p, "vector")
     ELSE Finish(p) /\ UNCHANGED meta
  /\ UNCHANGED <<facts, docs, fts, vec, begun, history>>

InsertVec(p) ==
  /\ task[p].pc = "vector"
  /\ LET e == task[p].embedder  id == task[p].doc IN
     vec' = IF vec.exists /\ vec.dim = e.dim /\ id \notin DOMAIN vec.rows
              THEN [vec EXCEPT !.rows =
                      With(@, id, [name |-> e.name, ref |-> Head(task[p].queue)])]
              ELSE vec
  /\ Finish(p)
  /\ UNCHANGED <<facts, docs, fts, meta, begun, history>>

-----------------------------------------------------------------------------
(* SearchHybrid.  The order of either list is the index's own, and it is   *)
(* the best of it.                                                         *)
PerListLimit == 50
Best(S, most) ==
  LET n == IF Cardinality(S) < most THEN Cardinality(S) ELSE most IN
  {s \in [1..n -> S] : IsInjective(s)}

Ask(p) ==
  /\ \E what \in {"plan", "recall"}, goal \in Goals : Begin(p, what, "keywords", <<>>, goal)
  /\ UNCHANGED <<facts, docs, fts, vec, meta, history>>

Keywords(p) ==
  /\ task[p].pc = "keywords"
  /\ \E s \in Best({id \in DOMAIN fts : fts[id] \intersect task[p].goal # {}}, PerListLimit) :
       task' = [task EXCEPT ![p].words = s, ![p].pc = "near"]
  /\ UNCHANGED <<facts, docs, fts, vec, meta, begun, history>>

(* Without an embedder, or when it or the query fails, no vectors.  Their  *)
(* model is not compared, only a vector of another length fails.           *)
Neighbours(p) ==
  /\ task[p].pc = "near"
  /\ \/ Goto(p, "fetch")
     \/ /\ vec.exists /\ task[p].embedder # NoEmbedder /\ vec.dim = task[p].embedder.dim
        /\ \E s \in Best(DOMAIN vec.rows, PerListLimit) :
             task' = [task EXCEPT ![p].near = s, ![p].pc = "fetch"]
  /\ UNCHANGED <<facts, docs, fts, vec, meta, begun, history>>

(* Reciprocal rank fusion, as a fraction.                                  *)
RrfK == 60
Share(list, id) ==
  IF id \in Range(list) THEN <<1, RrfK + CHOOSE i \in DOMAIN list : list[i] = id>> ELSE <<0, 1>>
Score(p, id) ==
  LET word == Share(task[p].words, id)  vector == Share(task[p].near, id) IN
  <<word[1] * vector[2] + vector[1] * word[2], word[2] * vector[2]>>
Beats(p, x, y) == Score(p, x)[1] * Score(p, y)[2] > Score(p, y)[1] * Score(p, x)[2]

Orders(S) == Best(S, Cardinality(S))
Fused(p) ==
  {s \in Orders(Range(task[p].words) \union Range(task[p].near)) :
     \A i, j \in DOMAIN s : i < j => ~Beats(p, s[j], s[i])}

(* Only the best are looked up, and those that are gone are left out: an   *)
(* answer has a hit at some of the ranks up to k.                          *)
Kept(s) == {i \in DOMAIN s : i <= TopK}
Found(s) ==
  [i \in {i \in Kept(s) : s[i] \in DOMAIN docs} |-> [id |-> s[i], ref |-> docs[s[i]].ref]]

Fetch(p) ==
  /\ task[p].pc = "fetch"
  /\ \E s \in Fused(p) :
       task' = [task EXCEPT ![p].answer = Found(s),
                  ![p].pc = IF task[p].op = "plan" /\ DOMAIN Found(s) = {} THEN "fallback"
                            ELSE "answered"]
  /\ UNCHANGED <<facts, docs, fts, vec, meta, begun, history>>

(* TopRelevant: the facts with most tags in the goal; equals by their age. *)
Overlap(p, f) == Cardinality(facts[f].tags \intersect (task[p].goal \ StopWords))

TopRelevant(p) ==
  /\ task[p].pc = "fallback"
  /\ \E s \in Orders({f \in DOMAIN facts : Overlap(p, f) > 0}) :
       /\ \A i, j \in DOMAIN s : i < j => Overlap(p, s[i]) >= Overlap(p, s[j])
       /\ task' = [task EXCEPT ![p].answer = [i \in Kept(s) |-> [id |-> 0, ref |-> s[i]]],
                               ![p].pc = "answered"]
  /\ UNCHANGED <<facts, docs, fts, vec, meta, begun, history>>

Answered(p) ==
  /\ task[p].pc = "answered" /\ Leave(p)
  /\ UNCHANGED <<facts, docs, fts, vec, meta, begun, history>>

-----------------------------------------------------------------------------
Resetting(p) ==
  task[p].pc \in {"empty docs", "empty fts", "drop vec", "empty meta", "read facts"}

(* A process ends between two statements; in the reset of a reindex, a     *)
(* statement that fails is the same.                                       *)
Crash(p) ==
  /\ task[p].op \in {"write", "reindex"}
  /\ cut' = cut \union (IF Resetting(p) THEN DOMAIN facts ELSE Range(task[p].queue))
  /\ disturbed' = (disturbed \/ Resetting(p))
  /\ Leave(p)
  /\ UNCHANGED <<facts, docs, fts, vec, meta, begun, last, reindexed>>

Step(p) ==
  \/ Write(p)
  \/ BeginReindex(p) \/ EmptyDocs(p) \/ EmptyFts(p) \/ DropVec(p) \/ EmptyMeta(p) \/ ReadFacts(p)
  \/ InsertDoc(p) \/ InsertFts(p) \/ Embed(p) \/ CreateVec(p) \/ Pin(p) \/ InsertVec(p)
  \/ Ask(p) \/ Keywords(p) \/ Neighbours(p) \/ Fetch(p) \/ TopRelevant(p) \/ Answered(p)
  \/ Crash(p)

Next == \E p \in Procs : Step(p)

Spec == Init /\ [][Next]_vars

-----------------------------------------------------------------------------
Searchable(f) ==
  \E id \in DOMAIN docs \intersect DOMAIN fts :
    docs[id].ref = f /\ facts[f].words \subseteq fts[id]

Settled ==
  IF \E p \in Procs : Resetting(p) THEN {}
  ELSE DOMAIN facts \ (cut \union UNION {Range(task[p].queue) : p \in Procs})

(* However writes and reindexes overlap, a fact that nobody has still to   *)
(* index is found by each of its words, unless a crash or a failed         *)
(* statement kept it out and no reindex has put it back (the order of      *)
(* Reindex's statements: the facts are read after the reset).              *)
NothingLost == \A f \in Settled : Searchable(f)

(* Unless a reindex ran beside a write or another reindex, or was cut      *)
(* short in its reset, a fact is indexed once, and the vectors are those   *)
(* of the documents they are kept for, all of the one model rag_vec_meta   *)
(* names, however embedders change, fail and race for the first vector     *)
(* (ensureVecTable).                                                       *)
OneSpace ==
  ~disturbed =>
    /\ \A x, y \in DOMAIN docs : docs[x].ref = docs[y].ref => x = y
    /\ \A id \in DOMAIN vec.rows :
         /\ vec.rows[id].name = meta.name
         /\ id \in DOMAIN docs => vec.rows[id].ref = docs[id].ref

(* What both indexes found comes before what one of them found; and until  *)
(* an index is built anew, what was found by its words has one of the      *)
(* words asked for (the fusion of SearchHybrid, documentsByID).            *)
AnswersFit ==
  \A p \in Procs : task[p].pc = "answered" =>
    LET hits == task[p].answer
        Both(id) == id \in Range(task[p].words) /\ id \in Range(task[p].near)
    IN \A i \in DOMAIN hits :
         /\ \A j \in DOMAIN hits : j < i /\ Both(hits[i].id) => Both(hits[j].id)
         /\ ~reindexed /\ hits[i].id \in Range(task[p].words) =>
              facts[hits[i].ref].words \intersect task[p].goal # {}

MemoryIsWhole == NothingLost /\ OneSpace /\ AnswersFit
=============================================================================
