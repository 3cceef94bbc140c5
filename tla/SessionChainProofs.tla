-------------------------- MODULE SessionChainProofs --------------------------
(***************************************************************************)
(* Why a session that re-enters a run which is over answers for all of it, *)
(* for every number of processes, every plan and every chain of handoffs.  *)
(***************************************************************************)
EXTENDS SessionChain, WellFoundedInduction, TLAPS

(* Where it holds: no plan has two tasks of one id.  validateDAG refuses   *)
(* such a DAG; of a fan-out nothing makes sure.                            *)
DistinctIds == \A plan \in Plans : \A i, j \in DOMAIN plan : plan[i].id = plan[j].id => i = j

IsSeq(s) == Len(s) \in Nat /\ s = [i \in 1..Len(s) |-> s[i]]
IsRow(r) == r = [id |-> r.id, st |-> r.st, saved |-> r.saved, asked |-> r.asked]
IsRows(rows) == IsSeq(rows) /\ \A i \in DOMAIN rows : IsRow(rows[i])
IsSession(r) ==
  /\ r = [kind |-> r.kind, from |-> r.from, status |-> r.status, rows |-> r.rows,
          answer |-> r.answer, told |-> r.told, over |-> r.over, afterEnd |-> r.afterEnd]
  /\ IsRows(r.rows)
IsWork(r) ==
  r = [at |-> r.at, s |-> r.s, mode |-> r.mode, plan |-> r.plan, todo |-> r.todo,
       prior |-> r.prior, out |-> r.out, cancelled |-> r.cancelled, denied |-> r.denied,
       parent |-> r.parent, depth |-> r.depth, index |-> r.index]

Busy == {"plan", "work", "turn", "touch", "save", "chain"}
Open(p) == proc[p].at \in {"plan", "work", "turn"}   \* its session is not over

ChainTyped ==
  /\ IsSeq(db) /\ \A s \in DOMAIN db : IsSession(db[s])
  /\ proc = [p \in Procs |-> proc[p]]
  /\ \A p \in Procs :
       \/ proc[p].at \in {"idle", "switch"}
       \/ /\ proc[p].at \in Busy /\ IsWork(proc[p])
          /\ proc[p].s \in DOMAIN db /\ proc[p].parent \in {0} \cup DOMAIN db

(* A session has one process that writes its rows, until it is over.       *)
OneWriter ==
  /\ \A p \in Procs : Open(p) => db[proc[p].s].over = FALSE /\ db[proc[p].s].status = "running"
  /\ \A p, q \in Procs : Open(p) /\ Open(q) /\ proc[p].s = proc[q].s => p = q
  /\ \A p \in Procs : ~Open(p) /\ proc[p].at \in Busy => db[proc[p].s].over = TRUE

RowIds(s) == {db[s].rows[i].id : i \in DOMAIN db[s].rows}
DistinctRows(s) ==
  \A i, j \in DOMAIN db[s].rows : db[s].rows[i].id = db[s].rows[j].id => i = j

(* The rows of a run are the tasks of its plan it has come to.             *)
RowsFollowPlan(p) ==
  LET plan == proc[p].plan
      left == proc[p].todo
  IN /\ proc[p].at = "plan" => plan = <<>> /\ left = {} /\ db[proc[p].s].from = 0
     /\ proc[p].at = "turn" => db[proc[p].s].kind = "turn" /\ 1 \in DOMAIN db[proc[p].s].rows
     /\ proc[p].at \in {"plan", "work"} =>
          /\ db[proc[p].s].kind = "run"
          /\ left \subseteq DOMAIN plan /\ DOMAIN plan \subseteq Nat
          /\ \A i, j \in DOMAIN plan : plan[i].id = plan[j].id => i = j
          /\ RowIds(proc[p].s) = {plan[k].id : k \in DOMAIN plan \ left}

(* The plan and the outcomes of a re-entry are those of the rows, which    *)
(* are as they were: nobody writes them any more.                          *)
Accounted(rows, ids, prior) ==
  \A i \in DOMAIN rows :
    /\ Finished(rows[i]) =>
         rows[i].id \notin ids /\ [id |-> rows[i].id, ok |-> TRUE] \in prior
    /\ rows[i].id \in ids \/ \E o \in prior : o.id = rows[i].id

Recovers(p) ==
  LET f == db[proc[p].s].from IN
  proc[p].at = "work" /\ f # 0 /\ db[proc[p].s].afterEnd =>
    Accounted(db[f].rows, Ids(p), proc[p].prior)

(* A re-entry of a session that is over answers for all of it; what it     *)
(* re-enters is older, and nobody writes it.                               *)
Whole(s) ==
  s \in Reentered =>
    \A i \in DOMAIN db[db[s].from].rows :
      LET row == db[db[s].from].rows[i] IN
      /\ Finished(row) => ~HasRow(s, row.id)
      /\ Clean(s) => \E o \in db[s].answer : o.id = row.id /\ (Finished(row) => o.ok)

SessionInv(s) ==
  /\ DistinctRows(s)
  /\ db[s].from \in {0} \cup DOMAIN db
  /\ s \in Reentered => db[db[s].from].over = TRUE
  /\ Whole(s)

ProcInv(p) == RowsFollowPlan(p) /\ Recovers(p)

ChainInv ==
  /\ ChainTyped /\ OneWriter
  /\ \A s \in DOMAIN db : SessionInv(s)
  /\ \A p \in Procs : ProcInv(p)

-----------------------------------------------------------------------------
LEMMA SeqDomain == ASSUME NEW s, IsSeq(s) PROVE DOMAIN s = 1..Len(s) /\ Len(s) \in Nat
  BY DEF IsSeq

LEMMA InSeq == ASSUME NEW S, NEW t \in Seq(S) PROVE IsSeq(t)
<1>1. Len(t) \in Nat /\ t \in [1..Len(t) -> S]
  OBVIOUS
<1>. QED
  BY <1>1 DEF IsSeq

LEMMA SeqAppended ==
    ASSUME NEW s, IsSeq(s), NEW e
    PROVE  /\ IsSeq(Append(s, e)) /\ Len(Append(s, e)) = Len(s) + 1
           /\ DOMAIN Append(s, e) = DOMAIN s \cup {Len(s) + 1} /\ Len(s) + 1 \notin DOMAIN s
           /\ \A i \in DOMAIN s : Append(s, e)[i] = s[i]
           /\ Append(s, e)[Len(s) + 1] = e
<1>. DEFINE S == {s[i] : i \in 1..Len(s)} \cup {e}
<1>1. s \in [1..Len(s) -> S] /\ Len(s) \in Nat
  BY DEF IsSeq
<1>2. s \in Seq(S) /\ e \in S
  BY <1>1
<1>. HIDE DEF S
<1>3. Append(s, e) \in Seq(S)
  BY <1>2
<1>4. IsSeq(Append(s, e))
  BY <1>3, InSeq
<1>5. s \in Seq(S) /\ Len(Append(s, e)) = Len(s) + 1 /\ Len(s) \in Nat /\ DOMAIN s = 1..Len(s)
      /\ \A i \in 1..Len(s) : Append(s, e)[i] = s[i]
      /\ Append(s, e)[Len(s) + 1] = e
  BY <1>1, <1>2
<1>. QED
  BY <1>4, <1>5, SeqDomain

LEMMA SeqUpdated ==
    ASSUME NEW s, IsSeq(s), NEW i, NEW e
    PROVE  /\ IsSeq([s EXCEPT ![i] = e]) /\ Len([s EXCEPT ![i] = e]) = Len(s)
           /\ DOMAIN [s EXCEPT ![i] = e] = DOMAIN s
           /\ \A j \in DOMAIN s : [s EXCEPT ![i] = e][j] = IF j = i THEN e ELSE s[j]
<1>. DEFINE u == [s EXCEPT ![i] = e]
            S == {s[j] : j \in 1..Len(s)} \cup {e}
<1>1. s \in [1..Len(s) -> S] /\ Len(s) \in Nat /\ DOMAIN s = 1..Len(s)
  BY DEF IsSeq
<1>2. u \in [1..Len(s) -> S] /\ \A j \in DOMAIN s : u[j] = IF j = i THEN e ELSE s[j]
  BY <1>1
<1>. HIDE DEF u, S
<1>3. u \in Seq(S) /\ Len(u) = Len(s)
  BY <1>1, <1>2
<1>4. IsSeq(u) /\ DOMAIN u = DOMAIN s
  BY <1>1, <1>2, <1>3 DEF IsSeq
<1>. QED
  BY <1>2, <1>3, <1>4 DEF u

LEMMA SeqPair == ASSUME NEW e PROVE IsSeq(<<e>>) /\ DOMAIN <<e>> = {1} /\ <<e>>[1] = e /\ IsSeq(<<>>) /\ DOMAIN <<>> = {}
  BY DEF IsSeq

-----------------------------------------------------------------------------
(* What a step leaves of the sessions and processes that are not its own.  *)
Same(s) ==      \* what is told of a handoff is no business of the invariant
  /\ db'[s].kind = db[s].kind /\ db'[s].from = db[s].from /\ db'[s].status = db[s].status
  /\ db'[s].rows = db[s].rows /\ db'[s].answer = db[s].answer /\ db'[s].over = db[s].over
  /\ db'[s].afterEnd = db[s].afterEnd

Own(p) == IF Open(p) THEN {proc[p].s} ELSE {}   \* the sessions p writes

LEMMA OwnNotOver ==
    ASSUME ChainInv, NEW p \in Procs, NEW s \in DOMAIN db, s \in Reentered
    PROVE  db[s].from \in DOMAIN db \ Own(p)
<1>1. db[s].from \in DOMAIN db /\ db[db[s].from].over = TRUE
  BY DEF ChainInv, SessionInv, Reentered
<1>. QED
  BY <1>1 DEF ChainInv, OneWriter, Own

(* Sessions p does not write stay whole.                                   *)
LEMMA OtherSessions ==
    ASSUME ChainInv, NEW p \in Procs, DOMAIN db \subseteq DOMAIN db',
           NEW W \in SUBSET Own(p), \A s \in DOMAIN db \ W : Same(s),
           NEW s \in DOMAIN db \ W
    PROVE  SessionInv(s)'
<1>1. SessionInv(s) /\ Same(s)
  BY DEF ChainInv
<1>2. DistinctRows(s)' /\ db'[s].from \in {0} \cup DOMAIN db'
  BY <1>1 DEF SessionInv, Same, DistinctRows
<1>3. ASSUME s \in Reentered' PROVE db'[db'[s].from].over = TRUE /\ Whole(s)'
  <2>1. s \in Reentered
    BY <1>1, <1>3 DEF Reentered, Same
  <2>2. Same(db[s].from) /\ db[s].from = db'[s].from
    BY <1>1, <2>1, OwnNotOver DEF Same
  <2>3. db'[db'[s].from].over = TRUE /\ db'[db'[s].from].rows = db[db[s].from].rows
    BY <1>1, <2>1, <2>2 DEF Same, SessionInv
  <2>4. Clean(s)' <=> Clean(s)
    BY <1>1 DEF Same, Clean
  <2>5. \A id : HasRow(s, id)' <=> HasRow(s, id)
    BY <1>1 DEF Same, HasRow
  <2>6. db'[s].answer = db[s].answer
    BY <1>1 DEF Same
  <2>. QED
    BY <1>1, <2>1, <2>2, <2>3, <2>4, <2>5, <2>6 DEF SessionInv, Whole
<1>. QED
  BY <1>2, <1>3 DEF SessionInv, Whole

(* So do the processes that stay as they are, and one that moves on without*)
(* a change to its plan.                                                   *)
LEMMA OtherProcs ==
    ASSUME ChainInv, NEW p \in Procs, DOMAIN db \subseteq DOMAIN db',
           \A s \in DOMAIN db \ Own(p) : Same(s),
           NEW q \in Procs, proc[q].at \in {"plan", "work", "turn"} => Same(proc[q].s),
           \/ proc'[q] = proc[q]
           \/ proc'[q].at \notin {"plan", "work", "turn"}
           \/ /\ proc'[q].at = proc[q].at /\ proc'[q].s = proc[q].s
              /\ proc'[q].plan = proc[q].plan /\ proc'[q].todo = proc[q].todo
              /\ proc'[q].prior = proc[q].prior
    PROVE  ProcInv(q)'
<1>. SUFFICES ASSUME proc'[q].at \in {"plan", "work", "turn"} PROVE ProcInv(q)'
  BY DEF ProcInv, RowsFollowPlan, Recovers
<1>0. PICK s : s = proc[q].s
  OBVIOUS
<1>1. /\ proc'[q].at = proc[q].at /\ proc'[q].s = s /\ proc[q].s = s /\ s \in DOMAIN db
      /\ proc'[q].plan = proc[q].plan /\ proc'[q].todo = proc[q].todo
      /\ proc'[q].prior = proc[q].prior /\ Same(s) /\ ProcInv(q)
  BY <1>0 DEF ChainInv, ChainTyped
<1>2. RowIds(s)' = RowIds(s) /\ Ids(q)' = Ids(q)
  BY <1>1 DEF RowIds, Same, Ids
<1>3. RowsFollowPlan(q)'
  BY <1>1, <1>2 DEF ProcInv, RowsFollowPlan, Same
<1>4. ASSUME proc[q].at = "work", db[s].from # 0, db[s].afterEnd
      PROVE  Recovers(q)'
  <2>1. s \in Reentered
    BY <1>1, <1>4 DEF Reentered, ProcInv, RowsFollowPlan
  <2>2. PICK f : f = db[s].from
    OBVIOUS
  <2>3. Same(f) /\ db'[s].from = f
    BY <1>1, <2>1, <2>2, OwnNotOver DEF Same
  <2>. QED
    BY <1>1, <1>2, <1>4, <2>2, <2>3 DEF ProcInv, Recovers, Same
<1>5. Recovers(q)'
  BY <1>1, <1>4 DEF Recovers, Same
<1>. QED
  BY <1>3, <1>5 DEF ProcInv

(* A step of p keeps the invariant when it keeps it of p, of the session p *)
(* writes and of a session it starts.                                      *)
WritesNow(p) == Open(p) =>
  /\ db[proc[p].s].over = FALSE /\ db[proc[p].s].status = "running"

LEMMA StepKeeps ==
    ASSUME ChainInv, ChainTyped', NEW p \in Procs, DOMAIN db \subseteq DOMAIN db',
           \A q \in Procs \ {p} : proc'[q] = proc[q],
           \A s \in DOMAIN db \ Own(p) : Same(s),
           WritesNow(p)', Open(p)' => proc'[p].s \in Own(p) \/ proc'[p].s \notin DOMAIN db,
           ~Open(p)' /\ proc'[p].at \in Busy => db'[proc'[p].s].over = TRUE,
           ProcInv(p)',
           \A s \in DOMAIN db' \ (DOMAIN db \ Own(p)) : SessionInv(s)'
    PROVE  ChainInv'
<1>1. \A q \in Procs \ {p} : proc[q].at \in Busy => proc[q].s \in DOMAIN db \ Own(p)
  BY DEF ChainInv, ChainTyped, OneWriter, Own, Busy, Open
<1>2. \A q \in Procs \ {p} : Open(q)' <=> Open(q)
  BY DEF Open
<1>3. OneWriter'
  <2>1. \A q \in Procs : Open(q)' => db'[proc'[q].s].over = FALSE /\ db'[proc'[q].s].status = "running"
    BY <1>1, <1>2 DEF ChainInv, OneWriter, Same, WritesNow, Open, Busy
  <2>2. \A q \in Procs : ~Open(q)' /\ proc'[q].at \in Busy => db'[proc'[q].s].over = TRUE
    BY <1>1, <1>2 DEF ChainInv, OneWriter, Same
  <2>3. \A q \in Procs \ {p} : Open(q)' => proc'[q].s \in DOMAIN db \ Own(p)
    BY <1>1, <1>2 DEF Open, Busy
  <2>4. ASSUME NEW q \in Procs, NEW r \in Procs, Open(q)', Open(r)', proc'[q].s = proc'[r].s
        PROVE  q = r
    <3>1. CASE q # p /\ r # p
      BY <1>2, <2>4, <3>1 DEF ChainInv, OneWriter
    <3>2. CASE q = p \/ r = p
      BY <2>3, <2>4, <3>2
    <3>. QED
      BY <3>1, <3>2
  <2>. QED
    BY <2>1, <2>2, <2>4 DEF OneWriter
<1>4. ASSUME NEW q \in Procs PROVE ProcInv(q)'
  <2>1. CASE q # p
    <3>1. proc[q].at \in {"plan", "work", "turn"} => Same(proc[q].s)
      BY <1>1, <2>1 DEF Busy
    <3>. QED
      BY <2>1, <3>1, OtherProcs
  <2>. QED
    BY <2>1
<1>5. ASSUME NEW s \in DOMAIN db' PROVE SessionInv(s)'
  BY <1>5, OtherSessions
<1>. QED
  BY <1>3, <1>4, <1>5 DEF ChainInv

-----------------------------------------------------------------------------
LEMMA TypedStep ==
    ASSUME ChainTyped, NEW p \in Procs, NEW rec, proc' = [proc EXCEPT ![p] = rec],
           IsSeq(db'), DOMAIN db \subseteq DOMAIN db', \A s \in DOMAIN db' : IsSession(db'[s]),
           \/ rec.at \in {"idle", "switch"}
           \/ /\ rec.at \in Busy /\ IsWork(rec)
              /\ rec.s \in DOMAIN db' /\ rec.parent \in {0} \cup DOMAIN db'
    PROVE  ChainTyped' /\ proc'[p] = rec /\ \A q \in Procs \ {p} : proc'[q] = proc[q]
  BY DEF ChainTyped

(* Sessions stay sessions when one is told of its handoff, has its rows    *)
(* changed, or ends.                                                       *)
LEMMA SessionTold ==
    ASSUME NEW r, IsSession(r), NEW x, NEW u, u = [r EXCEPT !.told = x]
    PROVE  /\ IsSession(u) /\ u.kind = r.kind /\ u.from = r.from /\ u.status = r.status
           /\ u.rows = r.rows /\ u.answer = r.answer /\ u.over = r.over
           /\ u.afterEnd = r.afterEnd
  BY DEF IsSession

LEMMA SessionRows ==
    ASSUME NEW r, IsSession(r), NEW x, IsRows(x), NEW u, u = [r EXCEPT !.rows = x]
    PROVE  /\ IsSession(u) /\ u.kind = r.kind /\ u.from = r.from /\ u.status = r.status
           /\ u.rows = x /\ u.answer = r.answer /\ u.over = r.over
           /\ u.afterEnd = r.afterEnd
  BY DEF IsSession

LEMMA SessionOver ==
    ASSUME NEW r, IsSession(r), NEW x, NEW u, u = [r EXCEPT !.over = x]
    PROVE  /\ IsSession(u) /\ u.kind = r.kind /\ u.from = r.from /\ u.status = r.status
           /\ u.rows = r.rows /\ u.answer = r.answer /\ u.over = x
           /\ u.afterEnd = r.afterEnd
  BY DEF IsSession

Ended(r, status, over, answer) == [r EXCEPT !.status = status, !.over = over, !.answer = answer]

LEMMA SessionEnded ==
    ASSUME NEW r, IsSession(r), NEW status, NEW over, NEW answer,
           NEW u, u = Ended(r, status, over, answer)
    PROVE  /\ IsSession(u) /\ u.over = over /\ u.status = status /\ u.answer = answer
           /\ u.rows = r.rows /\ u.kind = r.kind /\ u.from = r.from /\ u.afterEnd = r.afterEnd
<1>. DEFINE one == [r EXCEPT !.status = status]
            two == [one EXCEPT !.over = over]
            three == [two EXCEPT !.answer = answer]
<1>1. /\ IsSession(one) /\ one.status = status /\ one.over = r.over /\ one.answer = r.answer
      /\ one.rows = r.rows /\ one.kind = r.kind /\ one.from = r.from
      /\ one.afterEnd = r.afterEnd
  BY DEF IsSession
<1>. HIDE DEF one
<1>2. /\ IsSession(two) /\ two.status = status /\ two.over = over /\ two.answer = r.answer
      /\ two.rows = r.rows /\ two.kind = r.kind /\ two.from = r.from
      /\ two.afterEnd = r.afterEnd
  BY <1>1 DEF IsSession
<1>. HIDE DEF two
<1>3. /\ IsSession(three) /\ three.status = status /\ three.over = over /\ three.answer = answer
      /\ three.rows = r.rows /\ three.kind = r.kind /\ three.from = r.from
      /\ three.afterEnd = r.afterEnd
  BY <1>2 DEF IsSession
<1>4. u = three
  BY DEF Ended, one, two
<1>. QED
  BY <1>3, <1>4

(* A step that leaves the sessions alone, and ends or cancels nothing that *)
(* is being written.                                                       *)
LEMMA QuietStep ==
    ASSUME ChainInv, ChainTyped', NEW p \in Procs, DOMAIN db' = DOMAIN db,
           \A q \in Procs \ {p} : proc'[q] = proc[q],
           \A s \in DOMAIN db : Same(s),
           \/ proc'[p].at \in {"idle", "switch"}
           \/ /\ proc[p].at \in Busy /\ proc'[p].s = proc[p].s
              /\ proc[p].at \notin {"plan", "work", "turn"}
              /\ proc'[p].at \notin {"plan", "work", "turn"}
           \/ /\ proc'[p].at = proc[p].at /\ proc'[p].s = proc[p].s
              /\ proc'[p].plan = proc[p].plan /\ proc'[p].todo = proc[p].todo
              /\ proc'[p].prior = proc[p].prior
    PROVE  ChainInv'
<1>1. proc[p].at \in Busy => proc[p].s \in DOMAIN db
  BY DEF ChainInv, ChainTyped, Busy
<1>2. ProcInv(p)'
  BY <1>1, OtherProcs DEF Busy
<1>3. ASSUME NEW s \in DOMAIN db PROVE SessionInv(s)'
  <2>1. {} \in SUBSET Own(p) /\ s \in DOMAIN db \ {} /\ \A x \in DOMAIN db \ {} : Same(x)
    OBVIOUS
  <2>. QED
    BY <2>1, OtherSessions
<1>4. WritesNow(p)' /\ (Open(p)' => proc'[p].s \in Own(p))
      /\ (~Open(p)' /\ proc'[p].at \in Busy => db'[proc'[p].s].over = TRUE)
  BY <1>1 DEF WritesNow, Open, Own, Busy, Same, ChainInv, OneWriter
<1>. QED
  BY <1>2, <1>3, <1>4, StepKeeps

-----------------------------------------------------------------------------
(* The fields of what a process is doing, one at a time.                   *)
Alike(r, u) ==
  /\ u.at = r.at /\ u.s = r.s /\ u.plan = r.plan /\ u.todo = r.todo /\ u.prior = r.prior
  /\ u.out = r.out

LEMMA WorkCancelled ==
    ASSUME NEW r, IsWork(r), NEW x, NEW u, u = [r EXCEPT !.cancelled = x]
    PROVE  IsWork(u) /\ Alike(r, u) /\ u.parent = r.parent
  BY DEF IsWork, Alike

LEMMA WorkDenied ==
    ASSUME NEW r, IsWork(r), NEW x, NEW u, u = [r EXCEPT !.denied = x]
    PROVE  IsWork(u) /\ Alike(r, u) /\ u.parent = r.parent
  BY DEF IsWork, Alike

LEMMA WorkIndexed ==
    ASSUME NEW r, IsWork(r), NEW x, NEW u, u = [r EXCEPT !.index = x]
    PROVE  IsWork(u) /\ Alike(r, u) /\ u.parent = r.parent
  BY DEF IsWork, Alike

LEMMA WorkLinked ==
    ASSUME NEW r, IsWork(r), NEW x, NEW u, u = [r EXCEPT !.parent = x]
    PROVE  IsWork(u) /\ Alike(r, u) /\ u.parent = x
  BY DEF IsWork, Alike

LEMMA WorkMoved ==
    ASSUME NEW r, IsWork(r), NEW x, NEW u, u = [r EXCEPT !.at = x]
    PROVE  IsWork(u) /\ u.at = x /\ u.s = r.s
           /\ u.parent = r.parent /\ u.plan = r.plan /\ u.prior = r.prior /\ u.todo = r.todo
  BY DEF IsWork, Alike

LEMMA WorkPlanned ==
    ASSUME NEW r, IsWork(r), NEW x, NEW u, u = [r EXCEPT !.plan = x]
    PROVE  IsWork(u) /\ u.plan = x /\ u.at = r.at /\ u.s = r.s
           /\ u.parent = r.parent /\ u.prior = r.prior /\ u.todo = r.todo
  BY DEF IsWork

LEMMA WorkToDo ==
    ASSUME NEW r, IsWork(r), NEW x, NEW u, u = [r EXCEPT !.todo = x]
    PROVE  IsWork(u) /\ u.todo = x /\ u.at = r.at /\ u.s = r.s
           /\ u.parent = r.parent /\ u.prior = r.prior /\ u.plan = r.plan
  BY DEF IsWork

LEMMA WorkSettled ==
    ASSUME NEW r, IsWork(r), NEW x, NEW u, u = [r EXCEPT !.out = x]
    PROVE  IsWork(u) /\ u.todo = r.todo /\ u.at = r.at /\ u.s = r.s
           /\ u.parent = r.parent /\ u.prior = r.prior /\ u.plan = r.plan
  BY DEF IsWork

-----------------------------------------------------------------------------
LEMMA InitInv == Init => ChainInv
<1>. SUFFICES ASSUME Init PROVE ChainInv
  OBVIOUS
<1>1. IsSeq(db) /\ DOMAIN db = {}
  BY SeqPair DEF Init
<1>2. \A p \in Procs : proc[p].at = "idle"
  BY DEF Init, Idle
<1>3. proc = [p \in Procs |-> proc[p]]
  BY DEF Init
<1>. QED
  BY <1>1, <1>2, <1>3
  DEF ChainInv, ChainTyped, OneWriter, Open, Busy, ProcInv, RowsFollowPlan, Recovers

(* Nothing is written to the sessions.                                     *)
LEMMA CancelInv ==
    ASSUME ChainInv, NEW p \in Procs, Cancel(p) \/ TurnDenied(p) PROVE ChainInv'
<1>1. /\ ChainTyped /\ IsSeq(db) /\ db' = db /\ IsWork(proc[p]) /\ proc[p].at \in Busy
      /\ proc[p].s \in DOMAIN db /\ proc[p].parent \in {0} \cup DOMAIN db
      /\ \A s \in DOMAIN db : IsSession(db[s])
  BY DEF ChainInv, ChainTyped, Cancel, TurnDenied
<1>2. PICK rec : /\ proc' = [proc EXCEPT ![p] = rec]
                 /\ IsWork(rec) /\ Alike(proc[p], rec) /\ rec.parent = proc[p].parent
  <2>1. PICK yes : yes = TRUE
    OBVIOUS
  <2>2. \/ proc' = [proc EXCEPT ![p] = [proc[p] EXCEPT !.cancelled = yes]]
        \/ proc' = [proc EXCEPT ![p] = [proc[p] EXCEPT !.denied = yes]]
    BY <2>1 DEF Cancel, TurnDenied
  <2>3. PICK cut, refused : /\ cut = [proc[p] EXCEPT !.cancelled = yes]
                            /\ refused = [proc[p] EXCEPT !.denied = yes]
    OBVIOUS
  <2>4. /\ IsWork(cut) /\ Alike(proc[p], cut) /\ cut.parent = proc[p].parent
        /\ IsWork(refused) /\ Alike(proc[p], refused) /\ refused.parent = proc[p].parent
    BY <1>1, <2>3, WorkCancelled, WorkDenied
  <2>. QED
    BY <2>2, <2>3, <2>4
<1>3. ChainTyped' /\ proc'[p] = rec /\ \A q \in Procs \ {p} : proc'[q] = proc[q]
  BY <1>1, <1>2, TypedStep DEF Alike
<1>. QED
  BY <1>1, <1>2, <1>3, QuietStep DEF Same, Alike

LEMMA IndexInv ==
    ASSUME ChainInv, NEW p \in Procs,
           TouchLoad(p) \/ TouchSave(p) \/ ThreadLoad(p) \/ ThreadSave(p) \/ Return(p)
    PROVE  ChainInv'
<1>1. ChainTyped /\ db' = db /\ IsSeq(db) /\ \A s \in DOMAIN db : IsSession(db[s])
  BY DEF ChainInv, ChainTyped, TouchLoad, TouchSave, ThreadLoad, ThreadSave, Return
<1>2. CASE TouchLoad(p) \/ TouchSave(p)
  <2>1. /\ IsWork(proc[p]) /\ proc[p].at \in {"touch", "save"}
        /\ proc[p].s \in DOMAIN db /\ proc[p].parent \in {0} \cup DOMAIN db
    BY <1>1, <1>2 DEF ChainTyped, TouchLoad, TouchSave
  <2>2. PICK place, x :
          /\ place \in {"save", "chain"}
          /\ proc' = [proc EXCEPT ![p].at = place, ![p].index = x]
    BY <1>2 DEF TouchLoad, TouchSave
  <2>3. PICK moved : moved = [proc[p] EXCEPT !.at = place]
    OBVIOUS
  <2>4. IsWork(moved) /\ moved.at = place /\ moved.s = proc[p].s /\ moved.parent = proc[p].parent
    BY <2>1, <2>3, WorkMoved
  <2>5. PICK rec : rec = [moved EXCEPT !.index = x]
    OBVIOUS
  <2>6. IsWork(rec) /\ rec.at = place /\ rec.s = proc[p].s /\ rec.parent = proc[p].parent
        /\ place \in {"save", "chain"}
    BY <2>2, <2>4, <2>5, WorkIndexed DEF Alike
  <2>7. proc' = [proc EXCEPT ![p] = rec]
    BY <2>2, <2>3, <2>5
  <2>8. ChainTyped' /\ proc'[p] = rec /\ \A q \in Procs \ {p} : proc'[q] = proc[q]
    BY <1>1, <2>1, <2>6, <2>7, TypedStep DEF Busy
  <2>. QED
    BY <1>1, <2>1, <2>6, <2>8, QuietStep DEF Same, Busy
<1>3. CASE ThreadLoad(p) \/ ThreadSave(p) \/ Return(p)
  <2>1. PICK rec : proc' = [proc EXCEPT ![p] = rec] /\ rec.at \in {"idle", "switch"}
    BY <1>3 DEF ThreadLoad, ThreadSave, Return, Idle
  <2>2. ChainTyped' /\ proc'[p] = rec /\ \A q \in Procs \ {p} : proc'[q] = proc[q]
    BY <1>1, <2>1, TypedStep
  <2>. QED
    BY <1>1, <2>1, <2>2, QuietStep DEF Same
<1>. QED
  BY <1>2, <1>3

LEMMA LinkEndsInv ==
    ASSUME ChainInv, NEW p \in Procs, LinkEnds(p) PROVE ChainInv'
<1>1. /\ ChainTyped /\ IsSeq(db) /\ \A s \in DOMAIN db : IsSession(db[s])
      /\ IsWork(proc[p]) /\ proc[p].at = "chain" /\ proc[p].s \in DOMAIN db
      /\ proc[p].parent \in DOMAIN db
  BY DEF ChainInv, ChainTyped, LinkEnds
<1>2. PICK rec : rec = [proc[p] EXCEPT !.parent = 0]
  OBVIOUS
<1>3. IsWork(rec) /\ rec.at = "chain" /\ rec.s = proc[p].s /\ rec.parent = 0
  BY <1>1, <1>2, WorkLinked DEF Alike
<1>4. PICK k, status : k = proc[p].parent /\ status = db[proc[p].s].status
  OBVIOUS
<1>5. PICK told : told = [db[k] EXCEPT !.told = status]
  OBVIOUS
<1>6. db' = [db EXCEPT ![k] = told] /\ proc' = [proc EXCEPT ![p] = rec]
  BY <1>2, <1>4, <1>5 DEF LinkEnds, Told, Sess
<1>7. /\ IsSeq(db') /\ DOMAIN db' = DOMAIN db
      /\ \A s \in DOMAIN db : db'[s] = IF s = k THEN told ELSE db[s]
  BY <1>1, <1>6, SeqUpdated
<1>8. IsSession(told) /\ IsSession(db[k])
  BY <1>1, <1>4, <1>5, SessionTold
<1>9. \A s \in DOMAIN db : Same(s) /\ IsSession(db'[s])
  <2>1. /\ told.kind = db[k].kind /\ told.from = db[k].from /\ told.status = db[k].status
        /\ told.rows = db[k].rows /\ told.answer = db[k].answer /\ told.over = db[k].over
        /\ told.afterEnd = db[k].afterEnd
    BY <1>5, <1>8, SessionTold
  <2>. QED
    BY <1>1, <1>7, <1>8, <2>1 DEF Same
<1>10. ChainTyped' /\ proc'[p] = rec /\ \A q \in Procs \ {p} : proc'[q] = proc[q]
  BY <1>1, <1>3, <1>6, <1>7, <1>9, TypedStep DEF Busy
<1>. QED
  BY <1>1, <1>3, <1>7, <1>9, <1>10, QuietStep DEF Busy

-----------------------------------------------------------------------------
(* The planner's answer becomes the plan.                                  *)
LEMMA PlannedInv ==
    ASSUME ChainInv, DistinctIds, NEW p \in Procs, Planned(p) PROVE ChainInv'
<1>1. /\ ChainTyped /\ db' = db /\ IsSeq(db) /\ \A s \in DOMAIN db : IsSession(db[s])
      /\ IsWork(proc[p]) /\ proc[p].at = "plan"
      /\ proc[p].s \in DOMAIN db /\ proc[p].parent \in {0} \cup DOMAIN db
      /\ ProcInv(p)
  BY DEF ChainInv, ChainTyped, Planned
<1>2. PICK plan \in Plans :
        proc' = [proc EXCEPT ![p].at = "work", ![p].plan = plan, ![p].todo = DOMAIN plan]
  BY DEF Planned
<1>3. PICK s, one : s = proc[p].s /\ one = [proc[p] EXCEPT !.at = "work"]
  OBVIOUS
<1>4. IsWork(one) /\ one.at = "work" /\ one.s = s /\ one.parent = proc[p].parent
  BY <1>1, <1>3, WorkMoved
<1>5. PICK two : two = [one EXCEPT !.plan = plan]
  OBVIOUS
<1>6. IsWork(two) /\ two.plan = plan /\ two.at = "work" /\ two.s = s /\ two.parent = proc[p].parent
  BY <1>4, <1>5, WorkPlanned
<1>7. PICK rec : rec = [two EXCEPT !.todo = DOMAIN plan]
  OBVIOUS
<1>8. /\ IsWork(rec) /\ rec.plan = plan /\ rec.todo = DOMAIN plan /\ rec.at = "work"
      /\ rec.s = s /\ rec.parent = proc[p].parent
  BY <1>6, <1>7, WorkToDo
<1>9. proc' = [proc EXCEPT ![p] = rec]
  BY <1>2, <1>3, <1>5, <1>7
<1>10. ChainTyped' /\ proc'[p] = rec /\ \A q \in Procs \ {p} : proc'[q] = proc[q]
  BY <1>1, <1>3, <1>8, <1>9, TypedStep DEF Busy
<1>11. \A x \in DOMAIN db : Same(x) /\ SessionInv(x)'
  <2>1. \A x \in DOMAIN db : Same(x)
    BY <1>1 DEF Same
  <2>2. \A x \in DOMAIN db \ {} : SessionInv(x)'
    BY <1>1, <2>1, OtherSessions
  <2>. QED
    BY <2>1, <2>2
<1>12. ProcInv(p)'
  <2>1. /\ db[s].from = 0 /\ db[s].kind = "run" /\ RowIds(s) = {}
    BY <1>1, <1>3 DEF ProcInv, RowsFollowPlan
  <2>2. RowIds(s)' = {}
    BY <1>1, <2>1 DEF RowIds
  <2>3. DOMAIN plan \subseteq Nat /\ \A i, j \in DOMAIN plan : plan[i].id = plan[j].id => i = j
    BY ChainAssumption DEF DistinctIds
  <2>4. RowsFollowPlan(p)'
    BY <1>1, <1>8, <1>10, <2>1, <2>2, <2>3 DEF RowsFollowPlan
  <2>5. Recovers(p)'
    BY <1>1, <1>8, <1>10, <2>1 DEF Recovers
  <2>. QED
    BY <2>4, <2>5 DEF ProcInv
<1>13. WritesNow(p)' /\ proc'[p].s \in Own(p) /\ Open(p)'
  <2>1. Open(p) /\ db[s].over = FALSE /\ db[s].status = "running"
    BY <1>1, <1>3 DEF ChainInv, OneWriter, Open
  <2>. QED
    BY <1>1, <1>3, <1>8, <1>10, <2>1 DEF WritesNow, Open, Own
<1>. QED
  BY <1>1, <1>10, <1>11, <1>12, <1>13, StepKeeps

(* A process starts a session.                                             *)
LEMMA StartsSession ==
    ASSUME ChainInv, NEW p \in Procs, ~Open(p), NEW new,
           IsSeq(db'), DOMAIN db' = DOMAIN db \cup {new}, new \notin DOMAIN db,
           \A s \in DOMAIN db : Same(s) /\ IsSession(db'[s]),
           IsSession(db'[new]), db'[new].over = FALSE, db'[new].status = "running",
           NEW rec, proc' = [proc EXCEPT ![p] = rec], IsWork(rec), rec.s = new,
           rec.at \in {"plan", "work", "turn"}, rec.parent \in {0} \cup DOMAIN db,
           proc'[p] = rec => ProcInv(p)', SessionInv(new)'
    PROVE  ChainInv'
<1>1. ChainTyped' /\ proc'[p] = rec /\ \A q \in Procs \ {p} : proc'[q] = proc[q]
  BY TypedStep DEF ChainInv, Busy
<1>2. WritesNow(p)' /\ Open(p)'
  BY <1>1 DEF WritesNow, Open
<1>3. Own(p) = {}
  BY DEF Own
<1>4. \A s \in DOMAIN db' \ (DOMAIN db \ Own(p)) : SessionInv(s)'
  BY <1>3
<1>. QED
  BY <1>1, <1>2, <1>3, <1>4, StepKeeps

LEMMA FreshSession ==
    ASSUME NEW s, s \in DOMAIN db', db'[s].rows = <<>>, db'[s].from = 0
    PROVE  SessionInv(s)' /\ RowIds(s)' = {}
  BY SeqPair DEF SessionInv, DistinctRows, Whole, Reentered, RowIds

LEMMA BeginInv ==
    ASSUME ChainInv, NEW p \in Procs, Begin(p) PROVE ChainInv'
<1>1. ChainTyped /\ IsSeq(db) /\ (\A s \in DOMAIN db : IsSession(db[s])) /\ ~Open(p)
  BY DEF ChainInv, ChainTyped, Begin, Open, Idle
<1>2. PICK new, fresh : new = Newest /\ fresh = NewSession("run", 0)
  OBVIOUS
<1>3. /\ IsSeq(db') /\ DOMAIN db' = DOMAIN db \cup {new} /\ new \notin DOMAIN db
      /\ \A s \in DOMAIN db : db'[s] = db[s]
      /\ db'[new] = fresh
  BY <1>1, <1>2, SeqAppended DEF Begin, Newest
<1>4. /\ IsSession(fresh) /\ fresh.rows = <<>> /\ fresh.from = 0 /\ fresh.kind = "run"
      /\ fresh.over = FALSE /\ fresh.status = "running"
  BY <1>2, SeqPair DEF NewSession, IsSession, IsRows
<1>5. PICK mode : proc' = [proc EXCEPT ![p] = Working("plan", new, mode)]
  BY <1>2 DEF Begin
<1>6. PICK rec : rec = Working("plan", new, mode)
  OBVIOUS
<1>7. /\ IsWork(rec) /\ rec.s = new /\ rec.at = "plan" /\ rec.parent = 0
      /\ rec.plan = <<>> /\ rec.todo = {}
  BY <1>6 DEF Working, IsWork
<1>8. SessionInv(new)' /\ RowIds(new)' = {}
  BY <1>3, <1>4, FreshSession
<1>9. ASSUME proc'[p] = rec PROVE ProcInv(p)'
  BY <1>3, <1>4, <1>7, <1>8, <1>9, SeqPair DEF ProcInv, RowsFollowPlan, Recovers
<1>10. \A s \in DOMAIN db : Same(s) /\ IsSession(db'[s])
  BY <1>1, <1>3 DEF Same
<1>. QED
  BY <1>1, <1>3, <1>4, <1>5, <1>6, <1>7, <1>8, <1>9, <1>10, StartsSession

LEMMA HandOffInv ==
    ASSUME ChainInv, NEW p \in Procs, HandOff(p) PROVE ChainInv'
<1>1. /\ ChainTyped /\ IsSeq(db) /\ (\A s \in DOMAIN db : IsSession(db[s])) /\ ~Open(p)
      /\ proc[p].s \in DOMAIN db
  BY DEF ChainInv, ChainTyped, HandOff, Open
<1>2. PICK new, fresh, k : new = Newest /\ fresh = NewSession("run", 0) /\ k = proc[p].s
  OBVIOUS
<1>3. PICK told : told = [db[k] EXCEPT !.told = "started"]
  OBVIOUS
<1>4. PICK old : old = [db EXCEPT ![k] = told]
  OBVIOUS
<1>5. db' = Append(old, fresh)
  <2>1. PICK y : y = [db EXCEPT ![proc[p].s].told = "started"]
    OBVIOUS
  <2>2. db' = Append(y, NewSession("run", 0))
    BY <2>1 DEF HandOff
  <2>3. old = y
    BY <1>2, <1>3, <1>4, <2>1
  <2>. QED
    BY <1>2, <2>2, <2>3
<1>6. /\ IsSeq(old) /\ Len(old) = Len(db) /\ DOMAIN old = DOMAIN db
      /\ \A s \in DOMAIN db : old[s] = IF s = k THEN told ELSE db[s]
  BY <1>1, <1>4, SeqUpdated
<1>7. /\ IsSeq(db') /\ DOMAIN db' = DOMAIN db \cup {new} /\ new \notin DOMAIN db
      /\ \A s \in DOMAIN db : db'[s] = old[s]
      /\ db'[new] = fresh
  BY <1>2, <1>5, <1>6, SeqAppended DEF Newest
<1>8. /\ IsSession(fresh) /\ fresh.rows = <<>> /\ fresh.from = 0 /\ fresh.kind = "run"
      /\ fresh.over = FALSE /\ fresh.status = "running"
  BY <1>2, SeqPair DEF NewSession, IsSession, IsRows
<1>9. \A s \in DOMAIN db : Same(s) /\ IsSession(db'[s])
  <2>1. /\ IsSession(told) /\ told.kind = db[k].kind /\ told.from = db[k].from
        /\ told.status = db[k].status /\ told.rows = db[k].rows /\ told.answer = db[k].answer
        /\ told.over = db[k].over /\ told.afterEnd = db[k].afterEnd
    BY <1>1, <1>2, <1>3, SessionTold
  <2>. QED
    BY <1>1, <1>6, <1>7, <2>1 DEF Same
<1>10. PICK rec : rec = [Working("plan", new, Modes[proc[p].mode]) EXCEPT
                           !.depth = proc[p].depth + 1, !.parent = k]
  OBVIOUS
<1>11. proc' = [proc EXCEPT ![p] = rec]
  BY <1>2, <1>10 DEF HandOff
<1>12. /\ IsWork(rec) /\ rec.s = new /\ rec.at = "plan" /\ rec.parent = k
       /\ rec.plan = <<>> /\ rec.todo = {}
  BY <1>10 DEF Working, IsWork
<1>13. SessionInv(new)' /\ RowIds(new)' = {}
  BY <1>7, <1>8, FreshSession
<1>14. ASSUME proc'[p] = rec PROVE ProcInv(p)'
  BY <1>7, <1>8, <1>12, <1>13, <1>14, SeqPair DEF ProcInv, RowsFollowPlan, Recovers
<1>. QED
  BY <1>1, <1>2, <1>7, <1>8, <1>9, <1>11, <1>12, <1>13, <1>14, StartsSession

(* A turn that follows a session has one row, and is no re-entry.          *)
LEMMA FollowInv ==
    ASSUME ChainInv, NEW p \in Procs, NEW f \in DOMAIN db, Follow(p, f) PROVE ChainInv'
<1>1. ChainTyped /\ IsSeq(db) /\ (\A s \in DOMAIN db : IsSession(db[s])) /\ ~Open(p)
  BY DEF ChainInv, ChainTyped, Follow, Open, Idle
<1>2. PICK new, row : new = Newest /\ row = [Pending(TaskOf(Turn, {}), TRUE) EXCEPT !.st = "running"]
  OBVIOUS
<1>3. PICK fresh : fresh = [NewSession("turn", f) EXCEPT !.rows = <<row>>]
  OBVIOUS
<1>4. /\ IsSeq(db') /\ DOMAIN db' = DOMAIN db \cup {new} /\ new \notin DOMAIN db
      /\ \A s \in DOMAIN db : db'[s] = db[s]
      /\ db'[new] = fresh
  <2>1. db' = Append(db, fresh)
    BY <1>2, <1>3 DEF Follow
  <2>. QED
    BY <1>1, <1>2, <2>1, SeqAppended DEF Newest
<1>5. IsRow(row) /\ IsSeq(<<row>>) /\ DOMAIN <<row>> = {1} /\ <<row>>[1] = row
  BY <1>2, SeqPair DEF IsRow, Pending, TaskOf
<1>6. /\ fresh = [NewSession("turn", f) EXCEPT !.rows = <<row>>]
      /\ fresh.rows = <<row>> /\ fresh.from = f /\ fresh.kind = "turn"
      /\ fresh.over = FALSE /\ fresh.status = "running"
  BY <1>3 DEF NewSession
<1>7. IsSession(fresh)
  <2>1. /\ fresh.rows = <<row>>
        /\ fresh = [kind |-> fresh.kind, from |-> fresh.from, status |-> fresh.status,
                    rows |-> fresh.rows, answer |-> fresh.answer, told |-> fresh.told,
                    over |-> fresh.over, afterEnd |-> fresh.afterEnd]
    BY <1>3 DEF NewSession
  <2>. QED
    BY <1>5, <2>1 DEF IsSession, IsRows
<1>8. SessionInv(new)'
  <2>1. DistinctRows(new)'
    <3>1. db'[new].rows = <<row>>
      BY <1>4, <1>6
    <3>. QED
      BY <1>5, <3>1 DEF DistinctRows
  <2>2. new \notin Reentered'
    BY <1>4, <1>6 DEF Reentered
  <2>3. db'[new].from \in {0} \cup DOMAIN db'
    BY <1>4, <1>6
  <2>. QED
    BY <2>1, <2>2, <2>3 DEF SessionInv, Whole
<1>9. PICK mode : proc' = [proc EXCEPT ![p] = Working("turn", new, mode)]
  BY <1>2 DEF Follow
<1>10. PICK rec : rec = Working("turn", new, mode)
  OBVIOUS
<1>11. IsWork(rec) /\ rec.s = new /\ rec.at = "turn" /\ rec.parent = 0
  BY <1>10 DEF Working, IsWork
<1>12. ASSUME proc'[p] = rec PROVE ProcInv(p)'
  BY <1>4, <1>5, <1>6, <1>11, <1>12 DEF ProcInv, RowsFollowPlan, Recovers
<1>13. \A s \in DOMAIN db : Same(s) /\ IsSession(db'[s])
  BY <1>1, <1>4 DEF Same
<1>. QED
  BY <1>1, <1>4, <1>6, <1>7, <1>8, <1>9, <1>10, <1>11, <1>12, <1>13, StartsSession

(* A re-entry starts with the rows of a session that nobody writes.        *)
LEMMA RecoveredRows ==
    ASSUME NEW rows, NEW r, r = Recovered(rows),
           \A i, j \in DOMAIN rows : rows[i].id = rows[j].id => i = j
    PROVE  /\ DOMAIN r.rerun \subseteq DOMAIN rows
           /\ \A i \in DOMAIN r.rerun : r.rerun[i].id = rows[i].id
           /\ \A i \in DOMAIN rows :
                 /\ Finished(rows[i]) =>
                      /\ \A k \in DOMAIN r.rerun : r.rerun[k].id # rows[i].id
                      /\ [id |-> rows[i].id, ok |-> TRUE] \in r.prior
                 /\ \/ \E k \in DOMAIN r.rerun : r.rerun[k].id = rows[i].id
                    \/ \E o \in r.prior : o.id = rows[i].id
<1>. DEFINE again == {i \in DOMAIN rows : ~Finished(rows[i]) /\ rows[i].saved}
<1>1. /\ r.prior = {[id |-> rows[i].id, ok |-> Finished(rows[i])] : i \in DOMAIN rows \ again}
      /\ r.rerun = [i \in again |-> Again(rows[i])]
  BY DEF Recovered
<1>2. DOMAIN r.rerun = again /\ \A i \in again : r.rerun[i].id = rows[i].id
  BY <1>1 DEF Again
<1>3. ASSUME NEW i \in DOMAIN rows, Finished(rows[i])
      PROVE  /\ \A k \in DOMAIN r.rerun : r.rerun[k].id # rows[i].id
             /\ [id |-> rows[i].id, ok |-> TRUE] \in r.prior
  <2>1. i \notin again
    BY <1>3
  <2>2. [id |-> rows[i].id, ok |-> Finished(rows[i])] \in r.prior
    BY <1>1, <2>1
  <2>3. (Finished(rows[i])) = TRUE
    BY <1>3 DEF Finished
  <2>. QED
    BY <1>2, <2>1, <2>2, <2>3
<1>4. ASSUME NEW i \in DOMAIN rows, i \notin again
      PROVE  \E o \in r.prior : o.id = rows[i].id
  <2>1. PICK o : o = [id |-> rows[i].id, ok |-> Finished(rows[i])]
    OBVIOUS
  <2>2. o \in r.prior
    BY <1>1, <1>4, <2>1
  <2>3. o.id = rows[i].id
    BY <2>1
  <2>. QED
    BY <2>2, <2>3
<1>. QED
  BY <1>2, <1>3, <1>4

LEMMA ReenterInv ==
    ASSUME ChainInv, NEW p \in Procs, NEW f \in DOMAIN db, Reenter(p, f) PROVE ChainInv'
<1>1. /\ ChainTyped /\ IsSeq(db) /\ (\A s \in DOMAIN db : IsSession(db[s])) /\ ~Open(p)
      /\ DistinctRows(f)
  BY DEF ChainInv, ChainTyped, Reenter, Open, Idle, SessionInv
<1>2. PICK new, r, rows : new = Newest /\ rows = db[f].rows /\ r = Recovered(rows)
  OBVIOUS
<1>3. PICK fresh : fresh = [NewSession("run", f) EXCEPT !.afterEnd = db[f].over]
  OBVIOUS
<1>4. /\ IsSeq(db') /\ DOMAIN db' = DOMAIN db \cup {new} /\ new \notin DOMAIN db
      /\ \A s \in DOMAIN db : db'[s] = db[s]
      /\ db'[new] = fresh
  <2>1. db' = Append(db, fresh)
    BY <1>3 DEF Reenter
  <2>. QED
    BY <1>1, <1>2, <2>1, SeqAppended DEF Newest
<1>5. /\ fresh.rows = <<>> /\ fresh.from = f /\ fresh.kind = "run" /\ fresh.over = FALSE
      /\ fresh.status = "running" /\ fresh.afterEnd = db[f].over
  BY <1>3 DEF NewSession
<1>6. IsSession(fresh)
  <2>1. PICK over : over = db[f].over
    OBVIOUS
  <2>2. fresh = [kind |-> fresh.kind, from |-> fresh.from, status |-> fresh.status,
                 rows |-> fresh.rows, answer |-> fresh.answer, told |-> fresh.told,
                 over |-> fresh.over, afterEnd |-> fresh.afterEnd]
    BY <1>3, <2>1 DEF NewSession
  <2>. QED
    BY <1>5, <2>2, SeqPair DEF IsSession, IsRows
<1>7. SessionInv(new)' /\ RowIds(new)' = {}
  <2>1. DistinctRows(new)' /\ RowIds(new)' = {} /\ \A id : ~HasRow(new, id)'
    BY <1>4, <1>5, SeqPair DEF DistinctRows, RowIds, HasRow
  <2>2. ~Clean(new)'
    BY <1>4, <1>5 DEF Clean
  <2>3. new \in Reentered' => db'[db'[new].from].over = TRUE
    BY <1>4, <1>5 DEF Reentered
  <2>4. db'[new].from \in {0} \cup DOMAIN db'
    BY <1>4, <1>5
  <2>. QED
    BY <2>1, <2>2, <2>3, <2>4 DEF SessionInv, Whole
<1>8. PICK mode : proc' = [proc EXCEPT ![p] = [Working("work", new, mode) EXCEPT
                             !.plan = r.rerun, !.todo = DOMAIN r.rerun, !.prior = r.prior]]
  BY <1>2 DEF Reenter
<1>9. PICK rec : rec = [Working("work", new, mode) EXCEPT
                          !.plan = r.rerun, !.todo = DOMAIN r.rerun, !.prior = r.prior]
  OBVIOUS
<1>10. /\ IsWork(rec) /\ rec.s = new /\ rec.at = "work" /\ rec.parent = 0
       /\ rec.plan = r.rerun /\ rec.todo = DOMAIN r.rerun /\ rec.prior = r.prior
  BY <1>9 DEF Working, IsWork
<1>11. ASSUME proc'[p] = rec PROVE ProcInv(p)'
  <2>1. \A i, j \in DOMAIN rows : rows[i].id = rows[j].id => i = j
    BY <1>1, <1>2 DEF DistinctRows
  <2>2. /\ DOMAIN r.rerun \subseteq DOMAIN rows
        /\ \A i \in DOMAIN r.rerun : r.rerun[i].id = rows[i].id
        /\ \A i \in DOMAIN rows :
              /\ Finished(rows[i]) =>
                   /\ \A k \in DOMAIN r.rerun : r.rerun[k].id # rows[i].id
                   /\ [id |-> rows[i].id, ok |-> TRUE] \in r.prior
              /\ \/ \E k \in DOMAIN r.rerun : r.rerun[k].id = rows[i].id
                 \/ \E o \in r.prior : o.id = rows[i].id
    BY <1>2, <2>1, RecoveredRows
  <2>3. DOMAIN rows \subseteq Nat
    BY <1>1, <1>2, SeqDomain DEF IsSession, IsRows
  <2>4. RowsFollowPlan(p)'
    BY <1>4, <1>5, <1>7, <1>10, <1>11, <2>1, <2>2, <2>3 DEF RowsFollowPlan
  <2>5. Recovers(p)'
    <3>1. db'[new].from = f /\ db'[f].rows = rows
      BY <1>2, <1>4, <1>5
    <3>2. Ids(p)' = {r.rerun[k].id : k \in DOMAIN r.rerun}
      BY <1>10, <1>11 DEF Ids
    <3>3. Accounted(rows, Ids(p)', r.prior)
      <4>1. PICK ids, prior : ids = Ids(p)' /\ prior = r.prior
        OBVIOUS
      <4>2. \A i \in DOMAIN rows :
              /\ Finished(rows[i]) =>
                   rows[i].id \notin ids /\ [id |-> rows[i].id, ok |-> TRUE] \in prior
              /\ rows[i].id \in ids \/ \E o \in prior : o.id = rows[i].id
        BY <2>2, <3>2, <4>1, Zenon
      <4>. QED
        BY <4>1, <4>2, Zenon DEF Accounted
    <3>. QED
      BY <1>10, <1>11, <3>1, <3>3 DEF Recovers
  <2>. QED
    BY <2>4, <2>5 DEF ProcInv
<1>12. \A s \in DOMAIN db : Same(s) /\ IsSession(db'[s])
  BY <1>1, <1>4 DEF Same
<1>. QED
  BY <1>1, <1>4, <1>5, <1>6, <1>7, <1>8, <1>9, <1>10, <1>11, <1>12, StartsSession

-----------------------------------------------------------------------------
LEMMA MinIsMember == ASSUME NEW S \in SUBSET Nat, S # {} PROVE Min(S) \in S
<1>. DEFINE Less == OpToRel(<, Nat)
<1>1. \A m, n \in Nat : m < n => <<m, n>> \in Less
  BY DEF OpToRel
<1>2. IsWellFoundedOn(Less, Nat)
  BY NatLessThanWellFounded, Zenon DEF OpToRel
<1>. HIDE DEF Less
<1>3. PICK m \in S : \A n \in S : ~(<<n, m>> \in Less)
  BY <1>2, WFMin
<1>4. \A n \in S : m <= n
  <2>1. \A n \in S : n \in Nat /\ m \in Nat /\ ~(n < m)
    BY <1>1, <1>3
  <2>. QED
    BY <2>1
<1>. QED
  BY <1>4, Zenon DEF Min

(* A run writes rows of its own session: tasks of its plan stay what they  *)
(* are, so a re-entry asks for none that was finished.                     *)
LEMMA WritesRows ==
    ASSUME ChainInv, ChainTyped', NEW p \in Procs, proc[p].at = "work", DOMAIN db' = DOMAIN db,
           \A q \in Procs \ {p} : proc'[q] = proc[q],
           NEW s, s = proc[p].s, \A x \in DOMAIN db \ {s} : Same(x),
           db'[s].kind = db[s].kind, db'[s].from = db[s].from, db'[s].over = db[s].over,
           db'[s].status = db[s].status, db'[s].afterEnd = db[s].afterEnd,
           proc'[p].at = "work", proc'[p].s = s, proc'[p].plan = proc[p].plan,
           proc'[p].prior = proc[p].prior,
           RowsFollowPlan(p)', DistinctRows(s)'
    PROVE  ChainInv'
<1>1. /\ Own(p) = {s} /\ Open(p) /\ Open(p)' /\ s \in DOMAIN db /\ ProcInv(p) /\ SessionInv(s)
      /\ db[s].status = "running" /\ db[s].over = FALSE
  BY DEF Own, Open, ChainInv, ChainTyped, Busy, OneWriter
<1>2. Ids(p)' = Ids(p)
  BY DEF Ids
<1>3. RowIds(s)' \subseteq Ids(p)
  BY <1>2 DEF RowsFollowPlan, Ids
<1>4. ASSUME db[s].from # 0, db[s].afterEnd
      PROVE  /\ db[s].from \in DOMAIN db /\ db[s].from # s /\ Same(db[s].from)
             /\ db[db[s].from].over = TRUE
  <2>1. s \in Reentered
    BY <1>1, <1>4 DEF Reentered, ProcInv, RowsFollowPlan
  <2>. QED
    BY <1>1, <2>1, OwnNotOver DEF SessionInv
<1>5. Recovers(p)'
  <2>1. PICK f : f = db[s].from
    OBVIOUS
  <2>2. ASSUME f # 0, db[s].afterEnd
        PROVE  Accounted(db'[f].rows, Ids(p)', proc'[p].prior)
    <3>1. db'[f].rows = db[f].rows
      BY <1>4, <2>1, <2>2 DEF Same
    <3>2. Accounted(db[f].rows, Ids(p), proc[p].prior)
      BY <1>1, <2>1, <2>2 DEF ProcInv, Recovers
    <3>. QED
      BY <1>2, <3>1, <3>2
  <2>3. db'[proc'[p].s].from = f /\ db'[proc'[p].s].afterEnd = db[s].afterEnd
    BY <2>1
  <2>. QED
    BY <2>2, <2>3, Zenon DEF Recovers
<1>6. Whole(s)'
  <2>1. ~Clean(s)'
    BY <1>1 DEF Clean
  <2>2. \A id : HasRow(s, id)' => id \in Ids(p)
    BY <1>3 DEF HasRow, RowIds
  <2>3. ASSUME s \in Reentered' PROVE Whole(s)'
    <3>1. PICK rows, ids, prior :
            rows = db'[db'[s].from].rows /\ ids = Ids(p) /\ prior = proc'[p].prior
      OBVIOUS
    <3>2. Accounted(rows, ids, prior)
      BY <1>2, <1>5, <2>3, <3>1 DEF Recovers, Reentered
    <3>3. \A i \in DOMAIN rows : Finished(rows[i]) => rows[i].id \notin ids
      BY <3>2, Zenon DEF Accounted
    <3>4. \A i \in DOMAIN rows : Finished(rows[i]) => ~HasRow(s, rows[i].id)'
      BY <2>2, <3>1, <3>3, Zenon
    <3>. QED
      BY <2>1, <3>1, <3>4, Zenon DEF Whole
  <2>. QED
    BY <2>3, Zenon DEF Whole
<1>7. SessionInv(s)'
  <2>1. s \in Reentered' => db'[db'[s].from].over = TRUE
    BY <1>4 DEF Reentered, Same
  <2>2. db'[s].from \in {0} \cup DOMAIN db'
    BY <1>1 DEF SessionInv
  <2>. QED
    BY <1>6, <2>1, <2>2 DEF SessionInv
<1>8. WritesNow(p)'
  BY <1>1 DEF WritesNow
<1>9. \A x \in DOMAIN db' \ (DOMAIN db \ Own(p)) : SessionInv(x)'
  BY <1>1, <1>7
<1>. QED
  BY <1>1, <1>5, <1>8, <1>9, StepKeeps DEF ProcInv

LEMMA CreateRowInv ==
    ASSUME ChainInv, NEW p \in Procs, CreateRow(p) PROVE ChainInv'
<1>1. PICK s, plan, left, rows :
         s = proc[p].s /\ plan = proc[p].plan /\ left = proc[p].todo /\ rows = db[proc[p].s].rows
  OBVIOUS
<1>2. /\ ChainTyped /\ IsSeq(db) /\ (\A x \in DOMAIN db : IsSession(db[x]))
      /\ IsWork(proc[p]) /\ proc[p].at = "work" /\ s \in DOMAIN db
      /\ proc[p].parent \in {0} \cup DOMAIN db /\ left # {}
      /\ ProcInv(p) /\ DistinctRows(s)
  BY <1>1 DEF ChainInv, ChainTyped, CreateRow, Created, SessionInv
<1>3. /\ left \subseteq DOMAIN plan /\ DOMAIN plan \subseteq Nat /\ db[s].kind = "run"
      /\ \A i, j \in DOMAIN plan : plan[i].id = plan[j].id => i = j
      /\ {rows[i].id : i \in DOMAIN rows} = {plan[k].id : k \in DOMAIN plan \ left}
  <2>1. RowIds(s) = {rows[i].id : i \in DOMAIN rows}
    BY <1>1 DEF RowIds
  <2>2. /\ proc[p].todo \subseteq DOMAIN proc[p].plan /\ DOMAIN proc[p].plan \subseteq Nat
        /\ db[proc[p].s].kind = "run"
        /\ \A i, j \in DOMAIN proc[p].plan : proc[p].plan[i].id = proc[p].plan[j].id => i = j
        /\ RowIds(proc[p].s) = {proc[p].plan[k].id : k \in DOMAIN proc[p].plan \ proc[p].todo}
    BY <1>2 DEF ProcInv, RowsFollowPlan
  <2>3. s = proc[p].s /\ plan = proc[p].plan /\ left = proc[p].todo
    BY <1>1
  <2>4. RowIds(s) = {plan[k].id : k \in DOMAIN plan \ left}
    BY <2>2, <2>3
  <2>5. /\ left \subseteq DOMAIN plan /\ DOMAIN plan \subseteq Nat /\ db[s].kind = "run"
        /\ \A i, j \in DOMAIN plan : plan[i].id = plan[j].id => i = j
    BY <2>2, <2>3
  <2>. QED
    BY <2>1, <2>4, <2>5
<1>4. PICK m : m = Min(left) /\ m \in left /\ m \in DOMAIN plan
  BY <1>2, <1>3, MinIsMember
<1>5. PICK saved : db' = [db EXCEPT ![s].rows = Append(@, Pending(plan[m], saved))]
  BY <1>1, <1>4 DEF CreateRow
<1>6. PICK row, more, ses : /\ row = Pending(plan[m], saved) /\ more = Append(rows, row)
                            /\ ses = [db[s] EXCEPT !.rows = more]
  OBVIOUS
<1>7. IsRow(row) /\ row.id = plan[m].id
  <2>1. PICK kept : kept = saved
    OBVIOUS
  <2>. QED
    BY <1>6 DEF Pending, IsRow
<1>8. IsSeq(rows) /\ \A i \in DOMAIN rows : IsRow(rows[i])
  BY <1>1, <1>2 DEF IsSession, IsRows
<1>9. PICK n : /\ IsSeq(more) /\ DOMAIN more = DOMAIN rows \cup {n} /\ n \notin DOMAIN rows
               /\ \A i \in DOMAIN rows : more[i] = rows[i]
               /\ more[n] = row
  BY <1>6, <1>8, SeqAppended
<1>10. IsRows(more)
  BY <1>7, <1>8, <1>9 DEF IsRows
<1>11. /\ IsSession(ses) /\ ses.kind = db[s].kind /\ ses.from = db[s].from
       /\ ses.status = db[s].status /\ ses.rows = more /\ ses.over = db[s].over
       /\ ses.afterEnd = db[s].afterEnd
  <2>1. IsSession(db[s])
    BY <1>2
  <2>2. ses = [db[s] EXCEPT !.rows = more]
    BY <1>6
  <2>. QED
    BY <1>10, <2>1, <2>2, SessionRows
<1>12. /\ IsSeq(db') /\ DOMAIN db' = DOMAIN db
       /\ \A x \in DOMAIN db : db'[x] = IF x = s THEN ses ELSE db[x]
  <2>1. db' = [db EXCEPT ![s] = ses]
    BY <1>1, <1>5, <1>6
  <2>. QED
    BY <1>2, <2>1, SeqUpdated
<1>13. PICK rec : rec = [proc[p] EXCEPT !.todo = left \ {m}]
  OBVIOUS
<1>14. proc' = [proc EXCEPT ![p] = rec]
  BY <1>1, <1>4, <1>13 DEF CreateRow
<1>15. /\ IsWork(rec) /\ rec.todo = left \ {m} /\ rec.at = "work" /\ rec.s = s
       /\ rec.parent = proc[p].parent /\ rec.prior = proc[p].prior /\ rec.plan = plan
  BY <1>1, <1>2, <1>13, WorkToDo
<1>16. ChainTyped' /\ proc'[p] = rec /\ \A q \in Procs \ {p} : proc'[q] = proc[q]
  <2>1. \A x \in DOMAIN db' : IsSession(db'[x])
    BY <1>2, <1>11, <1>12
  <2>2. rec.at \in Busy /\ rec.s \in DOMAIN db' /\ rec.parent \in {0} \cup DOMAIN db'
    BY <1>2, <1>12, <1>15 DEF Busy
  <2>. QED
    BY <1>2, <1>12, <1>14, <1>15, <2>1, <2>2, TypedStep
<1>17. DistinctRows(s)'
  <2>1. \A i, j \in DOMAIN rows : rows[i].id = rows[j].id => i = j
    BY <1>1, <1>2 DEF DistinctRows
  <2>2. \A i \in DOMAIN rows : rows[i].id # row.id
    BY <1>3, <1>4, <1>7
  <2>3. \A i, j \in DOMAIN more : more[i].id = more[j].id => i = j
    <3>1. ASSUME NEW i \in DOMAIN more, NEW j \in DOMAIN more, more[i].id = more[j].id
          PROVE  i = j
      <4>1. \A k \in DOMAIN more : k = n \/ (k \in DOMAIN rows /\ more[k] = rows[k])
        BY <1>9, Zenon
      <4>2. more[n] = row
        BY <1>9
      <4>. QED
        BY <2>1, <2>2, <3>1, <4>1, <4>2
    <3>. QED
      BY <3>1, Zenon
  <2>. QED
    BY <1>2, <1>11, <1>12, <2>3 DEF DistinctRows
<1>18. RowsFollowPlan(p)'
  <2>1. {more[i].id : i \in DOMAIN more} = {plan[k].id : k \in DOMAIN plan \ (left \ {m})}
    <3>1. {more[i].id : i \in DOMAIN more} = {rows[i].id : i \in DOMAIN rows} \cup {row.id}
      BY <1>9
    <3>2. DOMAIN plan \ (left \ {m}) = (DOMAIN plan \ left) \cup {m}
      BY <1>4
    <3>3. {plan[k].id : k \in (DOMAIN plan \ left) \cup {m}}
            = {plan[k].id : k \in DOMAIN plan \ left} \cup {plan[m].id}
      OBVIOUS
    <3>4. {more[i].id : i \in DOMAIN more}
            = {plan[k].id : k \in DOMAIN plan \ left} \cup {plan[m].id}
      BY <1>3, <1>7, <3>1, Zenon
    <3>. QED
      BY <3>2, <3>3, <3>4, Zenon
  <2>2. RowIds(s)' = {plan[k].id : k \in DOMAIN plan \ (left \ {m})}
    <3>1. db'[s].rows = more
      BY <1>2, <1>11, <1>12
    <3>2. RowIds(s)' = {more[i].id : i \in DOMAIN more}
      BY <3>1, Zenon DEF RowIds
    <3>. QED
      BY <2>1, <3>2
  <2>. QED
    BY <1>2, <1>3, <1>11, <1>12, <1>15, <1>16, <2>2 DEF RowsFollowPlan
<1>19. \A x \in DOMAIN db \ {s} : Same(x)
  BY <1>12 DEF Same
<1>. QED
  BY <1>1, <1>2, <1>11, <1>12, <1>15, <1>16, <1>17, <1>18, <1>19, WritesRows

(* A row gets another status.                                              *)
LEMMA RowSet ==
    ASSUME IsSeq(db), \A x \in DOMAIN db : IsSession(db[x]),
           NEW s \in DOMAIN db, NEW k \in DOMAIN db[s].rows, NEW st,
           db' = [db EXCEPT ![s].rows[k].st = st], DistinctRows(s)
    PROVE  /\ IsSeq(db') /\ DOMAIN db' = DOMAIN db /\ \A x \in DOMAIN db : IsSession(db'[x])
           /\ \A x \in DOMAIN db \ {s} : Same(x)
           /\ db'[s].kind = db[s].kind /\ db'[s].from = db[s].from /\ db'[s].over = db[s].over
           /\ db'[s].status = db[s].status /\ db'[s].afterEnd = db[s].afterEnd
           /\ RowIds(s)' = RowIds(s) /\ DistinctRows(s)'
<1>1. PICK rows, row : rows = db[s].rows /\ row = [rows[k] EXCEPT !.st = st]
  OBVIOUS
<1>2. PICK more : more = [rows EXCEPT ![k] = row]
  OBVIOUS
<1>3. PICK ses : ses = [db[s] EXCEPT !.rows = more]
  OBVIOUS
<1>4. IsSession(db[s]) /\ IsSeq(rows) /\ \A i \in DOMAIN rows : IsRow(rows[i])
  BY <1>1 DEF IsSession, IsRows
<1>5. IsRow(row) /\ row.id = rows[k].id
  <2>1. IsRow(rows[k])
    BY <1>1, <1>4
  <2>. QED
    BY <1>1, <2>1 DEF IsRow
<1>6. /\ IsSeq(more) /\ DOMAIN more = DOMAIN rows
      /\ \A i \in DOMAIN rows : more[i] = IF i = k THEN row ELSE rows[i]
  BY <1>2, <1>4, SeqUpdated
<1>7. IsRows(more) /\ \A i \in DOMAIN rows : more[i].id = rows[i].id
  BY <1>4, <1>5, <1>6 DEF IsRows
<1>8. /\ IsSession(ses) /\ ses.kind = db[s].kind /\ ses.from = db[s].from
      /\ ses.status = db[s].status /\ ses.rows = more /\ ses.over = db[s].over
      /\ ses.afterEnd = db[s].afterEnd
  <2>1. IsSession(db[s]) /\ IsRows(more)
    BY <1>4, <1>7
  <2>. QED
    BY <1>3, <2>1, SessionRows
<1>9. db' = [db EXCEPT ![s] = ses]
  BY <1>1, <1>2, <1>3
<1>10. /\ IsSeq(db') /\ DOMAIN db' = DOMAIN db
       /\ \A x \in DOMAIN db : db'[x] = IF x = s THEN ses ELSE db[x]
  <2>1. PICK old : old = db /\ IsSeq(old)
    OBVIOUS
  <2>2. PICK now : now = [old EXCEPT ![s] = ses]
    OBVIOUS
  <2>3. IsSeq(now) /\ DOMAIN now = DOMAIN old
        /\ \A x \in DOMAIN old : now[x] = IF x = s THEN ses ELSE old[x]
    BY <2>1, <2>2, SeqUpdated
  <2>. QED
    BY <1>9, <2>1, <2>2, <2>3
<1>11. \A x \in DOMAIN db : IsSession(db'[x])
  BY <1>8, <1>10
<1>12. \A x \in DOMAIN db \ {s} : Same(x)
  BY <1>10 DEF Same
<1>13. db'[s] = ses
  BY <1>10
<1>14. RowIds(s)' = RowIds(s)
  <2>1. {more[i].id : i \in DOMAIN more} = {rows[i].id : i \in DOMAIN rows}
    BY <1>6, <1>7
  <2>2. db'[s].rows = more /\ db[s].rows = rows
    BY <1>1, <1>8, <1>13
  <2>3. RowIds(s)' = {more[i].id : i \in DOMAIN more}
    BY <2>2 DEF RowIds
  <2>4. RowIds(s) = {rows[i].id : i \in DOMAIN rows}
    BY <2>2 DEF RowIds
  <2>. QED
    BY <2>1, <2>3, <2>4
<1>15. DistinctRows(s)'
  <2>1. \A i, j \in DOMAIN rows : rows[i].id = rows[j].id => i = j
    BY <1>1 DEF DistinctRows
  <2>2. \A i, j \in DOMAIN more : more[i].id = more[j].id => i = j
    BY <1>6, <1>7, <2>1
  <2>. QED
    BY <1>8, <1>13, <2>2 DEF DistinctRows
<1>. QED
  BY <1>8, <1>10, <1>11, <1>12, <1>13, <1>14, <1>15

(* A task starts, ends, is skipped, or never gets to start.                *)
LEMMA TaskInv ==
    ASSUME ChainInv, NEW p \in Procs, proc[p].at = "work", Task(p) PROVE ChainInv'
<1>1. PICK s : s = proc[p].s
  OBVIOUS
<1>2. /\ ChainTyped /\ IsSeq(db) /\ (\A x \in DOMAIN db : IsSession(db[x]))
      /\ IsWork(proc[p]) /\ s \in DOMAIN db /\ proc[p].parent \in {0} \cup DOMAIN db
      /\ ProcInv(p) /\ DistinctRows(s)
  <2>1. ChainTyped /\ ProcInv(p) /\ proc[p].at = "work"
    BY DEF ChainInv
  <2>2. IsWork(proc[p]) /\ proc[p].s \in DOMAIN db /\ proc[p].parent \in {0} \cup DOMAIN db
    BY <2>1 DEF ChainTyped
  <2>3. DistinctRows(s)
    BY <1>1, <2>2 DEF ChainInv, SessionInv
  <2>. QED
    BY <1>1, <2>1, <2>2, <2>3 DEF ChainTyped
<1>3. /\ \/ db' = db
         \/ \E id, st : HasRow(s, id) /\ SetRow(s, id, st)
      /\ \/ proc' = proc
         \/ \E x : proc' = [proc EXCEPT ![p].out = x]
  BY <1>1 DEF Task, StartTask, EndTask, SkipTask, NeverStarts, Ready, Outcome
<1>4. /\ IsSeq(db') /\ DOMAIN db' = DOMAIN db /\ \A x \in DOMAIN db : IsSession(db'[x])
      /\ \A x \in DOMAIN db \ {s} : Same(x)
      /\ db'[s].kind = db[s].kind /\ db'[s].from = db[s].from /\ db'[s].over = db[s].over
      /\ db'[s].status = db[s].status /\ db'[s].afterEnd = db[s].afterEnd
      /\ RowIds(s)' = RowIds(s) /\ DistinctRows(s)'
  <2>1. CASE db' = db
    BY <1>2, <2>1 DEF Same, RowIds, DistinctRows
  <2>2. CASE \E id, st : HasRow(s, id) /\ SetRow(s, id, st)
    <3>1. PICK id, st : HasRow(s, id) /\ SetRow(s, id, st)
      BY <2>2
    <3>2. PICK k : k = RowAt(s, id)
      OBVIOUS
    <3>3. k \in DOMAIN db[s].rows
      BY <3>1, <3>2 DEF HasRow, RowAt
    <3>4. db' = [db EXCEPT ![s].rows[k].st = st]
      BY <3>1, <3>2 DEF SetRow
    <3>. QED
      BY <1>2, <3>3, <3>4, RowSet
  <2>. QED
    BY <1>3, <2>1, <2>2
<1>5. PICK rec : /\ proc' = [proc EXCEPT ![p] = rec]
                 /\ IsWork(rec) /\ rec.todo = proc[p].todo /\ rec.at = "work" /\ rec.s = s
                 /\ rec.parent = proc[p].parent /\ rec.prior = proc[p].prior
                 /\ rec.plan = proc[p].plan
  <2>1. CASE proc' = proc
    <3>1. proc' = [proc EXCEPT ![p] = proc[p]]
      BY <1>2, <2>1 DEF ChainTyped
    <3>. QED
      BY <1>1, <1>2, <3>1
  <2>2. CASE \E x : proc' = [proc EXCEPT ![p].out = x]
    <3>1. PICK x : proc' = [proc EXCEPT ![p].out = x]
      BY <2>2
    <3>2. PICK rec : rec = [proc[p] EXCEPT !.out = x]
      OBVIOUS
    <3>3. proc' = [proc EXCEPT ![p] = rec]
      BY <3>1, <3>2
    <3>4. IsWork(proc[p])
      BY <1>2
    <3>5. /\ IsWork(rec) /\ rec.todo = proc[p].todo /\ rec.at = proc[p].at /\ rec.s = proc[p].s
          /\ rec.parent = proc[p].parent /\ rec.prior = proc[p].prior /\ rec.plan = proc[p].plan
      BY <3>2, <3>4, WorkSettled
    <3>. QED
      BY <1>1, <3>3, <3>5
  <2>. QED
    BY <1>3, <2>1, <2>2
<1>6. ChainTyped' /\ proc'[p] = rec /\ \A q \in Procs \ {p} : proc'[q] = proc[q]
  <2>1. \A x \in DOMAIN db' : IsSession(db'[x])
    BY <1>4
  <2>2. rec.at \in Busy /\ rec.s \in DOMAIN db' /\ rec.parent \in {0} \cup DOMAIN db'
    BY <1>2, <1>4, <1>5 DEF Busy
  <2>. QED
    BY <1>2, <1>4, <1>5, <2>1, <2>2, TypedStep
<1>7. RowsFollowPlan(p)'
  <2>1. RowsFollowPlan(p)
    BY <1>2 DEF ProcInv
  <2>. QED
    BY <1>1, <1>4, <1>5, <1>6, <2>1 DEF RowsFollowPlan
<1>. QED
  BY <1>1, <1>4, <1>5, <1>6, <1>7, WritesRows

-----------------------------------------------------------------------------
(* The end of a session: it is over, and whole if it is an answer.         *)
LEMMA Closes ==
    ASSUME ChainInv, ChainTyped', NEW p \in Procs, Open(p), DOMAIN db' = DOMAIN db,
           \A q \in Procs \ {p} : proc'[q] = proc[q],
           NEW s, s = proc[p].s, \A x \in DOMAIN db \ {s} : Same(x),
           db'[s].kind = db[s].kind, db'[s].from = db[s].from,
           db'[s].over = TRUE, db'[s].afterEnd = db[s].afterEnd,
           proc'[p].at \notin {"plan", "work", "turn"},
           proc'[p].at \in Busy => proc'[p].s = s,
           DistinctRows(s)', Whole(s)'
    PROVE  ChainInv'
<1>1. Own(p) = {s} /\ s \in DOMAIN db /\ SessionInv(s) /\ ~Open(p)'
  BY DEF Own, Open, ChainInv, ChainTyped, Busy
<1>2. s \in Reentered' => db'[db'[s].from].over = TRUE
  <2>1. ASSUME s \in Reentered' PROVE db[s].from \in DOMAIN db \ {s} /\ db[db[s].from].over = TRUE
    <3>1. s \in Reentered
      BY <1>1, <2>1 DEF Reentered
    <3>. QED
      BY <1>1, <3>1, OwnNotOver DEF SessionInv
  <2>. QED
    BY <2>1 DEF Same
<1>3. SessionInv(s)'
  <2>1. db'[s].from \in {0} \cup DOMAIN db'
    BY <1>1 DEF SessionInv
  <2>. QED
    BY <1>2, <2>1 DEF SessionInv
<1>4. WritesNow(p)' /\ ProcInv(p)'
  BY <1>1 DEF WritesNow, ProcInv, RowsFollowPlan, Recovers
<1>5. \A x \in DOMAIN db' \ (DOMAIN db \ Own(p)) : SessionInv(x)'
  BY <1>1, <1>3
<1>. QED
  BY <1>1, <1>4, <1>5, StepKeeps

LEMMA ConcludeInv ==
    ASSUME ChainInv, NEW p \in Procs, Conclude(p) PROVE ChainInv'
<1>1. PICK s : s = proc[p].s
  OBVIOUS
<1>2. /\ ChainTyped /\ IsSeq(db) /\ (\A x \in DOMAIN db : IsSession(db[x]))
      /\ IsWork(proc[p]) /\ proc[p].at = "work" /\ s \in DOMAIN db
      /\ proc[p].parent \in {0} \cup DOMAIN db
      /\ ProcInv(p) /\ DistinctRows(s) /\ Open(p) /\ Settled(p) = Ids(p)
  BY <1>1 DEF ChainInv, ChainTyped, Conclude, SessionInv, Open
<1>3. PICK status, answer :
        /\ answer = IF status \in {"completed", "partial"} THEN Answer(p) ELSE {}
        /\ db' = [db EXCEPT ![s].status = status, ![s].over = TRUE, ![s].answer = answer]
  BY <1>1 DEF Conclude
<1>0. PICK over : over = TRUE
  OBVIOUS
<1>4. PICK ses : ses = Ended(db[s], status, over, answer)
  OBVIOUS
<1>5. /\ IsSession(ses) /\ ses.over = over /\ ses.status = status /\ ses.answer = answer
      /\ ses.rows = db[s].rows /\ ses.kind = db[s].kind /\ ses.from = db[s].from
      /\ ses.afterEnd = db[s].afterEnd
  <2>1. IsSession(db[s])
    BY <1>2
  <2>. QED
    BY <1>4, <2>1, SessionEnded
<1>6. db' = [db EXCEPT ![s] = ses]
  BY <1>0, <1>3, <1>4 DEF Ended
<1>7. /\ IsSeq(db') /\ DOMAIN db' = DOMAIN db
      /\ \A x \in DOMAIN db : db'[x] = IF x = s THEN ses ELSE db[x]
  BY <1>2, <1>6, SeqUpdated
<1>8. PICK rec : rec = [proc[p] EXCEPT !.at = "touch"]
  OBVIOUS
<1>9. /\ IsWork(rec) /\ rec.at = "touch" /\ rec.s = s /\ rec.parent = proc[p].parent
  BY <1>1, <1>2, <1>8, WorkMoved
<1>10. proc' = [proc EXCEPT ![p] = rec]
  BY <1>8 DEF Conclude, To
<1>11. ChainTyped' /\ proc'[p] = rec /\ \A q \in Procs \ {p} : proc'[q] = proc[q]
  <2>1. \A x \in DOMAIN db' : IsSession(db'[x])
    BY <1>2, <1>5, <1>7
  <2>2. rec.at \in Busy /\ rec.s \in DOMAIN db' /\ rec.parent \in {0} \cup DOMAIN db'
    BY <1>2, <1>7, <1>9 DEF Busy
  <2>. QED
    BY <1>2, <1>7, <1>9, <1>10, <2>1, <2>2, TypedStep
<1>12. db'[s] = ses /\ \A x \in DOMAIN db \ {s} : Same(x)
  BY <1>2, <1>7 DEF Same
<1>13. DistinctRows(s)'
  BY <1>2, <1>5, <1>12 DEF DistinctRows
<1>14. Whole(s)'
  <2>. SUFFICES ASSUME s \in Reentered', NEW f, f = db[s].from,
                       NEW i \in DOMAIN db'[f].rows, NEW row, row = db'[f].rows[i]
                PROVE  /\ Finished(row) => ~HasRow(s, row.id)'
                       /\ Clean(s)' => \E o \in db'[s].answer : o.id = row.id /\ (Finished(row) => o.ok)
    BY <1>5, <1>12 DEF Whole
  <2>1. s \in Reentered
    BY <1>2, <1>5, <1>12 DEF Reentered
  <2>2. db'[f].rows = db[f].rows
    BY <1>1, <1>2, <1>12, <2>1, OwnNotOver DEF Own, Same
  <2>3. /\ Finished(row) => row.id \notin Ids(p) /\ [id |-> row.id, ok |-> TRUE] \in proc[p].prior
        /\ row.id \in Ids(p) \/ \E o \in proc[p].prior : o.id = row.id
    <3>1. Accounted(db[f].rows, Ids(p), proc[p].prior)
      BY <1>1, <1>2, <2>1 DEF ProcInv, Recovers, Reentered
    <3>. QED
      BY <2>2, <3>1 DEF Accounted
  <2>4. HasRow(s, row.id)' => row.id \in Ids(p)
    <3>1. RowIds(s) \subseteq Ids(p)
      BY <1>1, <1>2 DEF ProcInv, RowsFollowPlan, Ids
    <3>. QED
      BY <1>5, <1>12, <3>1 DEF HasRow, RowIds
  <2>5. ASSUME Clean(s)'
        PROVE  \E o \in db'[s].answer : o.id = row.id /\ (Finished(row) => o.ok)
    <3>1. db'[s].answer = proc[p].prior \cup proc[p].out
      BY <1>3, <1>5, <1>12, <2>5 DEF Clean, Answer
    <3>2. CASE Finished(row)
      <4>1. PICK o : o = [id |-> row.id, ok |-> TRUE]
        OBVIOUS
      <4>. QED
        BY <2>3, <3>1, <3>2, <4>1
    <3>3. CASE ~Finished(row)
      <4>1. row.id \in Ids(p) => \E o \in proc[p].out : o.id = row.id
        BY <1>2 DEF Settled
      <4>. QED
        BY <2>3, <3>1, <3>3, <4>1
    <3>. QED
      BY <3>2, <3>3
  <2>. QED
    BY <2>3, <2>4, <2>5
<1>. QED
  BY <1>0, <1>1, <1>2, <1>5, <1>7, <1>9, <1>11, <1>12, <1>13, <1>14, Closes DEF Busy

(* The turn of a resumed provider session has one row, which ends with it.  *)
LEMMA TurnEndsInv ==
    ASSUME ChainInv, NEW p \in Procs, TurnEnds(p) PROVE ChainInv'
<1>1. PICK s : s = proc[p].s
  OBVIOUS
<1>2. /\ ChainTyped /\ IsSeq(db) /\ (\A x \in DOMAIN db : IsSession(db[x]))
      /\ IsWork(proc[p]) /\ proc[p].at = "turn" /\ s \in DOMAIN db
      /\ proc[p].parent \in {0} \cup DOMAIN db
      /\ DistinctRows(s) /\ Open(p) /\ db[s].kind = "turn" /\ 1 \in DOMAIN db[s].rows
  BY <1>1 DEF ChainInv, ChainTyped, TurnEnds, SessionInv, Open, ProcInv, RowsFollowPlan
<1>3. PICK status, st :
        db' = [db EXCEPT ![s].status = status, ![s].over = TRUE, ![s].rows[1].st = st]
  <2>1. PICK end :
          db' = [db EXCEPT ![s].status =
                    CASE end = "answered" -> "completed"
                      [] end = "over budget" -> "budget_exhausted"
                      [] OTHER -> IF proc[p].denied THEN "hitl_denied" ELSE "failed",
                  ![s].over = TRUE,
                  ![s].rows[1].st = IF end = "answered" THEN "completed" ELSE "failed"]
    BY <1>1, Zenon DEF TurnEnds
  <2>. QED
    BY <2>1, Zenon
<1>0. PICK over : over = TRUE
  OBVIOUS
<1>4. PICK ses : ses = Ended(db[s], status, over, db[s].answer)
  OBVIOUS
<1>5. /\ IsSession(ses) /\ ses.over = over /\ ses.rows = db[s].rows /\ ses.kind = db[s].kind
      /\ ses.from = db[s].from /\ ses.afterEnd = db[s].afterEnd
  <2>1. IsSession(db[s])
    BY <1>2
  <2>. QED
    BY <1>4, <2>1, SessionEnded
<1>6. PICK rows, row : rows = db[s].rows /\ row = [rows[1] EXCEPT !.st = st]
  OBVIOUS
<1>7. PICK more : more = [rows EXCEPT ![1] = row]
  OBVIOUS
<1>8. PICK new : new = [ses EXCEPT !.rows = more]
  OBVIOUS
<1>9. IsSeq(rows) /\ 1 \in DOMAIN rows /\ \A i \in DOMAIN rows : IsRow(rows[i])
  BY <1>2, <1>6 DEF IsSession, IsRows
<1>10. IsRow(row) /\ row.id = rows[1].id
  <2>1. IsRow(rows[1])
    BY <1>9
  <2>. QED
    BY <1>6, <2>1 DEF IsRow
<1>11. /\ IsSeq(more) /\ DOMAIN more = DOMAIN rows
       /\ \A i \in DOMAIN rows : more[i] = IF i = 1 THEN row ELSE rows[i]
  BY <1>7, <1>9, SeqUpdated
<1>12. IsRows(more) /\ \A i \in DOMAIN rows : more[i].id = rows[i].id
  BY <1>9, <1>10, <1>11 DEF IsRows
<1>13. /\ IsSession(new) /\ new.over = over /\ new.rows = more /\ new.kind = db[s].kind
       /\ new.from = db[s].from /\ new.afterEnd = db[s].afterEnd
  <2>1. IsSession(ses) /\ IsRows(more)
    BY <1>5, <1>12
  <2>2. /\ IsSession(new) /\ new.over = ses.over /\ new.rows = more /\ new.kind = ses.kind
        /\ new.from = ses.from /\ new.afterEnd = ses.afterEnd
    BY <1>8, <2>1, SessionRows
  <2>. QED
    BY <1>5, <2>2
<1>14. db' = [db EXCEPT ![s] = new]
  <2>1. new = [ses EXCEPT !.rows = [ses.rows EXCEPT ![1].st = st]]
    BY <1>5, <1>6, <1>7, <1>8
  <2>. QED
    BY <1>0, <1>3, <1>4, <2>1 DEF Ended
<1>15. /\ IsSeq(db') /\ DOMAIN db' = DOMAIN db
       /\ \A x \in DOMAIN db : db'[x] = IF x = s THEN new ELSE db[x]
  BY <1>2, <1>14, SeqUpdated
<1>16. PICK rec : rec = [proc[p] EXCEPT !.at = "touch"]
  OBVIOUS
<1>17. /\ IsWork(rec) /\ rec.at = "touch" /\ rec.s = s /\ rec.parent = proc[p].parent
  BY <1>1, <1>2, <1>16, WorkMoved
<1>18. proc' = [proc EXCEPT ![p] = rec]
  BY <1>16 DEF TurnEnds, To
<1>19. ChainTyped' /\ proc'[p] = rec /\ \A q \in Procs \ {p} : proc'[q] = proc[q]
  <2>1. \A x \in DOMAIN db' : IsSession(db'[x])
    BY <1>2, <1>13, <1>15
  <2>2. rec.at \in Busy /\ rec.s \in DOMAIN db' /\ rec.parent \in {0} \cup DOMAIN db'
    BY <1>2, <1>15, <1>17 DEF Busy
  <2>. QED
    BY <1>2, <1>15, <1>17, <1>18, <2>1, <2>2, TypedStep
<1>20. db'[s] = new /\ \A x \in DOMAIN db \ {s} : Same(x)
  BY <1>2, <1>15 DEF Same
<1>21. DistinctRows(s)'
  <2>1. \A i, j \in DOMAIN rows : rows[i].id = rows[j].id => i = j
    BY <1>2, <1>6 DEF DistinctRows
  <2>2. \A i, j \in DOMAIN more : more[i].id = more[j].id => i = j
    BY <1>11, <1>12, <2>1
  <2>. QED
    BY <1>13, <1>20, <2>2 DEF DistinctRows
<1>22. Whole(s)'
  BY <1>2, <1>13, <1>20 DEF Whole, Reentered
<1>. QED
  BY <1>0, <1>1, <1>2, <1>13, <1>15, <1>17, <1>19, <1>20, <1>21, <1>22, Closes DEF Busy

(* The process dies: its session is over as it stands.                     *)
LEMMA CrashInv ==
    ASSUME ChainInv, NEW p \in Procs, Crash(p) PROVE ChainInv'
<1>1. PICK s, k : s = proc[p].s /\ k = proc[p].parent
  OBVIOUS
<1>2. /\ ChainTyped /\ IsSeq(db) /\ (\A x \in DOMAIN db : IsSession(db[x]))
      /\ IsWork(proc[p]) /\ proc[p].at \in Busy /\ s \in DOMAIN db
      /\ k \in {0} \cup DOMAIN db /\ SessionInv(s)
  BY <1>1 DEF ChainInv, ChainTyped, Crash
<1>3. PICK old : old = IF k = 0 THEN db ELSE [db EXCEPT ![k].told = "lost"]
  OBVIOUS
<1>4. db' = [old EXCEPT ![s].over = TRUE]
  BY <1>1, <1>3, Zenon DEF Crash, Told
<1>5. /\ IsSeq(old) /\ DOMAIN old = DOMAIN db
      /\ \A x \in DOMAIN db :
           /\ IsSession(old[x]) /\ old[x].kind = db[x].kind /\ old[x].from = db[x].from
           /\ old[x].status = db[x].status /\ old[x].rows = db[x].rows
           /\ old[x].answer = db[x].answer /\ old[x].over = db[x].over
           /\ old[x].afterEnd = db[x].afterEnd
  <2>1. CASE k = 0
    BY <1>2, <1>3, <2>1
  <2>2. CASE k # 0
    <3>1. PICK told : told = [db[k] EXCEPT !.told = "lost"]
      OBVIOUS
    <3>2. old = [db EXCEPT ![k] = told] /\ k \in DOMAIN db
      BY <1>2, <1>3, <2>2, <3>1
    <3>3. IsSession(db[k])
      BY <1>2, <3>2
    <3>4. /\ IsSession(told) /\ told.kind = db[k].kind /\ told.from = db[k].from
          /\ told.status = db[k].status /\ told.rows = db[k].rows /\ told.answer = db[k].answer
          /\ told.over = db[k].over /\ told.afterEnd = db[k].afterEnd
      BY <3>1, <3>3, SessionTold
    <3>5. /\ IsSeq(old) /\ DOMAIN old = DOMAIN db
          /\ \A x \in DOMAIN db : old[x] = IF x = k THEN told ELSE db[x]
      BY <1>2, <3>2, SeqUpdated
    <3>. QED
      BY <1>2, <3>4, <3>5
  <2>. QED
    BY <2>1, <2>2
<1>6. PICK over : over = TRUE
  OBVIOUS
<1>7. PICK new : new = [old[s] EXCEPT !.over = over]
  OBVIOUS
<1>8. /\ IsSession(new) /\ new.over = over /\ new.kind = db[s].kind /\ new.from = db[s].from
      /\ new.status = db[s].status /\ new.rows = db[s].rows /\ new.answer = db[s].answer
      /\ new.afterEnd = db[s].afterEnd
  <2>1. IsSession(old[s])
    BY <1>2, <1>5
  <2>2. /\ IsSession(new) /\ new.over = over /\ new.kind = old[s].kind /\ new.from = old[s].from
        /\ new.status = old[s].status /\ new.rows = old[s].rows /\ new.answer = old[s].answer
        /\ new.afterEnd = old[s].afterEnd
    BY <1>7, <2>1, SessionOver
  <2>. QED
    BY <1>2, <1>5, <2>2
<1>9. db' = [old EXCEPT ![s] = new]
  BY <1>4, <1>6, <1>7
<1>10. /\ IsSeq(db') /\ DOMAIN db' = DOMAIN db
       /\ \A x \in DOMAIN db : db'[x] = IF x = s THEN new ELSE old[x]
  <2>1. IsSeq([old EXCEPT ![s] = new]) /\ DOMAIN [old EXCEPT ![s] = new] = DOMAIN old
        /\ \A x \in DOMAIN old : [old EXCEPT ![s] = new][x] = IF x = s THEN new ELSE old[x]
    BY <1>5, SeqUpdated
  <2>. QED
    BY <1>5, <1>9, <2>1
<1>11. proc' = [proc EXCEPT ![p] = Idle] /\ Idle.at = "idle"
  BY DEF Crash, Idle
<1>12. ChainTyped' /\ proc'[p].at = "idle" /\ \A q \in Procs \ {p} : proc'[q] = proc[q]
  <2>1. \A x \in DOMAIN db' : IsSession(db'[x])
    BY <1>5, <1>8, <1>10
  <2>. QED
    BY <1>2, <1>10, <1>11, <2>1, TypedStep
<1>13. \A x \in DOMAIN db \ {s} : Same(x)
  BY <1>5, <1>10 DEF Same
<1>14. db'[s] = new
  BY <1>2, <1>10
<1>15. CASE Open(p)
  <2>1. DistinctRows(s)'
    BY <1>2, <1>8, <1>14 DEF SessionInv, DistinctRows
  <2>2. Whole(s)'
    <3>. SUFFICES ASSUME s \in Reentered' PROVE Whole(s)'
      BY DEF Whole
    <3>1. s \in Reentered
      BY <1>2, <1>8, <1>14 DEF Reentered
    <3>2. PICK f : f = db[s].from
      OBVIOUS
    <3>3. db'[f].rows = db[f].rows /\ db'[s].from = f
      BY <1>1, <1>8, <1>13, <1>14, <1>15, <1>2, <3>1, <3>2, OwnNotOver DEF Own, Same
    <3>4. (Clean(s)' <=> Clean(s)) /\ db'[s].answer = db[s].answer
      BY <1>8, <1>14 DEF Clean
    <3>5. \A id : HasRow(s, id)' <=> HasRow(s, id)
      BY <1>8, <1>14 DEF HasRow
    <3>. QED
      BY <1>2, <3>1, <3>2, <3>3, <3>4, <3>5 DEF SessionInv, Whole
  <2>. QED
    BY <1>1, <1>6, <1>8, <1>10, <1>12, <1>13, <1>14, <1>15, <2>1, <2>2, Closes DEF Busy
<1>16. CASE ~Open(p)
  <2>1. db[s].over = TRUE
    BY <1>1, <1>2, <1>16 DEF ChainInv, OneWriter
  <2>2. Same(s)
    BY <1>6, <1>8, <1>14, <2>1 DEF Same
  <2>. QED
    BY <1>10, <1>12, <1>13, <2>2, QuietStep
<1>. QED
  BY <1>15, <1>16

-----------------------------------------------------------------------------
LEMMA NextInv == ASSUME DistinctIds PROVE ChainInv /\ [Next]_vars => ChainInv'
<1>. SUFFICES ASSUME ChainInv, [Next]_vars PROVE ChainInv'
  OBVIOUS
<1>1. CASE UNCHANGED vars
  <2>1. db' = db /\ proc' = proc
    BY <1>1 DEF vars
  <2>2. ChainTyped' /\ OneWriter'
    BY <2>1 DEF ChainInv, ChainTyped, OneWriter, Open
  <2>3. ASSUME NEW s \in DOMAIN db PROVE SessionInv(s)'
    <3>1. SessionInv(s) /\ (Clean(s)' <=> Clean(s)) /\ \A id : HasRow(s, id)' <=> HasRow(s, id)
      BY <2>1 DEF ChainInv, Clean, HasRow
    <3>. QED
      BY <2>1, <3>1 DEF SessionInv, DistinctRows, Whole, Reentered
  <2>4. ASSUME NEW p \in Procs PROVE ProcInv(p)'
    <3>1. ProcInv(p) /\ Ids(p)' = Ids(p) /\ RowIds(proc[p].s)' = RowIds(proc[p].s)
      BY <2>1 DEF ChainInv, Ids, RowIds
    <3>2. RowsFollowPlan(p)'
      BY <2>1, <3>1 DEF ProcInv, RowsFollowPlan
    <3>3. Recovers(p)'
      BY <2>1, <3>1 DEF ProcInv, Recovers
    <3>. QED
      BY <3>2, <3>3 DEF ProcInv
  <2>. QED
    BY <2>1, <2>2, <2>3, <2>4 DEF ChainInv
<1>2. CASE Next
  <2>1. PICK p \in Procs :
          \/ Begin(p) \/ ThreadLoad(p)
          \/ \E s \in DOMAIN db : Reenter(p, s) \/ Follow(p, s)
          \/ Proceed(p) \/ TurnDenied(p) \/ Cancel(p) \/ Crash(p)
    BY <1>2 DEF Next
  <2>2. CASE Begin(p)
    BY <2>2, BeginInv
  <2>3. CASE ThreadLoad(p) \/ ThreadSave(p) \/ TouchLoad(p) \/ TouchSave(p) \/ Return(p)
    BY <2>3, IndexInv
  <2>4. CASE \E s \in DOMAIN db : Reenter(p, s)
    BY <2>4, ReenterInv
  <2>5. CASE \E s \in DOMAIN db : Follow(p, s)
    BY <2>5, FollowInv
  <2>6. CASE Planned(p)
    BY <2>6, PlannedInv
  <2>7. CASE CreateRow(p)
    BY <2>7, CreateRowInv
  <2>8. CASE proc[p].at = "work" /\ Task(p)
    BY <2>8, TaskInv
  <2>9. CASE Conclude(p)
    BY <2>9, ConcludeInv
  <2>10. CASE TurnEnds(p)
    BY <2>10, TurnEndsInv
  <2>11. CASE LinkEnds(p)
    BY <2>11, LinkEndsInv
  <2>12. CASE HandOff(p)
    BY <2>12, HandOffInv
  <2>13. CASE TurnDenied(p) \/ Cancel(p)
    BY <2>13, CancelInv
  <2>14. CASE Crash(p)
    BY <2>14, CrashInv
  <2>. QED
    BY <2>1, <2>2, <2>3, <2>4, <2>5, <2>6, <2>7, <2>8, <2>9, <2>10, <2>11, <2>12, <2>13, <2>14
    DEF Proceed
<1>. QED
  BY <1>1, <1>2

(* A session that `uta run --resume-session` opened on a run that is over  *)
(* asks for no task that the run finished, and when it ends in an answer   *)
(* there is an outcome for every row of that run, the finished ones as     *)
(* finished: BuildResumeRunRequest and Supervisor.Run, for any processes,  *)
(* plans, crashes and re-entries of re-entries.                            *)
THEOREM ChainReentryIsWhole == ASSUME DistinctIds PROVE Spec => []ReentryIsWhole
<1>1. ChainInv => ReentryIsWhole
  BY DEF ChainInv, SessionInv, Whole, ReentryIsWhole, Reentered
<1>. QED
  BY <1>1, InitInv, NextInv, PTL DEF Spec
=============================================================================
