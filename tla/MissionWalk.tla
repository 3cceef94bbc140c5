------------------------------ MODULE MissionWalk ------------------------------
(***************************************************************************)
(* `uta mission run`: the walk of a checked steer program (RunMission of   *)
(* internal/engine/mission.go), over a chain of sessions that are killed,  *)
(* stopped by their budget, suspended at a gate or interrupted, and        *)
(* resumed from the journal of an earlier one, perhaps with an edited      *)
(* program.  The walk is a stack of frames; a name of the program is bound *)
(* to a text, a sequence of atoms, with the verifiers that let it stand.   *)
(* The goroutines of a judge or a par are a set of outstanding calls;      *)
(* their slots are the subject of MissionPar.                              *)
(***************************************************************************)
EXTENDS SteerCheck

CONSTANTS Program,      \* version -> program, see SteerCheck
          Edits,        \* version -> the versions it may have become when it is resumed
          Texts,        \* what an agent may answer
          MaxSessions,  \* bound: version -> sessions that may follow it
          MaxTokens     \* the ceiling of the mission's budget, in provider calls

SchemaRetries == 2

VARIABLES
    sess,     \* the sessions so far: version, session resumed, status, killed
    journal,  \* per session: spec id -> its completed row, a prompt and a text
    asks,     \* gate requests on disk, each with the markers beside it
    passed,   \* sessions whose gates' answer deadlines have passed
    walk,     \* the running walk, or Idle
    human,    \* every approval ever given: session, spec id, message
    answers   \* every answer a provider ever gave: prompt, text

vars == <<sess, journal, asks, passed, walk, human, answers>>

Blank == <<>>
Value(text) == [text |-> text, refine |-> 0, lenses |-> {}]
Verdicts == {<<"stands">>, <<"refuted">>}

Idle == [todo |-> <<>>, err |-> "idle"]
Cur == Len(sess)
Walking == walk # Idle
Going == Walking /\ walk.err = "none"
Prior == sess[Cur].from
Tripped == walk.spent >= MaxTokens

-----------------------------------------------------------------------------
(* Frames of the walk.                                                     *)
Block(body, at) == [f |-> "block", body |-> body, at |-> at]
Bind(x) == [f |-> "bind", x |-> x]
Emit == [f |-> "emit"]
Eval(e, at) == [f |-> "eval", e |-> e, at |-> at]
Judging(e, at) == [f |-> "judging", e |-> e, at |-> at]
Collect(e, specs, v) == [f |-> "collect", e |-> e, specs |-> specs, v |-> v]
Attempt(e, at, n) == [f |-> "attempt", e |-> e, at |-> at, n |-> n]
Signed(id, ask) == [f |-> "signed", id |-> id, ask |-> ask]
Handler(cause) == [f |-> "handler", cause |-> cause]
Round(u, at) == [f |-> "round", u |-> u, at |-> at, n |-> 1, empty |-> 0,
                 prev |-> Blank, vals |-> <<>>, yield |-> <<>>]

Top == Head(walk.todo)
Under == Tail(walk.todo)
TopIs(f) == Going /\ walk.todo # <<>> /\ Top.f = f
Goto(todo) == walk' = [walk EXCEPT !.todo = todo]
Fail(err) == walk' = [walk EXCEPT !.err = err]

Disk == <<asks, passed, human>>
Records == <<sess, journal, answers>>

(* strings.Join with a separator: two blank texts make one that is not.    *)
JoinTexts(ts) ==
    IF ts = <<>> THEN Blank
    ELSE FoldLeft(LAMBDA a, b : a \o <<"---">> \o b, Head(ts), Tail(ts))

-----------------------------------------------------------------------------
(* Statements.                                                             *)
RoundSpec(at, u, n) == at \o <<u.id, <<"r", n>>>>

(* noteRoundVal: the innermost loop collects what its body produces.       *)
Noting(todo, text) ==
    LET rounds == {i \in DOMAIN todo : todo[i].f = "round"} IN
    IF rounds = {} THEN todo
    ELSE [todo EXCEPT ![Min(rounds)].vals = Append(@, text)]

Statement(s, at, rest) ==
    CASE s.s = "let" -> <<Eval(s.expr, at), Bind(s.x)>> \o rest
      [] s.s = "emit" -> <<Eval(s.expr, at), Emit>> \o rest
      [] s.s = "with" -> <<Block(s.body, at)>> \o rest
      [] s.s = "until" ->
           <<Block(s.body, RoundSpec(at, s, 1)), Round(s, at)>> \o rest

Exec ==
    /\ TopIs("block")
    /\ \/ Top.body = <<>> /\ Goto(Under)
       \/ /\ Top.body # <<>>
          /\ LET s == Head(Top.body) IN
             \/ s.s = "halt" /\ Fail("Halt")
             \/ /\ s.s \in {"let", "emit", "with", "until"}
                /\ Goto(Statement(s, Top.at,
                        <<Block(Tail(Top.body), Top.at)>> \o Under))
    /\ UNCHANGED <<Records, Disk>>

Bound ==
    /\ TopIs("bind")
    /\ walk' = [walk EXCEPT !.env = With(@, Top.x, walk.val),
                            !.todo = Noting(Under, walk.val.text)]
    /\ UNCHANGED <<Records, Disk>>

Emitted ==
    /\ TopIs("emit")
    /\ walk' = [walk EXCEPT !.answer = walk.val.text,
                            !.todo = Noting(Under, walk.val.text)]
    /\ UNCHANGED <<Records, Disk>>

-----------------------------------------------------------------------------
(* Expressions.  Arguments, items and messages are literals or names.      *)
Known(e, env) == e.e = "name" => e.x \in DOMAIN env
ValueOf(e, env) == IF e.e = "lit" THEN Value(<<e.t>>) ELSE env[e.x]

Fits(param, v) ==
    param.refine = 0 \/ (v.refine >= param.refine /\ param.lenses \subseteq v.lenses)

(* One call to make: its spec id, and the prompt, which is all that the    *)
(* provider and the journal see of the arguments.  An argument that is not *)
(* judged as its parameter demands is recorded.                            *)
Call(c, args, verdict) ==
    [prompt |-> <<c.fn, verdict, [i \in DOMAIN args |-> args[i].text]>>,
     fn |-> c.fn, verdict |-> verdict, st |-> "due", left |-> <<>>, tries |-> 0,
     text |-> Blank,
     unjudged |-> \E i \in DOMAIN args :
                     /\ ~Fits(Agent[c.fn].params[i], args[i])
                     /\ args[i].text # Blank]

CallOf(c, env) ==
    IF \A i \in DOMAIN c.args : Known(c.args[i], env)
    THEN Call(c, [i \in DOMAIN c.args |-> ValueOf(c.args[i], env)], FALSE)
    ELSE [st |-> "Unbound"]

Verifier(c, env, v) ==
    IF \A i \in DOMAIN c.args : Known(c.args[i], env)
    THEN Call(c, Append([i \in DOMAIN c.args |-> ValueOf(c.args[i], env)], v), TRUE)
    ELSE [st |-> "Unbound"]

(* The calls of one bundle start together; specs lists them in item order. *)
Launch(e, specs, calls, v) ==
    walk' = [walk EXCEPT !.todo = <<Collect(e, specs, v)>> \o Under,
                         !.out = [s \in Range(specs) |->
                                    calls[CHOOSE i \in DOMAIN specs : specs[i] = s]]]

(* evalRetry restarts at the newest attempt the journal knows anything of. *)
JournalHas(prefix) ==
    Prior # 0 /\ \E s \in DOMAIN journal[Prior] : IsPrefix(prefix, s)

AttemptSpec(e, at, n) == at \o <<e.id, <<"a", n>>>>
FirstAttempt(e, at) ==
    Max({1} \cup {n \in 2..(e.n + 1) : JournalHas(AttemptSpec(e, at, n))})

Evaluate ==
    /\ TopIs("eval")
    /\ LET e == Top.e
           at == Top.at IN
       \/ /\ e.e \in {"lit", "name"} /\ Known(e, walk.env)
          /\ walk' = [walk EXCEPT !.val = ValueOf(e, walk.env), !.todo = Under]
       \/ /\ \/ e.e = "name" /\ ~Known(e, walk.env)
             \/ e.e = "par" /\ \E i \in DOMAIN e.items : ~Known(e.items[i], walk.env)
          /\ Fail("Unbound")
       \/ /\ e.e = "call"
          /\ Launch(e, <<Append(at, e.id)>>, <<CallOf(e, walk.env)>>, Value(Blank))
       \/ /\ e.e = "par" /\ \A i \in DOMAIN e.items : Known(e.items[i], walk.env)
          /\ Launch(e, [i \in DOMAIN e.items |-> at \o <<e.id, <<"b", i>>, e.body.id>>],
                    [i \in DOMAIN e.items |->
                       CallOf(e.body, With(walk.env, e.x, ValueOf(e.items[i], walk.env)))],
                    Value(Blank))
       \/ e.e = "judge" /\ Goto(<<Eval(e.value, at), Judging(e, at)>> \o Under)
       \/ /\ e.e = "retry"
          /\ LET n == FirstAttempt(e, at) IN
             Goto(<<Eval(e.body, AttemptSpec(e, at, n)), Attempt(e, at, n)>> \o Under)
    /\ UNCHANGED <<Records, Disk>>

(* The judged value rides in as the last argument of every verifier.       *)
Judge ==
    /\ TopIs("judging")
    /\ LET e == Top.e IN
       Launch(e, [i \in DOMAIN e.by |-> Top.at \o <<e.id, <<"v", i>>, e.by[i].id>>],
              [i \in DOMAIN e.by |-> Verifier(e.by[i], walk.env, walk.val)], walk.val)
    /\ UNCHANGED <<Records, Disk>>

Attempted ==
    /\ TopIs("attempt")
    /\ Goto(Under)
    /\ UNCHANGED <<Records, Disk>>

-----------------------------------------------------------------------------
(* evalCall and callOnce.                                                  *)
CallIs(s, st) == TopIs("collect") /\ s \in DOMAIN walk.out /\ walk.out[s].st = st
CallEnds(s, st) == walk' = [walk EXCEPT !.out[s].st = st]

\* broken: the prompt of the journaled call is not compared
Recoverable_SpecOnly(s, prompt) == Prior # 0 /\ s \in DOMAIN journal[Prior]

Recoverable(s, prompt) ==
    /\ Prior # 0
    /\ s \in DOMAIN journal[Prior]
    /\ journal[Prior][s].prompt = prompt

Journaled(s, prompt, text) ==
    journal' = [journal EXCEPT ![Cur] = With(@, s, [prompt |-> prompt, text |-> text])]

Recover(s) ==
    /\ CallIs(s, "due")
    /\ Recoverable(s, walk.out[s].prompt)
    /\ LET text == journal[Prior][s].text IN
       /\ Journaled(s, walk.out[s].prompt, text)
       /\ walk' = [walk EXCEPT !.out[s].st = "ok", !.out[s].text = text]
    /\ UNCHANGED <<sess, answers, Disk>>

(* Providers that failed on infrastructure go to the back of the line.     *)
Candidates(fn) ==
    SelectSeq(Agent[fn].workers, LAMBDA p : p \notin walk.benched)
        \o SelectSeq(Agent[fn].workers, LAMBDA p : p \in walk.benched)

(* What a provider call starts as: the budget refuses it once it tripped.  *)
Started == IF Tripped THEN "BudgetExceeded" ELSE "calling"

Start(s) ==
    /\ CallIs(s, "due")
    /\ ~Recoverable(s, walk.out[s].prompt)
    /\ LET left == Candidates(walk.out[s].fn) IN
       walk' = [walk EXCEPT !.out[s].left = left,
                            !.out[s].st = IF left = <<>> THEN "Failed" ELSE Started]
    /\ UNCHANGED <<Records, Disk>>

(* A call is charged when it returns, whatever it returns; the one that    *)
(* reaches the ceiling fails with it.                                      *)
Charged(s, st) ==
    [walk EXCEPT !.spent = @ + 1,
                 !.out[s].st = IF walk.spent + 1 >= MaxTokens THEN "BudgetExceeded" ELSE st]

Answer(s) ==
    /\ CallIs(s, "calling")
    /\ ~walk.cancelled
    /\ \E text \in IF walk.out[s].verdict THEN Verdicts ELSE Texts :
         LET after == Charged(s, "ok") IN
         /\ walk' = [after EXCEPT !.out[s].text = text]
         /\ answers' = answers \cup {<<walk.out[s].prompt, text>>}
         /\ IF after.out[s].st = "ok" THEN Journaled(s, walk.out[s].prompt, text)
            ELSE UNCHANGED journal
    /\ UNCHANGED <<sess, Disk>>

(* A response that fails its record schema is asked for again, twice.      *)
Malformed(s) ==
    /\ CallIs(s, "calling")
    /\ ~walk.cancelled
    /\ Agent[walk.out[s].fn].structured
    /\ LET after == Charged(s, IF walk.out[s].tries < SchemaRetries THEN "calling"
                               ELSE "SchemaMismatch")
       IN  walk' = [after EXCEPT !.out[s].tries = @ + 1]
    /\ UNCHANGED <<Records, Disk>>

(* The answer cost more than its `costs` clause allows: a budget error     *)
(* that leaves the mission's own budget as it is.                          *)
OverCeiling(s) ==
    /\ CallIs(s, "calling")
    /\ ~walk.cancelled
    /\ Agent[walk.out[s].fn].capped
    /\ walk' = Charged(s, "BudgetExceeded")
    /\ UNCHANGED <<Records, Disk>>

(* The agent worked and failed.                                            *)
Fails(s) ==
    /\ CallIs(s, "calling")
    /\ CallEnds(s, IF walk.cancelled THEN "Cancelled" ELSE "Failed")
    /\ UNCHANGED <<Records, Disk>>

(* Auth, quota or transport: the next provider of the worker set is asked. *)
Failover(s) ==
    /\ CallIs(s, "calling")
    /\ ~walk.cancelled
    /\ LET left == walk.out[s].left IN
       IF Len(left) = 1 THEN CallEnds(s, "Failed")
       ELSE walk' = [walk EXCEPT !.out[s].left = Tail(left),
                                 !.out[s].st = Started,
                                 !.out[s].tries = 0,
                                 !.benched = @ \cup {Head(left)}]
    /\ UNCHANGED <<Records, Disk>>

-----------------------------------------------------------------------------
(* The bundle is complete.                                                 *)
Over == {"ok", "BudgetExceeded", "SchemaMismatch", "Failed", "Cancelled", "Unbound"}
Returned == TopIs("collect") /\ \A s \in DOMAIN walk.out : walk.out[s].st \in Over

St(i) == walk.out[Top.specs[i]].st
Standing == {i \in DOMAIN Top.specs :
               St(i) = "ok" /\ walk.out[Top.specs[i]].text = <<"stands">>}

Yields(v) == walk' = [walk EXCEPT !.val = v, !.out = <<>>, !.todo = Under]
Throw(err) == walk' = [walk EXCEPT !.err = err, !.out = <<>>, !.todo = Under]

(* A budget error outranks every other one, then the first branch's counts;*)
(* a verifier that failed only does not count toward K.                    *)
Collected ==
    /\ Returned
    /\ LET e == Top.e
           failed == {i \in DOMAIN Top.specs : St(i) # "ok"}
           text(i) == walk.out[Top.specs[i]].text IN
       IF \E i \in failed : St(i) = "BudgetExceeded" THEN Throw("BudgetExceeded")
       ELSE IF e.e = "judge" THEN
            IF Cardinality(Standing) < e.k THEN Throw("JudgeRejected")
            ELSE Yields([text |-> Top.v.text, refine |-> Cardinality(Standing),
                         lenses |-> {LensName(e.by[i]) : i \in Standing}])
       ELSE IF failed # {} THEN Throw(St(Min(failed)))
       ELSE Yields(Value(JoinTexts([i \in DOMAIN Top.specs |-> text(i)])))
    /\ UNCHANGED <<Records, Disk>>

-----------------------------------------------------------------------------
(* Errors unwind to the first frame that catches them.                     *)
Catches(fr, err) ==
    \/ fr.f = "attempt" /\ fr.e.on = err /\ fr.n <= fr.e.n
    \/ fr.f = "round" /\ err = "BudgetExceeded"
    \/ fr.f = "handler"

Catchers == {i \in DOMAIN walk.todo : Catches(walk.todo[i], walk.err)}
Raised == Walking /\ walk.err \notin {"none", "idle"}
Catcher == walk.todo[Min(Catchers)]
Beyond == SubSeq(walk.todo, Min(Catchers) + 1, Len(walk.todo))
Caught(f) == Raised /\ Catchers # {} /\ Catcher.f = f

\* broken: the attempts are not counted
RetryAgain_Uncounted ==
    /\ Caught("attempt")
    /\ LET fr == Catcher IN
       walk' = [walk EXCEPT !.err = "none",
                  !.todo = <<Eval(fr.e.body, AttemptSpec(fr.e, fr.at, fr.n)), fr>> \o Beyond]
    /\ UNCHANGED <<Records, Disk>>

RetryAgain ==
    /\ Caught("attempt")
    /\ LET n == Catcher.n + 1
           fr == Catcher IN
       walk' = [walk EXCEPT !.err = "none",
                  !.todo = <<Eval(fr.e.body, AttemptSpec(fr.e, fr.at, n)),
                             Attempt(fr.e, fr.at, n)>> \o Beyond]
    /\ UNCHANGED <<Records, Disk>>

LoopLets(u) == {u.body[i].x : i \in {j \in DOMAIN u.body : u.body[j].s = "let"}}

(* The lets of the loop's own body are rebound to all they have yielded,   *)
(* to nothing when they never did.  A joined yield is as judged as its     *)
(* least judged part.                                                      *)
YieldOf(fr, x) ==
    LET parts == IF x \in DOMAIN fr.yield THEN fr.yield[x] ELSE <<>> IN
    [text |-> JoinTexts([i \in DOMAIN parts |-> parts[i].text]),
     refine |-> IF parts = <<>> THEN 0 ELSE Min({parts[i].refine : i \in DOMAIN parts}),
     lenses |-> IF parts = <<>> THEN {}
                ELSE {l \in parts[1].lenses : \A i \in DOMAIN parts : l \in parts[i].lenses}]

Leaving(fr, rest) ==
    LET lets == LoopLets(fr.u)
        named == SelectSeq(fr.u.body, LAMBDA s :
                    s.s = "let" /\ YieldOf(fr, s.x).text # Blank) IN
    [walk EXCEPT !.err = "none",
       !.env = [x \in DOMAIN walk.env \cup lets |->
                  IF x \in lets THEN YieldOf(fr, x) ELSE walk.env[x]],
       !.todo = FoldLeft(LAMBDA todo, s : Noting(todo, YieldOf(fr, s.x).text),
                         rest, named)]

(* A budget error ends the loop, not the mission.                          *)
LoopOutOfBudget ==
    /\ Caught("round")
    /\ walk' = [Leaving(Catcher, Beyond) EXCEPT !.absorbed = TRUE]
    /\ UNCHANGED <<Records, Disk>>

(* A round is over: dry when it produced nothing or what the last produced.*)
NextRound ==
    /\ TopIs("round")
    /\ LET fr == Top
           result == JoinTexts(fr.vals)
           dry == result = Blank \/ result = fr.prev
           fresh == {x \in LoopLets(fr.u) :
                       /\ walk.env[x].text # Blank
                       /\ x \in DOMAIN fr.yield =>
                            Last(fr.yield[x]).text # walk.env[x].text}
           after == [fr EXCEPT
                       !.n = @ + 1, !.prev = result, !.vals = <<>>,
                       !.empty = IF dry THEN @ + 1 ELSE 0,
                       !.yield = [x \in DOMAIN fr.yield \cup fresh |->
                          IF x \notin fresh THEN fr.yield[x]
                          ELSE IF x \in DOMAIN fr.yield THEN Append(fr.yield[x], walk.env[x])
                          ELSE <<walk.env[x]>>]] IN
       IF after.empty >= fr.u.n THEN walk' = Leaving(after, Under)
       ELSE Goto(<<Block(fr.u.body, RoundSpec(fr.at, fr.u, after.n)), after>> \o Under)
    /\ UNCHANGED <<Records, Disk>>

-----------------------------------------------------------------------------
(* evalGate.  No approver is configured: `uta mission run` and the server  *)
(* wire none, so a gate without an answer suspends the mission.            *)
Gate == Head(Top.body)
AtGate == TopIs("block") /\ Top.body # <<>> /\ Gate.s = "gate"
GateId == Append(Top.at, Gate.id)
Message == ValueOf(Gate.msg, walk.env).text
GatePrompt(gate) == <<"gate", ValueOf(gate.msg, walk.env).text>>
AskOf(session, id) == {a \in asks : a.session = session /\ a.id = id}
PriorAsk == AskOf(Prior, GateId)
Rest == <<Block(Tail(Top.body), Top.at)>> \o Under

GateUnbound ==
    /\ AtGate
    /\ ~Known(Gate.msg, walk.env)
    /\ Fail("Unbound")
    /\ UNCHANGED <<Records, Disk>>

GateRecovered ==
    /\ AtGate /\ Known(Gate.msg, walk.env)
    /\ Recoverable(GateId, GatePrompt(Gate))
    /\ Journaled(GateId, GatePrompt(Gate), journal[Prior][GateId].text)
    /\ Goto(Rest)
    /\ UNCHANGED <<sess, answers, Disk>>

Expired(a) == Gate.within /\ a.deadline \in passed

(* consumeGateMarkers removes the request and both markers before the      *)
(* decision is journaled.                                                  *)
GateAnswered ==
    /\ AtGate /\ Known(Gate.msg, walk.env)
    /\ ~Recoverable(GateId, GatePrompt(Gate))
    /\ \E a \in PriorAsk :
         /\ a.approved # "no" \/ a.denied \/ Expired(a)
         /\ asks' = asks \ {a}
         /\ Goto(<<Signed(GateId, a)>> \o walk.todo)
    /\ UNCHANGED <<Records, passed, human>>

\* broken: a denial beside nothing else is taken for a signature
GateDecided_AnyMarker ==
    /\ TopIs("signed")
    /\ LET a == Top.ask IN
       IF a.approved # "no" \/ a.denied
       THEN /\ Journaled(Top.id, GatePrompt(Head(Under[1].body)), <<a.approved>>)
            /\ Goto(<<Block(Tail(Under[1].body), Under[1].at)>> \o Tail(Under))
       ELSE Fail("GateTimedOut") /\ UNCHANGED journal
    /\ UNCHANGED <<sess, answers, Disk>>

(* An approval outranks a denial; the choice of a `gate choose` must be    *)
(* one of its options; without either marker it was the deadline.          *)
GateDecided ==
    /\ TopIs("signed")
    /\ LET a == Top.ask
           gate == Head(Under[1].body) IN
       IF a.approved # "no" /\ (gate.choose => a.approved \in Range(gate.options))
       THEN /\ Journaled(Top.id, GatePrompt(gate), <<a.approved>>)
            /\ Goto(<<Block(Tail(Under[1].body), Under[1].at)>> \o Tail(Under))
       ELSE /\ Fail(IF a.approved # "no" \/ a.denied THEN "GateDenied" ELSE "GateTimedOut")
            /\ UNCHANGED journal
    /\ UNCHANGED <<sess, answers, Disk>>

(* A gate that was asked before carries its first deadline forward.        *)
GateSuspends ==
    /\ AtGate /\ Known(Gate.msg, walk.env)
    /\ ~Recoverable(GateId, GatePrompt(Gate))
    /\ \A a \in PriorAsk : a.approved = "no" /\ ~a.denied /\ ~Expired(a)
    /\ asks' = asks \cup
         {[session |-> Cur, id |-> GateId, msg |-> Message, approved |-> "no",
           denied |-> FALSE, options |-> Gate.options, choose |-> Gate.choose,
           deadline |-> IF ~Gate.within THEN 0
                        ELSE IF \E a \in PriorAsk : a.deadline # 0
                        THEN (CHOOSE a \in PriorAsk : TRUE).deadline ELSE Cur]}
    /\ Fail("Suspended")
    /\ UNCHANGED <<Records, passed, human>>

-----------------------------------------------------------------------------
(* The humans: `uta hitl approve [--deny]` writes a marker beside a        *)
(* request that is on disk, and an answer deadline passes.                 *)
Approve(a) ==
    /\ a.approved = "no"
    /\ \E choice \in IF a.choose THEN Range(a.options) ELSE {"yes"} :
         asks' = (asks \ {a}) \cup {[a EXCEPT !.approved = choice]}
    /\ human' = human \cup {<<a.session, a.id, a.msg>>}
    /\ UNCHANGED <<Records, passed, walk>>

Deny(a) ==
    /\ ~a.denied
    /\ asks' = (asks \ {a}) \cup {[a EXCEPT !.denied = TRUE]}
    /\ UNCHANGED <<Records, passed, walk, human>>

DeadlinePasses(a) ==
    /\ a.deadline # 0 /\ a.deadline \notin passed
    /\ passed' = passed \cup {a.deadline}
    /\ UNCHANGED <<Records, asks, walk, human>>

-----------------------------------------------------------------------------
(* Sessions begin and end.                                                 *)
StatusOf(err) ==
    CASE err = "BudgetExceeded" -> "budget_exhausted"
      [] err = "Cancelled" -> "cancelled"
      [] err = "Suspended" -> "awaiting_signature"
      [] OTHER -> "failed"
HaltedAs(cause) == IF cause = "BudgetExceeded" THEN "budget_exhausted" ELSE "halted"

Close(status) ==
    /\ sess' = [sess EXCEPT ![Cur].status = status]
    /\ walk' = Idle
    /\ UNCHANGED <<journal, answers, Disk>>

Completes == Going /\ walk.todo = <<>> /\ Close("completed")

HandlersFor(err) ==
    LET hs == Program[sess[Cur].version].handlers IN {i \in DOMAIN hs : hs[i].err = err}

(* failMission: the handler of the error runs its compensation.            *)
Compensate ==
    /\ Raised /\ Catchers = {}
    /\ HandlersFor(walk.err) # {}
    /\ LET i == Min(HandlersFor(walk.err)) IN
       walk' = [walk EXCEPT !.err = "none",
                  !.todo = <<Block(Program[sess[Cur].version].handlers[i].body,
                                   <<<<"on", i>>>>),
                             Handler(walk.err)>>]
    /\ UNCHANGED <<Records, Disk>>

FailMission ==
    /\ Raised /\ Catchers = {}
    /\ HandlersFor(walk.err) = {}
    /\ Close(StatusOf(walk.err))

\* broken: a halt hides what the walk failed with
HandlerEnds_HaltHides ==
    \/ TopIs("handler") /\ Close(StatusOf(Top.cause))
    \/ Caught("handler") /\ Close(IF walk.err = "Halt" THEN "halted"
                                  ELSE StatusOf(Catcher.cause))

(* The handler is done: the error it compensated closes the session unless *)
(* it reached a halt.  A compensation that fails stops there.              *)
HandlerEnds ==
    \/ TopIs("handler") /\ Close(StatusOf(Top.cause))
    \/ Caught("handler") /\ Close(IF walk.err = "Halt" THEN HaltedAs(Catcher.cause)
                                  ELSE StatusOf(Catcher.cause))

Fresh(version) ==
    [todo |-> <<Block(Program[version].stmts, <<>>)>>, err |-> "none",
     val |-> Value(Blank), env |-> <<>>, out |-> <<>>, spent |-> 0, benched |-> {},
     answer |-> Blank, absorbed |-> FALSE, cancelled |-> FALSE]

(* A mission run: a new session, which may resume an earlier one with the  *)
(* program as it is now.                                                   *)
Begin(version, from) ==
    /\ ~Walking
    /\ Cur < MaxSessions[version]
    /\ Runnable(Program[version])
    /\ sess' = Append(sess, [version |-> version, from |-> from, status |-> "running"])
    /\ journal' = Append(journal, <<>>)
    /\ walk' = Fresh(version)
    /\ UNCHANGED <<Disk, answers>>

Resume ==
    \E from \in 1..Cur : \E v \in Edits[sess[from].version] : Begin(v, from)

(* Ctrl-C.                                                                 *)
Cancel ==
    /\ Walking /\ ~walk.cancelled
    /\ walk' = [walk EXCEPT !.cancelled = TRUE]
    /\ UNCHANGED <<Records, Disk>>

(* The process dies: what it journaled and consumed stays so.              *)
Crash ==
    /\ Walking
    /\ walk' = Idle
    /\ UNCHANGED <<Records, Disk>>

Init ==
    /\ sess = <<>> /\ journal = <<>>
    /\ asks = {} /\ passed = {} /\ walk = Idle
    /\ human = {} /\ answers = {}

CallStep(s) == Recover(s) \/ Start(s) \/ Answer(s) \/ Malformed(s) \/ OverCeiling(s)
            \/ Fails(s) \/ Failover(s)
Calls == \E s \in DOMAIN walk.out : CallStep(s)

Step ==
    \/ Exec \/ Bound \/ Emitted \/ Evaluate \/ Judge \/ Attempted \/ Collected
    \/ RetryAgain \/ LoopOutOfBudget \/ NextRound
    \/ GateUnbound \/ GateRecovered \/ GateAnswered \/ GateDecided \/ GateSuspends
    \/ Completes \/ Compensate \/ FailMission \/ HandlerEnds
    \/ (Walking /\ Calls)

Next ==
    \/ Step
    \/ \E v \in DOMAIN Program : sess = <<>> /\ Begin(v, 0)
    \/ Resume \/ Cancel \/ Crash
    \/ \E a \in asks : Approve(a) \/ Deny(a) \/ DeadlinePasses(a)

Spec == Init /\ [][Next]_vars

(* The walk goes on by itself: every provider call returns at CallTimeout. *)
Fairness == WF_vars(Step)
FairSpec == Spec /\ Fairness

-----------------------------------------------------------------------------
RECURSIVE Chain(_)
Chain(i) == IF i = 0 THEN {} ELSE {i} \cup Chain(sess[i].from)
SameText(i, j) == sess[i].version = sess[j].version

(* A program Check passes never hands an agent an argument that fewer      *)
(* verifiers, or others, let stand than its parameter demands; what a loop *)
(* that never yielded leaves in its names is blank and excepted.           *)
JudgedAsDeclared ==
    Walking => \A s \in DOMAIN walk.out :
                  walk.out[s].st # "Unbound" => ~walk.out[s].unjudged

(* What a session records as the answer to a prompt, a provider once gave  *)
(* to that very prompt, however often the program was edited and resumed.  *)
AnswersItsPrompt ==
    \A i \in DOMAIN sess : \A s \in DOMAIN journal[i] :
        journal[i][s].prompt[1] # "gate" =>
            <<journal[i][s].prompt, journal[i][s].text>> \in answers

(* No walk gets past a gate a human did not sign, in this session or in    *)
(* one it goes back to.                                                    *)
Signatures(i, id) == {h \in human : h[1] \in Chain(i) /\ h[2] = id}
SignedOff ==
    \A i \in DOMAIN sess : \A s \in DOMAIN journal[i] :
        journal[i][s].prompt[1] = "gate" => Signatures(i, s) # {}

(* The message a walk passed a gate with is one a human was shown.         *)
SignedAsShown ==
    \A i \in DOMAIN sess : \A s \in DOMAIN journal[i] :
        journal[i][s].prompt[1] = "gate" =>
            \E h \in Signatures(i, s) : h[3] = journal[i][s].prompt[2]

(* A signature waits on disk until a resume has acted on it: it is only    *)
(* gone when that session recorded the gate, is at it, died before it      *)
(* could, or runs an edited program.                                       *)
SignatureKept ==
    \A h \in human :
        \/ AskOf(h[1], h[2]) # {}
        \/ \E i \in DOMAIN sess :
              /\ sess[i].from = h[1]
              /\ \/ h[2] \in DOMAIN journal[i]
                 \/ sess[i].status = "running"
                 \/ sess[i].version # sess[h[1]].version

(* A gate is passed with a signature, and a signature passes its gate.     *)
SignaturesHold == SignedOff /\ SignatureKept

(* What a mission acts on is what a provider or a human really said.       *)
AnswersHold == AnswersItsPrompt /\ SignaturesHold

(* A mission whose budget tripped is closed as budget_exhausted, halted or *)
(* not, unless a discovery loop took the trip for its end or the budget    *)
(* went only while another failure was being compensated.                  *)
OutOfBudget ==
    /\ Tripped /\ ~walk.absorbed
    /\ \A i \in DOMAIN walk.todo :
          walk.todo[i].f = "handler" => walk.todo[i].cause = "BudgetExceeded"
BudgetTold ==
    [][(Walking /\ OutOfBudget /\ sess'[Cur].status # "running")
         => sess'[Cur].status = "budget_exhausted"]_vars

(* Every walk ends: loops run dry or out of budget, retries are bounded.   *)
WalkEnds == Walking ~> ~Walking
=============================================================================
