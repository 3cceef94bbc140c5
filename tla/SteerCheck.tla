------------------------------ MODULE SteerCheck ------------------------------
(***************************************************************************)
(* Which steer programs `uta mission run` executes: those the parser can   *)
(* yield (internal/steer/parser.go) and Check passes without an error      *)
(* (internal/steer/check.go).  A program is a record of a token ceiling,   *)
(* the grants of its policies, a statement list and its on-handlers; its   *)
(* names are members of small sets and every call, judge, par, retry,      *)
(* until and gate carries the id its place in its scope gives it.          *)
(***************************************************************************)
EXTENDS Integers, Sequences, FiniteSets, Functions, SequencesExt

CONSTANT Agent   \* agent fn -> [params : Seq([refine, lenses]), structured,
                 \*              capped, workers]

RetryErrors == {"SchemaMismatch", "JudgeRejected"}
HandlerErrors == RetryErrors \cup {"BudgetExceeded", "GateDenied", "GateTimedOut"}

-----------------------------------------------------------------------------
(* The grammar: what each parse function can return.                       *)
RECURSIVE IsExpr(_)
IsExpr(e) ==
    \/ e.e \in {"lit", "name"}
    \/ e.e = "call" /\ \A i \in DOMAIN e.args : IsExpr(e.args[i])
    \/ e.e = "par" /\ IsExpr(e.body) /\ \A i \in DOMAIN e.items : IsExpr(e.items[i])
    \/ e.e = "judge" /\ IsExpr(e.value) /\ e.by # <<>>
                     /\ \A i \in DOMAIN e.by : e.by[i].e = "call" /\ IsExpr(e.by[i])

(* A retry clause belongs to a let and allows one attempt more at least.   *)
IsBound(e) == IsExpr(e) \/ (e.e = "retry" /\ e.n >= 1 /\ IsExpr(e.body))

RECURSIVE IsStmt(_)
IsStmt(s) ==
    \/ s.s = "let" /\ IsBound(s.expr)
    \/ s.s = "emit" /\ IsExpr(s.expr)
    \/ s.s = "gate" /\ IsExpr(s.msg)
    \/ s.s = "with" /\ s.body # <<>> /\ \A i \in DOMAIN s.body : IsStmt(s.body[i])
    \/ s.s = "until" /\ s.n >= 1 /\ s.body # <<>>
                     /\ \A i \in DOMAIN s.body : IsStmt(s.body[i])

(* Only the body of an on-handler holds a halt, and it holds no block.     *)
IsHandler(h) ==
    /\ h.body # <<>>
    /\ \A i \in DOMAIN h.body :
         \/ h.body[i].s = "halt"
         \/ h.body[i].s \in {"let", "emit"} /\ IsStmt(h.body[i])

Parses(p) ==
    /\ \A i \in DOMAIN p.stmts : IsStmt(p.stmts[i])
    /\ \A i \in DOMAIN p.handlers : IsHandler(p.handlers[i])

-----------------------------------------------------------------------------
(* What Check knows of a binding: the verifiers that must have let its     *)
(* value stand, and the lenses among them that are certain.                *)
Unjudged == [refine |-> 0, lenses |-> {}]

LensName(c) == IF c.args # <<>> /\ c.args[1].e = "lit" THEN c.args[1].t ELSE c.fn

Without(known, x) == Restrict(known, DOMAIN known \ {x})
With(known, x, k) == [y \in DOMAIN known \cup {x} |-> IF y = x THEN k ELSE known[y]]

(* refinementOf and lensSetOf: a judge with K < N makes no lens certain,   *)
(* and the variable of a par hides a judged binding of the same name.      *)
RECURSIVE Judgment(_, _)
Judgment(e, known) ==
    CASE e.e = "judge" ->
           [refine |-> e.k,
            lenses |-> IF e.k # e.n THEN {} ELSE {LensName(e.by[i]) : i \in DOMAIN e.by}]
      [] e.e = "retry" -> Judgment(e.body, known)
      [] e.e = "par" -> Judgment(e.body, Without(known, e.x))
      [] e.e = "name" -> IF e.x \in DOMAIN known THEN known[e.x] ELSE Unjudged
      [] OTHER -> Unjudged

\* broken: only the count of the verifiers is asked for
ArgFits_Count(param, e, known) == Judgment(e, known).refine >= param.refine

(* checkArgRefinement and checkArgLenses.                                  *)
ArgFits(param, e, known) ==
    \/ param.refine = 0
    \/ /\ Judgment(e, known).refine >= param.refine
       /\ param.lenses \subseteq Judgment(e, known).lenses

RECURSIVE ExprOk(_, _, _)
(* A verifier takes the judged value as its last argument and returns Text.*)
VerifierOk(by, value, known, lets) ==
    LET params == Agent[by.fn].params IN
    /\ Len(params) = Len(by.args) + 1
    /\ ~Agent[by.fn].structured
    /\ \A i \in DOMAIN by.args :
         ExprOk(by.args[i], known, lets) /\ ArgFits(params[i], by.args[i], known)
    /\ ArgFits(params[Len(params)], value, known)

ExprOk(e, known, lets) ==
    CASE e.e = "lit" -> TRUE
      [] e.e = "name" -> e.x \in lets
      [] e.e = "par" ->
           /\ \A i \in DOMAIN e.items : ExprOk(e.items[i], known, lets)
           /\ ExprOk(e.body, Without(known, e.x), lets \cup {e.x})
      [] e.e = "judge" ->
           /\ ExprOk(e.value, known, lets)
           /\ e.n = Len(e.by) /\ e.k \in 1..e.n
           /\ \A i \in DOMAIN e.by : VerifierOk(e.by[i], e.value, known, lets)
      [] e.e = "retry" -> e.on \in RetryErrors /\ ExprOk(e.body, known, lets)
      [] e.e = "call" ->
           /\ Len(e.args) = Len(Agent[e.fn].params)
           /\ \A i \in DOMAIN e.args :
                /\ ExprOk(e.args[i], known, lets)
                /\ ArgFits(Agent[e.fn].params[i], e.args[i], known)

-----------------------------------------------------------------------------
(* checkStmts threads one flat scope through the whole program: the blocks *)
(* and the handlers add to it in the order of the text.                    *)
Scope == [ok |-> TRUE, lets |-> {}, known |-> <<>>]

RECURSIVE AfterStmts(_, _, _)
AfterStmt(p, scope, s) ==
    CASE s.s = "let" ->
           [ok |-> /\ scope.ok /\ s.x \notin scope.lets
                   /\ ExprOk(s.expr, scope.known, scope.lets),
            lets |-> scope.lets \cup {s.x},
            known |-> With(scope.known, s.x, Judgment(s.expr, scope.known))]
      [] s.s = "emit" ->
           [scope EXCEPT !.ok = @ /\ ExprOk(s.expr, scope.known, scope.lets)]
      [] s.s = "gate" ->
           [scope EXCEPT !.ok =
              /\ @ /\ ExprOk(s.msg, scope.known, scope.lets)
              /\ s.choose => s.options # <<>> /\ IsInjective(s.options)]
      [] s.s = "with" -> AfterStmts(p, scope, s.body)
      [] s.s = "until" ->
           AfterStmts(p, [scope EXCEPT !.ok = @ /\ p.tokens > 0], s.body)
      [] s.s = "halt" -> scope

AfterStmts(p, scope, stmts) ==
    FoldLeft(LAMBDA sc, s : AfterStmt(p, sc, s), scope, stmts)

RECURSIVE Raises(_)
(* CapRaises: every `with cap` of the mission, nested blocks included.     *)
Raises(stmts) ==
    UNION {CASE stmts[i].s = "with" ->
                  {<<stmts[i].cap, stmts[i].policy>>} \cup Raises(stmts[i].body)
             [] stmts[i].s = "until" -> Raises(stmts[i].body)
             [] OTHER -> {} : i \in DOMAIN stmts}

(* CheckCapRaises: a raise borrows what its source policy grants.          *)
RaisesBacked(p) ==
    \A r \in Raises(p.stmts) : r[2] \in DOMAIN p.grants /\ r[1] \in p.grants[r[2]]

(* Check finds no error.                                                   *)
Checked(p) ==
    /\ p.tokens > 0
    /\ FoldLeft(LAMBDA sc, h : AfterStmts(p, sc, h.body),
                AfterStmts(p, Scope, p.stmts), p.handlers).ok
    /\ \A i \in DOMAIN p.handlers : p.handlers[i].err \in HandlerErrors
    /\ \A i, j \in DOMAIN p.handlers :
         i # j => p.handlers[i].err # p.handlers[j].err

Runnable(p) == Parses(p) /\ Checked(p) /\ RaisesBacked(p)
=============================================================================
