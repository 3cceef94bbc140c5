------------------------------ MODULE MCMission ------------------------------
(***************************************************************************)
(* Plans and missions: every plan of N tasks that the DAG strategy may be  *)
(* given, cyclic ones included; the goroutines of a par with a judge in    *)
(* it; the walk of whole programs; and a program's text between its        *)
(* author, the language server and the formatter.  A behaviour exercises   *)
(* one of them, `side`; the others stay where they start, and the plan     *)
(* has been refused.                                                       *)
(***************************************************************************)
EXTENDS MCDagRun, MissionPar, SteerSyntax

(* Small programs, one for each construct that stops, repeats or judges,   *)
(* and the edits a resumed program may have seen.                          *)
MCMaxTokens == 3
Raw == [refine |-> 0, lenses |-> {}]
Judged == [refine |-> 1, lenses |-> {}]
CheckedBy == [refine |-> 1, lenses |-> {"check"}]
Fn(params, structured, capped, workers) ==
    [params |-> params, structured |-> structured, capped |-> capped, workers |-> workers]

MCAgent ==
    [draft |-> Fn(<<Raw>>, FALSE, FALSE, <<"p1", "p2">>),
     check |-> Fn(<<Raw>>, FALSE, FALSE, <<"p1">>),
     audit |-> Fn(<<Raw>>, FALSE, FALSE, <<"p2">>),
     ship |-> Fn(<<Judged>>, FALSE, FALSE, <<"p1">>),
     seal |-> Fn(<<CheckedBy>>, FALSE, FALSE, <<"p1">>),
     fill |-> Fn(<<Raw>>, TRUE, TRUE, <<"p1">>)]

Lit(t) == [e |-> "lit", t |-> t]
NameE(x) == [e |-> "name", x |-> x]
CallE(fn, args, id) == [e |-> "call", fn |-> fn, args |-> args, id |-> id]
JudgeE(value, by, k) ==
    [e |-> "judge", value |-> value, by |-> by, k |-> k, n |-> Len(by), id |-> "j1"]
RetryE(n, on, body) == [e |-> "retry", n |-> n, on |-> on, body |-> body, id |-> "t1"]
LetS(x, expr) == [s |-> "let", x |-> x, expr |-> expr]
EmitS(expr) == [s |-> "emit", expr |-> expr]
GateS(msg, within) == [s |-> "gate", msg |-> msg, within |-> within, choose |-> FALSE,
                       options |-> <<>>, id |-> "g1"]
ChooseS(msg, options) == [GateS(msg, FALSE) EXCEPT !.choose = TRUE, !.options = options]
OnE(err, body) == [err |-> err, body |-> body]
Halt == [s |-> "halt"]
P(stmts, handlers) == [tokens |-> MCMaxTokens, grants |-> [release |-> {"push"}],
                       stmts |-> stmts, handlers |-> handlers]

Draft == LetS("a", CallE("draft", <<Lit("t")>>, "c1"))
Both == <<CallE("check", <<>>, "c1"), CallE("audit", <<>>, "c1")>>
Judging2(k) == LetS("b", RetryE(1, "JudgeRejected", JudgeE(NameE("a"), Both, k)))
Sorry == OnE("JudgeRejected", <<EmitS(Lit("sorry")), Halt>>)

MCProgram ==
    [judged |-> P(<<Draft, Judging2(1), LetS("c", CallE("ship", <<NameE("b")>>, "c2")),
                    EmitS(NameE("c"))>>, <<Sorry>>),
     sealed |-> P(<<Draft, Judging2(2), EmitS(CallE("seal", <<NameE("b")>>, "c2"))>>,
                  <<OnE("JudgeRejected", <<EmitS(Lit("sorry"))>>),
                    OnE("BudgetExceeded", <<LetS("z", CallE("draft", <<Lit("u")>>, "c1")),
                                           EmitS(NameE("z")), Halt>>)>>),
     \* Check refuses these two: one verifier of two says nothing of which one
     anyone |-> P(<<Draft, Judging2(1), EmitS(CallE("seal", <<NameE("b")>>, "c2"))>>, <<>>),
     skipped |-> P(<<Draft, EmitS(CallE("ship", <<NameE("a")>>, "c2"))>>, <<>>),
     gated |-> P(<<Draft, GateS(NameE("a"), TRUE), EmitS(NameE("a"))>>,
                 <<OnE("GateTimedOut", <<EmitS(Lit("late")), Halt>>)>>),
     regated |-> P(<<Draft, GateS(Lit("t"), TRUE), EmitS(NameE("a"))>>, <<>>),
     choose |-> P(<<Draft, ChooseS(NameE("a"), <<"go", "hold">>), EmitS(NameE("a"))>>, <<>>),
     rechoose |-> P(<<Draft, ChooseS(NameE("a"), <<"go">>), EmitS(NameE("a"))>>, <<>>),
     loop |-> P(<<[s |-> "until", n |-> 1, id |-> "u1", body |->
                     <<LetS("x", CallE("fill", <<Lit("t")>>, "c1")),
                       [s |-> "with", cap |-> "push", policy |-> "release",
                        body |-> <<EmitS(NameE("x"))>>]>>],
                  LetS("y", CallE("draft", <<NameE("x")>>, "c1")), EmitS(NameE("y"))>>,
                <<OnE("BudgetExceeded", <<EmitS(NameE("x")), Halt>>)>>),
     \* Check passes this one, and its gate finds no x when the loop yields nothing
     nested |-> P(<<[s |-> "until", n |-> 1, id |-> "u1", body |->
                     <<[s |-> "with", cap |-> "push", policy |-> "release",
                        body |-> <<LetS("x", CallE("fill", <<Lit("t")>>, "c1"))>>]>>],
                    GateS(NameE("x"), FALSE)>>, <<>>),
     items |-> P(<<LetS("p", RetryE(1, "SchemaMismatch",
                     [e |-> "par", x |-> "v", items |-> <<Lit("t"), Lit("u")>>, id |-> "p1",
                      body |-> CallE("fill", <<NameE("v")>>, "c1")])), EmitS(NameE("p"))>>,
                 <<>>)]

MCEdits == [v \in DOMAIN MCProgram |->
              CASE v = "gated" -> {v, "regated"} [] v = "choose" -> {v, "rechoose"}
                [] OTHER -> {v}]
MCMaxSessions == [v \in DOMAIN MCProgram |-> IF v = "gated" THEN 3 ELSE 2]
MCTexts == {<<"x">>, <<>>}

(* Files to format and to edit: four that use every construct of the       *)
(* language, and each of them with a lexeme left out or put in.            *)
Ticks(n) == <<Number(<<n>>, FALSE)>>
Saying(c) == <<Quoted(<<c>>)>>
DoIt == <<Prompt(<<Line(0, ""), Line(2, "Do"), Line(0, ""), Line(4, "it"), Line(2, "")>>)>>

Typed ==
  <<Shebang>> \o Words(<<"type", "Doc", "{", "title", ":", "string", "}">>)
  \o Words(<<"agent", "fn", "draft", "(", "topic", ":", "[", "string", "@">>) \o Ticks(2)
  \o Words(<<"]", ")", "->", "Doc", "prompt">>) \o DoIt
  \o Words(<<"costs", "<=">>) \o <<Number(<<2, 0>>, TRUE)>> \o Words(<<"tokens", "worker", "any", "(", "a", ",", "b", ")">>)

Guarded ==
  Words(<<"agent", "fn", "f", "(", "x", ":", "Doc", "@", "{", "l", ",", "r", "}", ")", "->", "Doc", "worker", "a">>)
  \o Words(<<"mission", "m", "{", "budget">>) \o Ticks(0) \o Words(<<"tokens", "policy", "p">>)
  \o Words(<<"let", "d", "=", "f", "(">>) \o <<Quoted(<<"backslash", "n", "a">>)>> \o Words(<<")", "retry">>) \o Ticks(2)
  \o Words(<<"on", "SchemaMismatch", "emit", "d", "}">>)

Budgeted ==
  Words(<<"mission", "m", "{", "budget">>) \o <<Number(<<6, 0>>, FALSE)>> \o Words(<<"min", ",", "$">>) \o Ticks(1)
  \o Words(<<".">>) \o <<Number(<<0, 5>>, FALSE)>> \o Words(<<",">>) \o <<Number(<<1>>, TRUE)>> \o Words(<<"tokens">>)
  \o Words(<<"gate", "choose">>) \o Saying("q") \o Words(<<"of", "[">>) \o Saying("a") \o Words(<<",">>) \o Saying("b")
  \o Words(<<"]", "within">>) \o Ticks(9) \o Words(<<"s">>)
  \o Words(<<"gate", "human", "d", "on", "Budget", "->", "emit", "d", ";", "halt", "}">>)

Nested ==
  Words(<<"mission", "m", "{", "with", "cap">>) \o Saying("c") \o Words(<<"from", "policy", "p", "{">>)
  \o Words(<<"until", "dry", "(">>) \o Ticks(1) \o Words(<<")", "{", "emit", "par", "for", "i", "in", "[", "a", "b", "]">>)
  \o Words(<<"{", "judge", "i", "by", "v", "(", ")", ",", "w", "(", ")", "require">>) \o Ticks(1) \o Words(<<"of">>) \o Ticks(2)
  \o Words(<<"}", "}", "}", "}">>)

Bases == {Typed, Guarded, Budgeted, Nested}
Insertions == {Comment, Ident("any"), Sign(","), Number(<<0>>, TRUE), Quoted(<<"quote">>), Quoted(<<"backslash", "quote">>)}
MCVariants ==
  Bases \cup UNION {{RemoveAt(base, i) : i \in DOMAIN base} : base \in Bases}
    \cup UNION {{InsertAt(base, i, lexeme) : i \in 1 .. Len(base) + 1, lexeme \in Insertions} : base \in Bases}
\* an empty file, one that can be formatted, one with a comment, and one that does not parse
Small == Words(<<"mission", "m", "{", "emit", "d", "}">>)
MCDrafts == {<<>>, Small, Append(Small, Comment), Tail(Small)}

-----------------------------------------------------------------------------

CONSTANTS Agent, Program, Edits, Texts, MaxSessions, MaxTokens
VARIABLES sessions, journal, asks, passed, walk, human, answers

Walk == INSTANCE MissionWalk WITH sess <- sessions
walkVars == <<sessions, journal, asks, passed, walk, human, answers>>

CONSTANTS Drafts, Variants, MaxSteps
VARIABLES draft, typed, steps, toServer, toEditor, docs, serving, shown, file, saves, fmt, side

Editor == INSTANCE SteerEditor WITH Texts <- Drafts
editorVars == <<draft, typed, steps, toServer, toEditor, docs, serving, shown, file, saves, fmt>>

\* what a run leaves behind whose plan is a cycle: nothing of it is enabled
Refused ==
  /\ failFast = FALSE /\ needs = [t \in Tasks |-> Tasks]
  /\ st = [t \in Tasks |-> "todo"] /\ attempt = [t \in Tasks |-> 0]
  /\ main = "done" /\ cursor = 1 /\ allDone = TRUE /\ anyFailed = TRUE
  /\ ret = "invalid" /\ ctx = "live" /\ tripped = FALSE /\ sess = "failed"

MCInit ==
  /\ side \in {"dag", "par", "walk", "editor"}
  /\ Editor!Init /\ (side # "editor" => typed.words = <<>>)
  /\ IF side = "dag" THEN Init ELSE Refused
  /\ ParInit /\ Walk!Init
MCNext ==
  /\ side' = side
  /\ \/ side = "dag" /\ Next /\ UNCHANGED <<parVars, walkVars, editorVars>>
     \/ side = "par" /\ ParNext /\ UNCHANGED <<vars, walkVars, editorVars>>
     \/ side = "walk" /\ Walk!Next /\ UNCHANGED <<vars, parVars, editorVars>>
     \/ side = "editor" /\ Editor!Next /\ UNCHANGED <<vars, parVars, walkVars>>

\* the liveness checked here is the plan's and the walk's, whose steps are
\* disabled elsewhere
MCSpec ==
  /\ MCInit /\ [][MCNext]_<<vars, parVars, walkVars, editorVars, side>>
  /\ Fairness /\ Walk!Fairness

JudgedAsDeclared == Walk!JudgedAsDeclared
AnswersHold == Walk!AnswersHold
BudgetTold == Walk!BudgetTold
WalkEnds == Walk!WalkEnds
SignedAsShown == Walk!SignedAsShown
\* costly, and true of the editor's one state on the other sides
TextIsServed == side = "editor" => Editor!TextIsServed
=============================================================================
