----------------------------- MODULE SteerSyntax -----------------------------
(***************************************************************************)
(* The front end of the steer language: the lexer's values, the parser and *)
(* the formatter (steer/lexer.go, parser.go, fmt.go).  A file is the       *)
(* sequence of its lexemes as they are written; blanks and the layout      *)
(* between them are left out, except inside a prompt block, whose lines    *)
(* the lexer dedents and the formatter indents.                            *)
(*                                                                         *)
(* The parser keeps the lexemes that are left; after its first error they  *)
(* are Bad, which every expectation turns into Bad again.                  *)
(***************************************************************************)
EXTENDS Integers, Sequences, SequencesExt

(* The lexemes.                                                            *)
Ident(w)        == [kind |-> "ident", word |-> w]
Sign(w)         == [kind |-> "sign", word |-> w]
Number(ds, k)   == [kind |-> "number", digits |-> ds, k |-> k]  \* "20k"
Quoted(chars)   == [kind |-> "string", raw |-> chars]           \* between the quotes
Prompt(lines)   == [kind |-> "prompt", lines |-> lines]         \* between the triple quotes
Comment         == [kind |-> "comment"]
Shebang         == [kind |-> "shebang"]

Signs == {"(", ")", "{", "}", "[", "]", ",", ":", ";", "->", "=", "<=", "$", ".", "@"}
Words(ws) == [i \in DOMAIN ws |-> IF ws[i] \in Signs THEN Sign(ws[i]) ELSE Ident(ws[i])]

Bad == <<[kind |-> "bad"]>>

-----------------------------------------------------------------------------
(* What a lexeme is worth.                                                 *)

Worth(n) ==
  FoldLeft(LAMBDA sum, digit : 10 * sum + digit, 0, n.digits) * (IF n.k THEN 1000 ELSE 1)

(* Escapes, as the sequence of the characters; "error" for one that is not *)
(* known, or a string that the end of the line cuts.                       *)
Escapes == [n |-> "newline", t |-> "tab", quote |-> "quote", backslash |-> "backslash"]
RECURSIVE Unquoted(_)
Unquoted(raw) ==
  IF raw = <<>> THEN <<>>
  ELSE IF Head(raw) = "newline" THEN <<"error">>
  ELSE IF Head(raw) # "backslash" THEN <<Head(raw)>> \o Unquoted(Tail(raw))
  ELSE IF Len(raw) > 1 /\ raw[2] \in DOMAIN Escapes
  THEN <<Escapes[raw[2]]>> \o Unquoted(SubSeq(raw, 3, Len(raw)))
  ELSE <<"error">>

(* A line of a prompt block: its indentation and what follows it.          *)
Line(indent, ink) == [indent |-> indent, ink |-> ink]
Blank(line) == line.ink = ""

(* dedent: the line of the opening quotes and that of the closing ones go  *)
(* if they are blank, and so does the indentation common to the rest.      *)
DropFirst(lines) == IF lines # <<>> /\ Blank(Head(lines)) THEN Tail(lines) ELSE lines
DropLast(lines) == IF lines # <<>> /\ Blank(Last(lines)) THEN Front(lines) ELSE lines
RECURSIVE TrimRight(_)
TrimRight(lines) ==
  IF lines = <<>> \/ ~ Blank(Last(lines)) THEN lines ELSE TrimRight(Front(lines))
Dedent(raw) ==
  LET lines  == DropLast(DropFirst(raw))
      inked  == {i \in DOMAIN lines : ~ Blank(lines[i])}
      common == CHOOSE n \in {lines[i].indent : i \in inked} :
                  \A i \in inked : n <= lines[i].indent
      cut(line) == [line EXCEPT !.indent = IF @ >= common THEN @ - common ELSE 0]
  IN IF inked = {} THEN <<>>
     ELSE TrimRight([i \in DOMAIN lines |-> cut(lines[i])])

-----------------------------------------------------------------------------
(* The parser: a phrase is a sequence of signs, words and parts; its value *)
(* is the sequence of the values of its parts.                             *)

Result(val, rest) == [val |-> val, rest |-> rest]
Failed == Result(<<>>, Bad)
Checked(r, Ok(_)) == IF r.rest = Bad \/ ~ Ok(r.val) THEN Failed ELSE r
Built(r, Make(_)) == IF r.rest = Bad THEN Failed ELSE Result(Make(r.val), r.rest)
Extended(r, next) == Result(Append(r.val, next.val), next.rest)

Is(s, w) == s # <<>> /\ Head(s).kind \in {"ident", "sign"} /\ Head(s).word = w
IsOneOf(s, ws) == \E w \in ws : Is(s, w)
Sees(s, kind) == s # <<>> /\ Head(s).kind = kind

After(s, w) == IF Is(s, w) THEN Tail(s) ELSE Bad

Name(s) == IF Sees(s, "ident") THEN Result(Head(s).word, Tail(s)) ELSE Failed
Count(s) == IF Sees(s, "number") THEN Result(Worth(Head(s)), Tail(s)) ELSE Failed
String(s) ==
  Checked(IF Sees(s, "string") THEN Result(Unquoted(Head(s).raw), Tail(s)) ELSE Failed,
          LAMBDA chars : ~ Contains(chars, "error"))

Parts == {"NAME", "NAMES", "COUNT", "POSITIVE", "CENTS", "STRING", "STRINGS", "EXPR", "ARGS", "ITEMS",
          "CALL", "CALLS", "RETRY", "WITHIN", "CAP", "STMT", "STMTS", "BODY", "REACTION", "REACTIONS",
          "ENTRY", "ENTRIES", "AMOUNT", "AMOUNTS", "REFINED", "TYPE", "PARAM", "PARAMS", "FIELD", "FIELDS",
          "CLAUSE", "CLAUSES", "WORKERS", "PROMPT", "DECL", "DECLS"}
RECURSIVE Part(_, _)
Phrase(s, items) ==
  FoldLeft(LAMBDA r, item : IF item \in Parts THEN Extended(r, Part(item, r.rest))
                            ELSE Result(r.val, After(r.rest, item)),
           Result(<<>>, s), items)

(* Parts up to a closing sign, a comma after one being optional.           *)
RECURSIVE Enclosed(_, _, _)
Enclosed(r, close, part) ==
  IF r.rest = Bad THEN Failed
  ELSE IF Is(r.rest, close) THEN Result(r.val, Tail(r.rest))
  ELSE IF Is(r.rest, ",") /\ r.val # <<>> /\ ~ r.comma
  THEN Enclosed([val |-> r.val, rest |-> Tail(r.rest), comma |-> TRUE], close, part)
  ELSE LET more == Extended(r, Part(part, r.rest)) IN
       Enclosed([val |-> more.val, rest |-> more.rest, comma |-> FALSE], close, part)
UpTo(s, close, part) == Enclosed([val |-> <<>>, rest |-> s, comma |-> FALSE], close, part)

(* Parts with a separator between them, which another one must follow.     *)
RECURSIVE Separated(_, _, _)
Separated(r, sep, part) ==
  IF Is(r.rest, sep) THEN Separated(Extended(r, Part(part, Tail(r.rest))), sep, part) ELSE r
Between(s, sep, part) == Separated(Phrase(s, <<part>>), sep, part)

(* As many parts as start with one of the words.                           *)
RECURSIVE Repeated(_, _, _)
Repeated(r, words, part) ==
  IF IsOneOf(r.rest, words) THEN Repeated(Extended(r, Part(part, r.rest)), words, part) ELSE r
Many(s, words, part) == Repeated(Result(<<>>, s), words, part)

-----------------------------------------------------------------------------
(* Expressions.                                                            *)

ParFor(s) ==
  Built(Checked(Phrase(s, <<"par", "for", "NAME", "in", "[", "ITEMS", "{", "EXPR", "}">>),
                LAMBDA v : v[2] # <<>>),
        LAMBDA v : [is |-> "par", var |-> v[1], items |-> v[2], body |-> v[3]])

JudgeBy(s) ==
  Built(Phrase(s, <<"judge", "EXPR", "by", "CALLS", "require", "COUNT", "of", "COUNT">>),
        LAMBDA v : [is |-> "judge", value |-> v[1], by |-> v[2], k |-> v[3], n |-> v[4]])

Expr(s) ==
  IF Sees(s, "string") THEN Built(String(s), LAMBDA v : [is |-> "text", value |-> v])
  ELSE IF Is(s, "par") THEN ParFor(s)
  ELSE IF Is(s, "judge") THEN JudgeBy(s)
  ELSE IF Len(s) > 1 /\ Is(Tail(s), "(")
  THEN Built(Phrase(s, <<"NAME", "(", "ARGS">>),
             LAMBDA v : [is |-> "call", name |-> v[1], args |-> v[2]])
  ELSE Built(Name(s), LAMBDA v : [is |-> "name", name |-> v])

(* `let` only: "retry 2 on SchemaMismatch".                                *)
Retry(s) ==
  IF Is(s, "retry")
  THEN Built(Phrase(s, <<"retry", "POSITIVE", "on", "NAME">>),
             LAMBDA v : <<[times |-> v[1], error |-> v[2]]>>)
  ELSE Result(<<>>, s)

-----------------------------------------------------------------------------
(* Statements.  A duration is in seconds.                                  *)

Unit(w) == CASE w \in {"min", "m"} -> 60 [] w \in {"s", "sec"} -> 1 [] w = "h" -> 3600 [] OTHER -> 0

Within(s) ==
  IF Is(s, "within")
  THEN Built(Checked(Phrase(s, <<"within", "POSITIVE", "NAME">>), LAMBDA v : Unit(v[2]) # 0),
             LAMBDA v : v[1] * Unit(v[2]))
  ELSE Result(0, s)

StatementWords == {"let", "emit", "gate", "with", "until"}

Let(s) ==
  Built(Phrase(s, <<"let", "NAME", "=", "EXPR", "RETRY">>),
        LAMBDA v : [is |-> "let", name |-> v[1],
                    expr |-> IF v[3] = <<>> THEN v[2]
                             ELSE [is |-> "retry", times |-> v[3][1].times, error |-> v[3][1].error,
                                   expr |-> v[2]]])

Emit(s) == Built(Phrase(s, <<"emit", "EXPR">>), LAMBDA v : [is |-> "emit", expr |-> v[1]])

Gate(s) ==
  IF Len(s) > 1 /\ Is(Tail(s), "choose")
  THEN Built(Phrase(s, <<"gate", "choose", "EXPR", "of", "[", "STRINGS", "WITHIN">>),
             LAMBDA v : [is |-> "gate", choose |-> TRUE, message |-> v[1], options |-> v[2], within |-> v[3]])
  ELSE Built(Phrase(s, <<"gate", "human", "EXPR", "WITHIN">>),
             LAMBDA v : [is |-> "gate", choose |-> FALSE, message |-> v[1], options |-> <<>>, within |-> v[2]])

(* The body of a `with` or `until`, which must not be empty.               *)
Body(s) == Built(Checked(Phrase(s, <<"{", "STMTS", "}">>), LAMBDA v : v[1] # <<>>), LAMBDA v : v[1])

With(s) ==
  Built(Phrase(s, <<"with", "cap", "CAP", "from", "policy", "NAME", "BODY">>),
        LAMBDA v : [is |-> "with", cap |-> v[1], policy |-> v[2], body |-> v[3]])

Until(s) ==
  Built(Phrase(s, <<"until", "dry", "(", "POSITIVE", ")", "BODY">>),
        LAMBDA v : [is |-> "until", dry |-> v[1], body |-> v[2]])

Stmt(s) ==
  CASE Is(s, "let") -> Let(s) [] Is(s, "emit") -> Emit(s) [] Is(s, "gate") -> Gate(s)
    [] Is(s, "with") -> With(s) [] Is(s, "until") -> Until(s)
    [] OTHER -> Failed

(* A handler: let, emit and halt, with semicolons between them.            *)
Reaction(s) ==
  IF Is(s, "halt") THEN Result([is |-> "halt"], Tail(s))
  ELSE IF IsOneOf(s, {"let", "emit"}) THEN Stmt(s) ELSE Failed
On(s) ==
  Built(Phrase(s, <<"on", "NAME", "->", "REACTIONS">>),
        LAMBDA v : [is |-> "on", error |-> v[1], body |-> v[2]])

-----------------------------------------------------------------------------
(* Declarations.                                                           *)

(* What is given twice counts once, and is refused, but for a first that   *)
(* was zero or empty.                                                      *)
NoRepeat(vals, Key(_), Void(_)) ==
  \A i, j \in DOMAIN vals : i < j /\ Key(vals[i]) = Key(vals[j]) => Void(vals[i])

Amount(s) ==
  IF Is(s, "$")
  THEN IF Len(s) > 2 /\ Is(SubSeq(s, 3, 3), ".")
       THEN Built(Phrase(s, <<"$", "COUNT", ".", "CENTS">>),
                  LAMBDA v : [of |-> "cents", n |-> 100 * v[1] + v[2]])
       ELSE Built(Phrase(s, <<"$", "COUNT">>), LAMBDA v : [of |-> "cents", n |-> 100 * v[1]])
  ELSE Built(Checked(Phrase(s, <<"COUNT", "NAME">>), LAMBDA v : v[2] = "tokens" \/ Unit(v[2]) # 0),
             LAMBDA v : IF v[2] = "tokens" THEN [of |-> "tokens", n |-> v[1]]
                        ELSE [of |-> "deadline", n |-> v[1] * Unit(v[2])])
Total(amounts, of) ==
  FoldLeft(LAMBDA sum, amount : IF amount.of = of THEN sum + amount.n ELSE sum, 0, amounts)
Budget(s) ==
  Built(Checked(Phrase(s, <<"budget", "AMOUNTS">>),
                LAMBDA v : NoRepeat(v[1], LAMBDA a : a.of, LAMBDA a : a.n = 0)),
        LAMBDA v : [is |-> "budget", tokens |-> Total(v[1], "tokens"), cents |-> Total(v[1], "cents"),
                    deadline |-> Total(v[1], "deadline")])

(* A refinement: @k, or @{...} whose names are distinct and give the k.    *)
NoRefinement == [k |-> 0, lenses |-> <<>>]
Refinement(s) ==
  IF ~ Is(s, "@") THEN Result(NoRefinement, s)
  ELSE IF Len(s) > 1 /\ Is(Tail(s), "{")
  THEN Built(Checked(Phrase(s, <<"@", "{", "NAMES", "}">>), LAMBDA v : IsInjective(v[1])),
             LAMBDA v : [k |-> Len(v[1]), lenses |-> v[1]])
  ELSE Built(Phrase(s, <<"@", "COUNT">>), LAMBDA v : [k |-> v[1], lenses |-> <<>>])

Type(s) ==
  IF Is(s, "[")
  THEN Built(Phrase(s, <<"[", "NAME", "REFINED", "]">>),
             LAMBDA v : [of |-> v[1], list |-> TRUE, refine |-> v[2]])
  ELSE Built(Phrase(s, <<"NAME", "REFINED">>),
             LAMBDA v : [of |-> v[1], list |-> FALSE, refine |-> v[2]])

Workers(s) ==
  IF Is(s, "any") THEN Built(Phrase(s, <<"any", "(", "NAMES", ")">>), LAMBDA v : v[1])
  ELSE Phrase(s, <<"NAME">>)

Block(s) == IF Sees(s, "prompt") THEN Result(Dedent(Head(s).lines), Tail(s)) ELSE Failed

(* The clauses of an agent fn, in any order.                               *)
ClauseWords == {"worker", "costs", "prompt"}
Clause(s) ==
  CASE Is(s, "worker") -> Built(Phrase(s, <<"worker", "WORKERS">>),
                                LAMBDA v : [of |-> "worker", workers |-> v[1], void |-> FALSE])
    [] Is(s, "costs") -> Built(Phrase(s, <<"costs", "<=", "COUNT", "tokens">>),
                               LAMBDA v : [of |-> "costs", costs |-> v[1], void |-> v[1] = 0])
    [] Is(s, "prompt") -> Built(Phrase(s, <<"prompt", "PROMPT">>),
                                LAMBDA v : [of |-> "prompt", prompt |-> v[1], void |-> v[1] = <<>>])

AgentOf(name, params, ret, clauses) ==
  FoldLeft(LAMBDA fn, clause : CASE clause.of = "worker" -> [fn EXCEPT !.workers = clause.workers]
                                 [] clause.of = "costs" -> [fn EXCEPT !.costs = clause.costs]
                                 [] clause.of = "prompt" -> [fn EXCEPT !.prompt = clause.prompt],
           [is |-> "agent", name |-> name, params |-> params, returns |-> ret,
            workers |-> <<>>, costs |-> 0, prompt |-> <<>>],
           clauses)
AgentFn(s) ==
  Built(Checked(Phrase(s, <<"agent", "fn", "NAME", "(", "PARAMS", "->", "TYPE", "CLAUSES">>),
                LAMBDA v : /\ v[3].refine = NoRefinement
                           /\ NoRepeat(v[4], LAMBDA c : c.of, LAMBDA c : c.void)),
        LAMBDA v : AgentOf(v[1], v[2], v[3], v[4]))

TypeDecl(s) ==
  Built(Checked(Phrase(s, <<"type", "NAME", "{", "FIELDS">>), LAMBDA v : v[2] # <<>>),
        LAMBDA v : [is |-> "type", name |-> v[1], fields |-> v[2]])

(* The mission: an absent policy or budget is <<>>.                        *)
EntryWords == StatementWords \cup {"policy", "budget", "on"}
Entry(s) ==
  CASE Is(s, "policy") -> Built(Phrase(s, <<"policy", "NAME">>), LAMBDA v : [is |-> "policy", name |-> v[1]])
    [] Is(s, "budget") -> Budget(s)
    [] Is(s, "on") -> On(s)
    [] OTHER -> Stmt(s)
Only(vals, kinds) == SelectSeq(vals, LAMBDA val : val.is \in kinds)
Mission(s) ==
  Built(Checked(Phrase(s, <<"mission", "NAME", "{", "ENTRIES", "}">>),
                LAMBDA v : \A kind \in {"policy", "budget"} : Len(Only(v[2], {kind})) <= 1),
        LAMBDA v : [is |-> "mission", name |-> v[1], policy |-> Only(v[2], {"policy"}),
                    budget |-> Only(v[2], {"budget"}), stmts |-> Only(v[2], StatementWords),
                    handlers |-> Only(v[2], {"on"})])

DeclWords == {"type", "agent", "mission"}
Part(part, s) ==
  CASE part = "NAME" -> Name(s)
    [] part = "NAMES" -> Between(s, ",", "NAME")
    [] part = "COUNT" -> Count(s)
    [] part = "POSITIVE" -> Checked(Count(s), LAMBDA n : n >= 1)
    [] part = "CENTS" -> IF Sees(s, "number") /\ Len(Head(s).digits) = 2 THEN Count(s) ELSE Failed
    [] part = "STRING" -> String(s)
    [] part = "STRINGS" -> UpTo(s, "]", "STRING")
    [] part = "EXPR" -> Expr(s)
    [] part = "ARGS" -> UpTo(s, ")", "EXPR")
    [] part = "ITEMS" -> UpTo(s, "]", "EXPR")
    [] part = "CALL" -> Checked(Expr(s), LAMBDA e : e.is = "call")
    [] part = "CALLS" -> Between(s, ",", "CALL")
    [] part = "RETRY" -> Retry(s)
    [] part = "WITHIN" -> Within(s)
    [] part = "CAP" -> IF Sees(s, "ident") THEN Result(<<Head(s).word>>, Tail(s)) ELSE String(s)
    [] part = "STMT" -> Stmt(s)
    [] part = "STMTS" -> Many(s, StatementWords, "STMT")
    [] part = "BODY" -> Body(s)
    [] part = "REACTION" -> Reaction(s)
    [] part = "REACTIONS" -> Between(s, ";", "REACTION")
    [] part = "ENTRY" -> Entry(s)
    [] part = "ENTRIES" -> Many(s, EntryWords, "ENTRY")
    [] part = "AMOUNT" -> Amount(s)
    [] part = "AMOUNTS" -> Between(s, ",", "AMOUNT")
    [] part = "REFINED" -> Refinement(s)
    [] part = "TYPE" -> Type(s)
    [] part = "PARAM" -> Built(Phrase(s, <<"NAME", ":", "TYPE">>), LAMBDA v : [name |-> v[1], type |-> v[2]])
    [] part = "PARAMS" -> UpTo(s, ")", "PARAM")
    [] part = "FIELD" -> Built(Phrase(s, <<"NAME", ":", "NAME">>), LAMBDA v : [name |-> v[1], of |-> v[2]])
    [] part = "FIELDS" -> UpTo(s, "}", "FIELD")
    [] part = "CLAUSE" -> Clause(s)
    [] part = "CLAUSES" -> Many(s, ClauseWords, "CLAUSE")
    [] part = "WORKERS" -> Workers(s)
    [] part = "PROMPT" -> Block(s)
    [] part = "DECL" -> IF Is(s, "type") THEN TypeDecl(s) ELSE IF Is(s, "agent") THEN AgentFn(s) ELSE Mission(s)
    [] part = "DECLS" -> Many(s, DeclWords, "DECL")

(* The program of a file, or <<>> if it has a syntax error.                *)
Spoken(file) ==
  SelectSeq(IF Sees(file, "shebang") THEN Tail(file) ELSE file, LAMBDA lexeme : lexeme # Comment)
Declared(r) ==
  IF r.rest # <<>> \/ Len(Only(r.val, {"mission"})) > 1 THEN <<>>
  ELSE <<[types |-> Only(r.val, {"type"}), agents |-> Only(r.val, {"agent"}),
          mission |-> Only(r.val, {"mission"})]>>
Parse(file) == Declared(Part("DECLS", Spoken(file)))

-----------------------------------------------------------------------------
(* The formatter: a program as the lexemes it is written with.             *)

RECURSIVE Digits(_)
Digits(n) == IF n < 10 THEN <<n>> ELSE Append(Digits(n \div 10), n % 10)
Plain(n) == <<Number(Digits(n), FALSE)>>
TokenCount(n) ==
  IF n >= 1000 /\ n % 1000 = 0 THEN <<Number(Digits(n \div 1000), TRUE)>> ELSE Plain(n)
Deadline(sec) ==
  IF sec % 3600 = 0 THEN Plain(sec \div 3600) \o Words(<<"h">>)
  ELSE IF sec % 60 = 0 THEN Plain(sec \div 60) \o Words(<<"min">>)
  ELSE Plain(sec) \o Words(<<"s">>)

\* broken: a newline is not escaped.
Escaped_NoNewline(char) ==
  IF char = "newline" THEN <<char>>
  ELSE IF \E e \in DOMAIN Escapes : Escapes[e] = char
  THEN <<"backslash", CHOOSE e \in DOMAIN Escapes : Escapes[e] = char>> ELSE <<char>>
Escaped(char) ==
  IF \E e \in DOMAIN Escapes : Escapes[e] = char
  THEN <<"backslash", CHOOSE e \in DOMAIN Escapes : Escapes[e] = char>> ELSE <<char>>
Quote(chars) == <<Quoted(FlattenSeq([i \in DOMAIN chars |-> Escaped(chars[i])]))>>

(* The text of each item, with a separator between them.                   *)
Joined(items, sep, Text(_)) ==
  FlattenSeq([i \in DOMAIN items |-> (IF i = 1 THEN <<>> ELSE Words(sep)) \o Text(items[i])])
All(items, Text(_)) == Joined(items, <<>>, Text)

RECURSIVE ExprText(_)
ExprText(e) ==
  CASE e.is = "text" -> Quote(e.value)
    [] e.is = "name" -> Words(<<e.name>>)
    [] e.is = "call" -> Words(<<e.name, "(">>) \o Joined(e.args, <<",">>, ExprText) \o Words(<<")">>)
    [] e.is = "par" ->
         Words(<<"par", "for", e.var, "in", "[">>) \o Joined(e.items, <<",">>, ExprText)
           \o Words(<<"]", "{">>) \o ExprText(e.body) \o Words(<<"}">>)
    [] e.is = "judge" ->
         Words(<<"judge">>) \o ExprText(e.value) \o Words(<<"by">>) \o Joined(e.by, <<",">>, ExprText)
           \o Words(<<"require">>) \o Plain(e.k) \o Words(<<"of">>) \o Plain(e.n)
    [] e.is = "retry" ->
         ExprText(e.expr) \o Words(<<"retry">>) \o Plain(e.times) \o Words(<<"on", e.error>>)

RECURSIVE StmtText(_)
StmtText(st) ==
  CASE st.is = "let" -> Words(<<"let", st.name, "=">>) \o ExprText(st.expr)
    [] st.is = "emit" -> Words(<<"emit">>) \o ExprText(st.expr)
    [] st.is = "gate" ->
         Words(<<"gate", IF st.choose THEN "choose" ELSE "human">>) \o ExprText(st.message)
           \o (IF st.choose THEN Words(<<"of", "[">>) \o Joined(st.options, <<",">>, Quote) \o Words(<<"]">>)
               ELSE <<>>)
           \o (IF st.within > 0 THEN Words(<<"within">>) \o Deadline(st.within) ELSE <<>>)
    [] st.is = "halt" -> Words(<<"halt">>)
    [] st.is = "with" ->
         Words(<<"with", "cap">>) \o Quote(st.cap) \o Words(<<"from", "policy", st.policy, "{">>)
           \o All(st.body, StmtText) \o Words(<<"}">>)
    [] st.is = "until" ->
         Words(<<"until", "dry", "(">>) \o Plain(st.dry) \o Words(<<")", "{">>)
           \o All(st.body, StmtText) \o Words(<<"}">>)

BudgetText(b) ==
  LET dollars == Words(<<"$">>) \o Plain(b.cents \div 100) \o
                   (IF b.cents % 100 = 0 THEN <<>>
                    ELSE Words(<<".">>) \o
                         <<Number(<<(b.cents % 100) \div 10, b.cents % 10>>, FALSE)>>)
      given == SelectSeq(<< <<b.tokens, TokenCount(b.tokens) \o Words(<<"tokens">>)>>,
                            <<b.cents, dollars>>, <<b.deadline, Deadline(b.deadline)>> >>,
                         LAMBDA item : item[1] > 0)
  IN Words(<<"budget">>) \o
     (IF given = <<>> THEN Plain(0) \o Words(<<"tokens">>)
      ELSE Joined(given, <<",">>, LAMBDA item : item[2]))

HandlerText(h) == Words(<<"on", h.error, "->">>) \o Joined(h.body, <<";">>, StmtText)

MissionText(m) ==
  Words(<<"mission", m.name, "{">>)
    \o All(m.policy, LAMBDA p : Words(<<"policy", p.name>>)) \o All(m.budget, BudgetText)
    \o All(m.stmts, StmtText) \o All(m.handlers, HandlerText) \o Words(<<"}">>)

TypeText(type) ==
  LET r == type.refine
      suffix == IF r.lenses # <<>>
                THEN Words(<<"@", "{">>) \o Joined(r.lenses, <<",">>, LAMBDA l : Words(<<l>>)) \o Words(<<"}">>)
                ELSE IF r.k > 0 THEN Words(<<"@">>) \o Plain(r.k) ELSE <<>>
  IN IF type.list THEN Words(<<"[", type.of>>) \o suffix \o Words(<<"]">>)
     ELSE Words(<<type.of>>) \o suffix

(* The prompt's lines get two blanks, but for the empty ones.              *)
Indented(lines) ==
  <<Line(0, "")>>
    \o [i \in DOMAIN lines |-> IF lines[i] = Line(0, "") THEN lines[i]
                               ELSE [lines[i] EXCEPT !.indent = @ + 2]]
    \o <<Line(2, "")>>

AgentText(a) ==
  Words(<<"agent", "fn", a.name, "(">>)
    \o Joined(a.params, <<",">>, LAMBDA p : Words(<<p.name, ":">>) \o TypeText(p.type))
    \o Words(<<")", "->">>) \o TypeText(a.returns)
    \o (CASE Len(a.workers) = 0 -> <<>>
          [] Len(a.workers) = 1 -> Words(<<"worker", a.workers[1]>>)
          [] OTHER -> Words(<<"worker", "any", "(">>)
                        \o Joined(a.workers, <<",">>, LAMBDA w : Words(<<w>>)) \o Words(<<")">>))
    \o (IF a.costs > 0 THEN Words(<<"costs", "<=">>) \o TokenCount(a.costs) \o Words(<<"tokens">>)
        ELSE <<>>)
    \o (IF a.prompt # <<>> THEN Words(<<"prompt">>) \o <<Prompt(Indented(a.prompt))>> ELSE <<>>)

TypeDeclText(t) ==
  Words(<<"type", t.name, "{">>)
    \o All(t.fields, LAMBDA f : Words(<<f.name, ":", f.of>>)) \o Words(<<"}">>)

Format(p) ==
  All(p.types, TypeDeclText) \o All(p.agents, AgentText) \o All(p.mission, MissionText)

(* What `uta mission fmt` and the language server make of a file: it keeps *)
(* the #! line, and refuses a file whose comments it would lose.           *)
HasComments(file) == Contains(file, Comment)
FormattedAs(file, p) ==
  IF p = <<>> \/ HasComments(file) THEN <<>>
  ELSE <<(IF Sees(file, "shebang") THEN <<Shebang>> ELSE <<>>) \o Format(p[1])>>
Formatted(file) == FormattedAs(file, Parse(file))
=============================================================================
