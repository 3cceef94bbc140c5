----------------------------- MODULE SteerEditor -----------------------------
(***************************************************************************)
(* A steer file between its author, the language server of `uta mission    *)
(* lsp` (lsp/server.go, cli/missionlsp.go) and `uta mission fmt`           *)
(* (cli/missionfmt.go).                                                    *)
(*                                                                         *)
(* The editor is not part of this code: it sends the whole text at every   *)
(* change, takes the latest diagnostics it was sent for what holds, and    *)
(* applies a formatting answer only to the text it asked about.  A text is *)
(* its lexemes and whether they are laid out canonically.                  *)
(***************************************************************************)
EXTENDS SteerSyntax

CONSTANTS Texts,      \* what the author may write
          Variants,   \* files nobody edits
          MaxSteps    \* bounds what the author does

VARIABLES draft,    \* the text in the editor, <<>> when the document is closed
          typed,    \* the last text the author typed
          steps,    \* what the author has done
          toServer, \* the frames on the server's stdin
          toEditor, \* the frames on its stdout
          docs,     \* the server's copy of the open document
          serving,  \* whether Serve has not returned
          shown,    \* the diagnostics the editor shows
          file,     \* the text on the disk
          saves,    \* every text the author saved
          fmt       \* the run of `uta mission fmt`: where it is, and what it read

lspVars == <<toServer, toEditor, docs, serving>>
vars == <<draft, typed, steps, lspVars, shown, file, saves, fmt>>

Text(words) == [words |-> words, neat |-> FALSE]
Idle == [at |-> "idle"]

Init ==
  /\ \E words \in Texts \cup Variants :
       /\ file = Text(words)
       /\ steps = (IF words \in Texts THEN 0 ELSE MaxSteps)
  /\ draft = <<>> /\ typed = file
  /\ toServer = <<>> /\ toEditor = <<>> /\ docs = <<>> /\ serving = TRUE
  /\ shown = <<>> /\ saves = {file} /\ fmt = Idle

-----------------------------------------------------------------------------
(* What the server computes.                                               *)

\* The diagnostics of a text: its syntax error, or what Check finds in the
\* program, which the program determines (SteerCheck models Check).
Diagnose(text) == <<Parse(text.words)>>

\* The canonical text, or <<>> where there is none or nothing changes.
Changed(text, words) ==
  IF words = <<>> \/ (text.neat /\ text.words = words[1]) THEN <<>>
  ELSE <<[words |-> words[1], neat |-> TRUE]>>
Canonical(text) == Changed(text, Formatted(text.words))

-----------------------------------------------------------------------------
(* The editor.                                                             *)

Send(frame) == toServer' = Append(toServer, frame)

Quitting == \E i \in DOMAIN toServer : toServer[i].method = "exit"

Open ==
  /\ serving /\ draft = <<>> /\ ~ Quitting /\ steps < MaxSteps
  /\ draft' = <<file>> /\ typed' = file
  /\ Send([method |-> "didOpen", text |-> file])
  /\ steps' = steps + 1
  /\ UNCHANGED <<toEditor, docs, serving, shown, file, saves, fmt>>

Edit ==
  /\ serving /\ draft # <<>> /\ steps < MaxSteps
  /\ \E words \in Texts \ {draft[1].words} :
       /\ typed' = Text(words) /\ draft' = <<typed'>>
       /\ Send([method |-> "didChange", text |-> typed'])
  /\ steps' = steps + 1
  /\ UNCHANGED <<toEditor, docs, serving, shown, file, saves, fmt>>

\* The request's id stands for the text it was made in.
AskFormat ==
  /\ serving /\ draft # <<>> /\ steps < MaxSteps
  /\ steps' = steps + 1
  /\ Send([method |-> "formatting", id |-> draft[1]])
  /\ UNCHANGED <<draft, typed, toEditor, docs, serving, shown, file, saves, fmt>>

Save ==
  /\ draft # <<>> /\ file # draft[1]
  /\ file' = draft[1] /\ saves' = saves \cup {file'}
  /\ UNCHANGED <<draft, typed, steps, lspVars, shown, fmt>>

Close ==
  /\ serving /\ draft # <<>> /\ steps > 0
  /\ draft' = <<>>
  /\ Send([method |-> "didClose"])
  /\ UNCHANGED <<typed, steps, toEditor, docs, serving, shown, file, saves, fmt>>

\* shutdown and exit, or just the end of the stream.
Quit ==
  /\ serving /\ draft = <<>> /\ ~ Quitting /\ steps > 0
  /\ \E frames \in {<<[method |-> "shutdown", id |-> file]>>, <<>>} :
       toServer' = toServer \o frames \o <<[method |-> "exit"]>>
  /\ UNCHANGED <<draft, typed, steps, toEditor, docs, serving, shown, file, saves, fmt>>

Receive ==
  /\ toEditor # <<>>
  /\ toEditor' = Tail(toEditor)
  /\ LET frame == Head(toEditor) IN
     CASE frame.method = "publishDiagnostics" ->
            /\ shown' = frame.diagnostics
            /\ UNCHANGED <<draft, toServer>>
       [] frame.method = "answer" /\ frame.edit # <<>> /\ draft = <<frame.id>> ->
            /\ draft' = frame.edit
            /\ Send([method |-> "didChange", text |-> frame.edit[1]])
            /\ UNCHANGED shown
       [] OTHER -> UNCHANGED <<draft, toServer, shown>>
  /\ UNCHANGED <<typed, steps, docs, serving, file, saves, fmt>>

-----------------------------------------------------------------------------
(* The server: Serve reads a frame, and handle answers it.                 *)

Publish(diags) == <<[method |-> "publishDiagnostics", diagnostics |-> diags]>>
Answer(id, edit) == <<[method |-> "answer", id |-> id, edit |-> edit]>>

\* broken: a change is diagnosed, and not kept for the requests to come.
Kept_AsOpened(frame) ==
  CASE frame.method = "didOpen" -> <<frame.text>> [] frame.method = "didClose" -> <<>> [] OTHER -> docs
Kept(frame) ==
  CASE frame.method \in {"didOpen", "didChange"} -> <<frame.text>>
    [] frame.method = "didClose" -> <<>>
    [] OTHER -> docs

Handled(frame) ==
  CASE frame.method \in {"didOpen", "didChange"} -> Publish(Diagnose(frame.text))
    [] frame.method = "didClose" -> Publish(<<>>)
    [] frame.method = "formatting" -> Answer(frame.id, IF docs = <<>> THEN <<>> ELSE Canonical(docs[1]))
    [] frame.method = "shutdown" -> Answer(frame.id, <<>>)

Serve ==
  /\ serving /\ toServer # <<>>
  /\ toServer' = Tail(toServer)
  /\ IF Head(toServer).method = "exit"
     THEN serving' = FALSE /\ UNCHANGED <<toEditor, docs>>
     ELSE /\ docs' = Kept(Head(toServer))
          /\ toEditor' = toEditor \o Handled(Head(toServer))
          /\ UNCHANGED serving
  /\ UNCHANGED <<draft, typed, steps, shown, file, saves, fmt>>

-----------------------------------------------------------------------------
(* `uta mission fmt --write` on the saved file: it reads, and writes what  *)
(* it made of it; --check and the diff change nothing.                     *)

FmtRead ==
  /\ fmt = Idle /\ steps < MaxSteps
  /\ fmt' = [at |-> "read", src |-> file] /\ steps' = steps + 1
  /\ UNCHANGED <<draft, typed, lspVars, shown, file, saves>>

Written(canonical) == IF canonical = <<>> THEN {file} ELSE ToSet(canonical)
FmtWrite ==
  /\ fmt # Idle
  /\ \E text \in Written(Canonical(fmt.src)) : file' = text
  /\ fmt' = Idle
  /\ UNCHANGED <<draft, typed, steps, lspVars, shown, saves>>

Next ==
  \/ Open \/ Edit \/ AskFormat \/ Save \/ Close \/ Quit \/ Receive
  \/ Serve
  \/ FmtRead \/ FmtWrite

Spec == Init /\ [][Next]_vars

-----------------------------------------------------------------------------
(* Formatting never changes what a text says: the buffer holds the program *)
(* its author typed and the file one its author saved, with their comments *)
(* and their #! line, and a canonical text stays as it is (fmt.go:17-18).  *)
(* A worker pool whose only member is called any is left out: `worker      *)
(* any(any)` is written as `worker any`, which does not parse.             *)
Meaning(text) == [program |-> Parse(text.words),
                  rest |-> SelectSeq(text.words, LAMBDA l : l \in {Comment, Shebang})]
Same(text, other) == text = other \/ Meaning(text) = Meaning(other)
Settled(text) ==
  \A once \in ToSet(Canonical(text)) : Canonical(once) = <<>> /\ Same(once, text)
AnyOfAny(text) ==
  \E p \in ToSet(Parse(text.words)) : \E a \in ToSet(p.agents) : a.workers = <<"any">>
FormattingIsFaithful ==
  /\ \A text \in ToSet(draft) : Same(text, typed)
  /\ \E text \in saves : Same(text, file)
  /\ Settled(typed) \/ AnyOfAny(typed)

(* What the editor shows is about the text that is in it: once both pipes  *)
(* are empty the diagnostics are those of the buffer, a closed document    *)
(* has none, and the server's copy, from which it formats, is the buffer  *)
(* (server.go:15-17, 206-209).                                             *)
ShownIsCurrent ==
  toServer = <<>> /\ toEditor = <<>> =>
    /\ docs = draft
    /\ shown = IF draft = <<>> THEN <<>> ELSE Diagnose(draft[1])

(* Editor and formatter serve the text they were given, and no other.      *)
TextIsServed == FormattingIsFaithful /\ ShownIsCurrent
=============================================================================
