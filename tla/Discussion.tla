----------------------------- MODULE Discussion -----------------------------
(***************************************************************************)
(* `uta discuss` (internal/engine/discussion.go, internal/cli/discuss.go): *)
(* two agents take turns on a topic under one budget, a moderator sums up, *)
(* and the command prints the turns as a bus that may drop them delivers   *)
(* them.  A provider call is callProvider of the supervisor: the budget is *)
(* charged for every attempt, and transport errors are retried.            *)
(***************************************************************************)
EXTENDS Budget, FiniteSets, Sequences, SequencesExt

CONSTANTS Flags, Installed,   \* what --agents may say; the providers that may be available
          RoundsAsked,        \* what --rounds may say
          DefaultRounds,      \* 3 in the code
          RoundLimit,         \* 10 in the code
          Usages,             \* what an attempt may use: [tok, usd]
          MaxRetries,         \* transport retries of one call
          Buffer              \* events the bus subscription holds, 256 in the code

VARIABLES flag, available, asked, noSynth, asJSON,   \* the command line
          pc, rounds, agents,
          ctx,        \* the context of the debate: "live", "cancelled", "expired"
          attempt,
          owed,       \* what the attempt that is to be retried has used
          turns,      \* res.Turns: per turn its agent, round and marching orders
          rows, sess, \* the rows of the store, "none" when there is none
          dropped,    \* a write of the store failed, which is only reported
          counted,    \* res.TokensIn + res.TokensOut
          result,     \* res.Status and the kind of error returned with it
          synthesis,
          queue,      \* the events the subscription holds: the place of a turn, or Other
          printed,    \* the turns on standard output, by their places
          lost,       \* the turns whose event found the subscription full
          exit

request == <<flag, available, asked, noSynth, asJSON, rounds, agents>>
store == <<rows, sess, dropped>>
screen == <<queue, printed, lost>>
vars == <<budgetVars, request, pc, ctx, attempt, turns, store, counted, owed, result,
          synthesis, screen, exit>>

Init ==
  /\ BudgetInit
  /\ flag \in Flags /\ available \in Installed /\ asked \in RoundsAsked
  /\ noSynth \in BOOLEAN /\ asJSON \in BOOLEAN
  /\ pc = "start" /\ rounds = 0 /\ agents = <<>> /\ ctx = "live" /\ attempt = 0
  /\ turns = <<>> /\ rows = <<>> /\ sess = "none" /\ dropped = FALSE
  /\ counted = 0 /\ owed = 0 /\ result = [status |-> "", err |-> "none"] /\ synthesis = FALSE
  /\ queue = <<>> /\ printed = <<>> /\ lost = {} /\ exit = -1

-----------------------------------------------------------------------------
(* The two participants, none if they cannot be found: --agents names two, *)
(* the same one twice if it likes; without it the first two are paired.    *)
Lineup ==
  IF flag # <<>>
    THEN IF Len(flag) = 2 /\ Range(flag) \subseteq Range(available) THEN flag ELSE <<>>
    ELSE IF Len(available) >= 2 THEN SubSeq(available, 1, 2) ELSE <<>>

(* What the prompt of the next turn asks for.                              *)
Orders(round) ==
  IF turns = <<>> THEN "open" ELSE IF round = rounds THEN "close" ELSE "rebut"

NextTurn ==
  LET n == Len(turns) IN
  [agent |-> agents[(n % 2) + 1], round |-> (n \div 2) + 1, orders |-> Orders((n \div 2) + 1)]

Talking == Len(turns) < 2 * rounds

-----------------------------------------------------------------------------
(* dbErr: a write that fails is reported and the debate goes on (bound: it *)
(* happens once).                                                          *)
Stores(r, s) ==
  \/ rows' = r /\ sess' = s /\ UNCHANGED dropped
  \/ ~dropped /\ dropped' = TRUE /\ rows' \in {r, rows} /\ sess' \in {s, sess}

(* An UPDATE of a row that was never inserted changes nothing.             *)
Row(outcome) ==
  IF Talking /\ Last(rows) # "none" THEN [rows EXCEPT ![Len(rows)] = outcome] ELSE rows

(* Bus.Publish: every event of the session goes to the one subscription,   *)
(* and a full one loses it.  Only the end of a turn carries its text; all  *)
(* the other events are alike here.  With --json nobody listens.           *)
Other == 0
Others(n) == [i \in 1..n |-> Other]
Publish(events) ==
  LET kept == IF Len(events) <= Buffer - Len(queue) THEN Len(events) ELSE Buffer - Len(queue) IN
  IF asJSON
    THEN UNCHANGED <<queue, lost>>
    ELSE /\ queue' = queue \o SubSeq(events, 1, kept)
         /\ lost' = (lost \union {events[i] : i \in (kept + 1)..Len(events)}) \ {Other}

(* The event of dbErr.                                                     *)
Reported == IF dropped' = dropped THEN <<>> ELSE <<Other>>

(* The events of an end: some, and no turn comes after them.               *)
PublishEnd == \E n \in 1..Buffer : Publish(Others(n))

-----------------------------------------------------------------------------
Leave(code) == pc' = "exited" /\ exit' = code

(* The command line is resolved and validated, and the session created.    *)
Start ==
  /\ pc = "start"
  /\ rounds' = IF asked <= 0 THEN DefaultRounds ELSE asked
  /\ agents' = Lineup
  /\ UNCHANGED <<budgetVars, flag, available, asked, noSynth, asJSON, ctx, attempt, turns, rows,
                 dropped, counted, owed, result, synthesis, printed>>
  /\ IF Lineup = <<>>
       THEN Leave(IF available = <<>> THEN 3 ELSE 1) /\ UNCHANGED <<sess, queue, lost>>
       ELSE \/ /\ rounds' <= RoundLimit /\ sess' = "running" /\ pc' = "loop"
               /\ Publish(<<Other>>)
               /\ UNCHANGED exit
            \* too many rounds, or a session that cannot be stored
            \/ Leave(4) /\ UNCHANGED <<sess, queue, lost>>

(* A turn begins with its row.                                             *)
BeginTurn ==
  /\ pc = "loop" /\ Talking
  /\ pc' = "asking" /\ attempt' = 0
  /\ \/ rows' = Append(rows, "running") /\ UNCHANGED dropped
     \/ ~dropped /\ rows' = Append(rows, "none") /\ dropped' = TRUE
  /\ Publish(Reported \o <<Other>>)
  /\ UNCHANGED <<budgetVars, request, ctx, turns, sess, counted, owed, result, synthesis,
                 printed, exit>>

BeginSynthesis ==
  /\ pc = "loop" /\ ~Talking /\ ~noSynth
  /\ pc' = "asking" /\ attempt' = 0
  /\ Publish(<<Other>>)
  /\ UNCHANGED <<budgetVars, request, ctx, turns, store, counted, owed, result, synthesis,
                 printed, exit>>

Returns(status, err) ==
  /\ result' = [status |-> status, err |-> err]
  /\ pc' = "returned"

\* broken: takes whatever stops the moderator for a failed synthesis
Verdict_Lenient(err) ==
  CASE ~Talking -> "completed"
    [] Talking /\ err = "budget" -> "budget_exhausted"
    [] Talking /\ err # "budget" /\ (err = "cancelled" \/ ctx = "cancelled") -> "cancelled"
    [] OTHER -> "failed"

(* What a call that failed makes of the debate.  A failed moderator does   *)
(* not throw it away.                                                      *)
Verdict(err) ==
  CASE err = "budget" -> "budget_exhausted"
    [] err # "budget" /\ (err = "cancelled" \/ ctx = "cancelled") -> "cancelled"
    [] OTHER -> IF Talking THEN "failed" ELSE "completed"

(* The call returned an error.                                             *)
Fails(err) ==
  /\ Stores(Row("failed"), Verdict(err))
  /\ Returns(Verdict(err), IF Verdict(err) = "completed" THEN "none" ELSE err)
  /\ PublishEnd
  /\ UNCHANGED <<turns, synthesis>>

Answers ==
  /\ IF Talking
       THEN /\ turns' = Append(turns, NextTurn)
            /\ Stores(Row("completed"), sess)
            /\ Publish(Append(Reported, Len(turns) + 1))
            /\ pc' = "loop"
            /\ UNCHANGED <<result, synthesis>>
       ELSE /\ synthesis' = TRUE
            /\ Stores(rows, "completed")
            /\ Returns("completed", "none")
            /\ PublishEnd
            /\ UNCHANGED turns

(* What a provider may answer while the context is as it is; "ended" is    *)
(* the error of the context itself, or of the deadline of the turn.        *)
Ended == IF ctx = "cancelled" THEN {"cancelled", "deadline"} ELSE {"deadline"}

(* One attempt of callProvider, charged whatever becomes of it.  What a    *)
(* retried attempt used is in the budget and not in the result.            *)
Attempt ==
  /\ pc = "asking"
  /\ \E u \in Usages, answer \in {"ok", "transport", "other"} \union Ended :
       /\ AddOutcome(u)
       /\ CASE Exceeds(u) ->
                 Fails("budget") /\ counted' = counted + u.tok /\ owed' = 0 /\ UNCHANGED attempt
            [] ~Exceeds(u) /\ answer = "ok" ->
                 Answers /\ counted' = counted + u.tok /\ owed' = 0 /\ UNCHANGED attempt
            [] ~Exceeds(u) /\ answer = "transport" /\ attempt < MaxRetries ->
                 /\ pc' = "backoff" /\ attempt' = attempt + 1 /\ owed' = u.tok
                 /\ UNCHANGED <<turns, store, counted, result, synthesis, queue, lost>>
            [] OTHER ->
                 Fails(answer) /\ counted' = counted + u.tok /\ owed' = 0 /\ UNCHANGED attempt
  /\ UNCHANGED <<request, ctx, printed, exit>>

(* BeforeCall, before every attempt: the provider is at its own limit.     *)
Limited ==
  /\ pc = "asking"
  /\ Fails("limit")
  /\ UNCHANGED <<budgetVars, request, ctx, attempt, counted, owed, printed, exit>>

(* The wait before a retry ends, or the context does; the usage of the     *)
(* attempt that failed is returned with the error.                         *)
Backoff ==
  /\ pc = "backoff"
  /\ \/ /\ pc' = "asking"
        /\ UNCHANGED <<turns, store, counted, result, synthesis, queue, lost>>
     \/ \E err \in Ended : Fails(err) /\ counted' = counted + owed
  /\ owed' = 0
  /\ UNCHANGED <<budgetVars, request, ctx, attempt, printed, exit>>

(* --no-synth: the transcript is the outcome.                              *)
Finish ==
  /\ pc = "loop" /\ ~Talking /\ noSynth
  /\ Stores(rows, "completed")
  /\ Returns("completed", "none")
  /\ PublishEnd
  /\ UNCHANGED <<budgetVars, request, ctx, attempt, turns, counted, owed, synthesis, printed,
                 exit>>

(* While a call runs, whatever its provider or callProvider itself tells:  *)
(* texts, tool calls, output, a retry, a warning of the budget.            *)
ProviderEvent ==
  /\ pc \in {"asking", "backoff"}
  /\ Publish(<<Other>>)
  /\ UNCHANGED <<budgetVars, request, pc, ctx, attempt, turns, store, counted, owed, result,
                 synthesis, printed, exit>>

-----------------------------------------------------------------------------
(* The rest of the command.  A signal, or the wall clock of the debate.    *)
Interrupt ==
  /\ ctx = "live" /\ pc # "exited"
  /\ ctx' \in {"cancelled", "expired"}
  /\ UNCHANGED <<budgetVars, request, pc, attempt, turns, store, counted, owed, result,
                 synthesis, screen, exit>>

(* renderDiscussion takes the next event, and prints the text of a turn.   *)
Render ==
  /\ queue # <<>>
  /\ printed' = IF Head(queue) = Other THEN printed ELSE Append(printed, Head(queue))
  /\ queue' = Tail(queue)
  /\ UNCHANGED <<budgetVars, request, pc, ctx, attempt, turns, store, counted, owed, result,
                 synthesis, lost, exit>>

(* The bus is shut down and drained, then the command answers; with --json *)
(* the whole result, if there is one.                                      *)
Conclude ==
  /\ pc = "returned" /\ queue = <<>>
  /\ Leave(IF result.err = "none" THEN 0 ELSE IF result.err = "cancelled" THEN 130 ELSE 4)
  /\ printed' = IF asJSON /\ result.err = "none" THEN [i \in DOMAIN turns |-> i] ELSE printed
  /\ UNCHANGED <<budgetVars, request, ctx, attempt, turns, store, counted, owed, result,
                 synthesis, queue, lost>>

Next ==
  \/ Start \/ BeginTurn \/ BeginSynthesis \/ Attempt \/ Limited \/ Backoff \/ Finish
  \/ ProviderEvent \/ Interrupt \/ Render \/ Conclude

Spec == Init /\ [][Next]_vars

-----------------------------------------------------------------------------
(* What the command says of a debate agrees with what happened in it.  It  *)
(* exits with 0 only after every turn was taken, whatever became of the    *)
(* moderator; a cap that tripped ends it as budget_exhausted, also in the  *)
(* moderator's call; 130 is only for a cancelled session; the row of the   *)
(* session says what was returned, and a row is completed for each turn of *)
(* the transcript and no other, unless a write was lost; no turn is        *)
(* printed twice or out of order; the live output is every turn but those  *)
(* whose event found the subscription full, and with --json it is all; and *)
(* no more is reported than was spent (Discuss, and the end of the         *)
(* command's RunE).                                                        *)
Completed == {i \in DOMAIN rows : rows[i] = "completed"}

DebateIsTrue ==
  pc = "exited" /\ sess # "none" =>
    /\ exit = 0 <=> result.status = "completed"
    /\ exit = 0 => Len(turns) = 2 * rounds /\ agents[1] \in Range(available)
    /\ exit = 130 => result.status = "cancelled" /\ ctx = "cancelled"
    /\ tripped # NoTrip => result.status = "budget_exhausted"
    /\ dropped \/ (sess = result.status /\ Completed = DOMAIN turns
                   /\ "running" \notin Range(rows))
    /\ \A i, j \in DOMAIN printed : i < j => printed[i] < printed[j]
    /\ ~asJSON => Range(printed) = DOMAIN turns \ lost
    /\ asJSON /\ exit = 0 => Range(printed) = DOMAIN turns
    /\ counted <= tokens
=============================================================================
