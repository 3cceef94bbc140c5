# A TLA+ model of uta

uta takes a goal, has a planner split it into subtasks, dispatches them to agent
command-line tools, synthesizes the answers and records every step. Around that engine it has
missions written in a small language (steer), approval and permission gates, MCP on both sides, a
self-improvement loop, audits and debates, an interactive shell, and a store that other commands
read back. This directory models the parts of it that are hard to test: goroutines that share a
budget, a table or a file, humans who answer at any time, retries, cancellation, crashes, processes
that write the same database. TLC checks the models on small instances; TLAPS proves the main
safety properties of twenty of them for every instance.

Contents: [inventory](#inventory), [modules](#modules), [runs](#runs),
[what the properties say](#what-the-properties-say), [fairness](#fairness), [proofs](#proofs),
[divergences](#where-code-and-documentation-differ), [what is left out](#what-is-not-modelled),
[plan](#plan).

To run it: `tlc -config run.cfg MCSupervisorRun` and `tlapm SupervisorProofs.tla`, and likewise
for the others. `PROJECT.json` says which lines of the source each definition stands for, which
hazard each property is about, and for every property a mutation of the model that breaks it.

## Inventory

Paths are under `src/internal/`. "Hard" is what a test would hardly reach; "correct" is what the
component promises.

**Supervisor run** (`engine/supervisor.go`). State: the session row, one row per subtask, the
outcomes, the run context with its cause, the budget, the one-shot flag of the threshold prompt.
Operations: `Run`, `runFanout`, `runRace`, `runSubtask`, `callProvider`, `askHITL`. Hard: all calls
in flight charge one budget; a denial, a cancel, a deadline and a budget trip may hold together; a
race stops its losers while they wait for a human. Correct: the overshoot is bounded, one threshold
prompt, one winner, every row and every session settles, and the status names what happened.

**Budget** (`budget/budget.go`). Two totals, a latch, two warning flags, under a lock. Hard: several
bounds crossed by one call; the per-call cap that leaves no trace in the totals.

**DAG strategy** (`engine/dag.go`, `engine/gate.go`). Completed, failed and skipped sets, the wave,
the slots, the gate's retries. Hard: the scan changes what it decides by; failures, skips, fail-fast
and cancellation meet. Correct: a task runs after its needs, what is dropped has a cause, the
session's status agrees with the rows.

**Mission walker** (`engine/mission.go`). Interprets a steer program: calls, `par for`, `judge`,
`until`, `retry`, gates that suspend the mission, handlers, a journal from which it resumes. Hard:
nested constructs wait for slots their parents hold; crashes, edits of the program and resumes of
resumes between an effect and its journal entry. Correct: refinements are earned by votes, answers
and signatures survive and are never invented, budget errors outrank others.

**Steer language** (`steer/`, `lsp/`, `cli/missionfmt.go`). Lexer, parser, checker, formatter,
language server. Hard: the checker reasons statically about what the walker does; the formatter
reprints from the tree; the editor's buffer, the server's copy and the file drift apart. Correct: what is
checked holds when run, formatting keeps the meaning, diagnostics are those of the current text.

**HITL gate** (`hitl/gate.go`, `cli/hitl.go`). Files in the session's directory: one per request, the
shared pointer `pending.json`, the markers. Hard: no file operation is atomic with another.
Correct: what is on offer is waited for, answers arrive.

**Permissions gate and undo** (`cli/toolgate.go`, `policy/`, `cli/undo.go`, the file tools of
`provider/builtin/nebius_tools.go`). A prompt mutex, answers remembered for the session, rules on
disk, a checkpoint before each write. Hard: workers wait while another's answer covers them;
checkpoints and writes of parallel workers interleave. Correct: nobody is asked twice; undo puts back
what was there.

**Capability gate** (`engine/capability/`). Globs of a profile's allow and deny lists. Correct: a cap
that `Subsumes` accepts lets nothing through that the grant does not.

**MCP client, server, bridge** (`mcp/`, `engine/mcp_tool_bridge.go`, `provider/builtin/nebius_mcp.go`).
Pending and active tables with a goroutine per call; connections cached per process; tool names that
are cleaned and glued. Hard: replies, deadlines, the end of the stream and `Close` race for one
channel; ids are chosen by the client; names collide. Correct: no panic, no lost caller,
cancellations reach the call they name, a tool call reaches its server.

**Providers** (`provider/builtin/`, `provider/declarative`). CLI providers drive a child process through
pipes, a scanner and a bounded event channel; the Nebius provider keeps a conversation itself. Hard:
the context ends while pipes, channel and a human's answer are waited for; compaction cuts a
conversation between calls and results. Correct: a turn returns and says what became of it; every
request is one the server accepts.

**Spend limits** (`limits/`). A ledger per provider shared by processes. Hard: checked before,
recorded after a call; lines lost or torn. Correct: bounded overspend.

**Improve loop, reflector, discussion** (`improve/`, `engine/reflector.go`, `engine/discussion.go`). A
board in SQLite; critics in waves; a debate in turns. Hard: several processes, kills and refused
writes between two statements; findings merged by two keys; a bus that drops what is displayed.
Correct: work is counted, a clean exit hides no finding, a debate ends as it went.

**Sessions, resume, hand-offs, threads** (`engine/resume*.go`, `engine/handoff.go`, `state/`). Rows
that a dead run leaves behind, turns on them, follow-up runs, a JSON file that processes rewrite.
Correct: a re-entry answers for every row and repeats nothing that finished.

**Trajectory and sentinel** (`trajectory/`, `sentinel/`). Sequence numbers, a bus that drops events of
slow subscribers, windows over them, a wall clock. Correct: an expired clock cancels the run.

**Store, export, import** (`store/`, `export/`, `redact/`). Rows, content-addressed blobs, files that
leave the machine. Correct: a redacted file has no secret, an import replaces nothing unasked.

**Memory** (`memory/`, `engine/memory_hooks.go`). Facts, a full-text and a vector index, fused search.
Hard: no transaction spans a fact and its index entries; a reindex runs beside writes. Correct: no
fact is lost, vectors of different models are not mixed.

**Shadow replays** (`shadow/`), **shell and line editor** (`cli/shell.go`, `cli/lineedit.go`),
**progress renderer** (`cli/progress.go`). Reports and screens. Correct: they show what happened.

**The rest**, configuration, prompts, analysers, dashboards, telemetry, is conversion and I/O; see
[what is left out](#what-is-not-modelled).

## Modules

| Module | Models | State and actions |
|---|---|---|
| `Budget` | `budget/budget.go` | Totals, latch, warning flags. `AddOutcome(u)` is the locked method, `Refuses` is `CheckPreCall`. Used by `SupervisorRun`, `Spend`, `Discussion`. |
| `RunVerdict` | the end of `Run` | The ordered checks after dispatch and the last status, shared by `DagRun` and `SupervisorRun`. |
| `SupervisorRun` | `engine/supervisor.go` | `pc` says where each goroutine is that calls a provider. An action is what one of them does between two points where another can interfere: `PreCall`, `Respond` (charge included), `Threshold`, the answers of `askHITL`, `Backoff`, `CreateSubtask` and `NotCreated`, `Acquire`, `CancelledBeforeStart`, `FinishSubtask`, and the main goroutine's steps. |
| `TaskBoard` | (abstract) | What any strategy owes the plan's rows: start after all needs completed, a bound on running tasks, settled is final, skips have a cause. |
| `DagRun` | `engine/dag.go` | The scan one task at a time, the wave's goroutines, the gate with its retries, fail-fast, cancellation; `ImplementsBoard` maps its task states to rows. `MCDagRun` has `validateDAG`, its depth-first search with colours, and the definition it is compared with. |
| `MissionPar` | `par for`, `judge` | Branches and verifiers on one semaphore; nothing keeps the branches below the slots. |
| `MissionWalk` | the walker | A stack of frames, the journal, chains of sessions that are killed, suspended, resumed, with edits of the program between. `MCMission` has the programs. |
| `SteerCheck`, `SteerSyntax` | `steer/` | What `Check` accepts; lexemes, parser, formatter. `MCMission` has the sample files. |
| `SteerEditor` | `lsp/`, `missionfmt.go` | Editor, server and file with the messages between them. |
| `HitlGate` | `hitl/gate.go` | Each file operation is an action: own file, truncation and filling of the pointer, the two `stat`s of a poll, the clean-up, and the operator. |
| `ToolGate` | permissions, undo | A gate with its mutex and what it remembers, rules, hooks, checkpoints as numbered rows, the file tools, `uta undo` with its failures. The first content of a file in a run is kept as history. |
| `CapabilityGate` | `engine/capability` | Globs character by character, because covering one glob by another is about characters. |
| `Shell`, `LineEdit` | `cli/` | The conversation and its turns; keys, history and redraw against a model of a terminal. |
| `McpClient`, `McpServer`, `McpBridge` | `mcp/`, bridge | Callers, read loop, `failPending`, `Close`; read loop, goroutine per call, table, with the calls that overlapped one of their id kept as history (`overlapping`); probe, config, names, connections. An entry of a config is a name with a command, as in the connection's key. |
| `ChildTurn` | CLI providers | Child, pipe, scanner, event channel, drain goroutine, context, verdict, for four kinds of provider. |
| `AgentTurn` | `nebius.go` | The messages of a turn, compaction, requests, retries, rounds, tools, the sentinel's request before some of them. `told` and `screened` are history: the tokens the turn's responses, and of these the sentinel's, came with. |
| `Spend` | `limits/` | Several processes and one ledger, as the sum of its readable lines per day and per month; a torn last line; what a killed process never appended; a read that fails and lets the call through (`unread`, history). `spent`, kept as history, is what the calls admitted by the caps on a ledger they could read really used. Extends `Budget`. |
| `Progress` | `progress.go` | The renderer on a bus that loses events, and the terminal line the cursor is on. |
| `Memory` | `memory/` | Facts, both indexes, their statements one by one, reindexing, fusion of the two searches. |
| `ImproveLoop`, `AuditLoop`, `Discussion` | loops | Several processes on a board, with the number of runs each idea has had kept as history; waves of critics and tools with the merge of their findings; turns, retries, moderator and the command's output, which a subscription feeds that every event of the session competes for (`lost`, history: the turns it had no room for). |
| `SessionChain` | resume, hand-off, threads | Rows written by runs, re-entries and turns of several processes, each of which may die. A process keeps the places of its plan it has no row for yet (`todo`), and creates the rows in that order. |
| `Watch` | bus and sentinel | Emitters, the sentinel's subscription and windows, its clock. |
| `Archive` | export, import, blobs | One statement or file per action. `live`, the sessions whose run goes on, is what no row says of them: a run writes its row without looking at it. |
| `Shadow` | replays and diffs | Selection, replays, drift, and the two diff algorithms as functions. |

**How they are composed.** `SupervisorRun` extends `Budget` and `RunVerdict`; `DagRun` is a further
strategy in which a provider call is its outcome and ends in the same `RunVerdict`, and it implements
`TaskBoard`. `Spend` and `Discussion` put their callers on the same `Budget`. `MissionWalk` runs the
programs that `SteerCheck` accepts, and `SteerEditor` serves the texts that `SteerSyntax` parses.
Components that share no state are checked beside one another: an `MC` module instantiates them with
disjoint variables and a variable `side`, fixed in the initial state, picks the one a behaviour
exercises. That costs no states (the others stay at one initial state) and no generality (no step of one
is enabled or disabled by another):

| Module | Sides |
|---|---|
| `MCMission` | `dag`: `DagRun`; `par`: `MissionPar`; `walk`: `MissionWalk`; `editor`: `SteerEditor` |
| `MCOperator` | `tool`: `ToolGate`; `hitl`: `HitlGate`; `capability`: `CapabilityGate`; `shell`: `Shell`; `line`: `LineEdit` |
| `MCPeers` | `client`: `McpClient`; `server`: `McpServer`; `child`: `ChildTurn`; `archive`: `Archive` |
| `MCLoops` | `improve`: `ImproveLoop`; `audit`: `AuditLoop`; `debate`: `Discussion` |
| `MCRecords` | `chain`: `SessionChain`; `watch`: `Watch`; `replay`: `Shadow` |
| `MCProvider` | `spend`: `Spend`; `turn`: `AgentTurn`; `tools`: `McpBridge`; `screen`: `Progress`; `facts`: `Memory` |

`DagRunProofs`, `SupervisorProofs`, `MissionParProofs`, `PeerProofs`, `LoopProofs`,
`ToolGateProofs`, `SessionChainProofs` and `ProviderProofs` hold the theorems, each on the module it is
named for (`PeerProofs` on `McpClient`, `McpServer`, `ChildTurn` and `Archive`, `LoopProofs` on
`ImproveLoop` and `Discussion`, `ToolGateProofs` on `ToolGate` and `Shell`, `ProviderProofs` on `Spend`,
`AgentTurn`, `McpBridge` and `Memory`). Operators named
`X_Something` preceded by `broken:` are variants of `X` with a plausible bug, used to see that a
property would notice it; no specification uses them.

Choices worth knowing:

- The Go semaphore is a bound on the number of goroutines between acquiring and releasing.
- A context is its first cause, as with `context.WithCancelCause`; a derived context of its own is a
  variable only where the code cancels it separately (`stopSubs`).
- A provider's answer, an approver, a gate, a verifier, a critic and a tool are free choices.
  Providers may ignore cancellation and still answer.
- Texts are model values, sets of words or short sequences of atoms, as far as a property tells them
  apart. Characters appear where the code works on them: globs, cleaned names, the edited line, wrapped prose.
- A statement on SQLite is atomic, and so is a transaction where the code opens one; nothing larger is.

## Runs

| Run | States | Instance and why it is enough |
|---|---|---|
| `run` | 214 882 | A planned fan-out with synthesis, a fail-fast workflow through one slot, races through two slots and one; two subtasks, one transport retry, calls that cost 0 or 1 tokens with a cap of 2 and a threshold at 1. Two subtasks suffice for the races between calls; planner, compaction and synthesis can each trip the cap. |
| `missions` | 355 247 | `dag`: all 512 dependency relations over three tasks, fail-fast or not, two slots, one gated task with retries. Three tasks give chains, halves of diamonds, a skip of a skip, and a third that competes for the slots. `AcceptsExactlyRunnable` evaluates `validateDAG` on each of these plans in all namings by three ids and the empty id, and on each prefix of it. `par`: two branches of two verifiers with K = 2 and two slots: as many branches as slots, so that judging branches may hold them all. `walk`: ten programs, one for each construct that stops, repeats or judges and two that the checker must refuse; three tokens, chains of two sessions (three for a gated program), an edit between them. `editor`: four files that use every construct of the language, and each file one lexeme away from one of them; three edits, saves or formattings. |
| `operator` | 756 354 | `tool`: two workers of one run and one file, two calls for one worker and one for the other, every kind of answer, one cancellation, failing checkpoints and rows. `hitl`: two requests and the operator with and without `--action`, write failures and torn files. `capability`: every pair of patterns of two tools and globs of up to two characters, on every argument of up to three. `shell`: two workers of which one can resume, two turns. `line`: lines of up to four characters on a terminal of three columns with a one-column prompt, so that a line takes up to two rows. |
| `peers` | 429 597 | `client`: two calls, duplicate and late replies, a server that dies. `server`: three calls over three ids in every assignment: all distinct, all equal, reuse while the earlier call is in flight and after it; cancellations of any id, broken output. `child`: four kinds of provider, up to two lines of ten kinds, a pipe and an event channel of one, a grandchild that may outlive the child. `archive`: one session with a secret, one task, one blob, one file, two importers, with and without `--force`. |
| `loops` | 2 271 998 | `improve`: two processes (one with `--max-iter 1`), two ideas in both orders of severity, one acceptance, one refused write or kill. `audit`: two critics and a tool, answers that collide by id or by spot, two iterations, two slots. `debate`: up to two agents of three installed, two rounds, one retry, a budget of five, a subscription of two that other events take places in, `--no-synth` and `--json`. |
| `records` | 744 410 | `chain`: two processes, two sessions, a fan-out and a DAG of two tasks, one hand-off. `watch`: two emitters, four events, a bus of one, windows of two and three. `replay`: two recorded sessions, and texts of up to eight lines around the context of the diff. |
| `provider` | 1 415 132 | `spend`: two calls of a run and a vision call over two days of one month or of two, lines lost and torn, failing reads, kills. `turn`: two turns of a round with tools and a closing one, up to two calls each, screened and unscreened, one retry, histories long enough to be compacted. `tools`: two turns and four names, one that is cleaned, one it collides with, one with `__`, one whose command an edit changes; servers that die, calls that fail on live ones, a config that cannot be read. `screen`: two subtasks, two sessions, nine columns. `facts`: two processes, two facts, two embedders, three operations. Calls of a run, turns with servers, and processes that share the database are interchangeable (SYMMETRY; no liveness is checked here). |
| `run_denial_lost`, `payload`, `whole`, `mission_resigned`, `par_wedged` | | Violations, see [below](#where-code-and-documentation-differ). |

Deadlock is not reported (`CHECK_DEADLOCK FALSE`) because in every model the system may rightly
stop: the run has returned, the loop has ended, the shell was left. That it does not stop early is
what the liveness properties say.

Bounds that the code does not have are named where the constants are declared: the costs of a call,
compactions per run, calls and turns, events, sessions, operator acceptances, mishaps, edits, the
lines of a child, the length of a line. They only limit how often the same thing happens again.

## What the properties say

*Runs.* `OvershootBounded`: calls in flight overshoot the token cap by at most one call per slot, with
retries too. `StatusIsTrue`: the final status tells the truth about the budget, a denial, failed
subtasks and the race. `EverySessionEnds`. `ReturnIsTrue`: what `runDAG` returns and the session is
closed with agrees with the rows. `ImplementsBoard` is the refinement. `EventuallyConcludes`.

*Missions.* `RefinementEarned`: a value passes for judged only with K votes of every
branch. `OnlyJudgesWedge`: the goroutines of a `par` all wait for one another in one case only, when every
slot is held by a branch whose verifiers wait for one, which needs as many judging branches as slots. The
code does not exclude that case (`ParReturns`, below). `JudgedAsDeclared`: in a program
that `Check` passes no agent is handed a value that fewer verifiers, or others, let stand than its
parameter demands; it relates the static rules to the walk. (The programs pass judged values on
through lets and arguments; branches and loops over them are not exercised.) `AnswersHold`: whatever chain of crashes, edits
and resumes, a recorded answer is one a provider gave to that prompt, no gate is passed unsigned, no
signature is lost. `BudgetTold`, `WalkEnds`. `TextIsServed`: formatting parses to the same tree, and the
diagnostics shown belong to the text shown.

*Humans.* `UndoRestores`: an undo without error puts every file back to what it held before the run's
first write. `NotAskedAgain`: an answer for the session reaches workers that already wait.
`AnsweredReturns`: an answered request returns. `RaiseIsBacked`: `Subsumes`, by which a raise is
checked, against `Inspect`, by which calls are. `DirectIsAsked`, `ScreenShowsLine`.

*Peers.* `NoCallLost`: one owner per channel (a second close or a send on a closed channel is a panic),
no caller whose channel is in nobody's hands. `CloseEndsCalls`. `CancelFindsItsCall`: the
table names nothing but the call its id was made with, whatever ids are used again; and a call that runs is
found in it, or has been told, unless it was read while another of its id was in flight, whose clean-up may
take its entry.
`ServeReturns`. `TurnIsTold`: the result of a child's turn says whether text was lost, why it failed and
what it cost, once. `CancelReturns`. `SharedIsClean`: nothing that imports and runs do while an
export reads puts a secret into a redacted file. `NotClobbered`: without `--force` an import touches no row
that stands, also when two imports race.

*Loops.* `AttemptsAgree`: attempts are counted and an idea runs once per acceptance. `CleanIsClean`:
exit 0 after a complete wave means no HIGH finding. `DebateIsTrue`: exit code, status, rows,
transcript, live output and the reported total agree; the live output lacks exactly the turns whose event
found the subscription full. `ImproveEnds`.

*Records.* `ReentryIsWhole`: a re-entry repeats nothing that finished and its answer covers every row.
`DeadlineCancels`: however many events come, and although the sentinel publishes on the bus it reads.
`ReportIsTrue`: a replay report covers what was asked, and both diffs
can be applied.

*Providers.* `SpendBounded`: what the caps admit on a ledger they could read overspends by at most one call
in flight per caller; a call that is let through because the ledger cannot be read is beyond any bound.
`TurnIsSound`: every request pairs each tool call with its result, also after compaction, and a turn that
ends well reports every token it was told of, the sentinel's excepted, which are added to nothing; calls that
come with a closing report have no result and are excepted. `RoutedHome`: a call is sent to no tool but one of
its name, of a server of the config read for it, and to the one that was offered while that config has it and
nothing else is called the same. A call that was sent may fail on a live server too. `OneVoice`, `MemoryIsWhole`.

The modules state more than the runs check: formulas that a checked one contains, that are proved
instead, or that the code violates (next section but two). Of those that are neither checked by a run nor
violated, `TypeOK` (every module that needs one), `DepsCompleted`, `SlotBound`, `SkipHasCause`,
`StuckBelowFailure` of `DagRun`, `OnePrompt`, `NoOrphans`, `WinnerIsFinal` and `RaceRowsSettled` of
`SupervisorRun`, `SlotsBounded` and `BudgetOutranks` of `MissionPar`, and `ReturnIsComplete` of
`McpServer` are theorems (the types of the modules with proofs). `TokenBandWarned` of `Budget` holds as
a further invariant of `run`, and `TurnEnds` of `AgentTurn` holds under the `FairSpec` of its module.

## Fairness

Nobody is ever assumed to answer, to interrupt or to die, and providers, servers and tools only answer
where a timeout of the code forces an end.

- `SupervisorRun`: weak fairness for each goroutine as a whole. Strong fairness for `Respond`: a call
  that asks for approval again and again answers in the end, because call and approval run under the
  call's own timeout.
- `DagRun`: weak fairness per goroutine; calls and gates end at the subtask and gate timeouts.
- `MissionPar` (`par_wedged`): calls end at `CallTimeout`. Strong fairness for the acquisitions: Go serves
  blocked senders of a channel in order of arrival. The violation is not for want of fairness: in the last
  state of its trace no step is enabled.
- `MissionWalk`: weak fairness for the walker's steps; its calls end at `CallTimeout`.
- `HitlGate`: the poll's ticker keeps ticking.
- `McpClient`: goroutines keep running. Neither the server's answers, nor the end of the stream, nor a
  caller's deadline is relied on.
- `McpServer`: handlers return (the tools of this server run under timeouts). The input need not end.
- `ChildTurn`: the parent's goroutines keep running and a killed child dies; the child itself and the
  human need not do anything.
- `ImproveLoop`: each process keeps stepping; a run ends at `RunTimeout`, a gather call at its own.
- `Watch`: emitters and the sentinel keep running. Strong fairness for `Tick`, because a `select` over
  two ready channels takes each with probability one half: a ticker that is ready again and again beside
  the events is served.

## Proofs

Checked by TLAPS for every value of the constants that satisfies the named assumptions of the modules
(`DagAssumption`, `NamesAssumption`, `BudgetAssumption`, `RunAssumption`, `MissionAssumption`, `ClientAssumption`,
`LoopAssumption`, `DebateAssumption`, `ToolGateAssumption`, `ChainAssumption`, `SpendAssumption`,
`TurnAssumption`, `ServerAssumption`, `FilesAssumption`, `BridgeAssumption`, `MemoryAssumption`,
`ScreenAssumption`, `AuditAssumption`, `CapabilityBounds`, `LineBounds`, `PromptBounds`). Where a theorem assumes more, it says so, and
the reason is below.

| Component | Theorems | Inductive invariant |
|---|---|---|
| DAG | `DagTyped`, `DagDepsCompleted`, `DagSlotBound`, `DagSkipHasCause`, `DagReturnSettles`, `DagCompletedIsClean`, `DagReturnIsTrue`, `DagImplementsBoard`, `DagStuckBelowFailure`, `DagAcceptsExactlyRunnable` | `DagInv`, and `ScanLeaves` for `DagStuckBelowFailure` |
| Run | `RunTyped`, `RunOvershootBounded`, `RunOnePrompt`, `RunBudgetNotHidden`, `RunNoOrphans`, `RunDirectDenialIsTerminal`, `RunWonRaceSucceeds`, `RunRaceRowsSettled`, `RunWinnerIsFinal`, `RunStatusIsTrue`, `RunCompletedHidesNoFailure` | `RunInv` |
| Par, judge | `ParTyped`, `ParSlotsBounded`, `ParRefinementEarned`, `ParBudgetOutranks`, `ParOnlyJudgesWedge` | `ParInv` |
| MCP client | `ClientTyped`, `ClientNoCallLost` | `ClientInv` |
| MCP server | `ServerCancelFindsItsCall`, `ServerReturnIsComplete` | `ServerInv` |
| Child's turn | `ChildTurnIsTold` | `TurnInv` of `PeerProofs` |
| Export, import | `FilesSharedIsClean`, `FilesNotClobbered` | `FilesInv` of `PeerProofs` |
| Improve loop | `ImproveAttemptsAgree` | `LoopInv` |
| Debate | `DebateReportIsTrue` | `DebateInv` |
| Audit | `AuditCleanIsClean` | `AuditInv` |
| Permissions, undo | `GateNotAskedAgain`, `GateUndoRestores` | `PromptInv`, `FilesInv` of `ToolGateProofs` |
| Shell | `ShellDirectIsAsked` | `ShellInv` |
| Capability gate | `GateRaiseIsBacked` | both patterns are patterns |
| Line editor | `LineScreenShowsLine` | `LineInv` |
| Sessions | `ChainReentryIsWhole` | `ChainInv` |
| Spend limits | `ProviderSpendBounded` | `SpendInv` |
| Built-in provider | `ProviderTurnIsSound` | `TurnInv` of `ProviderProofs` |
| MCP bridge | `ProviderRoutedHome` | `BridgeInv` |
| Memory | `ProviderMemoryIsWhole` | `MemoryInv` |
| Terminal of a run | `ProviderOneVoice` | `ScreenInv` |

**`DagRunProofs`.** `DagInv` strengthens the type invariant with what the properties hold by:
`WaveBarrier` (before `wait` no task is queued or running, in `wait` none is left in the wave),
`ScanKnows` (while a scan lasts, `allDone` is true only if every task behind the cursor is settled),
`FailureIsFlagged` (until the end the flag is set exactly when a task failed, and only then is
anything skipped) and `RetAgrees` (return value, place and session status agree). Each property needs
another one: `ReturnSettles` the one about the scan, `CompletedIsClean` that and the flag.
`DagImplementsBoard` maps every action to a step of `TaskBoard` or a stutter.
`DagStuckBelowFailure` rests on a second invariant, `ScanLeaves`: behind the cursor a `todo` task has
an unmet need, and a scan that has met an unsettled task leaves one in `todo`, in the wave or skipped.
A scan that ends with an empty wave then leaves a `todo` task whose rank in the acyclic plan is
lowest (`LowestTask`, by well-foundedness of the naturals). If nothing had failed, nothing would be
skipped either, so its unmet need, which is not `todo`, would have to be a task that failed.
`DagAcceptsExactlyRunnable` is about `validateDAG` alone, for plans of any length in any naming. The search
visits a list of ids with a grey path and a black set; a place with a longer path, or the same path and
fewer ids left, ranks lower (`RankFalls`), so the recursive function exists (`RecursionExists`, `DfsIs`).
At the lowest place that could be an exception, two facts are shown: a search that meets no cycle leaves a
black set that can be put in order, because a task turns black when all it needs is black (`DfsOrders`,
`LastInOrder`), and a search in a plan with a ranking meets no cycle, because what it visits ranks below
its path (`DfsFindsNone`). `NamesAssumption`: the empty id is no task.

**`SupervisorProofs`.** `RunInv`. The core is the bound on the overshoot. It is not inductive that
the total is at most the cap plus one call per slot; what is inductive is (`Overshoot`)

    MaxTokens > 0 /\ tokens >= MaxTokens =>
        tokens <= MaxTokens - 1 + MaxUse * (maxParallel - Cardinality(Charging))

where a caller is in `Charging` from its pre-flight check to its last answer, prompts and backoffs
included: `PreCall` admits none when the cap has been reached, and `Respond` turns one pending charge
into tokens. The main goroutine calls a provider only before and after the strategy, so at most
`maxParallel` callers are charging. The rest of `RunInv` ties `prompts` to the one-shot flag,
`winner` to its row and outcome, and the phases to the places goroutines can be in, from which
`NoOrphans`, `RaceRowsSettled` and the verdict properties follow. `RunCompletedHidesNoFailure` adds
`FlagAgrees`: the strategy's flag knows of every failed row, and a session is completed only when the
flag does not count. `RunStatusIsTrue` puts the four verdict properties together.

**`MissionParProofs`.** `ParInv` counts slots: holders and callers together stay within the
semaphore, and a verifier calls only for a branch that is judging. `ParOnlyJudgesWedge`
assumes nothing about the number of branches: if no call is out and no slot is free, every slot is held by a
branch, and one that does not judge can go on, so all that hold one are judging, as many as there are slots.

**`PeerProofs`.** *Client.* `NoCallLost` counts the owners of a channel. The invariant says without
counting that the table, `readLoop`'s current reply and the two `failPending`s have no call in common
(`OneOwner`), that an owned channel is open and empty (`OwnedIsOpen`), that a `failPending` that is over
has nothing left in hand (`FailersAreDone`), and that a call which has not returned is owned, answered or
closed while its request is still being written (`CallIsTold`). *Server.* For any number of calls and any
choice of ids, reuse in flight included, the table is exact; and a call that overlapped none of its id when it
was read is in the table or has been told, as long as it runs. `ReuseCancels` makes the second inductive:
what an id named before such a call is gone, so no earlier clean-up can take its entry, and if the id is used
once more while it runs, the read loop has told it by then. Calls that overlap one of their id are excepted,
and rightly (see below). `ServerAssumption` says that the bound `MaxCalls` is a natural number. *Turns.* For every output of
the child, every capacity of its pipe and of the event channel and every moment the context may end at:
each line the child wrote is in the pipe or was scanned, and a scanner that stopped without an error
stopped at the end of file, when the child was gone (`NothingMissed`); while no result line has come, the
cost is the number of messages (`CostIsTrue`), which `MessagesCounted` and `LineCosts` carry over one line
more; and the process that was killed was killed by the context (`Settled`). *Files.* A redacted document is
clean because `Scrubbed` looks at all of it, wherever its blobs came from. That no row is clobbered needs
more: a row leaves "running" once, by its own run or by a forced import that deletes it first. So a
completed row is one whose run is over, and documents may travel: what an exporter has read, what a file
says and what an importer has in hand must be trustworthy in the same sense (`Trusted`), or an import would
restore a row that a run still writes to. A run that goes on is not visible in its row after a forced
import, hence the variable `live`. `FilesAssumption` keeps the value for "no row" apart from the rows.

**`LoopProofs`.** *Improve.* `AttemptsAgree` compares what the board says with what the processes did. Counting
the processes that have marked an idea and not yet begun its run (`AttemptPerRun`) makes the first half
inductive: `MarkInProgress` pays for the run it precedes, and a kill between them only loses a run.
`StartPerAccept` sums what a process has begun, is about to begin and may still pick; an acceptance by
the operator is the only step that makes room for one more. That `NextActionable` returns something
the board lists as actionable is `NextIsActionable`, by well-foundedness of severity and age.
*Debate.* `DebateIsTrue` compares five things with the turns that were taken, and each needs its own
strengthening. There is a row for each turn and one for the turn that is out, and unless a write was
lost they say so (`RowsFollow`). The turns printed, followed by those still queued among other events, are in order, and are all but those
whose event found the subscription full (`ShownTruly`): that is what no step breaks, the
printed part alone says nothing about what is to come. What was counted and what is owed by the call that is
out stay within the budget's total (`Amounts`), and a budget that has tripped is the verdict already
(`EndsTruly`).
*Audit.* `AuditInv` says that a completed session reports `Aggregate(said)`. What the aggregation loses is the
rest of the argument: a reviewer's HIGH finding is there after `Merge` has taken it in, and a later one
replaces it only if it is worse (`MergeKeeps`), so it is there after the reviewer's own pass
(`CollapseKeeps`), in the list of all reviewers, because every label is in the sorted list
(`JoinKeeps`, `AuditAssumption`), and after the pass across reviewers (`AggregateKeeps`). What one step of
a fold brings about lasts to its end by `Lasts`, and each fold exists by `Iterates`. That severities
are ranks of 0 to 4 is what `Severity.Rank` returns.

**`ToolGateProofs`.** `GateNotAskedAgain` rests on `AskerHoldsLock`: a prompt is on screen, or its
answer is being saved, only under the mutex of its run, and only the holder adds to what is
remembered. `GateUndoRestores` needs what a checkpoint means at each moment between the prompt and the
end of the undo. Until a run has written a file, each of its checkpoints of it, and each one on its way
to the database, is the file as it stands (`NotWritten`); a worker that is about to write has a
checkpoint of its file (`Kept`); from the first write on the earliest checkpoint is what was there before
it, and once the undo is past the file, with no call made since, so is the file (`WasWritten`).
That a later row never becomes the earliest is `RowInserted`. All of it is said of files that
nobody else wrote and no checkpoint of which failed. The hypothesis `OneNamePerFile` (the gate and the
tool agree on the file a path names, and no file has two paths) is needed: with a link inside the
directory, or a path with a blank in front, the checkpoint is of another file (see below).
`ShellDirectIsAsked` needs that a turn which put direct mode aside (`/fanout`) remembers what was asked for,
and that nothing the operator types during a turn changes either (`ShellInv`).
`GateRaiseIsBacked` is about two recursive searches, that of a glob for an argument and that of a grant for a
cap. Both are monotone in the places from which they succeed, so the recursive functions exist
(`GreatestFixpoint`, `MatchPlaces`, `CoverPlaces`). Where the grant covers the cap and the cap matches the
argument, each step of the two searches is a step of the grant's own (`CoverIsSound`, at the place with
the least left to read at which it would fail).
`LineScreenShowsLine` compares two ways to a place on the screen: the terminal's, which puts one rune after
another and wraps behind a full row, and the editor's, which divides by the width. Where the terminal ends
is said by `At` (`WriteOnBlank`, by `Upwards` along the text) and compared by `RowsAndColumns`; a line that
fills its last row is where they differ (`EndsAt`), and the newline `redraw` then prints makes them agree again
(`RedrawnIsDrawn`). Inductive is that the terminal shows the line as on a blank one, that nothing is above
its first row, so that clearing from there leaves a blank terminal (`ClearedIsBlank`), and that nothing is
below its last, so that what ends it is printed on empty rows (`FinishedBelow`). `LineBounds`: there is a
column and the history keeps a line; `PromptBounds`: the prompt is not empty. The hypothesis `Wide = {}` is
needed: `redraw` counts runes, and one of two cells takes the cursor elsewhere. The bound on the length of a
typed line is not used.

**`SessionChainProofs`.** Rows of a session are written by one process until the session is over, and
by nobody after that (`OneWriter`). The ids of the rows of a run are those of the tasks its plan has
come to (`RowsFollowPlan`). A re-entry was begun from rows that stay as they were, so all the way to its end
each of them is either a task of its plan or a recovered outcome, and a finished one is the latter
(`Recovers`, `Accounted`). When such a run is closed as completed or partial, all tasks of its
plan have an outcome and the recovered ones are added, which is `Whole`; from then on it does not change.
One lemma, `StepKeeps`, says that a step of a process need only be looked at for that process and the session
it writes or starts. The hypothesis `DistinctIds` (no plan has two tasks of one id) is what
`validateDAG` demands of a DAG (`dag.go:334`) and nothing demands of a fan-out: there a task that
finished would be asked for again under the id of one that did not.

**`ProviderProofs`.** *Spending.* `SpendBounded` is a bound without a lock: several processes check the
ledger, call, and append a line. Inductive is that the ledger of a current window lacks at most the
tokens of calls whose line is still owed (`NowCovered`), and that under a cap what was spent leaves room for
every call not in flight (`RoomKept`):

    spent[w] <= CapOf(w) - 1 + MaxUse * (Cardinality(Guarded) - Cardinality(InFlight))

for a current window, where each owed call counts as not in flight. An admission finds the ledger below the
cap, so what is spent is below the cap plus what is owed, and the calls owed for are others than the one
admitted. A call let through unread is in none of these sums. Windows to come are empty (`FutureEmpty`, from the one assumption about time: months do not
come back), and windows that are over only shrink with lines lost. `Tokens` counts the owed tokens as
the cardinality of a set of pairs, which avoids a sum by induction. *Turns.* Between rounds each call in the
history is followed by its results and each result is behind its call (`Paired`); while tools run,
one message `Awaits` the results that are due. `CompactedPaired` is the lemma that counts: a history
cut where `CutAt` cuts it, with two messages put in, is paired if it was, because the first message
kept is no result and the calls and results behind it move together. It assumes that at least one
message is kept (`KeepRecent`, 4 in the code). The calls of a closing report are kept apart from those that
are run (`Closer`): nothing awaits their results.

*Routing.* Names are sequences of characters of which nothing is known but that they are sequences.
The argument is about where the combined name is cut: of a server whose name has neither `__` in it nor
`_` at its end (`Plain`), the first `__` of the combined name is the one behind it, so the name leads back to a
server that is cleaned to the same, and if no other server and no other tool is (`Alone`), to this
one. Which entries a config has may change between the offer and the call, commands included, so what is said of
a call is said of the entries that were read for it (`read`), kept as history. A server is asked only if its
connection is up or was, and that stays so (`StaysUp`). That a tool is approved only of a server that
answered has an exception the proof brought up: the pattern of a tool is server, `__`, tool, uncleaned, and
a server that answered may have a tool of the same pattern (`a__b` with `t`, and `a` with `b__t`).
*Memory.* `MemoryInv` says for each fact where it is: searchable, cut short, or still to be indexed by a
process that has not lost its document to another's reset (`FactsKept`; it says nothing while a reset
lasts, and holds again after it because the facts are read last). As long as no reindex was disturbed, a
process that resets is the only one that indexes, a fact is on one queue or has one document
(`FactsOnce`), and the vectors are of the model that is named, which changes only when there are none
(`VectorsFit`). Until the first reindex a document is found by words it has (`WordsFit`). That what
both indexes found comes first is arithmetic about the constants: two places in lists of at most fifty
outweigh one, because 1/(60+i) + 1/(60+j) > 1/(60+k) for i, j, k up to fifty (`TwoOutweighOne`).
*Terminal.* What the renderer knows of the subtasks may be wrong in both directions, because the bus loses
events. The invariant is that it knows of none that never began, and that while it streams, the only
running subtask it could take to be alone is the one whose prose is on the line (`Fine`): a start that was
lost belongs to a subtask it does not know, so that subtask's prose is a dot. Text is emitted by a fold;
`Iterates` shows by well-foundedness of the naturals that its recursive function exists, and `Carried` that
what each character keeps (`InStream`) all of them keep. `ScreenAssumption`: a line has room for the gutter
and a character, and texts are sequences.

Only model-checked:

- all liveness properties: the prover has no ENABLED and no fairness;
- what rests on RECURSIVE operators over data (`SteerSyntax`, `SteerCheck`, the diffs of
  `Shadow`): their induction is out of the prover's reach. This includes
  `JudgedAsDeclared`, `TextIsServed`, `ReportIsTrue`, and
  `AnswersHold` and `BudgetTold`, whose module interprets programs by recursion over their text.

## Where code and documentation differ

Five runs end in a violation; each is listed under "findings" with the line it contradicts.

- `run_denial_lost` (`DenialIsTerminal`): a denial during compaction or synthesis is not looked at any
  more (`supervisor.go:689`); the session ends as completed. `DirectDenialIsTerminal` is what holds.
- `payload` (`PayloadKept`): a line that is not JSON goes onto the event channel as a slice of the
  scanner's buffer (`claude.go:300`; likewise `gemini.go:278` and `358`, `yaml_provider.go:268`), which
  the next line may overwrite before it is recorded. `agy.go:250` copies it for that reason.
- `whole` (`WholePlan`): a run that is re-entered twice answers without the tasks the first of its
  sessions had completed (`resume_run.go:72`).
- `mission_resigned` (`SignedAsShown`): the approval marker names only the gate's id, so a gate whose
  text is edited between the prompt and the resume is passed on the old signature (`mission.go:1198`).
- `par_wedged` (`ParReturns`): every branch of a `par` holds a slot (`mission.go:938`) while its judge's
  verifiers wait for one (`mission.go:1007`), and neither wait watches the context. With as many judging
  branches as slots, four unless `--max-parallel` says otherwise and one per item of the `par`, the mission
  never ends, although `docs/steer.md:136` says that branches run bounded by `--max-parallel` and
  `mission.go:46` that the duration budget bounds the whole walk. `OnlyJudgesWedge` is what holds.

The modules state further ones, without a run of their own; adding the formula to the cfg of the
module's run shows the trace:

| Formula | What happens |
|---|---|
| `NeverStuck`, `TripIsReported` (`DagRun`) | "DAG execution stuck" is commented as defensive (`dag.go:121`); it is what a plan ends with when a task fails that the last ones need. `StuckBelowFailure` is what holds. Being an error, it also hides a budget trip (`supervisor.go:612`). |
| `CompletedIsClean` (`SupervisorRun`) | A fan-out whose subtask never ran (no row, or no slot before the context ended) does not set `anyFailed` (`supervisor.go:1462`); a race does. |
| `WonRaceIsReported`, `NoRequestAfterTrip` (`SupervisorRun`) | A loser that waits for an approval when the race is won makes the approval fail with its own context's error, which cancels the run (`supervisor.go:1148`, `1336`). A transport retry goes out although a sibling has tripped the cap. |
| `USDBandWarned` (`Budget`) | One warning per call: a charge that enters both 80% bands warns about tokens only (`budget.go:148`). |
| `WaitingIsListed` (`HitlGate`) | The newest request removes `pending.json`; an older one still waits, on no list. |
| `DeadTransportFailsCalls` (`McpClient`) | A call registered after `readLoop` has failed the table, and before `Close`, is in a table nobody fails (`client.go:210`, `221`). |
| `InProgressIsWorkedOn` (`ImproveLoop`) | A kill leaves the idea in progress; `NextActionable` never selects it. |
| `NeedsFirst` (`SessionChain`) | Needs are not stored: a re-entry runs a task whose need failed or runs beside it (`plan.go:18`). Gates, the strategy and `SkipSynthesis` are lost in the same way. |
| `EveryCallGuarded` (`Spend`) with `BareCalls` not empty | A resumed turn and the improve loop's own calls reach the provider without a guard (`resume.go:225`, `gather.go:117`, `retrospective.go:142`, against `limits.go:9`). With a guard, a call is still let through when the caps could not be loaded or the ledger cannot be read (`limits.go:290`, which says so); the formula excepts these. |
| `NoStrayCalls` (`AgentTurn`) | The closing request offers no tools, but calls in its answer are kept in the session without results (`nebius.go:825`, `969`), and the next turn sends them. |

Others were met while reading and are excepted by a premise of a property, or are part of a model whose
properties do not forbid them:

- *Runs.* A `RunTimeout` during a fan-out can end as "completed" with rows pending. A child's tool calls
  that a full event buffer drops are never judged (`common.go:19`).
- *Resume.* A lost prompt's failed outcome is not counted. Two tasks of a fan-out may have one id (only
  `validateDAG` looks for that, `dag.go:333`), and a re-entry tells rows apart by it. A resumed turn that is
  denied and answered is "completed" (`resume.go:279`), an interrupted one "failed". Rows of turns are re-run although
  `resume_run.go:78` says otherwise. A session begun under one thread is recorded on the active one.
- *Missions.* The rule of a loop that runs dry takes blank values for a yield that ended it; a name bound
  inside `with` inside `until` may be unbound after the budget ended the loop, which `Check` accepts. A
  cancellation inside a judge becomes `JudgeRejected`. A crash between the marker's removal and the
  journal entry loses the answer. An in-process approver makes `gate choose` take the first option.
- *Spend and providers.* The tokens of the sentinel's verdicts are parsed and added to no total
  (`nebius.go:877`), and it screens three of the built-in tools only, where `nebius_mcp.go:22` says that the
  tools of MCP servers go through it too. A ledger with a line too long for the scanner caps nothing from then
  on. `uta limits set` rewrites the file in place, and a process that starts meanwhile
  runs uncapped. A torn ledger line swallows the next. A failed turn reports no tokens; a stream that
  breaks is taken as whole; a transport error after tools runs them again. A grandchild that keeps stdout
  open keeps a cancelled turn (no `WaitDelay`); a line over 16 MB blocks the child until the context ends.
- *Permissions.* Undo does not restore a file known under two names, nor one a command changed; a failed
  checkpoint is a warning. `edit_file` reads and writes without a lock. `AddRule` loses a rule another
  process adds. "Always" is remembered and still asked where an ask rule matches. An allow list of only
  malformed entries allows everything.
- *MCP.* `removeActive` of an answered call deletes a later call's entry with the same id
  (`server.go:418`), which no cancellation finds any more: what `CancelFindsItsCall` excepts; a `tools/call` without an id blocks the read loop. A server named with `__` is
  advertised and never reached; a connection's key omits its environment; `writeMCPConfig`'s failure
  leaves the patterns approved.
- *Audits.* An audit cancelled in its wave is "completed" with exit 0 (`reflector.go:514`), and so is one
  whose critics all failed; two reviewers with one label overwrite each other's findings.
- *Debates.* A turn's text can be missing from the live output: the subscription it comes by holds 256 events of
  the whole session, provider events included (`discuss.go:279`). `--rounds 1` opens and never closes; a cancelled session whose provider fails exits 4
  instead of 130; usage of retried attempts is missing from the total.
- *Shell.* `/fanout` or `@agent` in an attached conversation resumes with the wrong plan or another
  provider's session. Ctrl-C during `!command` ends the shell.
- *Archive.* Importing a redacted file overwrites content-addressed blobs; `--force` deletes outside
  the transaction; an export is no snapshot; `uta doctor` calls a running session's fresh blob safe to
  delete.
- *Steer.* A pool written `any(any)` is formatted to what does not parse (`fmt.go:17`); `$1.05k` is
  51 dollars; large numbers overflow.
- *Memory.* A reindex empties `rag_documents` before the external-content index, whose entries stay and
  may name new documents; a write beside a reindex may index a fact twice; a search compares vectors of
  two models when their dimension is the same (`rag.go:7`).
- *Screens.* Dot lines and wide characters may wrap (`progress.go:43`); two shells overwrite each
  other's history; a replayed session that still runs counts as drifted.

## What is not modelled

In components that are modelled: status writes that fail after the session exists (`dbErr`); the
contents of prompts, plans and results; pricing and durations (timeouts are steps that may happen at
any time); the terminal prompt of the HITL gate, whose stale reader is listed above only as part of the
permissions gate's prompt; the text and position of diagnostics; arguments with a newline in them, which no glob's `*` matches; branches of a `par` interleaved inside a
whole walk (`MissionPar` has them apart); the allocation of sequence numbers; the copy of a project into
a replay's sandbox; organisation state; `RegisterTool`, which runs before `Serve`; `Client.Close`'s
two-second wait for `readLoop` (it goes on at any time); `CloseMCP`, which only tests call.

Components left out, with the reason in `PROJECT.json`: prompts of planner and synthesizer, and the
improve loop's gathering and retrospective (text in, text out); the provider registry, profiles and
configuration, the eval harness (sequential, no state that the others depend on); the whiteboard and
research database (one statement each); the analysers' adapters (conversion); the command line around
the engine, dashboards, web servers, telemetry (I/O and layout). TLC has nothing to enumerate there
beyond the values of the data.

## Plan

Next modules, if the project grows: the terminal flow of the HITL gate, the allocation of sequence
numbers against an abstract log, the branches of a `par` inside a walk, and the plan cache and
retries of the planner.
