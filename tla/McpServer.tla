------------------------------ MODULE McpServer ------------------------------
(***************************************************************************)
(* The MCP server's handling of tools/call and of cancellation, Serve of   *)
(* internal/mcp/server.go.  The read loop registers each call under its id *)
(* before the goroutine that runs it starts; a cancellation looks the id   *)
(* up; the goroutine answers and then takes the id out of the table.  The  *)
(* client picks the ids and may use one again.                             *)
(***************************************************************************)
EXTENDS Integers, FiniteSets

CONSTANTS Ids,        \* the request ids the client uses
          MaxCalls    \* bound: calls the client makes on the connection

CallNos == 1..MaxCalls

VARIABLES made,       \* how many calls have been read
          id,         \* per call: its id
          state,      \* per call: where its goroutine is
          cancelled,  \* the calls whose context has been cancelled
          active,     \* the in-flight table: the call each id names, 0 is none
          answers,    \* per call: responses written
          broken,     \* a write has failed
          loop,       \* where Serve is
          overlapping \* the calls read while another of their id was in flight (history)

vars == <<made, id, state, cancelled, active, answers, broken, loop, overlapping>>

TypeOK ==
    /\ made \in 0..MaxCalls
    /\ id \in [CallNos -> Ids]
    /\ state \in [CallNos -> {"unread", "running", "answered", "gone"}]
    /\ cancelled \subseteq CallNos
    /\ active \in [Ids -> CallNos \cup {0}]
    /\ answers \in [CallNos -> 0..1]
    /\ broken \in BOOLEAN
    /\ loop \in {"reading", "handling", "draining", "returned"}
    /\ overlapping \subseteq CallNos

Init ==
    /\ made = 0
    /\ id \in [CallNos -> Ids]
    /\ state = [c \in CallNos |-> "unread"]
    /\ cancelled = {}
    /\ active = [k \in Ids |-> 0]
    /\ answers = [c \in CallNos |-> 0]
    /\ broken = FALSE
    /\ loop = "reading"
    /\ overlapping = {}

InFlight == {c \in CallNos : state[c] \in {"running", "answered"}}
Named(k) == {active[k]} \ {0}

-----------------------------------------------------------------------------
(* The next line is handled unless a write is known to have failed; one    *)
(* that fails now is seen at the line after.                               *)
Scan ==
    /\ loop = "reading"
    /\ ~broken
    /\ loop' = "handling"
    /\ UNCHANGED <<made, id, state, cancelled, active, answers, broken, overlapping>>

(* The read loop takes a tools/call.  A call still in the table under the  *)
(* same id is cancelled and its entry replaced.                            *)
ReadCall ==
    /\ loop = "handling"
    /\ loop' = "reading"
    /\ made < MaxCalls
    /\ LET c == made + 1
       IN /\ made' = c
          /\ state' = [state EXCEPT ![c] = "running"]
          /\ cancelled' = cancelled \cup Named(id[c])
          /\ active' = [active EXCEPT ![id[c]] = c]
          /\ overlapping' = IF \E d \in InFlight : id[d] = id[c]
                            THEN overlapping \cup {c} ELSE overlapping
    /\ UNCHANGED <<id, answers, broken>>

\* broken: the entry goes but the call is not told
ReadCancel_Silent(k) ==
    /\ loop = "handling"
    /\ loop' = "reading"
    /\ active' = [active EXCEPT ![k] = 0]
    /\ UNCHANGED <<made, id, state, cancelled, answers, broken, overlapping>>

(* notifications/cancelled.                                                *)
ReadCancel(k) ==
    /\ loop = "handling"
    /\ loop' = "reading"
    /\ cancelled' = cancelled \cup Named(k)
    /\ active' = [active EXCEPT ![k] = 0]
    /\ UNCHANGED <<made, id, state, answers, broken, overlapping>>

(* Everything else the read loop does itself, a tools/call without an id   *)
(* included, and sees nothing the client sends meanwhile: a response is    *)
(* written, or there is none to write.                                     *)
Handle ==
    /\ loop = "handling"
    /\ loop' = "reading"
    /\ broken' \in {broken, TRUE}
    /\ UNCHANGED <<made, id, state, cancelled, active, answers, overlapping>>

(* The end of the input, a write that failed, or the end of Serve's own    *)
(* context takes the loop to wg.Wait.                                      *)
ReadEnds ==
    /\ loop = "reading"
    /\ loop' = "draining"
    /\ UNCHANGED <<made, id, state, cancelled, active, answers, broken, overlapping>>

Return ==
    /\ loop = "draining"
    /\ InFlight = {}
    /\ loop' = "returned"
    /\ UNCHANGED <<made, id, state, cancelled, active, answers, broken, overlapping>>

-----------------------------------------------------------------------------

\* broken: the goroutine keeps its response for a client that is gone
Answer_Retries(c) ==
    /\ state[c] = "running"
    /\ \/ /\ ~broken
          /\ state' = [state EXCEPT ![c] = "answered"]
          /\ answers' = [answers EXCEPT ![c] = @ + 1]
          /\ UNCHANGED broken
       \/ broken' = TRUE /\ UNCHANGED <<state, answers>>
    /\ UNCHANGED <<made, id, cancelled, active, loop, overlapping>>

(* The goroutine of a call: the response of the handler, of an unknown     *)
(* tool or of a panic is written, unless a write has failed before.        *)
Answer(c) ==
    /\ state[c] = "running"
    /\ state' = [state EXCEPT ![c] = "answered"]
    /\ \/ ~broken /\ answers' = [answers EXCEPT ![c] = @ + 1] /\ UNCHANGED broken
       \/ broken' = TRUE /\ UNCHANGED answers
    /\ UNCHANGED <<made, id, cancelled, active, loop, overlapping>>

RemoveActive(c) ==
    /\ state[c] = "answered"
    /\ state' = [state EXCEPT ![c] = "gone"]
    /\ active' = [active EXCEPT ![id[c]] = 0]
    /\ UNCHANGED <<made, id, cancelled, answers, broken, loop, overlapping>>

CallStep(c) == Answer(c) \/ RemoveActive(c)

Next ==
    \/ Scan \/ ReadCall \/ Handle \/ ReadEnds \/ Return
    \/ \E k \in Ids : ReadCancel(k)
    \/ \E c \in CallNos : CallStep(c)

Spec == Init /\ [][Next]_vars
(* Handlers return: the tools of this server run under their own timeouts. *)
Fairness == WF_vars(Return) /\ \A c \in CallNos : WF_vars(CallStep(c))

FairSpec == Spec /\ Fairness

-----------------------------------------------------------------------------
(* When Serve returns, every call that was read has been answered exactly  *)
(* once (unless the client was unreachable), no goroutine is left and no   *)
(* cancel function is kept: "Serve waits for any in-flight tool calls".    *)
ReturnIsComplete ==
    loop = "returned" =>
        /\ InFlight = {}
        /\ \A k \in Ids : active[k] = 0
        /\ ~broken => \A c \in 1..made : answers[c] = 1

(* A call that still runs can be cancelled: its id finds it in the table,  *)
(* unless it has been cancelled already, also where the client uses an id  *)
(* again.  Excepted is a call that was read while another of its id was    *)
(* still in flight: the clean-up of that one takes whatever entry the id   *)
(* has (removeActive).                                                     *)
RunningIsCancellable ==
    \A c \in CallNos \ overlapping :
        state[c] = "running" => active[id[c]] = c \/ c \in cancelled

(* A cancellation never reaches the wrong call: the table names a call by  *)
(* the id it was made with, and never one that is gone.                    *)
TableIsExact ==
    \A k \in Ids : \A c \in Named(k) : id[c] = k /\ state[c] \in {"running", "answered"}

(* The table of calls in flight serves a cancellation exactly.             *)
CancelFindsItsCall == RunningIsCancellable /\ TableIsExact

(* Once its input has ended Serve returns.                                 *)
ServeReturns == loop = "draining" ~> loop = "returned"
=============================================================================
