------------------------------ MODULE HitlGate ------------------------------
(***************************************************************************)
(* The file-drop approval gate of internal/hitl/gate.go (runAsync) and the *)
(* operator's side of it, `uta hitl approve` and `uta hitl list` of        *)
(* internal/cli/hitl.go, in the directory of one session.  A request       *)
(* leaves two files, its own and the shared pointer pending.json, polls    *)
(* for a marker, and takes both files away again.  Subtasks that run in    *)
(* parallel ask in parallel, and the operator is another process: each     *)
(* file operation is a step of its own.                                    *)
(***************************************************************************)
EXTENDS FiniteSets

CONSTANTS Requests,      \* the action ids of the session
          None,          \* the pointer file does not exist
          Empty,         \* the pointer file has just been truncated
          Torn,          \* the pointer file does not parse
          WriteFailures  \* the file system may refuse a file

VARIABLES pc,        \* per request: where runAsync is
          decision,  \* per request: what it returns
          pending,   \* the requests whose own file exists
          pointer,   \* what pending.json names
          open,      \* the requests writing the file that pending.json is
          approved,  \* the requests with an .approved marker
          denied,    \* the requests with a .denied marker
          seen       \* what an operator without --action has read

vars == <<pc, decision, pending, pointer, open, approved, denied, seen>>
ptr == <<pointer, open>>
markers == <<approved, denied>>

Polling == {"statApproved", "statDenied"}
Waiting(r) == pc[r] \in Polling
Leaving == {"removePending", "readPointer", "removePointer", "done"}
Stages == {"idle", "truncate", "fill"} \cup Polling \cup Leaving

TypeOK ==
    /\ pc \in [Requests -> Stages]
    /\ decision \in [Requests -> {"none", "approved", "denied", "cancelled", "error"}]
    /\ pending \subseteq Requests
    /\ pointer \in Requests \cup {None, Empty, Torn}
    /\ open \subseteq Requests
    /\ approved \subseteq Requests
    /\ denied \subseteq Requests
    /\ seen \in Requests \cup {None}
    /\ \A r \in Requests : decision[r] # "none" <=> pc[r] \in Leaving

Init ==
    /\ pc = [r \in Requests |-> "idle"]
    /\ decision = [r \in Requests |-> "none"]
    /\ pending = {}
    /\ pointer = None
    /\ open = {}
    /\ approved = {}
    /\ denied = {}
    /\ seen = None

Go(r, stage) == pc' = [pc EXCEPT ![r] = stage]
Decide(r, d) == decision' = [decision EXCEPT ![r] = d]

-----------------------------------------------------------------------------
(* runAsync.  The request's own file first; without it there is no gate.   *)
WritePending(r) ==
    /\ pc[r] = "idle"
    /\ \/ Go(r, "truncate") /\ pending' = pending \cup {r} /\ UNCHANGED decision
       \/ WriteFailures /\ Go(r, "done") /\ Decide(r, "error") /\ UNCHANGED pending
    /\ UNCHANGED <<ptr, markers, seen>>

(* The pointer is truncated and then filled.  Of two overlapping writes    *)
(* the second leaves its body, or a mix of both; a write to a file that    *)
(* was removed meanwhile leaves nothing.  A pointer that cannot be written *)
(* is only warned about.                                                   *)
Truncate(r) ==
    /\ pc[r] = "truncate"
    /\ \/ Go(r, "fill") /\ pointer' = Empty /\ open' = open \cup {r}
       \/ WriteFailures /\ Go(r, "statApproved") /\ UNCHANGED ptr
    /\ UNCHANGED <<decision, pending, markers, seen>>

Fill(r) ==
    /\ pc[r] = "fill"
    /\ Go(r, "statApproved")
    /\ open' = open \ {r}
    /\ \/ r \in open /\ pointer' = r
       \/ r \in open /\ pointer # Empty /\ pointer' = Torn
       \/ r \notin open /\ UNCHANGED pointer
    /\ UNCHANGED <<decision, pending, markers, seen>>

(* One tick of the poll: the approval is looked for before the denial.     *)
StatApproved(r) ==
    /\ pc[r] = "statApproved"
    /\ IF r \in approved
       THEN /\ Go(r, "removePending")
            /\ Decide(r, "approved")
            /\ approved' = approved \ {r}
       ELSE Go(r, "statDenied") /\ UNCHANGED <<decision, approved>>
    /\ UNCHANGED <<pending, ptr, denied, seen>>

\* broken: the denial is read and left where it is, and the poll goes on
StatDenied_Ignored(r) ==
    /\ pc[r] = "statDenied"
    /\ Go(r, "statApproved")
    /\ UNCHANGED <<decision, pending, ptr, markers, seen>>

StatDenied(r) ==
    /\ pc[r] = "statDenied"
    /\ IF r \in denied
       THEN /\ Go(r, "removePending")
            /\ Decide(r, "denied")
            /\ denied' = denied \ {r}
       ELSE Go(r, "statApproved") /\ UNCHANGED <<decision, denied>>
    /\ UNCHANGED <<pending, ptr, approved, seen>>

(* The context ends between two ticks.  A marker that comes later stays.   *)
Cancelled(r) ==
    /\ pc[r] = "statApproved"
    /\ Go(r, "removePending")
    /\ Decide(r, "cancelled")
    /\ UNCHANGED <<pending, ptr, markers, seen>>

(* The deferred clean-up: the own file goes, then the pointer if it still  *)
(* names this request when it is read.                                     *)
RemovePending(r) ==
    /\ pc[r] = "removePending"
    /\ Go(r, "readPointer")
    /\ pending' = pending \ {r}
    /\ UNCHANGED <<decision, ptr, markers, seen>>

ReadPointer(r) ==
    /\ pc[r] = "readPointer"
    /\ Go(r, IF pointer = r THEN "removePointer" ELSE "done")
    /\ UNCHANGED <<decision, pending, ptr, markers, seen>>

RemovePointer(r) ==
    /\ pc[r] = "removePointer"
    /\ Go(r, "done")
    /\ pointer' = None
    /\ open' = {}
    /\ UNCHANGED <<decision, pending, markers, seen>>

-----------------------------------------------------------------------------
(* The operator, from another process.  With --action any request that was *)
(* ever announced can be answered; without it the pointer says which.      *)
Mark(r) ==
    \/ approved' = approved \cup {r} /\ UNCHANGED denied
    \/ denied' = denied \cup {r} /\ UNCHANGED approved

AnswerAction(r) ==
    /\ pc[r] # "idle"
    /\ Mark(r)
    /\ UNCHANGED <<pc, decision, pending, ptr, seen>>

FirstPending ==
    /\ seen = None
    /\ pointer \in Requests
    /\ seen' = pointer
    /\ UNCHANGED <<pc, decision, pending, ptr, markers>>

AnswerSeen ==
    /\ seen # None
    /\ Mark(seen)
    /\ seen' = None
    /\ UNCHANGED <<pc, decision, pending, ptr>>

Step(r) ==
    \/ WritePending(r) \/ Truncate(r) \/ Fill(r)
    \/ StatApproved(r) \/ StatDenied(r)
    \/ RemovePending(r) \/ ReadPointer(r) \/ RemovePointer(r)

Next ==
    \/ FirstPending
    \/ AnswerSeen
    \/ \E r \in Requests : Step(r) \/ Cancelled(r) \/ AnswerAction(r)

Spec == Init /\ [][Next]_vars
(* The poll's ticker keeps ticking; nobody has to answer.                  *)
Fairness == \A r \in Requests : WF_vars(Step(r))
FairSpec == Spec /\ Fairness

-----------------------------------------------------------------------------
(* An answer gets through: a request that is waiting when its marker is    *)
(* written returns, whatever the other requests of the session do to the   *)
(* shared files.                                                           *)
AnsweredReturns ==
    \A r \in Requests :
        (Waiting(r) /\ r \in approved \cup denied) ~> pc[r] = "done"

(* A session with a request that waits for a human has one on offer, so    *)
(* `uta hitl list` and `uta hitl approve <session>` find it (the commands' *)
(* own help text).                                                         *)
WaitingIsListed ==
    (\E r \in Requests : Waiting(r)) => pointer # None
=============================================================================
