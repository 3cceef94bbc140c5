------------------------------ MODULE McpClient ------------------------------
(***************************************************************************)
(* The JSON-RPC client of internal/mcp/client.go: concurrent calls share   *)
(* one connection and a table of pending replies; readLoop dispatches the  *)
(* replies, and it or Close fails what is pending.  A call is named by the *)
(* id it gets from nextID; an action is what one goroutine does under the  *)
(* lock mu, or one operation on a channel or on the connection.            *)
(***************************************************************************)
EXTENDS Integers, FiniteSets

CONSTANTS Calls,       \* the calls made on the client, each with its id
          NoCall       \* not a call

ASSUME ClientAssumption == NoCall \notin Calls

VARIABLES pc,        \* per call: where its caller is
          enc,       \* per call: the goroutine that encodes its request
          pending,   \* the calls in the pending table
          buffer,    \* per call: what its channel holds
          closedCh,  \* the calls whose channel is closed
          reader,    \* where readLoop is
          cur,       \* the call whose reply readLoop is about to send on
          failing,   \* per failPending: the channels it has yet to fail
          closer,    \* where Close is
          writable,  \* the request stream accepts writes
          received,  \* the requests the server has
          wire       \* the replies on their way

vars == <<pc, enc, pending, buffer, closedCh, reader, cur, failing, closer,
          writable, received, wire>>
callers == <<pc, enc>>
channels == <<buffer, closedCh>>
network == <<writable, received, wire>>

Failers == {"readLoop", "Close"}

TypeOK ==
    /\ pc \in [Calls -> {"idle", "writing", "waiting", "answered", "failed"}]
    /\ enc \in [Calls -> {"none", "queued", "ok", "error"}]
    /\ pending \subseteq Calls
    /\ buffer \in [Calls -> {"empty", "reply", "failure"}]
    /\ closedCh \subseteq Calls
    /\ reader \in {"scan", "send", "ending", "failing", "stopped"}
    /\ cur \in Calls \cup {NoCall}
    /\ failing \in [Failers -> SUBSET Calls]
    /\ closer \in {"idle", "closing", "draining", "failing", "done"}
    /\ writable \in BOOLEAN
    /\ received \subseteq Calls
    /\ wire \subseteq Calls
    /\ reader = "send" <=> cur # NoCall

Init ==
    /\ pc = [c \in Calls |-> "idle"]
    /\ enc = [c \in Calls |-> "none"]
    /\ pending = {}
    /\ buffer = [c \in Calls |-> "empty"]
    /\ closedCh = {}
    /\ reader = "scan"
    /\ cur = NoCall
    /\ failing = [f \in Failers |-> {}]
    /\ closer = "idle"
    /\ writable = TRUE
    /\ received = {}
    /\ wire = {}

Go(c, stage) == pc' = [pc EXCEPT ![c] = stage]

-----------------------------------------------------------------------------
(* call: register under mu, hand the request to an encoding goroutine.     *)
Register(c) ==
    /\ pc[c] = "idle"
    /\ IF closer # "idle"
       THEN Go(c, "failed") /\ UNCHANGED <<enc, pending>>
       ELSE /\ Go(c, "writing")
            /\ enc' = [enc EXCEPT ![c] = "queued"]
            /\ pending' = pending \cup {c}
    /\ UNCHANGED <<channels, reader, cur, failing, closer, network>>

(* The encoder, under writeMu; it may outlive the call that started it.    *)
Encode(c) ==
    /\ enc[c] = "queued"
    /\ \/ writable /\ enc' = [enc EXCEPT ![c] = "ok"] /\ received' = received \cup {c}
       \/ ~writable /\ enc' = [enc EXCEPT ![c] = "error"] /\ UNCHANGED received
    /\ UNCHANGED <<pc, pending, channels, reader, cur, failing, closer, writable, wire>>

Written(c) ==
    /\ pc[c] = "writing"
    /\ \/ enc[c] = "ok" /\ Go(c, "waiting") /\ UNCHANGED pending
       \/ enc[c] = "error" /\ Go(c, "failed") /\ pending' = pending \ {c}
    /\ UNCHANGED <<enc, channels, reader, cur, failing, closer, network>>

(* The caller's context ends.                                              *)
GiveUp(c) ==
    /\ pc[c] \in {"writing", "waiting"}
    /\ Go(c, "failed")
    /\ pending' = pending \ {c}
    /\ UNCHANGED <<enc, channels, reader, cur, failing, closer, network>>

Receive(c) ==
    /\ pc[c] = "waiting"
    /\ \/ /\ buffer[c] # "empty"
          /\ Go(c, IF buffer[c] = "reply" THEN "answered" ELSE "failed")
          /\ buffer' = [buffer EXCEPT ![c] = "empty"]
       \/ /\ buffer[c] = "empty"
          /\ c \in closedCh
          /\ Go(c, "failed")
          /\ UNCHANGED buffer
    /\ UNCHANGED <<enc, pending, closedCh, reader, cur, failing, closer, network>>

-----------------------------------------------------------------------------
(* readLoop.  A reply takes its call out of the table under mu and is sent *)
(* on the call's channel after mu is released.                             *)
ReadReply(c) ==
    /\ reader = "scan"
    /\ c \in wire
    /\ wire' = wire \ {c}
    /\ IF c \in pending
       THEN pending' = pending \ {c} /\ reader' = "send" /\ cur' = c
       ELSE UNCHANGED <<pending, reader, cur>>
    /\ UNCHANGED <<callers, channels, failing, closer, writable, received>>

SendReply ==
    /\ reader = "send"
    /\ buffer[cur] = "empty"
    /\ buffer' = [buffer EXCEPT ![cur] = "reply"]
    /\ reader' = "scan"
    /\ cur' = NoCall
    /\ UNCHANGED <<callers, pending, closedCh, failing, closer, network>>

(* The stream ends, breaks, or has a line longer than the scanner takes;   *)
(* closing the client's end makes sure that it does.                       *)
StreamEnds ==
    /\ reader = "scan"
    /\ reader' = "ending"
    /\ UNCHANGED <<callers, pending, channels, cur, failing, closer, network>>

(* failPending swaps the table under mu and then fails channel after       *)
(* channel, in readLoop and in Close alike.                                *)

\* broken: the table is emptied and nobody told
TakePending_Forgets(f) == pending' = {} /\ UNCHANGED failing

TakePending(f) == failing' = [failing EXCEPT ![f] = pending] /\ pending' = {}

FailChannel(f, c) ==
    /\ c \in failing[f]
    /\ failing' = [failing EXCEPT ![f] = @ \ {c}]
    /\ buffer' = [buffer EXCEPT ![c] = IF @ = "empty" THEN "failure" ELSE @]
    /\ closedCh' = closedCh \cup {c}
    /\ UNCHANGED <<callers, pending, reader, cur, closer, network>>

ReaderFails ==
    /\ \/ reader = "ending" /\ reader' = "failing" /\ TakePending("readLoop")
       \/ /\ reader = "failing" /\ failing["readLoop"] = {}
          /\ reader' = "stopped" /\ UNCHANGED <<failing, pending>>
    /\ UNCHANGED <<callers, channels, cur, closer, network>>

-----------------------------------------------------------------------------
(* Close: the closed flag, both streams, the read loop or two seconds,     *)
(* then whatever is still pending.                                         *)
BeginClose ==
    /\ closer = "idle"
    /\ closer' = "closing"
    /\ UNCHANGED <<callers, pending, channels, reader, cur, failing, network>>

CloseStreams ==
    /\ closer = "closing"
    /\ closer' = "draining"
    /\ writable' = FALSE
    /\ UNCHANGED <<callers, pending, channels, reader, cur, failing, received, wire>>

\* broken: leaves the pending calls to the reader
CloserFails_Never ==
    /\ closer = "draining"
    /\ closer' = "done"
    /\ UNCHANGED <<callers, pending, channels, reader, cur, failing, network>>

CloserFails ==
    /\ \/ closer = "draining" /\ closer' = "failing" /\ TakePending("Close")
       \/ /\ closer = "failing" /\ failing["Close"] = {}
          /\ closer' = "done" /\ UNCHANGED <<failing, pending>>
    /\ UNCHANGED <<callers, channels, reader, cur, network>>

(* The server answers in any order, or again; its process may go away.     *)
Reply(c) ==
    /\ c \in received
    /\ wire' = wire \cup {c}
    /\ UNCHANGED <<callers, pending, channels, reader, cur, failing, closer,
                   writable, received>>

ServerGone ==
    /\ writable' = FALSE
    /\ UNCHANGED <<callers, pending, channels, reader, cur, failing, closer, received, wire>>

CallStep(c) == Encode(c) \/ Written(c) \/ Receive(c)
ReaderStep == (\E c \in Calls : ReadReply(c)) \/ SendReply \/ ReaderFails
FailStep == \E f \in Failers, c \in Calls : FailChannel(f, c)
CloseStep == CloseStreams \/ CloserFails

Next ==
    \/ \E c \in Calls : Register(c) \/ CallStep(c) \/ GiveUp(c) \/ Reply(c)
    \/ ReaderStep \/ StreamEnds \/ FailStep
    \/ BeginClose \/ CloseStep \/ ServerGone

Spec == Init /\ [][Next]_vars
(* Goroutines keep running.  Neither the server, nor the stream's end, nor *)
(* a caller's deadline is relied on.                                       *)
Fairness ==
    /\ \A c \in Calls : WF_vars(CallStep(c))
    /\ WF_vars(SendReply) /\ WF_vars(ReaderFails)
    /\ \A f \in Failers : WF_vars(\E c \in Calls : FailChannel(f, c))
    /\ WF_vars(CloseStep)

FairSpec == Spec /\ Fairness

-----------------------------------------------------------------------------
(* No goroutine ever sends on a channel another one has closed, or closes  *)
(* one twice (either is a panic that takes the process down): whoever      *)
(* takes a call out of the table is the only one to touch its channel, and *)
(* the reader never blocks on a full one.                                  *)
Holds(owner, c) ==
    \/ owner = "table" /\ c \in pending
    \/ owner = "reply" /\ reader = "send" /\ c = cur
    \/ owner \in Failers /\ c \in failing[owner]
Owners(c) == {owner \in {"table", "reply"} \cup Failers : Holds(owner, c)}

ChannelHasOneOwner ==
    \A c \in Calls :
        /\ Cardinality(Owners(c)) <= 1
        /\ Owners(c) # {} => c \notin closedCh /\ buffer[c] = "empty"

(* A caller that waits is never forgotten: its call is in the table, or    *)
(* somebody has taken it out to answer or fail it, or its channel has      *)
(* something for it.                                                       *)
NobodyForgotten ==
    \A c \in Calls :
        pc[c] = "waiting" =>
            Owners(c) # {} \/ buffer[c] # "empty" \/ c \in closedCh

(* The table does not leak: an entry belongs to a call that has not        *)
(* returned.                                                               *)
PendingIsLive == \A c \in pending : pc[c] \in {"writing", "waiting"}

(* Whatever order replies, deadlines, the stream's end and Close come in,  *)
(* the table, the channels and the callers agree.                          *)
NoCallLost == ChannelHasOneOwner /\ NobodyForgotten /\ PendingIsLive

(* Closing the client ends every call made on it, and none starts later,   *)
(* even one with a context that never ends.                                *)
CloseEndsCalls ==
    closer = "done" ~> \A c \in Calls : pc[c] \in {"idle", "answered", "failed"}

(* When the reader has stopped no caller hangs on the dead transport       *)
(* (readLoop's comment).                                                   *)
DeadTransportFailsCalls ==
    reader = "stopped" => \A c \in Calls : pc[c] = "waiting" => c \notin pending
=============================================================================
