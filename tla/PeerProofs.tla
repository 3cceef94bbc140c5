----------------------------- MODULE PeerProofs ------------------------------
(***************************************************************************)
(* What uta keeps with its peers: as an MCP client for every set of calls, *)
(* whatever order replies, deadlines, the end of the stream and Close come *)
(* in; as an MCP server for every number of calls and every choice of ids; *)
(* of a child process's turn for every length of output and of buffers;    *)
(* and of the exchanged session files for every number of them.            *)
(***************************************************************************)
EXTENDS MCPeers, FiniteSetTheorems, SequenceTheorems, TLAPS

(* Who may touch the channel of a call, told without counting.             *)
Owned(c) == c \in pending \/ c = cur \/ \E f \in Failers : c \in failing[f]

OneOwner ==
    /\ \A f \in Failers : pending \cap failing[f] = {} /\ cur \notin failing[f]
    /\ cur \notin pending
    /\ failing["readLoop"] \cap failing["Close"] = {}

(* A channel is opened with its call, and used up by its owner.            *)
OwnedIsOpen ==
    \A c \in Calls :
        /\ Owned(c) => pc[c] # "idle"
        /\ Owned(c) \/ pc[c] = "idle" => c \notin closedCh /\ buffer[c] = "empty"

(* A failPending that has not begun, or is over, has nothing in hand.      *)
FailersAreDone ==
    /\ reader # "failing" => failing["readLoop"] = {}
    /\ closer # "failing" => failing["Close"] = {}

(* A call that has not returned is told, or will be: while its request is  *)
(* being written already.                                                  *)
CallIsTold ==
    \A c \in Calls :
        pc[c] \in {"writing", "waiting"} =>
            Owned(c) \/ buffer[c] # "empty" \/ c \in closedCh

ClientInv ==
    TypeOK /\ OneOwner /\ OwnedIsOpen /\ FailersAreDone /\ CallIsTold /\ PendingIsLive

LEMMA ClientInitInv == Init => ClientInv
  BY ClientAssumption
  DEF Init, ClientInv, TypeOK, OneOwner, OwnedIsOpen, FailersAreDone, CallIsTold,
      PendingIsLive, Owned, Failers

LEMMA CallerInv ==
    ASSUME ClientInv, NEW c \in Calls, Register(c) \/ Written(c) \/ GiveUp(c) \/ Receive(c)
    PROVE  ClientInv'
<1>. USE ClientAssumption DEF ClientInv, TypeOK, Failers
<1>1. CASE Register(c)
  BY <1>1 DEF Register, Go, channels, network, OneOwner, OwnedIsOpen, FailersAreDone,
     CallIsTold, PendingIsLive, Owned
<1>2. CASE Written(c)
  BY <1>2 DEF Written, Go, channels, network, OneOwner, OwnedIsOpen, FailersAreDone,
     CallIsTold, PendingIsLive, Owned
<1>3. CASE GiveUp(c)
  BY <1>3 DEF GiveUp, Go, channels, network, OneOwner, OwnedIsOpen, FailersAreDone,
     CallIsTold, PendingIsLive, Owned
<1>4. CASE Receive(c)
  BY <1>4 DEF Receive, Go, channels, network, OneOwner, OwnedIsOpen, FailersAreDone,
     CallIsTold, PendingIsLive, Owned
<1>. QED
  BY <1>1, <1>2, <1>3, <1>4

LEMMA ReaderInv ==
    ASSUME ClientInv, (\E c \in Calls : ReadReply(c)) \/ SendReply \/ StreamEnds
    PROVE  ClientInv'
<1>. USE ClientAssumption DEF ClientInv, TypeOK, Failers
<1>1. ASSUME NEW c \in Calls, ReadReply(c)
      PROVE  ClientInv'
  BY <1>1 DEF ReadReply, callers, channels, network, OneOwner, OwnedIsOpen, FailersAreDone,
     CallIsTold, PendingIsLive, Owned
<1>2. CASE SendReply
  BY <1>2 DEF SendReply, callers, channels, network, OneOwner, OwnedIsOpen, FailersAreDone,
     CallIsTold, PendingIsLive, Owned
<1>3. CASE StreamEnds
  BY <1>3 DEF StreamEnds, callers, channels, network, OneOwner, OwnedIsOpen, FailersAreDone,
     CallIsTold, PendingIsLive, Owned
<1>. QED
  BY <1>1, <1>2, <1>3

(* failPending: the whole table changes hands under mu, and then a channel *)
(* at a time is failed.                                                    *)
LEMMA FailInv ==
    ASSUME ClientInv, ReaderFails \/ CloserFails \/ FailStep
    PROVE  ClientInv'
<1>. USE ClientAssumption DEF ClientInv, TypeOK, Failers
<1>1. CASE ReaderFails
  BY <1>1 DEF ReaderFails, TakePending, callers, channels, network, OneOwner, OwnedIsOpen,
     FailersAreDone, CallIsTold, PendingIsLive, Owned
<1>2. CASE CloserFails
  BY <1>2 DEF CloserFails, TakePending, callers, channels, network, OneOwner, OwnedIsOpen,
     FailersAreDone, CallIsTold, PendingIsLive, Owned
<1>3. ASSUME NEW f \in Failers, NEW c \in Calls, FailChannel(f, c)
      PROVE  ClientInv'
  BY <1>3 DEF FailChannel, callers, network, OneOwner, OwnedIsOpen, FailersAreDone,
     CallIsTold, PendingIsLive, Owned
<1>. QED
  BY <1>1, <1>2, <1>3 DEF FailStep

LEMMA OthersInv ==
    ASSUME ClientInv,
           \/ \E c \in Calls : Encode(c) \/ Reply(c)
           \/ BeginClose \/ CloseStreams \/ ServerGone \/ UNCHANGED vars
    PROVE  ClientInv'
<1>1. /\ UNCHANGED <<pc, pending, channels, reader, cur, failing>>
      /\ closer' = closer \/ (closer # "failing" /\ closer' # "failing")
      /\ TypeOK'
  BY DEF Encode, Reply, BeginClose, CloseStreams, ServerGone, vars, callers, channels,
     network, ClientInv, TypeOK
<1>. QED
  BY <1>1 DEF ClientInv, OneOwner, OwnedIsOpen, FailersAreDone, CallIsTold, PendingIsLive,
     Owned, channels

(* Ownership is what ChannelHasOneOwner counts.                            *)
LEMMA OwnersCounted == ClientInv => NoCallLost
<1>. SUFFICES ASSUME ClientInv PROVE NoCallLost
  OBVIOUS
<1>1. ASSUME NEW c \in Calls
      PROVE  /\ Owned(c) <=> Owners(c) # {}
             /\ Cardinality(Owners(c)) <= 1
  <2>1. Owners(c) = {} \/ \E o \in {"table", "reply", "readLoop", "Close"} : Owners(c) = {o}
    BY <1>1, ClientAssumption DEF Owners, Holds, Failers, ClientInv, TypeOK, OneOwner
  <2>2. Cardinality(Owners(c)) \in {0, 1}
    BY <2>1, FS_EmptySet, FS_Singleton
  <2>3. Owned(c) <=> Owners(c) # {}
    BY <1>1, ClientAssumption DEF Owned, Owners, Holds, Failers, ClientInv, TypeOK
  <2>. QED
    BY <2>2, <2>3
<1>. QED
  BY <1>1 DEF ClientInv, NoCallLost, ChannelHasOneOwner, NobodyForgotten, PendingIsLive,
     OwnedIsOpen, CallIsTold

-----------------------------------------------------------------------------
LEMMA ClientStepInv == ClientInv /\ [Next]_vars => ClientInv'
  BY CallerInv, ReaderInv, FailInv, OthersInv
  DEF Next, CallStep, ReaderStep, CloseStep

(* readLoop, the callers and Close keep the client's types.                *)
THEOREM ClientTyped == Spec => []TypeOK
<1>1. ClientInv => TypeOK
  BY DEF ClientInv
<1>. QED
  BY ClientInitInv, ClientStepInv, <1>1, PTL DEF Spec

(* No reply, deadline, end of stream or Close makes two goroutines touch a *)
(* channel, forgets a waiting caller or leaves an entry in the table       *)
(* (dispatch and failPending of client.go), however many calls there are.  *)
THEOREM ClientNoCallLost == Spec => []NoCallLost
  BY ClientInitInv, ClientStepInv, OwnersCounted, PTL DEF Spec

-----------------------------------------------------------------------------

Read == 1..made

CallsTyped ==
    /\ made \in 0..MaxCalls
    /\ id \in [Server!CallNos -> Ids]
    /\ state \in [Server!CallNos -> {"unread", "running", "answered", "gone"}]
    /\ cancelled \subseteq Server!CallNos
    /\ active \in [Ids -> Server!CallNos \cup {0}]
    /\ answers \in [Server!CallNos -> 0..1]
    /\ overlapping \subseteq Server!CallNos

(* A call is read once, answered at most once and, unless the client is    *)
(* unreachable, before its goroutine cleans up.                            *)
CallProgress ==
    \A c \in Server!CallNos :
        /\ state[c] = "unread" <=> c \notin Read
        /\ state[c] \in {"unread", "running"} => answers[c] = 0
        /\ state[c] \in {"answered", "gone"} => broken = TRUE \/ answers[c] = 1

(* Of two calls of one id, the earlier is gone where the later did not     *)
(* overlap it, and has been told, if it still runs and overlapped none     *)
(* itself: no clean-up under that id can lose it any more.                 *)
ReuseCancels ==
    \A c, d \in Read :
        c < d /\ id[c] = id[d] =>
            /\ d \notin overlapping => state[c] = "gone"
            /\ c \notin overlapping /\ state[c] = "running" => c \in cancelled

ServerInv ==
    /\ CallsTyped
    /\ CallProgress
    /\ Server!TableIsExact
    /\ Server!RunningIsCancellable
    /\ ReuseCancels
    /\ loop = "returned" => Server!InFlight = {}

LEMMA ServerInitInv == Server!Init => ServerInv
<1>. SUFFICES ASSUME Server!Init PROVE ServerInv
  OBVIOUS
<1>1. CallsTyped
  BY ServerAssumption DEF Server!Init, CallsTyped, Server!CallNos
<1>2. Read = {} /\ \A c \in Server!CallNos : state[c] = "unread" /\ answers[c] = 0
  BY DEF Server!Init, Read
<1>3. \A k \in Ids : Server!Named(k) = {}
  BY DEF Server!Init, Server!Named
<1>. QED
  BY <1>1, <1>2, <1>3 DEF Server!Init, ServerInv, CallProgress, Server!TableIsExact,
     Server!RunningIsCancellable, ReuseCancels

(* The read loop takes a call or a cancellation.                           *)
LEMMA ServerReadInv ==
    ASSUME ServerInv, Server!ReadCall \/ \E k \in Ids : Server!ReadCancel(k)
    PROVE  ServerInv'
<1>. USE ServerAssumption DEF Server!CallNos, CallsTyped, Server!Named
<1>1. CASE Server!ReadCall
  <2>. DEFINE c == made + 1
  <2>0. /\ CallsTyped /\ c \in Server!CallNos /\ made < MaxCalls /\ made' = c
        /\ state' = [state EXCEPT ![c] = "running"]
        /\ cancelled' = cancelled \cup Server!Named(id[c])
        /\ active' = [active EXCEPT ![id[c]] = c]
        /\ overlapping' = IF \E d \in Server!InFlight : id[d] = id[c]
                          THEN overlapping \cup {c} ELSE overlapping
        /\ loop' = "reading" /\ UNCHANGED <<id, answers, broken>>
    BY <1>1 DEF Server!ReadCall, ServerInv
  <2>a. made' \in 0..MaxCalls /\ id' \in [Server!CallNos -> Ids]
    BY <2>0
  <2>b. /\ state' \in [Server!CallNos -> {"unread", "running", "answered", "gone"}]
        /\ answers' \in [Server!CallNos -> 0..1]
    BY <2>0
  <2>c. /\ cancelled' \subseteq Server!CallNos /\ active' \in [Ids -> Server!CallNos \cup {0}]
        /\ overlapping' \subseteq Server!CallNos
    BY <2>0
  <2>1. CallsTyped'
    BY <2>a, <2>b, <2>c
  <2>d. made \in Nat /\ made' = made + 1
    BY <2>0
  <2>e. \A d \in Int : d \in Read' <=> d \in Read \/ d = c
    BY ONLY <2>d DEF Read
  <2>6. CallProgress'
    <3>1. SUFFICES ASSUME NEW d \in Server!CallNos
                   PROVE  /\ state'[d] = "unread" <=> d \notin Read'
                          /\ state'[d] \in {"unread", "running"} => answers[d] = 0
                          /\ state'[d] \in {"answered", "gone"} => broken = TRUE \/ answers[d] = 1
      BY <2>0 DEF CallProgress
    <3>2. CASE d = c
      BY <2>0, <2>e, <3>2 DEF ServerInv, CallProgress, Read
    <3>3. CASE d # c
      BY <2>0, <2>e, <3>3 DEF ServerInv, CallProgress
    <3>. QED
      BY <3>2, <3>3
  <2>2. Server!TableIsExact'
    BY <2>0 DEF ServerInv, Server!TableIsExact
  <2>3. ASSUME NEW d \in Server!CallNos, d # c, state[d] = "running", d \notin overlapping
        PROVE  active'[id[d]] = d \/ d \in cancelled'
    BY <2>0, <2>3 DEF ServerInv, Server!RunningIsCancellable
  <2>f. overlapping \subseteq overlapping'
    BY <2>0
  <2>4. Server!RunningIsCancellable'
    BY <2>0, <2>3, <2>f DEF Server!RunningIsCancellable
  <2>5. ReuseCancels'
    <3>1. SUFFICES ASSUME NEW d \in Read', NEW e \in Read', d < e, id[d] = id[e]
                   PROVE  /\ e \notin overlapping' => state'[d] = "gone"
                          /\ d \notin overlapping' /\ state'[d] = "running" => d \in cancelled'
      BY <2>0 DEF ReuseCancels
    <3>2. d \in Read /\ d # c /\ state'[d] = state[d] /\ d \in Server!CallNos
      BY <2>0, <3>1 DEF Read
    <3>3. CASE e = c
      <4>1. ASSUME e \notin overlapping' PROVE state[d] = "gone"
        <5>1. d \notin Server!InFlight
          BY <2>0, <3>1, <3>3, <4>1
        <5>2. state[d] # "unread"
          BY <3>2 DEF ServerInv, CallProgress
        <5>. QED
          BY <2>0, <3>2, <5>1, <5>2 DEF Server!InFlight
      <4>2. ASSUME d \notin overlapping', state[d] = "running" PROVE d \in cancelled'
        BY <2>0, <2>3, <2>f, <3>1, <3>2, <3>3, <4>2 DEF Read
      <4>. QED
        BY <3>2, <4>1, <4>2
    <3>4. CASE e \in Read
      BY <2>0, <2>f, <3>1, <3>2, <3>4 DEF ServerInv, ReuseCancels
    <3>. QED
      BY <2>0, <3>1, <3>3, <3>4 DEF Read
  <2>. QED
    BY <2>0, <2>1, <2>2, <2>4, <2>5, <2>6 DEF ServerInv
<1>2. ASSUME NEW k \in Ids, Server!ReadCancel(k)
      PROVE  ServerInv'
  <2>0. /\ CallsTyped /\ UNCHANGED <<made, id, state, answers, broken, overlapping>>
        /\ loop' = "reading"
        /\ cancelled' = cancelled \cup Server!Named(k)
        /\ active' = [active EXCEPT ![k] = 0]
    BY <1>2 DEF Server!ReadCancel, ServerInv
  <2>1. CallsTyped' /\ cancelled \subseteq cancelled'
    BY <2>0
  <2>2. CallProgress' /\ ReuseCancels'
    BY <2>0, <2>1 DEF ServerInv, CallProgress, ReuseCancels, Read
  <2>3. Server!TableIsExact' /\ Server!RunningIsCancellable'
    BY <2>0 DEF ServerInv, Server!TableIsExact, Server!RunningIsCancellable
  <2>. QED
    BY <2>0, <2>1, <2>2, <2>3 DEF ServerInv
<1>. QED
  BY <1>1, <1>2

(* The goroutine of a call answers, and then takes its id out.             *)
LEMMA ServerCallInv ==
    ASSUME ServerInv, NEW c \in Server!CallNos, Server!CallStep(c)
    PROVE  ServerInv'
<1>. USE ServerAssumption DEF Server!CallNos, CallsTyped, Server!Named
<1>1. CASE Server!Answer(c)
  BY <1>1 DEF Server!Answer, ServerInv, CallProgress, Server!TableIsExact,
     Server!RunningIsCancellable, ReuseCancels, Server!InFlight, Read
<1>2. CASE Server!RemoveActive(c)
  <2>0. /\ CallsTyped /\ state[c] = "answered"
        /\ state' = [state EXCEPT ![c] = "gone"]
        /\ active' = [active EXCEPT ![id[c]] = 0]
        /\ UNCHANGED <<made, id, cancelled, answers, broken, loop, overlapping>>
    BY <1>2 DEF Server!RemoveActive, ServerInv
  <2>1. CallsTyped'
    BY <2>0
  <2>3. CallProgress'
    BY <2>0 DEF ServerInv, CallProgress, Read
  <2>4. Server!TableIsExact'
    BY <2>0 DEF ServerInv, Server!TableIsExact
  <2>2. ASSUME NEW d \in Server!CallNos, d # c, state[d] = "running", d \notin overlapping
        PROVE  active'[id[d]] = d \/ d \in cancelled
    <3>1. CASE id[c] # id[d]
      BY <2>0, <2>2, <3>1 DEF ServerInv, Server!RunningIsCancellable
    <3>2. CASE id[c] = id[d]
      <4>1. c \in Read /\ d \in Read
        BY <2>0, <2>2 DEF ServerInv, CallProgress
      <4>2. d < c
        <5>1. ~ (c < d)
          BY <2>0, <2>2, <3>2, <4>1 DEF ServerInv, ReuseCancels
        <5>. QED
          BY <2>2, <5>1
      <4>. QED
        BY <2>2, <3>2, <4>1, <4>2 DEF ServerInv, ReuseCancels
    <3>. QED
      BY <3>1, <3>2
  <2>. QED
    BY <2>0, <2>1, <2>2, <2>3, <2>4 DEF ServerInv, Server!RunningIsCancellable, ReuseCancels,
       Server!InFlight, Read
<1>. QED
  BY <1>1, <1>2 DEF Server!CallStep

LEMMA ServerStepInv == ServerInv /\ [Server!Next]_(Server!vars) => ServerInv'
<1>1. ASSUME ServerInv,
             Server!Scan \/ Server!Handle \/ Server!ReadEnds \/ Server!Return
             \/ UNCHANGED Server!vars
      PROVE  ServerInv'
  <2>1. /\ UNCHANGED <<made, id, state, cancelled, active, answers, overlapping>>
        /\ broken = TRUE => broken' = TRUE
        /\ loop' = "returned" => Server!InFlight = {}
    BY <1>1 DEF Server!Scan, Server!Handle, Server!ReadEnds, Server!Return, Server!vars,
       ServerInv
  <2>. QED
    BY <1>1, <2>1 DEF ServerInv, CallsTyped, CallProgress, Server!TableIsExact,
       Server!RunningIsCancellable, ReuseCancels, Server!InFlight, Server!Named, Read
<1>. QED
  BY <1>1, ServerReadInv, ServerCallInv DEF Server!Next

(* A cancellation finds the call it names while that call still runs, also *)
(* where ids are used again, and never another one.  Calls that were read  *)
(* while another of their id was in flight are excepted: they may be lost  *)
(* to the clean-up of that one (the in-flight table of Serve, server.go).  *)
THEOREM ServerCancelFindsItsCall == Server!Spec => []CancelFindsItsCall
<1>1. ServerInv => CancelFindsItsCall
  BY DEF ServerInv, CancelFindsItsCall, Server!CancelFindsItsCall
<1>. QED
  BY ServerInitInv, ServerStepInv, <1>1, PTL DEF Server!Spec

(* When Serve returns every call that was read has been answered exactly   *)
(* once, unless a write failed, and the table is empty.                    *)
THEOREM ServerReturnIsComplete == Server!Spec => []Server!ReturnIsComplete
<1>1. ServerInv => Server!ReturnIsComplete
  BY ServerAssumption DEF ServerInv, Server!ReturnIsComplete, CallsTyped, Server!InFlight, CallProgress,
     Server!TableIsExact, Server!Named, Server!CallNos, Read
<1>. QED
  BY ServerInitInv, ServerStepInv, <1>1, PTL DEF Server!Spec

-----------------------------------------------------------------------------
(* The turn of a child.                                                    *)

TurnTyped ==
    /\ ctx \in {"live", "deadline", "cancelled"}
    /\ child \in {"running", "done", "failed", "killed"} /\ stderr \subseteq {"quota", "auth"}
    /\ wrote \in Nat /\ pipe \in Seq(Lines) /\ lines \in Seq(Lines)
    /\ stdin \in {"none", "writing", "written", "failed"}
    /\ scan \in {"scanning", "waiting", "waited", "returned"} /\ badScan \in BOOLEAN
    /\ usage \in [cost : Nat, final : BOOLEAN]

(* A line is in the pipe until it is scanned; the scanner stops at the end *)
(* of file, at which the child is gone, or says so.                        *)
NothingMissed ==
    /\ Len(lines) + Len(pipe) = wrote
    /\ scan # "scanning" /\ ~badScan => pipe = <<>> /\ child # "running"
    /\ scan \in {"waited", "returned"} => child # "running"

Settled ==
    /\ child = "killed" => ctx # "live"
    /\ scan = "returned" => stdin # "writing"
    /\ result # Child!None => scan = "returned"

(* Until a result comes the cost is that of the messages.                  *)
Totals == {"result", "bare"}
Ended == \E i \in DOMAIN lines : lines[i] \in Totals
EndsAtTotal == \A i \in DOMAIN lines : lines[i] \in Totals => lines[i] = "result" /\ i = Len(lines)
CostIsTrue ==
    /\ usage.final <=> Ended
    /\ usage.cost <= Child!Messages(lines)
    /\ EndsAtTotal => usage.cost = Child!Messages(lines)

TurnInv == TurnTyped /\ NothingMissed /\ Settled /\ CostIsTrue /\ TurnIsTold

-----------------------------------------------------------------------------
(* How the messages are counted.                                           *)
LEMMA MessagesCounted ==
    ASSUME NEW S, NEW seen \in Seq(S), NEW line \in S
    PROVE  /\ Child!Messages(<<>>) = 0 /\ Child!Messages(seen) \in Nat
           /\ Child!Messages(<<line>>) \in {0, 1}
           /\ Child!Messages(Append(seen, line)) = Child!Messages(seen) + Child!Messages(<<line>>)
<1>. DEFINE Sorts == {"text"} \union Child!ToolCalls
            At(s) == {i \in DOMAIN s : s[i] \in Sorts}
            more == Append(seen, line)
<1>1. \A s : Child!Messages(s) = Cardinality(At(s))
  <2>1. \A T : Child!Cardinality(T) = Cardinality(T)
    BY Zenon DEF Child!Cardinality, Cardinality
  <2>. QED
    BY <2>1, Zenon DEF Child!Messages
<1>2. IsFiniteSet(At(seen)) /\ At(seen) \subseteq 1..Len(seen) /\ Len(seen) \in Nat
  <2>1. At(seen) \subseteq 1..Len(seen) /\ Len(seen) \in Nat
    OBVIOUS
  <2>2. IsFiniteSet(1..Len(seen))
    BY <2>1, FS_Interval
  <2> HIDE DEF At
  <2>. QED
    BY <2>1, <2>2, FS_Subset
<1>3. Cardinality(At(seen)) \in Nat
  BY <1>2, FS_CardinalityType
<1>4. At(<<>>) = {}
  OBVIOUS
<1>5. CASE line \in Sorts
  <2>1. At(<<line>>) = {1}
    BY <1>5
  <2>2. At(more) = At(seen) \union {Len(seen) + 1} /\ Len(seen) + 1 \notin At(seen)
    BY <1>5, <1>2
  <2>3. Cardinality(At(more)) = Cardinality(At(seen)) + 1
    BY <2>2, <1>2, FS_AddElement
  <2>. QED
    BY <1>1, <1>3, <1>4, <2>1, <2>3, FS_EmptySet, FS_Singleton
<1>6. CASE line \notin Sorts
  <2>1. At(<<line>>) = {}
    BY <1>6
  <2>2. At(more) = At(seen)
    BY <1>6, <1>2
  <2> HIDE DEF At, more
  <2>3. Child!Messages(<<line>>) = 0 /\ Child!Messages(<<>>) = 0
    BY <1>1, <1>4, <2>1, FS_EmptySet
  <2>4. Child!Messages(more) = Child!Messages(seen) /\ Child!Messages(seen) \in Nat
    BY <1>1, <1>3, <2>2
  <2>. QED
    BY <2>3, <2>4 DEF more
<1>. QED
  BY <1>5, <1>6

(* One line more.                                                          *)
LEMMA LineCosts ==
    ASSUME TurnTyped, CostIsTrue, NEW line \in Lines,
           lines' = Append(lines, line), usage' = Child!Merge(usage, lines')
    PROVE  CostIsTrue' /\ usage' \in [cost : Nat, final : BOOLEAN]
<1>. DEFINE n == Len(lines)
<1>1. /\ lines \in Seq(Lines) /\ n \in Nat /\ Len(lines') = n + 1
      /\ DOMAIN lines' = 1..(n + 1) /\ DOMAIN lines = 1..n
      /\ \A i \in 1..n : lines'[i] = lines[i]
      /\ lines'[n + 1] = line
  BY DEF TurnTyped
<1>2. Child!Last(lines') = line
  BY <1>1 DEF Child!Last
<1>3. /\ Child!Messages(lines) \in Nat /\ Child!Messages(<<line>>) \in {0, 1}
      /\ Child!Messages(lines') = Child!Messages(lines) + Child!Messages(<<line>>)
  BY <1>1, MessagesCounted
<1>4. usage.cost \in Nat /\ usage.final \in BOOLEAN /\ usage = [cost |-> usage.cost, final |-> usage.final]
  BY DEF TurnTyped
<1>a. Child!Messages(lines)' = Child!Messages(lines')
  BY DEF Child!Messages, Child!ToolCalls
<1>b. ASSUME usage' = [cost |-> usage'.cost, final |-> usage'.final],
             usage'.cost \in Nat, usage'.final \in BOOLEAN,
             usage'.final <=> Ended', usage'.cost <= Child!Messages(lines'),
             EndsAtTotal' => usage'.cost = Child!Messages(lines')
      PROVE  CostIsTrue' /\ usage' \in [cost : Nat, final : BOOLEAN]
  <2>1. usage' \in [cost : Nat, final : BOOLEAN]
    BY <1>b
  <2>. QED
    BY <1>a, <1>b, <2>1, Zenon DEF CostIsTrue
<1>5. Ended' <=> Ended \/ line \in Totals
  BY <1>1 DEF Ended
<1>6. CASE line = "result"
  <2>1. usage' = [cost |-> Child!Messages(lines'), final |-> TRUE]
    BY <1>2, <1>6 DEF Child!Merge
  <2>2. usage'.cost = Child!Messages(lines') /\ usage'.final = TRUE /\ Ended'
    BY <1>5, <1>6, <2>1 DEF Totals
  <2>. QED
    BY <1>b, <1>3, <2>1, <2>2
<1>7. CASE line = "bare"
  <2>1. usage' = [cost |-> 0, final |-> TRUE]
    BY <1>2, <1>7 DEF Child!Merge
  <2>2. ~EndsAtTotal'
    BY <1>1, <1>7 DEF EndsAtTotal, Totals
  <2>3. usage'.cost = 0 /\ usage'.final = TRUE /\ Ended'
    BY <1>5, <1>7, <2>1 DEF Totals
  <2>. QED
    BY <1>b, <1>3, <2>1, <2>2, <2>3
<1>8. CASE line \notin Totals /\ usage.final
  <2>1. usage' = usage
    BY <1>2, <1>8 DEF Child!Merge, Totals
  <2>2. ~EndsAtTotal'
    BY <1>1, <1>8 DEF EndsAtTotal, CostIsTrue, Ended
  <2>3. Ended' /\ usage.cost <= Child!Messages(lines)
    BY <1>5, <1>8 DEF CostIsTrue
  <2>4. usage'.cost \in Nat /\ usage'.final = TRUE /\ usage'.cost <= Child!Messages(lines')
        /\ usage' = [cost |-> usage'.cost, final |-> usage'.final]
    BY <1>3, <1>4, <1>8, <2>1, <2>3
  <2>. QED
    BY <1>b, <2>2, <2>3, <2>4
<1>9. CASE line \notin Totals /\ ~usage.final
  <2>1. usage' = [usage EXCEPT !.cost = @ + Child!Messages(<<line>>)]
    BY <1>2, <1>9 DEF Child!Merge, Totals
  <2>2. EndsAtTotal /\ ~Ended' /\ usage.cost = Child!Messages(lines)
    BY <1>5, <1>9 DEF CostIsTrue, Ended, EndsAtTotal
  <2>3. usage'.cost = usage.cost + Child!Messages(<<line>>) /\ usage'.final = FALSE
        /\ usage' = [cost |-> usage'.cost, final |-> usage'.final]
    BY <1>3, <1>4, <1>9, <2>1
  <2>4. usage'.cost = Child!Messages(lines')
    BY <1>3, <2>2, <2>3
  <2>5. usage'.cost \in Nat /\ usage'.cost <= Child!Messages(lines')
    BY <1>3, <2>4
  <2>6. usage'.final \in BOOLEAN /\ (usage'.final <=> Ended')
    BY <2>2, <2>3
  <2>. QED
    BY <1>b, <2>3, <2>4, <2>5, <2>6, Zenon
<1>. QED
  BY <1>6, <1>7, <1>8, <1>9, <1>4 DEF Totals

LEMMA TurnInitInv == Child!Init => TurnInv
<1>. SUFFICES ASSUME Child!Init PROVE TurnInv
  OBVIOUS
<1>1. /\ ctx = "live" /\ child = "running" /\ stderr = {} /\ wrote = 0 /\ pipe = <<>>
      /\ stdin \in {"writing", "none"} /\ scan = "scanning" /\ lines = <<>> /\ badScan = FALSE
      /\ usage = [cost |-> 0, final |-> FALSE] /\ result = Child!None
  BY DEF Child!Init
<1>a. TurnTyped
  <2>1. pipe \in Seq(Lines) /\ lines \in Seq(Lines)
    BY <1>1
  <2>. QED
    BY <1>1, <2>1 DEF TurnTyped
<1>b. NothingMissed
  BY <1>1 DEF NothingMissed
<1>2. TurnTyped /\ NothingMissed /\ Settled
  BY <1>1, <1>a, <1>b, Zenon DEF Settled
<1>3. Child!Messages(lines) = 0
  <2>1. \A T : Child!Cardinality(T) = Cardinality(T)
    BY Zenon DEF Child!Cardinality, Cardinality
  <2>2. {i \in DOMAIN lines : lines[i] \in {"text"} \union Child!ToolCalls} = {}
    BY <1>1
  <2>. QED
    BY <2>1, <2>2, FS_EmptySet, Zenon DEF Child!Messages
<1>4. CostIsTrue
  BY <1>1, <1>3 DEF CostIsTrue, Ended
<1>. QED
  BY <1>1, <1>2, <1>4 DEF TurnInv, TurnIsTold, Child!TurnIsTold

(* Nothing but the reader changes what the turn is told of.                *)
Told == <<kind, scan, lines, badScan, usage, result>>

LEMMA ToldAlike ==
    ASSUME UNCHANGED <<kind, lines, usage, result>>
    PROVE  (CostIsTrue => CostIsTrue') /\ (Child!CountedOnce => Child!CountedOnce')
<1>1. Child!Messages(lines)' = Child!Messages(lines)
  BY DEF Child!Messages, Child!ToolCalls
<1>. QED
  BY <1>1 DEF CostIsTrue, Ended, EndsAtTotal, Child!CountedOnce

LEMMA OthersKeepTurn ==
    ASSUME TurnInv, UNCHANGED Told, TurnTyped',
           ctx # "live" => ctx' # "live",
           child' # child => child = "running" /\ (child' = "killed" => ctx # "live"),
           stdin' # stdin => stdin = "writing",
           \/ UNCHANGED <<wrote, pipe>>
           \/ child = "running" /\ wrote' = wrote + 1 /\ Len(pipe') = Len(pipe) + 1
    PROVE  TurnInv'
<1>. USE DEF Told
<1>1. NothingMissed'
  BY DEF TurnInv, NothingMissed, TurnTyped
<1>2. Settled'
  BY DEF TurnInv, Settled
<1>3. ASSUME result' # Child!None
      PROVE  UNCHANGED <<child, stdin, wrote>>
  BY <1>3 DEF TurnInv, Settled, NothingMissed
<1>4. TurnIsTold'
  <2>1. ASSUME result' # Child!None
        PROVE  Child!WholeOrTold' /\ Child!CauseTold' /\ Child!CountedOnce'
    <3>1. Child!WholeOrTold /\ Child!CauseTold /\ Child!CountedOnce
      BY <2>1 DEF TurnInv, TurnIsTold, Child!TurnIsTold
    <3>. QED
      BY <2>1, <1>3, <3>1, ToldAlike DEF Child!WholeOrTold, Child!CauseTold
  <2>2. Child!None' = Child!None
    BY DEF Child!None
  <2>. QED
    BY <2>1, <2>2 DEF TurnIsTold, Child!TurnIsTold
<1>. QED
  BY <1>1, <1>2, <1>4, ToldAlike DEF TurnInv

LEMMA ChildKeepsTurn ==
    ASSUME TurnInv,
           \/ \E line \in Lines : Child!Write(line)
           \/ Child!Spawn \/ Child!ToolExits \/ Child!Kill \/ Child!PromptWritten
           \/ Child!Exit("done", {}) \/ \E said \in SUBSET {"quota", "auth"} : Child!Exit("failed", said)
           \/ \E how \in {"deadline", "cancelled"} : Child!ContextEnds(how)
    PROVE  TurnInv'
<1>1. TurnTyped
  BY DEF TurnInv
<1>2. CASE \E line \in Lines : Child!Write(line)
  <2>1. PICK line \in Lines : Child!Write(line)
    BY <1>2
  <2>2. /\ pipe' = Append(pipe, line) /\ wrote' = wrote + 1 /\ child = "running"
        /\ UNCHANGED Told /\ UNCHANGED <<ctx, child, stderr, stdin>>
    BY <2>1 DEF Child!Write, Told
  <2>3. Len(pipe') = Len(pipe) + 1 /\ TurnTyped'
    BY <1>1, <2>2 DEF TurnTyped, Told
  <2>. QED
    BY <2>2, <2>3, OthersKeepTurn
<1>3. CASE Child!Spawn \/ Child!ToolExits
  <2>1. UNCHANGED Told /\ UNCHANGED <<ctx, child, stderr, stdin, wrote, pipe>>
    BY <1>3 DEF Child!Spawn, Child!ToolExits, Told
  <2>2. TurnTyped'
    BY <1>1, <2>1 DEF TurnTyped, Told
  <2>. QED
    BY <2>1, <2>2, OthersKeepTurn
<1>4. ASSUME NEW status \in {"done", "failed", "killed"}, NEW said \in SUBSET {"quota", "auth"},
             Child!Exit(status, said), status = "killed" => ctx # "live"
      PROVE  TurnInv'
  <2>1. /\ UNCHANGED Told /\ UNCHANGED <<ctx, stdin, wrote, pipe>>
        /\ child = "running" /\ child' = status /\ stderr' = said
    BY <1>4 DEF Child!Exit, Told
  <2>2. TurnTyped'
    BY <1>1, <2>1 DEF TurnTyped, Told
  <2>. QED
    BY <1>4, <2>1, <2>2, OthersKeepTurn
<1>5. CASE Child!PromptWritten
  <2>1. /\ UNCHANGED Told /\ UNCHANGED <<ctx, child, stderr, wrote, pipe>>
        /\ stdin = "writing" /\ stdin' \in {"written", "failed"}
    BY <1>5 DEF Child!PromptWritten, Told
  <2>2. TurnTyped'
    BY <1>1, <2>1 DEF TurnTyped, Told
  <2>. QED
    BY <2>1, <2>2, OthersKeepTurn
<1>6. CASE \E how \in {"deadline", "cancelled"} : Child!ContextEnds(how)
  <2>1. /\ UNCHANGED Told /\ UNCHANGED <<child, stderr, stdin, wrote, pipe>>
        /\ ctx' \in {"deadline", "cancelled"}
    BY <1>6 DEF Child!ContextEnds, Child!process, Told
  <2>2. TurnTyped'
    BY <1>1, <2>1 DEF TurnTyped, Told
  <2>. QED
    BY <2>1, <2>2, OthersKeepTurn
<1>7. CASE Child!Kill \/ Child!Exit("done", {}) \/ \E said \in SUBSET {"quota", "auth"} : Child!Exit("failed", said)
  BY <1>4, <1>7 DEF Child!Kill
<1>. QED
  BY <1>2, <1>3, <1>5, <1>6, <1>7

LEMMA DrainKeepsTurn ==
    ASSUME TurnInv,
           Child!Publish \/ Child!Approve \/ Child!Deny \/ Child!QuestionEnds \/ UNCHANGED Child!vars
    PROVE  TurnInv'
<1>1. /\ UNCHANGED Told /\ UNCHANGED <<child, stderr, stdin, wrote, pipe>>
      /\ ctx' = ctx \/ ctx' = "cancelled"
  BY DEF Child!Publish, Child!Approve, Child!Deny, Child!QuestionEnds, Child!vars, Child!process, Told
<1>2. TurnTyped'
  BY <1>1 DEF TurnInv, TurnTyped, Told
<1>. QED
  BY <1>1, <1>2, OthersKeepTurn

LEMMA ScanKeepsTurn ==
    ASSUME TurnInv, Child!ScanLine \/ Child!ScanBreaks \/ Child!ScanEnds \/ Child!WaitReturns
    PROVE  TurnInv'
<1>1. TurnTyped /\ NothingMissed /\ Settled /\ CostIsTrue
  BY DEF TurnInv
<1>2. result = Child!None /\ result' = Child!None
  BY <1>1 DEF Settled, Child!ScanLine, Child!ScanBreaks, Child!ScanEnds, Child!WaitReturns
<1>3. TurnIsTold'
  BY <1>2 DEF TurnIsTold, Child!TurnIsTold, Child!None
<1>4. CASE Child!ScanLine
  <2>1. PICK line \in Lines : pipe # <<>> /\ line = Head(pipe) /\ lines' = Append(lines, line)
    BY <1>1, <1>4 DEF Child!ScanLine, TurnTyped
  <2>2. /\ pipe' = Tail(pipe) /\ usage' = Child!Merge(usage, lines') /\ scan = "scanning"
        /\ UNCHANGED <<ctx, child, stderr, wrote, stdin, scan, badScan, result>>
    BY <1>4 DEF Child!ScanLine, Child!process
  <2>3. CostIsTrue' /\ usage' \in [cost : Nat, final : BOOLEAN]
    BY <1>1, <2>1, <2>2, LineCosts
  <2>4. /\ lines' \in Seq(Lines) /\ Len(lines') = Len(lines) + 1
        /\ pipe' \in Seq(Lines) /\ Len(pipe') = Len(pipe) - 1
    BY <1>1, <2>1, <2>2 DEF TurnTyped
  <2>5. TurnTyped'
    BY <1>1, <2>2, <2>3, <2>4 DEF TurnTyped
  <2>6. NothingMissed'
    BY <1>1, <2>2, <2>4 DEF NothingMissed, TurnTyped
  <2>7. Settled'
    BY <1>1, <2>2 DEF Settled
  <2>. QED
    BY <1>3, <2>3, <2>5, <2>6, <2>7 DEF TurnInv
<1>5. CASE Child!ScanBreaks \/ Child!ScanEnds \/ Child!WaitReturns
  <2>1. /\ UNCHANGED <<kind, ctx, child, stderr, wrote, stdin, pipe, lines, usage, result>>
        /\ scan' \in {"waiting", "waited"} /\ badScan' \in BOOLEAN
        /\ ~badScan' => (scan = "scanning" => pipe = <<>> /\ child # "running") /\ ~badScan
        /\ scan' = "waited" => child # "running"
    BY <1>1, <1>5 DEF Child!ScanBreaks, Child!ScanEnds, Child!WaitReturns, Child!process, TurnTyped
  <2>2. TurnTyped' /\ NothingMissed' /\ Settled'
    BY <1>1, <1>2, <2>1 DEF TurnTyped, NothingMissed, Settled, Child!None
  <2>. QED
    BY <1>1, <1>3, <2>1, <2>2, ToldAlike DEF TurnInv
<1>. QED
  BY <1>4, <1>5

LEMMA ReturnTells ==
    ASSUME TurnInv, Child!Return
    PROVE  TurnInv'
<1>1. TurnTyped /\ NothingMissed /\ Settled /\ CostIsTrue
  BY DEF TurnInv
<1>2. /\ scan = "waited" /\ stdin # "writing" /\ scan' = "returned"
      /\ result' = [err |-> Child!Verdict, answer |-> Child!Answer(kind, lines), cost |-> usage.cost]
      /\ UNCHANGED <<kind, ctx, child, stderr, wrote, stdin, pipe, lines, badScan, usage>>
  BY DEF Child!Return, Child!process
<1>3. result'.err = Child!Verdict /\ result'.cost = usage.cost
  BY <1>2
<1>4. TurnTyped' /\ NothingMissed' /\ Settled'
  BY <1>1, <1>2 DEF TurnTyped, NothingMissed, Settled, Child!None
<1>5. Child!Messages(lines)' = Child!Messages(lines)
  BY <1>2 DEF Child!Messages, Child!ToolCalls
<1>6. Child!CountedOnce'
  BY <1>1, <1>2, <1>3, <1>5 DEF Child!CountedOnce, CostIsTrue, EndsAtTotal, Totals
<1>7. CostIsTrue'
  BY <1>1, <1>2, <1>5 DEF CostIsTrue, Ended, EndsAtTotal
<1>8. Child!CauseTold'
  BY <1>1, <1>2, <1>3 DEF Child!CauseTold, Child!Verdict, Settled, TurnTyped
<1>9. Child!WholeOrTold'
  <2>1. (CHOOSE said \in Child!Blamed : TRUE) # "ok" \/ Child!Blamed = {}
    <3>1. Child!Blamed \subseteq {"quota", "auth"}
      BY <1>1 DEF Child!Blamed, Child!LooksFirst, TurnTyped
    <3>. QED
      BY <3>1
  <2>2. result'.err = "ok" => child = "done" /\ (badScan => kind = "yaml") /\ stdin # "failed"
    BY <1>3, <2>1 DEF Child!Verdict
  <2>. QED
    BY <1>1, <1>2, <2>2 DEF Child!WholeOrTold, NothingMissed, TurnTyped
<1>. QED
  BY <1>4, <1>6, <1>7, <1>8, <1>9 DEF TurnInv, TurnIsTold, Child!TurnIsTold

LEMMA TurnStepInv == TurnInv /\ [Child!Next]_(Child!vars) => TurnInv'
  BY ChildKeepsTurn, DrainKeepsTurn, ScanKeepsTurn, ReturnTells DEF Child!Next, Child!Reader

(* The result of a turn says whether text was lost and why the child       *)
(* ended, and claude's cost counts each message once (runHeadless and      *)
(* claudeUsage of claude.go and their likes), whatever the child writes,   *)
(* however long, and whatever its pipes hold.                              *)
THEOREM ChildTurnIsTold == Child!Spec => []TurnIsTold
<1>1. TurnInv => TurnIsTold
  BY DEF TurnInv
<1>. QED
  BY TurnInitInv, TurnStepInv, <1>1, PTL DEF Child!Spec

-----------------------------------------------------------------------------
(* The files of sessions.                                                  *)

IsDoc(d) == d = [id |-> d.id, row |-> d.row, prompts |-> d.prompts, inlined |-> d.inlined]
IsExport(e) ==
    e = [at |-> e.at, id |-> e.id, inline |-> e.inline, redact |-> e.redact, doc |-> e.doc]
IsImport(m) == m = [at |-> m.at, doc |-> m.doc, force |-> m.force, left |-> m.left]

(* What a document says of its session can be trusted while `going` are    *)
(* the runs that go on: a row that is completed is one whose run is over.  *)
Trusted(d, going) ==
    /\ IsDoc(d) /\ d.id \in Sessions /\ d.row \in Files!Rows
    /\ d.row.status = "completed" => d.id \notin going

StoreTyped ==
    /\ live \subseteq Sessions /\ sess \in [Sessions -> Files!Rows \cup {Absent}]
    /\ held \in [Sessions -> Contents \cup {Absent}]
    /\ \A t \in Sessions : held[t] # Absent => t \in live

RowsTrusted == \A t \in Sessions : sess[t] # Absent /\ sess[t].status = "completed" => t \notin live
FilesTrusted == \A f \in file : Trusted(f.doc, live)
ExportTrusted ==
    \/ exporter = Files!NoExport
    \/ /\ IsExport(exporter) /\ exporter.id \in Sessions
       /\ exporter.at # "session" => Trusted(exporter.doc, live)
ImportTrusted(i) ==
    importer[i] = Files!NoImport \/ (IsImport(importer[i]) /\ Trusted(importer[i].doc, live))
ImportsTrusted ==
    importer = [i \in Importers |-> importer[i]] /\ \A i \in Importers : ImportTrusted(i)

FilesInv ==
    StoreTyped /\ RowsTrusted /\ FilesTrusted /\ ExportTrusted /\ ImportsTrusted /\ SharedIsClean

LEMMA Records ==
    /\ \A a, b, c, d : LET r == [id |-> a, row |-> b, prompts |-> c, inlined |-> d]
                       IN  IsDoc(r) /\ r.id = a /\ r.row = b /\ r.inlined = d
    /\ \A a, b, c, d, e : LET r == [at |-> a, id |-> b, inline |-> c, redact |-> d, doc |-> e]
                          IN  IsExport(r) /\ r.at = a /\ r.id = b /\ r.doc = e
    /\ \A a, b, c, d : LET r == [at |-> a, doc |-> b, force |-> c, left |-> d]
                       IN  IsImport(r) /\ r.at = a /\ r.doc = b
<1>1. ASSUME NEW a, NEW b, NEW c, NEW d
      PROVE  LET r == [id |-> a, row |-> b, prompts |-> c, inlined |-> d]
             IN  IsDoc(r) /\ r.id = a /\ r.row = b /\ r.inlined = d
  BY DEF IsDoc
<1>2. ASSUME NEW a, NEW b, NEW c, NEW d, NEW e
      PROVE  LET r == [at |-> a, id |-> b, inline |-> c, redact |-> d, doc |-> e]
             IN  IsExport(r) /\ r.at = a /\ r.id = b /\ r.doc = e
  BY DEF IsExport
<1>3. ASSUME NEW a, NEW b, NEW c, NEW d
      PROVE  LET r == [at |-> a, doc |-> b, force |-> c, left |-> d]
             IN  IsImport(r) /\ r.at = a /\ r.doc = b
  BY DEF IsImport
<1>. QED
  BY <1>1, <1>2, <1>3, Zenon

(* A run that ends makes no document less trustworthy.                     *)
LEMMA StaysTrusted ==
    ASSUME NEW d, NEW going, Trusted(d, going), NEW later \in SUBSET going
    PROVE  Trusted(d, later)
  BY DEF Trusted

LEMMA FilesInitInv == Files!Init => FilesInv
  BY DEF Files!Init, FilesInv, StoreTyped, RowsTrusted, FilesTrusted, ExportTrusted,
     ImportsTrusted, ImportTrusted, SharedIsClean, Files!SharedIsClean, Files!Rows

(* What a step keeps that leaves the file, or the one or other process.    *)
LEMMA FileKept ==
    ASSUME FilesInv, live' \subseteq live, UNCHANGED file
    PROVE  FilesTrusted' /\ SharedIsClean'
<1>1. FilesTrusted'
  BY StaysTrusted DEF FilesInv, FilesTrusted
<1>2. SharedIsClean'
  BY DEF FilesInv, SharedIsClean, Files!SharedIsClean, Files!Secret
<1>. QED
  BY <1>1, <1>2

LEMMA ExportKept ==
    ASSUME FilesInv, live' \subseteq live, UNCHANGED exporter
    PROVE  ExportTrusted'
  BY StaysTrusted DEF FilesInv, ExportTrusted, Files!NoExport

LEMMA ImportKept ==
    ASSUME FilesInv, live' \subseteq live, NEW i \in Importers, importer'[i] = importer[i]
    PROVE  ImportTrusted(i)'
  BY StaysTrusted DEF FilesInv, ImportsTrusted, ImportTrusted, Files!NoImport

LEMMA StoreKeepsFiles ==
    ASSUME FilesInv, live' \subseteq live, UNCHANGED <<exporter, file, importer>>,
           StoreTyped', RowsTrusted'
    PROVE  FilesInv'
<1>1. ImportsTrusted'
  BY ImportKept DEF FilesInv, ImportsTrusted
<1>. QED
  BY <1>1, ExportKept, FileKept DEF FilesInv

LEMMA StoreKept ==
    ASSUME FilesInv, UNCHANGED <<sess, live, held>>
    PROVE  StoreTyped' /\ RowsTrusted'
  BY DEF FilesInv, StoreTyped, RowsTrusted, Files!Rows

LEMMA RunKeepsFiles ==
    ASSUME FilesInv, NEW t \in Sessions,
           (\E c \in Contents : Files!Put(t, c)) \/ Files!AddTask(t) \/ Files!Finish(t) \/ Files!Die(t)
    PROVE  FilesInv'
<1>1. StoreTyped /\ RowsTrusted
  BY DEF FilesInv
<1>2. ASSUME NEW x \in Contents \cup {Absent}, held' = [held EXCEPT ![t] = x], x # Absent => t \in live,
             live' = live \/ (live' = live \ {t} /\ x = Absent), UNCHANGED <<sess, exporter, file, importer>>
      PROVE  FilesInv'
  <2>1. StoreTyped'
    BY <1>1, <1>2 DEF StoreTyped, Files!Rows
  <2>2. RowsTrusted'
    BY <1>1, <1>2 DEF RowsTrusted
  <2>. QED
    BY <1>2, <2>1, <2>2, StoreKeepsFiles
<1>3. CASE \E c \in Contents : Files!Put(t, c)
  BY <1>2, <1>3 DEF Files!Put, Files!store
<1>4. CASE Files!AddTask(t)
  BY <1>2, <1>4 DEF Files!AddTask
<1>5. CASE Files!Die(t)
  BY <1>2, <1>5 DEF Files!Die, Files!store
<1>6. CASE Files!Finish(t)
  <2>1. /\ UNCHANGED <<exporter, file, importer>>
        /\ held[t] # Absent /\ held' = [held EXCEPT ![t] = Absent] /\ live' = live \ {t}
        /\ sess' = IF sess[t] = Absent THEN sess
                   ELSE [sess EXCEPT ![t].status = "completed", ![t].answer = held[t]]
    BY <1>6 DEF Files!Finish
  <2>2. sess' \in [Sessions -> Files!Rows \cup {Absent}] /\ \A u \in Sessions \ {t} : sess'[u] = sess[u]
    BY <1>1, <2>1 DEF StoreTyped, Files!Rows
  <2>3. StoreTyped'
    BY <1>1, <2>1, <2>2 DEF StoreTyped, Files!Rows
  <2>4. RowsTrusted'
    BY <1>1, <2>1, <2>2 DEF StoreTyped, RowsTrusted
  <2>. QED
    BY <2>1, <2>3, <2>4, StoreKeepsFiles
<1>. QED
  BY <1>3, <1>4, <1>5, <1>6

LEMMA DoctorKeepsFiles ==
    ASSUME FilesInv, (\E c \in Contents : Files!Doctor(c)) \/ UNCHANGED Files!vars
    PROVE  FilesInv'
<1>1. UNCHANGED <<sess, live, held, exporter, file, importer>>
  BY DEF Files!Doctor, Files!store, Files!runs, Files!vars
<1>. QED
  BY <1>1, StoreKept, StoreKeepsFiles

LEMMA ExportKeepsFiles ==
    ASSUME FilesInv,
           \/ \E t \in Sessions, inline, redact \in BOOLEAN : Files!ExportBegins(t, inline, redact)
           \/ Files!ExportSession \/ Files!ExportTasks \/ Files!ExportBlobs
    PROVE  FilesInv'
<1>1. UNCHANGED <<sess, live, held, importer>>
  BY DEF Files!ExportBegins, Files!ExportSession, Files!ExportTasks, Files!ExportBlobs,
     Files!store, Files!runs
<1>2. StoreTyped' /\ RowsTrusted'
  BY <1>1, StoreKept
<1>3. ImportsTrusted'
  BY <1>1, ImportKept DEF FilesInv, ImportsTrusted
<1>4. ExportTrusted /\ FilesTrusted /\ SharedIsClean /\ StoreTyped /\ RowsTrusted
  BY DEF FilesInv
<1>5. ASSUME ExportTrusted', FilesTrusted', SharedIsClean' PROVE FilesInv'
  BY <1>2, <1>3, <1>5 DEF FilesInv
<1>6. ASSUME UNCHANGED file PROVE FilesTrusted' /\ SharedIsClean'
  BY <1>1, <1>6, FileKept
<1>7. CASE \E t \in Sessions, inline, redact \in BOOLEAN : Files!ExportBegins(t, inline, redact)
  <2>1. PICK t \in Sessions, inline \in BOOLEAN, redact \in BOOLEAN :
            Files!ExportBegins(t, inline, redact)
    BY <1>7
  <2>2. /\ UNCHANGED file
        /\ exporter' = [at |-> "session", id |-> t, inline |-> inline, redact |-> redact, doc |-> Absent]
    BY <2>1 DEF Files!ExportBegins
  <2>3. IsExport(exporter') /\ exporter'.at = "session" /\ exporter'.id = t
    BY <2>2, Records, Zenon
  <2>4. ExportTrusted'
    BY <2>3 DEF ExportTrusted
  <2>. QED
    BY <1>5, <1>6, <2>2, <2>4
<1>8. CASE Files!ExportSession
  <2>1. UNCHANGED file /\ exporter.at = "session" /\ exporter # Files!NoExport
    BY <1>8 DEF Files!ExportSession, Files!NoExport
  <2>2. CASE sess[exporter.id] = Absent
    BY <1>5, <1>6, <1>8, <2>1, <2>2 DEF Files!ExportSession, ExportTrusted, Files!NoExport
  <2>3. CASE sess[exporter.id] # Absent
    <3>. DEFINE d == [id |-> exporter.id, row |-> sess[exporter.id], prompts |-> <<>>, inlined |-> <<>>]
    <3>1. IsExport(exporter) /\ exporter.id \in Sessions /\ sess[exporter.id] \in Files!Rows
      BY <1>4, <2>1, <2>3 DEF ExportTrusted, StoreTyped
    <3>2. IsDoc(d) /\ d.id = exporter.id /\ d.row = sess[exporter.id]
      BY Records, Zenon
    <3>3. exporter' = [at |-> "tasks", id |-> exporter.id, inline |-> exporter.inline,
                       redact |-> exporter.redact, doc |-> d]
      BY <1>8, <2>3, <3>1 DEF Files!ExportSession, IsExport
    <3> HIDE DEF d
    <3>4. Trusted(d, live)
      BY <1>4, <2>3, <3>1, <3>2 DEF Trusted, RowsTrusted
    <3>5. IsExport(exporter') /\ exporter'.id = exporter.id /\ exporter'.doc = d
      BY <3>3, Records, Zenon
    <3>6. ExportTrusted'
      BY <1>1, <3>1, <3>4, <3>5, Zenon DEF ExportTrusted
    <3>. QED
      BY <1>5, <1>6, <2>1, <3>6
  <2>. QED
    BY <2>2, <2>3
<1>9. CASE Files!ExportTasks
  <2>1. UNCHANGED file /\ exporter.at = "tasks" /\ exporter # Files!NoExport
    BY <1>9 DEF Files!ExportTasks, Files!NoExport
  <2>2. Trusted(exporter.doc, live) /\ exporter.id \in Sessions /\ IsExport(exporter)
    BY <1>4, <2>1 DEF ExportTrusted
  <2>. DEFINE old == exporter.doc
              d == [id |-> old.id, row |-> old.row, prompts |-> tasks[exporter.id], inlined |-> old.inlined]
  <2>3. IsDoc(d) /\ d.id = old.id /\ d.row = old.row
    BY Records, Zenon
  <2>4. [old EXCEPT !.prompts = tasks[exporter.id]] = d
    BY <2>2 DEF Trusted, IsDoc
  <2>5. exporter' = [exporter EXCEPT !.at = "blobs", !.doc = [old EXCEPT !.prompts = tasks[exporter.id]]]
    BY <1>9, <2>2 DEF Files!ExportTasks, IsExport
  <2>6. exporter' = [exporter EXCEPT !.at = "blobs", !.doc = d]
    BY <2>4, <2>5, Zenon
  <2> HIDE DEF d
  <2>7. exporter' = [at |-> "blobs", id |-> exporter.id, inline |-> exporter.inline,
                     redact |-> exporter.redact, doc |-> d]
    BY <2>2, <2>6 DEF IsExport
  <2>8. Trusted(d, live)
    BY <2>2, <2>3 DEF Trusted
  <2>9. IsExport(exporter') /\ exporter'.id = exporter.id /\ exporter'.doc = d
    BY <2>7, Records, Zenon
  <2>10. ExportTrusted'
    BY <1>1, <2>2, <2>8, <2>9, Zenon DEF ExportTrusted
  <2>. QED
    BY <1>5, <1>6, <2>1, <2>10
<1>10. CASE Files!ExportBlobs
  <2>1. exporter.at = "blobs" /\ exporter # Files!NoExport /\ exporter' = Files!NoExport
    BY <1>10 DEF Files!ExportBlobs, Files!NoExport
  <2>. DEFINE old == exporter.doc
  <2>2. Trusted(old, live)
    BY <1>4, <2>1 DEF ExportTrusted
  <2>3. PICK some :
          LET whole == [old EXCEPT !.inlined = some]
              out == IF exporter.redact THEN Files!Scrubbed(whole) ELSE whole
          IN  file' = file \union {[doc |-> out, redacted |-> exporter.redact]}
    BY <1>10 DEF Files!ExportBlobs
  <2>. DEFINE whole == [id |-> old.id, row |-> old.row, prompts |-> old.prompts, inlined |-> some]
              row == [old.row EXCEPT !.goal = Files!Scrub(@)]
              fewer == [c \in DOMAIN some |-> Files!Scrub(some[c])]
              clean == [id |-> old.id, row |-> row, prompts |-> old.prompts, inlined |-> fewer]
              out == IF exporter.redact THEN clean ELSE whole
  <2>4. [old EXCEPT !.inlined = some] = whole
    BY <2>2 DEF Trusted, IsDoc
  <2>5. Files!Scrubbed(whole) = clean
    <3>1. whole.row = old.row /\ whole.inlined = some
      BY Records, Zenon
    <3> HIDE DEF whole
    <3>2. Files!Scrubbed(whole) = [whole EXCEPT !.row = row, !.inlined = fewer]
      BY <3>1 DEF Files!Scrubbed
    <3> HIDE DEF row, fewer
    <3>. QED
      BY <3>2 DEF whole
  <2>6. \A x : ~Files!Secret(Files!Scrub(x))
    BY DEF Files!Secret, Files!Scrub
  <2>7. row \in Files!Rows /\ row.status = old.row.status /\ row.goal = Files!Scrub(old.row.goal)
    BY <2>2 DEF Trusted, Files!Rows, Files!Scrub, Files!Secret
  <2>8. \A c \in DOMAIN fewer : ~Files!Secret(fewer[c])
    BY <2>6
  <2>9. /\ IsDoc(whole) /\ whole.id = old.id /\ whole.row = old.row
        /\ IsDoc(clean) /\ clean.id = old.id /\ clean.row = row /\ clean.inlined = fewer
    BY Records, Zenon
  <2>10. file' = file \union {[doc |-> out, redacted |-> exporter.redact]}
    BY <2>3, <2>4, <2>5, Zenon
  <2> HIDE DEF row, fewer, whole, clean
  <2>11. Trusted(whole, live) /\ Trusted(clean, live)
    BY <2>2, <2>7, <2>9 DEF Trusted
  <2>12. Trusted(out, live)
    BY <2>11
  <2>13. exporter.redact => ~Files!Secret(out.row.goal)
                            /\ \A c \in DOMAIN out.inlined : ~Files!Secret(out.inlined[c])
    BY <2>6, <2>7, <2>8, <2>9, Zenon
  <2> HIDE DEF out
  <2>14. FilesTrusted'
    BY <1>1, <1>4, <2>10, <2>12 DEF FilesTrusted
  <2>15. SharedIsClean'
    BY <1>4, <2>10, <2>13 DEF SharedIsClean, Files!SharedIsClean, Files!Secret
  <2>16. ExportTrusted'
    BY <2>1 DEF ExportTrusted, Files!NoExport
  <2>. QED
    BY <1>5, <2>14, <2>15, <2>16
<1>. QED
  BY <1>7, <1>8, <1>9, <1>10

LEMMA ImportKeepsFiles ==
    ASSUME FilesInv, NEW i \in Importers,
           \/ \E f \in file, force \in BOOLEAN : Files!ImportBegins(i, f, force)
           \/ \E c \in Contents : Files!ImportBlob(i, c)
           \/ Files!ImportProbes(i) \/ Files!ImportDeletes(i) \/ Files!ImportInserts(i)
           \/ Files!ImportDies(i)
    PROVE  FilesInv'
<1>1. /\ UNCHANGED <<live, held, exporter, file>>
      /\ importer = [j \in Importers |-> importer[j]] /\ \A j \in Importers : ImportTrusted(j)
      /\ StoreTyped /\ RowsTrusted
  BY DEF Files!ImportBegins, Files!ImportBlob, Files!ImportProbes, Files!ImportDeletes,
     Files!ImportInserts, Files!ImportDies, Files!store, Files!runs, FilesInv, ImportsTrusted
<1>2. FilesTrusted' /\ SharedIsClean' /\ ExportTrusted'
  BY <1>1, FileKept, ExportKept
<1>3. ASSUME NEW m, importer' = [importer EXCEPT ![i] = m],
             m = Files!NoImport \/ (IsImport(m) /\ Trusted(m.doc, live)),
             StoreTyped', RowsTrusted'
      PROVE  FilesInv'
  <2>1. /\ importer' = [j \in Importers |-> importer'[j]] /\ importer'[i] = m
        /\ \A j \in Importers \ {i} : importer'[j] = importer[j]
    BY <1>1, <1>3
  <2>2. ImportTrusted(i)'
    BY <1>1, <1>3, <2>1 DEF ImportTrusted, Files!NoImport
  <2>3. \A j \in Importers \ {i} : ImportTrusted(j)'
    BY <1>1, <2>1, ImportKept
  <2>. QED
    BY <1>2, <1>3, <2>1, <2>2, <2>3 DEF FilesInv, ImportsTrusted
<1>. DEFINE old == importer[i]
<1>4. ASSUME old # Files!NoImport
      PROVE  IsImport(old) /\ Trusted(old.doc, live)
  BY <1>1, <1>4 DEF ImportTrusted
<1>5. ASSUME old # Files!NoImport, NEW x, NEW left
      PROVE  LET m == [at |-> x, doc |-> old.doc, force |-> old.force, left |-> left]
             IN  IsImport(m) /\ Trusted(m.doc, live)
  BY <1>4, <1>5, Records, Zenon
<1>6. ASSUME UNCHANGED sess PROVE StoreTyped' /\ RowsTrusted'
  BY <1>1, <1>6, StoreKept
<1>7. CASE \E f \in file, force \in BOOLEAN : Files!ImportBegins(i, f, force)
  <2>1. PICK f \in file, force \in BOOLEAN : Files!ImportBegins(i, f, force)
    BY <1>7
  <2>2. PICK left : importer' = [importer EXCEPT ![i] =
                                   [at |-> "blobs", doc |-> f.doc, force |-> force, left |-> left]]
    BY <2>1 DEF Files!ImportBegins
  <2>. DEFINE m == [at |-> "blobs", doc |-> f.doc, force |-> force, left |-> left]
  <2>3. IsImport(m) /\ m.doc = f.doc
    BY Records, Zenon
  <2>4. UNCHANGED sess /\ Trusted(f.doc, live)
    BY <2>1 DEF Files!ImportBegins, Files!store, FilesInv, FilesTrusted
  <2> HIDE DEF m
  <2>. QED
    BY <1>3, <1>6, <2>2, <2>3, <2>4 DEF m
<1>8. CASE \E c \in Contents : Files!ImportBlob(i, c)
  <2>1. PICK c \in Contents : Files!ImportBlob(i, c)
    BY <1>8
  <2>2. UNCHANGED sess /\ old # Files!NoImport
    BY <2>1 DEF Files!ImportBlob, Files!store, Files!NoImport
  <2>3. importer' = [importer EXCEPT ![i] = [old EXCEPT !.left = @ \ {c}]]
    BY <2>1 DEF Files!ImportBlob
  <2>4. [old EXCEPT !.left = @ \ {c}] =
          [at |-> old.at, doc |-> old.doc, force |-> old.force, left |-> old.left \ {c}]
    BY <1>4, <2>2 DEF IsImport
  <2>. QED
    BY <1>3, <1>5, <1>6, <2>2, <2>3, <2>4
<1>9. CASE Files!ImportProbes(i)
  <2>1. UNCHANGED sess /\ old # Files!NoImport
    BY <1>9 DEF Files!ImportProbes, Files!store, Files!NoImport
  <2>2. PICK x : importer' = [importer EXCEPT ![i] = Files!NoImport]
                 \/ importer' = [importer EXCEPT ![i] = [old EXCEPT !.at = x]]
    BY <1>9 DEF Files!ImportProbes
  <2>3. [old EXCEPT !.at = x] = [at |-> x, doc |-> old.doc, force |-> old.force, left |-> old.left]
    BY <1>4, <2>1 DEF IsImport
  <2>. QED
    BY <1>3, <1>5, <1>6, <2>1, <2>2, <2>3
<1>10. CASE Files!ImportDeletes(i)
  <2>1. /\ sess' = [sess EXCEPT ![old.doc.id] = Absent]
        /\ importer' = [importer EXCEPT ![i] = [old EXCEPT !.at = "insert"]]
        /\ old # Files!NoImport
    BY <1>1, <1>10 DEF Files!ImportDeletes, Files!NoImport
  <2>2. [old EXCEPT !.at = "insert"] =
          [at |-> "insert", doc |-> old.doc, force |-> old.force, left |-> old.left]
    BY <1>4, <2>1 DEF IsImport
  <2>3. StoreTyped' /\ RowsTrusted'
    BY <1>1, <2>1 DEF StoreTyped, RowsTrusted, Files!Rows
  <2>. QED
    BY <1>3, <1>5, <2>1, <2>2, <2>3
<1>11. CASE Files!ImportInserts(i)
  <2>1. /\ old # Files!NoImport /\ importer' = [importer EXCEPT ![i] = Files!NoImport]
        /\ sess' = sess \/ sess' = [sess EXCEPT ![old.doc.id] = old.doc.row]
    BY <1>11 DEF Files!ImportInserts, Files!NoImport, Files!store
  <2>2. Trusted(old.doc, live)
    BY <1>4, <2>1
  <2>3. StoreTyped' /\ RowsTrusted'
    BY <1>1, <2>1, <2>2 DEF StoreTyped, RowsTrusted, Trusted, Files!Rows
  <2>. QED
    BY <1>3, <2>1, <2>3
<1>12. CASE Files!ImportDies(i)
  BY <1>3, <1>6, <1>12 DEF Files!ImportDies, Files!store
<1>. QED
  BY <1>7, <1>8, <1>9, <1>10, <1>11, <1>12

LEMMA FilesStepInv == FilesInv /\ [Files!Next]_(Files!vars) => FilesInv'
  BY RunKeepsFiles, DoctorKeepsFiles, ExportKeepsFiles, ImportKeepsFiles DEF Files!Next

(* Who may change a row that is there: its run, whose row has not been     *)
(* closed, and a forced import.                                            *)
LEMMA RowStep ==
    ASSUME FilesInv, Files!Next, NEW t \in Sessions, sess[t] # Absent, sess'[t] # sess[t]
    PROVE  \/ sess'[t] # Absent /\ sess[t].status = "running" /\ sess'[t].goal = sess[t].goal
           \/ \E i \in Importers : importer[i].at = "delete" /\ importer[i].doc.id = t
<1>1. StoreTyped /\ RowsTrusted /\ sess[t] \in Files!Rows
  BY DEF FilesInv, StoreTyped
<1>2. CASE \E u \in Sessions : Files!Finish(u)
  <2>1. PICK u \in Sessions : Files!Finish(u)
    BY <1>2
  <2>2. /\ u = t /\ held[t] # Absent
        /\ sess'[t] = [sess[t] EXCEPT !.status = "completed", !.answer = held[t]]
    BY <1>1, <2>1 DEF Files!Finish, StoreTyped
  <2>3. sess'[t] \in Files!Rows /\ sess'[t].goal = sess[t].goal
    BY <1>1, <2>2 DEF StoreTyped, Files!Rows
  <2>4. sess[t].status = "running"
    BY <1>1, <2>2 DEF StoreTyped, RowsTrusted, Files!Rows
  <2>. QED
    BY <2>3, <2>4, FilesAssumption
<1>3. CASE \E i \in Importers : Files!ImportDeletes(i)
  BY <1>1, <1>3 DEF Files!ImportDeletes, StoreTyped
<1>4. CASE \E i \in Importers : Files!ImportInserts(i)
  BY <1>1, <1>4 DEF Files!ImportInserts, Files!Insertable, Files!store, StoreTyped
<1>5. sess' = sess \/ (\E u \in Sessions : Files!Finish(u))
      \/ \E i \in Importers : Files!ImportDeletes(i) \/ Files!ImportInserts(i)
  BY DEF Files!Next, Files!Put, Files!AddTask, Files!Die, Files!Doctor, Files!ExportBegins,
     Files!ExportSession, Files!ExportTasks, Files!ExportBlobs, Files!ImportBegins,
     Files!ImportBlob, Files!ImportProbes, Files!ImportDies, Files!store
<1>. QED
  BY <1>2, <1>3, <1>4, <1>5

(* A redacted file has no secret in it, in its goal or in a blob, however  *)
(* many sessions, files and imports there are (export.go:271-318).         *)
THEOREM FilesSharedIsClean == Files!Spec => []SharedIsClean
<1>1. FilesInv => SharedIsClean
  BY DEF FilesInv
<1>. QED
  BY FilesInitInv, FilesStepInv, <1>1, PTL DEF Files!Spec

(* Without --force an import leaves a session the store has as it is,      *)
(* however many imports race and whatever their files say (import.go:87-   *)
(* 113); and a run that goes on never closes a row again that an import    *)
(* has put in its place closed.                                            *)
THEOREM FilesNotClobbered == Files!Spec => NotClobbered
<1>1. FilesInv /\ [Files!Next]_(Files!vars) => [Files!RowsStand]_(Files!vars)
  BY RowStep DEF Files!RowsStand
<1>. QED
  BY FilesInitInv, FilesStepInv, <1>1, PTL DEF Files!Spec, NotClobbered, Files!NotClobbered
=============================================================================
