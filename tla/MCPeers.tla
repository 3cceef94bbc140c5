------------------------------- MODULE MCPeers -------------------------------
(***************************************************************************)
(* The processes uta talks to: the child of a provider's turn, the MCP     *)
(* server whose tools it bridges, the agent it is an MCP server to, and    *)
(* those it exchanges sessions with, as files.                             *)
(* They share no state: a behaviour exercises one of them, `side`, and the *)
(* others stay where they start.                                           *)
(***************************************************************************)
EXTENDS McpClient

CONSTANTS Ids, MaxCalls
VARIABLES made, id, state, cancelled, active, answers, broken, loop, overlapping

ASSUME ServerAssumption == MaxCalls \in Nat

Server == INSTANCE McpServer
serverVars == <<made, id, state, cancelled, active, answers, broken, loop, overlapping>>

CONSTANTS Kinds, Lines, MaxLines, PipeSize, BufferSize, Outlives
VARIABLES kind, ctx, child, stderr, wrote, holder, pipe, stdin, scan, lines, badScan,
          usage, events, asking, judged, recorded, result

Child == INSTANCE ChildTurn WITH reader <- scan
childVars == <<kind, ctx, child, stderr, wrote, holder, pipe, stdin, scan, lines, badScan,
               usage, events, asking, judged, recorded, result>>

CONSTANTS Sessions, Contents, Importers, Absent, MaxTasks, MaxFiles
VARIABLES blob, sess, tasks, live, held, exporter, file, importer, side

Files == INSTANCE Archive WITH None <- Absent
ASSUME FilesAssumption == Absent \notin Files!Rows

fileVars == <<blob, sess, tasks, live, held, exporter, file, importer>>

MCInit ==
  /\ side \in {"client", "server", "child", "archive"}
  /\ Init
  /\ Server!Init
  /\ side # "server" => id = [c \in DOMAIN id |-> CHOOSE k \in Ids : TRUE]  \* any one, as below
  /\ Child!Init
  /\ side # "child" => kind = CHOOSE k \in Kinds : TRUE
  /\ Files!Init
MCNext ==
  /\ side' = side
  /\ \/ side = "client" /\ Next /\ UNCHANGED <<serverVars, childVars, fileVars>>
     \/ side = "server" /\ Server!Next /\ UNCHANGED <<vars, childVars, fileVars>>
     \/ side = "child" /\ Child!Next /\ UNCHANGED <<vars, serverVars, fileVars>>
     \/ side = "archive" /\ Files!Next /\ UNCHANGED <<vars, serverVars, childVars>>

\* what is fair is disabled on the sides that are not exercised
MCSpec ==
  /\ MCInit /\ [][MCNext]_<<vars, serverVars, childVars, fileVars, side>>
  /\ Fairness /\ Server!Fairness /\ Child!Fairness

CancelFindsItsCall == Server!CancelFindsItsCall
ServeReturns == Server!ServeReturns
TurnIsTold == Child!TurnIsTold
CancelReturns == Child!CancelReturns
SharedIsClean == Files!SharedIsClean
NotClobbered == Files!NotClobbered
=============================================================================
