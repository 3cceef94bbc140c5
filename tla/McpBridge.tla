------------------------------- MODULE McpBridge -------------------------------
(***************************************************************************)
(* The MCP servers of a run.  The engine probes those of the profile and   *)
(* writes a config of the ones that answered (mcp_tool_bridge.go); the     *)
(* built-in provider launches the servers of that config, or of the        *)
(* workdir's .mcp.json, once per process, offers their tools under one     *)
(* flat name each and routes the calls back (nebius_mcp.go).  An entry of  *)
(* a config is [name, command]: an edit may put another command, and so    *)
(* another server, under a name.  A name is the sequence of its letters.   *)
(***************************************************************************)
EXTENDS Naturals, Sequences, FiniteSets, SequencesExt

CONSTANTS Servers,     \* the names of servers, in the order of sort.Slice
          ToolsOf,     \* per entry, the tools its server lists
          Declared,    \* the entries of the profile
          DotConfigs,  \* what the workdir's .mcp.json may list
          Turns

VARIABLES probe,        \* per declared server: "todo", "ok", "failed"
          config,       \* the entries of the file written for the run, {} is no file
          preApproved,  \* the patterns the bridge has added
          bridged,      \* the bridge is through
          dotMCP,       \* the entries of the workdir's .mcp.json
          conn,         \* per entry, of the provider: "none", "live", "failed", "dead"
          announced,    \* entries whose launch or failure has been reported
          pc, offered, call, answer,  \* per turn
          read          \* per turn, the entries its call was routed among (history)

turnVars == <<pc, offered, call, answer, read>>
vars == <<probe, config, preApproved, bridged, dotMCP, conn, announced, turnVars>>

Names == Range(Servers)
Entries == DOMAIN ToolsOf
Unanswered == [kind |-> "none", server |-> <<>>, tool |-> <<>>]
Error == [Unanswered EXCEPT !.kind = "error"]                  \* no tool was asked
By(e, x, kind) == [kind |-> kind, server |-> e, tool |-> x]    \* "answered" or "failed"
NoCall == [name |-> <<>>, server |-> <<>>, tool |-> <<>>]

Init ==
  /\ probe = [s \in Declared |-> "todo"]
  /\ config = {} /\ preApproved = {} /\ bridged = FALSE
  /\ dotMCP \in DotConfigs
  /\ conn = [e \in Entries |-> "none"]
  /\ announced = {}
  /\ pc = [t \in Turns |-> "idle"]
  /\ offered = [t \in Turns |-> {}]
  /\ call = [t \in Turns |-> NoCall]
  /\ answer = [t \in Turns |-> Unanswered]
  /\ read = [t \in Turns |-> {}]

-----------------------------------------------------------------------------
(* Names.  nebiusMCPToolName keeps letters, digits, "_" and "-".           *)
Clean(name) == [i \in DOMAIN name |-> IF name[i] = "." THEN "_" ELSE name[i]]
Under == <<"_", "_">>
ToolName(s, t) == Clean(s) \o Under \o Clean(t)

UnderAt(name) == {i \in 1..(Len(name) - 1) : SubSeq(name, i, i + 1) = Under}

\* broken: the server's name ends at the last "__"
CutAt_Last(name) == CHOOSE i \in UnderAt(name) : \A j \in UnderAt(name) : j <= i

(* strings.Cut: at the first one.                                          *)
CutAt(name) == CHOOSE i \in UnderAt(name) : \A j \in UnderAt(name) : i <= j

ServerPart(name) == SubSeq(name, 1, CutAt(name) - 1)

-----------------------------------------------------------------------------
(* The bridge, before the run: one server after the other.                 *)
Probe ==
  /\ \E s \in Declared :
       /\ probe[s] = "todo"
       /\ \A r \in Declared : probe[r] = "todo" =>
            \E i, j \in DOMAIN Servers : Servers[i] = s.name /\ Servers[j] = r.name /\ i <= j
       /\ \E outcome \in {"ok", "failed"} : probe' = [probe EXCEPT ![s] = outcome]
  /\ UNCHANGED <<config, preApproved, bridged, dotMCP, conn, announced, turnVars>>

AllowPatterns(S) == UNION {{e.name \o Under \o x : x \in Range(ToolsOf[e])} : e \in S}

(* The patterns of the servers that answered are approved, under their own *)
(* names; the file may fail to be written, of which nothing is said.       *)
Bridge ==
  /\ ~bridged /\ \A s \in Declared : probe[s] # "todo"
  /\ bridged' = TRUE
  /\ LET ok == {s \in Declared : probe[s] = "ok"} IN
     /\ preApproved' = AllowPatterns(ok)
     /\ config' \in {ok, {}}
  /\ UNCHANGED <<probe, dotMCP, conn, announced, turnVars>>

-----------------------------------------------------------------------------
(* The provider.  The config is read anew for every turn and every call: a *)
(* file that cannot be read then is passed over for the next one, and with *)
(* none there are no servers.                                              *)
Configured == {dotMCP, {}} \union (IF config # {} THEN {config} ELSE {})

(* mcpConnect: launched on first use, and what became of it is kept, under *)
(* the entry's name and command.                                           *)
Connected(S, up) ==
  [e \in Entries |-> IF e \in S /\ conn[e] = "none"
                      THEN IF e \in up THEN "live" ELSE "failed" ELSE conn[e]]
New(S) == {e \in S : conn[e] = "none"}

(* nebiusMCPToolSpecs: a server that has died since is offered as before.  *)
Offer(t) ==
  /\ bridged /\ pc[t] = "idle"
  /\ \E S \in Configured :
       /\ \E up \in SUBSET New(S) : conn' = Connected(S, up)
       /\ offered' = [offered EXCEPT ![t] =
            UNION {{[name |-> ToolName(e.name, x), server |-> e, tool |-> x]
                      : x \in Range(ToolsOf[e])} : e \in {d \in S : conn'[d] # "failed"}}]
       /\ announced' = announced \union S
  /\ pc' = [pc EXCEPT ![t] = "asking"]
  /\ UNCHANGED <<probe, config, preApproved, bridged, dotMCP, call, answer, read>>

(* The model calls a tool it was offered, or ends the turn.                *)
Ask(t) ==
  /\ pc[t] = "asking"
  /\ \/ /\ \E o \in offered[t] : call' = [call EXCEPT ![t] = o]
        /\ pc' = [pc EXCEPT ![t] = "calling"]
     \/ pc' = [pc EXCEPT ![t] = "over"] /\ UNCHANGED call
  /\ UNCHANGED <<probe, config, preApproved, bridged, dotMCP, conn, announced, offered, answer,
                 read>>

Answers(t, a) ==
  /\ answer' = [answer EXCEPT ![t] = a]
  /\ pc' = [pc EXCEPT ![t] = "over"]

(* callMCPTool: the first server whose name fits is asked for the tool.  A *)
(* call that is sent may fail all the same: its minute passes, its context *)
(* is cancelled, the server answers with an error or is dead.              *)
Fitting(S, name) ==
  {i \in DOMAIN Servers :
     (\E e \in S : e.name = Servers[i]) /\ Clean(Servers[i]) = ServerPart(name)}
ToolNamed(e, name) == {i \in DOMAIN ToolsOf[e] : ToolName(e.name, ToolsOf[e][i]) = name}
First(I) == CHOOSE i \in I : \A j \in I : i <= j

Asked(t, e) ==
  LET named == ToolNamed(e, call[t].name) IN
  /\ \E up \in SUBSET New({e}) : conn' = Connected({e}, up)
  /\ IF conn'[e] = "failed" \/ named = {} THEN Answers(t, Error)
     ELSE \E kind \in {"answered", "failed"} :
            /\ kind = "answered" => conn'[e] = "live"
            /\ Answers(t, By(e, ToolsOf[e][First(named)], kind))

Route(t) ==
  /\ pc[t] = "calling"
  /\ \E S \in Configured :
       LET fits == Fitting(S, call[t].name) IN
       /\ read' = [read EXCEPT ![t] = S]
       /\ IF fits = {} THEN Answers(t, Error) /\ UNCHANGED conn
          ELSE \E e \in S : e.name = Servers[First(fits)] /\ Asked(t, e)
  /\ UNCHANGED <<probe, config, preApproved, bridged, dotMCP, announced, offered, call>>

(* A server dies; somebody, perhaps the worker, edits .mcp.json.           *)
Die(e) ==
  /\ conn[e] = "live"
  /\ conn' = [conn EXCEPT ![e] = "dead"]
  /\ UNCHANGED <<probe, config, preApproved, bridged, dotMCP, announced, turnVars>>

Edit ==
  /\ \E t \in Turns : pc[t] = "calling"
  /\ dotMCP' \in DotConfigs
  /\ UNCHANGED <<probe, config, preApproved, bridged, conn, announced, turnVars>>

Next ==
  \/ Probe \/ Bridge \/ Edit
  \/ \E t \in Turns : Offer(t) \/ Ask(t) \/ Route(t)
  \/ \E e \in Entries : Die(e)

Spec == Init /\ [][Next]_vars

-----------------------------------------------------------------------------
(* A call reaches no tool but one of the name that was called, of a server *)
(* of the config that was read for it.  Where that config still has the    *)
(* entry whose tool was offered, no other server of it and no other tool   *)
(* of that server is called the same, and the server's name has no "__" in *)
(* it, the call reaches the very tool that was offered, be it answered or  *)
(* not.  No tool is approved of a server whose probe failed, unless one    *)
(* that did answer has a tool of the same pattern, and of a config that    *)
(* was written every tool is (nebiusMCPToolName, callMCPTool,              *)
(* MCPAllowPatterns, writeMCPConfig).                                      *)
Plain(s) == \A i \in UnderAt(Clean(s) \o Under) : i > Len(s)

Alone(o, S) ==
  /\ \A e \in S \ {o.server} : Clean(e.name) # Clean(o.server.name)
  /\ \A x \in Range(ToolsOf[o.server]) \ {o.tool} : Clean(x) # Clean(o.tool)

Sent(r) == r.kind \in {"answered", "failed"}

Home(o, S, r) ==
  /\ Sent(r) => r.server \in S /\ ToolName(r.server.name, r.tool) = o.name
  /\ o.server \in S /\ Plain(o.server.name) /\ Alone(o, S) =>
        Sent(r) /\ r.server = o.server /\ r.tool = o.tool

Approved ==
  /\ \A e \in Declared : \A x \in Range(ToolsOf[e]) :
       e.name \o Under \o x \in preApproved =>
         \E d \in Declared : probe[d] = "ok" /\ e.name \o Under \o x \in AllowPatterns({d})
  /\ \A e \in config : \A x \in Range(ToolsOf[e]) : e.name \o Under \o x \in preApproved

RoutedHome ==
  /\ \A t \in Turns :
       pc[t] = "over" /\ answer[t] # Unanswered => Home(call[t], read[t], answer[t])
  /\ Approved
=============================================================================
