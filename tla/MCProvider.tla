------------------------------ MODULE MCProvider ------------------------------
(***************************************************************************)
(* A provider call seen from five sides: what it is told of earlier runs,  *)
(* what admits it and pays for it, the turn the built-in provider makes of *)
(* it, the MCP servers whose tools it offers, and what the terminal shows  *)
(* of it.  A behaviour exercises one of them, `side`; the others stay      *)
(* where they start.                                                       *)
(***************************************************************************)
EXTENDS Spend, Sequences, TLC

MCUsages == {[tok |-> 2, usd |-> 0]}
\* the first two days are of one month
MCMonthOf(d) == IF d = 2 THEN 1 ELSE 0

CONSTANTS MaxRounds, KeepRecent, MaxCalls, MaxTurns
\* compaction keeps the latest message at least (nebiusHistoryKeepRecent)
ASSUME TurnAssumption == MaxRounds \in Nat /\ KeepRecent \in Nat \ {0} /\ MaxCalls \in Nat

VARIABLES saved, hist, turn_pc, round, tries, thinking, redone, due, over, told,
          screened, counted, result, turns

Turn == INSTANCE AgentTurn WITH pc <- turn_pc, attempt <- tries
turnVars == <<saved, hist, turn_pc, round, tries, thinking, redone, due, over, told,
              screened, counted, result, turns>>

CONSTANTS Subtasks, MaxSessions, Width, Texts
VARIABLES session, count, sub, renderer
MCTexts == {<<"x">>, <<"\n", "x", " ", "x">>, <<"x", "x", "x", "x", " ", "x", "\n">>, <<" ">>}

Screen == INSTANCE Progress
\* the gutter takes four columns and a character one
ASSUME ScreenAssumption ==
  /\ Width \in Nat /\ Width > 5
  /\ \A text \in Texts : text \in Seq({text[i] : i \in DOMAIN text})
screenVars == <<session, count, sub, renderer>>

CONSTANTS Chars, Servers, ToolsOf, Declared, DotConfigs, BridgeTurns
VARIABLES probe, config, preApproved, bridged, dotMCP, conn, announced, bridge_pc, offered,
          call, answer, read

\* a name that needs cleaning, one it collides with, one with "__", and a tool with "__";
\* an edit puts another command under the first name
MCServers == <<<<"a">>, <<"a", ".", "b">>, <<"a", "_", "_", "b">>, <<"a", "_", "b">>>>
Entry(name, command) == [name |-> name, command |-> command]
MCTools ==
  [e \in {Entry(MCServers[i], "c") : i \in DOMAIN MCServers} \union {Entry(<<"a">>, "d")} |->
     IF e.name # <<"a">> THEN <<<<"t">>>>
     ELSE IF e.command = "c" THEN <<<<"t">>, <<"b", "_", "_", "t">>>>
     ELSE <<<<"b", "_", "_", "t">>>>]
MCDeclared == {Entry(<<"a", ".", "b">>, "c"), Entry(<<"a", "_", "b">>, "c")}
MCDots ==
  {{Entry(<<"a">>, "c"), Entry(<<"a", ".", "b">>, "c")},
   {Entry(<<"a">>, "d"), Entry(<<"a", "_", "_", "b">>, "c")}}

Tools == INSTANCE McpBridge WITH Turns <- BridgeTurns, pc <- bridge_pc
\* names are sequences of characters, and keys of a config
ASSUME BridgeAssumption ==
  /\ {"_", "."} \subseteq Chars
  /\ Servers \in Seq(Seq(Chars)) /\ ToolsOf \in [Tools!Entries -> Seq(Seq(Chars))]
  /\ \A e \in Tools!Entries : e.name \in Tools!Names
  /\ Declared \subseteq Tools!Entries /\ DotConfigs \subseteq SUBSET Tools!Entries
  /\ \A S \in DotConfigs \union {Declared} : \A d, e \in S : d.name = e.name => d = e
toolVars == <<probe, config, preApproved, bridged, dotMCP, conn, announced, bridge_pc,
              offered, call, answer, read>>

CONSTANTS Writers, Embedders, NoEmbedder, FactInputs, Goals, StopWords, TopK, MaxOps
VARIABLES facts, docs, fts, vec, meta, task, begun, cut, last, disturbed, reindexed, side

MCGoals == {{"y", "z"}}
MCNoEmbedder == [name |-> "", dim |-> 0]
MCEmbedders == {[name |-> "a", dim |-> 3], [name |-> "b", dim |-> 3]}
MCFactInputs ==
  <<[words |-> {"x"}, tags |-> {"x", "z"}], [words |-> {"x", "y"}, tags |-> {"y"}]>>

Recall == INSTANCE Memory WITH Procs <- Writers
ASSUME MemoryAssumption == FactInputs \in Seq(Recall!Range(FactInputs))
factVars == <<facts, docs, fts, vec, meta, task, begun, cut, last, disturbed, reindexed>>

MCInit ==
  /\ side \in {"spend", "turn", "screen", "tools", "facts"}
  /\ Init /\ Turn!Init /\ Screen!Init /\ Tools!Init /\ Recall!Init
  /\ side # "tools" => dotMCP = CHOOSE S \in DotConfigs : TRUE
  /\ side # "spend" => \A p \in DOMAIN caps : caps[p] = "set"
MCNext ==
  /\ side' = side
  /\ \/ side = "spend" /\ Next /\ UNCHANGED <<turnVars, screenVars, toolVars, factVars>>
     \/ side = "turn" /\ Turn!Next /\ UNCHANGED <<vars, screenVars, toolVars, factVars>>
     \/ side = "screen" /\ Screen!Next /\ UNCHANGED <<vars, turnVars, toolVars, factVars>>
     \/ side = "tools" /\ Tools!Next /\ UNCHANGED <<vars, turnVars, screenVars, factVars>>
     \/ side = "facts" /\ Recall!Next /\ UNCHANGED <<vars, turnVars, screenVars, toolVars>>

MCSpec == MCInit /\ [][MCNext]_<<vars, turnVars, screenVars, toolVars, factVars, side>>

\* of the calls of a run, and of the turns of a provider
Interchangeable == Permutations(RunCalls) \union Permutations(BridgeTurns)

MemoryIsWhole == Recall!MemoryIsWhole
OneVoice == Screen!OneVoice
TurnIsSound == Turn!TurnIsSound
RoutedHome == Tools!RoutedHome
=============================================================================
