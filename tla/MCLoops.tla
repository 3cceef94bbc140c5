------------------------------- MODULE MCLoops -------------------------------
(***************************************************************************)
(* The loops that work until they are content: `uta improve` on its board  *)
(* of ideas, the reflector on its findings, and a debate of two agents.  A *)
(* behaviour exercises one of them, `side`; the others stay where they     *)
(* start.                                                                  *)
(***************************************************************************)
EXTENDS ImproveLoop, Sequences, Functions

CONSTANTS p1, p2
\* two ideas of one severity, or the later one more severe; one ceiling of one iteration
MCSeverities == {<<0, 0>>, <<1, 0>>}
MCMaxIterations == [p \in Loops |-> IF p = p1 THEN 1 ELSE 0]

CONSTANTS Critics, Tools, Label, Order, AuditAnswers, StopWhen, HasReviser, AuditIterations,
          AuditSlots, None, c1, c2, t1
VARIABLES phase, iter, row, active, over, said, poor, ended, report, verdict, side

MCLabel == [j \in {c1, c2, t1} |-> j]
MCOrder == <<c1, c2, t1>>
\* findings that share an id, or a spot, with one of another severity
Found(id, spot, rank) == [id |-> id, spot |-> spot, severity |-> rank]
MCAnswers ==
  { <<>>,
    <<Found(None, 7, 2)>>,
    <<Found(None, 7, 4)>>,
    <<Found(1, 7, 2), Found(1, None, 4)>> }

Audit == INSTANCE AuditLoop WITH
  Answers <- AuditAnswers, MaxIterations <- AuditIterations, MaxParallel <- AuditSlots,
  status <- verdict

(* A severity has a rank of 0 to 4; every label is in the sorted list; no  *)
(* report is a list of none of the reported findings.                      *)
Findings == UNION {Range(findings) : findings \in AuditAnswers}
ASSUME AuditAssumption ==
  /\ \A findings \in AuditAnswers : findings \in Seq(Range(findings))
  /\ \A f \in Findings : f.severity \in 0..Audit!HIGH
  /\ Order \in Seq(Range(Order))
  /\ \A j \in Critics \union Tools : Label[j] \in Range(Order)
  /\ None \notin Seq(Findings)

CONSTANTS MaxTokens, MaxUSDCents, PerCallMaxTokens, Flags, Installed, RoundsAsked,
          DefaultRounds, RoundLimit, Usages, MaxRetries, Buffer

(* What --agents says and what is installed are lists; amounts are natural *)
(* numbers, but --rounds may be given any number.                          *)
ASSUME DebateAssumption ==
  /\ MaxTokens \in Nat /\ MaxUSDCents \in Nat /\ PerCallMaxTokens \in Nat
  /\ \A list \in Flags \union Installed : list \in Seq(Range(list))
  /\ RoundsAsked \subseteq Int /\ DefaultRounds \in Nat
  /\ Usages \subseteq [tok : Nat, usd : Nat]
  /\ MaxRetries \in Nat /\ Buffer \in Nat \ {0}

CONSTANTS claude, gemini, agy
MCFlags == {<<>>, <<gemini>>, <<gemini, gemini>>, <<agy, claude>>}
MCInstalled == {<<>>, <<claude>>, <<claude, gemini>>}
MCUsages == [tok : {1, 3}, usd : {0}]

VARIABLES tokens, usdCents, tripped, warned80T, warned80U, flag, available, asked, noSynth,
          asJSON, debate, rounds, agents, ctx, attempt, owed, turns, rows, sess, dropped,
          counted, result, synthesis, queue, printed, lost, exit

Debate == INSTANCE Discussion WITH pc <- debate

auditVars == <<phase, iter, row, active, over, said, poor, ended, report, verdict>>

debateVars == <<tokens, usdCents, tripped, warned80T, warned80U, flag, available, asked,
  noSynth, asJSON, debate, rounds, agents, ctx, attempt, owed, turns, rows, sess, dropped,
  counted, result, synthesis, queue, printed, lost, exit>>

MCInit ==
  /\ Init /\ Audit!Init /\ Debate!Init /\ side \in {"improve", "audit", "debate"}
  /\ side # "improve" => severity = CHOOSE s \in Severities : TRUE
  /\ side # "debate" => /\ flag = <<>> /\ available = <<>> /\ asked = 0
                       /\ ~noSynth /\ ~asJSON
MCNext ==
  /\ side' = side
  /\ \/ side = "improve" /\ Next /\ UNCHANGED <<auditVars, debateVars>>
     \/ side = "audit" /\ Audit!Next /\ UNCHANGED <<vars, debateVars>>
     \/ side = "debate" /\ Debate!Next /\ UNCHANGED <<vars, auditVars>>

MCSpec ==
  /\ MCInit /\ [][MCNext]_<<vars, auditVars, debateVars, side>>
  /\ \A p \in Loops : WF_vars(side = "improve" /\ LoopStep(p))

DebateIsTrue == Debate!DebateIsTrue
CleanIsClean == Audit!CleanIsClean
ImproveEnds == side = "improve" => LoopEnds
=============================================================================
