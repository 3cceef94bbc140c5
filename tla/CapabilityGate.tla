--------------------------- MODULE CapabilityGate ---------------------------
(***************************************************************************)
(* The patterns of a profile's allow and deny lists (engine/capability):   *)
(* what the gate decides of a tool call, and when one pattern covers       *)
(* another, which `uta mission check` asks of a raise and its policy.  A   *)
(* state is one question: two patterns.                                    *)
(***************************************************************************)
EXTENDS Naturals, Sequences, FiniteSets, SequencesExt

CONSTANTS Tools,       \* names of tools
          Letters,     \* what arguments are made of, besides "*" and "?" in globs; a newline,
                       \* which the "." of a Go regexp does not match, is not among them
          MaxGlob,     \* BOUND: length of a glob
          MaxArg       \* BOUND: length of an argument

VARIABLES grant, cap
vars == <<grant, cap>>

(* A pattern is ToolName or ToolName(glob), here with one string argument; *)
(* "malformed" stands for what parsePattern refuses.                       *)
Bare == <<>>
Malformed == [tool |-> "malformed", glob |-> Bare]
Globs == UNION {[1..n -> Letters \union {"*", "?"}] : n \in 0..MaxGlob}  \* <<>>: no glob
Patterns == [tool : Tools, glob : Globs] \union {Malformed}
Args == UNION {[1..n -> Letters] : n \in 0..MaxArg}

(* globToRegexp, anchored at both ends: m[<<i, j>>] of the glob from i and *)
(* the argument from j.                                                    *)
GlobMatches(g, s) ==
  LET m[at \in (1..Len(g) + 1) \X (1..Len(s) + 1)] ==
        LET i == at[1]  j == at[2] IN
        IF i > Len(g) THEN j > Len(s)
        ELSE IF g[i] = "*" THEN m[<<i + 1, j>>] \/ (j <= Len(s) /\ m[<<i, j + 1>>])
        ELSE j <= Len(s) /\ g[i] \in {"?", s[j]} /\ m[<<i + 1, j + 1>>]
  IN m[<<1, 1>>]

Matches(p, tool, arg) == p.tool = tool /\ (p.glob = Bare \/ GlobMatches(p.glob, arg))

(* NewGate drops what it cannot parse.  Deny wins; an empty allow list     *)
(* allows what is not denied.                                              *)
Parsed(list) == {p \in list : p # Malformed}
Inspect(allow, deny, tool, arg) ==
  IF \E p \in Parsed(deny) : Matches(p, tool, arg) THEN "deny"
  ELSE IF Parsed(allow) = {} \/ \E p \in Parsed(allow) : Matches(p, tool, arg) THEN "allow"
  ELSE "deny"

\* broken: a "?" of the grant stands for a "*" of the cap.
CoversRest_QuestionStar(g, c) ==
  LET covers[at \in (1..Len(g) + 1) \X (1..Len(c) + 1)] ==
        LET i == at[1]  j == at[2] IN
        IF i > Len(g) THEN j > Len(c)
        ELSE IF g[i] = "*" THEN covers[<<i + 1, j>>] \/ (j <= Len(c) /\ covers[<<i, j + 1>>])
        ELSE j <= Len(c) /\ (g[i] = "?" \/ g[i] = c[j]) /\ covers[<<i + 1, j + 1>>]
  IN covers[<<1, 1>>]

(* globCovers: a "*" of c needs a "*" of g, a "?" of c at least a "?".     *)
CoversRest(g, c) ==
  LET covers[at \in (1..Len(g) + 1) \X (1..Len(c) + 1)] ==
        LET i == at[1]  j == at[2] IN
        IF i > Len(g) THEN j > Len(c)
        ELSE IF g[i] = "*" THEN covers[<<i + 1, j>>] \/ (j <= Len(c) /\ covers[<<i, j + 1>>])
        ELSE /\ j <= Len(c) /\ c[j] # "*"
             /\ IF c[j] = "?" THEN g[i] = "?" ELSE g[i] \in {c[j], "?"}
             /\ covers[<<i + 1, j + 1>>]
  IN covers[<<1, 1>>]

Subsumes(g, c) ==
  \/ g = c
  \/ /\ Malformed \notin {g, c} /\ g.tool = c.tool
     /\ g.glob = Bare \/ (c.glob # Bare /\ CoversRest(g.glob, c.glob))

Init == grant \in Patterns /\ cap \in Patterns
Next == UNCHANGED vars
Spec == Init /\ [][Next]_vars
-----------------------------------------------------------------------------
(* A raise the check lets pass is backed by its policy: what a gate with   *)
(* the raised cap lets through, a gate with the grant lets through too     *)
(* (steer/check.go asks Subsumes, the run asks Inspect).                   *)
RaiseIsBacked ==
  Subsumes(grant, cap) =>
    \A tool \in Tools, arg \in Args :
       Inspect({cap}, {}, tool, arg) = "allow" => Inspect({grant}, {}, tool, arg) = "allow"
=============================================================================
