----------------------------- MODULE MCRestate -----------------------------
(* Two transcripts: f holds a turn of its own, and both carry one finished  *)
(* sub-agent.  The newer build reads a call the older one gave one purpose  *)
(* as having the other.                                                     *)
EXTENDS Restate, TLC

CONSTANTS f, g, turn, agg, A, B, deep, r1, r2

\* f's directory is a clone of A, or no repository (a real answer of B), or gone (a
\* guess finds B); g's is another clone, of B, so the two disagree on their aggregate.
MCResolves ==
    [x \in Files |-> [w \in Places |->
       IF x = f /\ w # "repo"
       THEN [label |-> B, subpath |-> NoName, root |-> NoRoot, guessed |-> w = "gone"]
       ELSE [label |-> IF x = f THEN A ELSE B, subpath |-> deep,
             root |-> IF x = f THEN r1 ELSE r2, guessed |-> FALSE]]]

\* n chunks of f: a turn whose output and calls grow, then the aggregate.
TurnRecord(b, n) ==
    LET reads == IF b = 1 THEN n - 1 ELSE 0
        other == IF b = 1 THEN 1 ELSE n
    IN [ts |-> 1, output |-> n, reasoning |-> n - 1, calls |-> reads + other,
        reads |-> reads, other |-> other,
        model |-> NoName]

AggregateRecord(x) ==
    [ts |-> IF x = f THEN 1 ELSE 0, output |-> 2, reasoning |-> 1,
     calls |-> 0, reads |-> 0, other |-> 0, model |-> NoName]

MCParsed ==
    [b \in Builds |-> [x \in Files |-> [n \in Sizes |->
       CASE x = f /\ n = 1 -> (turn :> TurnRecord(b, n))
         [] x = f /\ n > 1 -> (turn :> TurnRecord(b, n) @@ agg :> AggregateRecord(f))
         [] x = g -> (agg :> AggregateRecord(g))]]]

MCLimit == [x \in Files |-> IF x = f THEN MaxLen ELSE 1]

RunSymmetry == Permutations(Runs)
=============================================================================
