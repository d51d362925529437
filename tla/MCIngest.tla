------------------------------ MODULE MCIngest ------------------------------
(* One importer at a time: a Claude session whose sub-agent has its own     *)
(* transcript, read by two builds that extract different records.           *)
EXTENDS Ingest

CONSTANTS main, sub,        \* the session's transcript and its sub-agent's
          m1, m2, x, agg, t \* record keys

MCToolOf == [f \in Files |-> Claude]
MCKeyTool == [k \in Keys |-> Claude]

\* The main transcript: a turn, then a turn and the finished sub-agent's
\* aggregate.  Only the newer build extracts x.
MCYield ==
    [b \in Builds |-> [f \in Files |-> [n \in Sizes |->
       CASE n = 0 -> {}
         [] n > 0 /\ f = sub -> {t}
         [] n > 0 /\ f = main ->
              {m1} \cup (IF b = 2 THEN {x} ELSE {})
                   \cup (IF n > 1 THEN {m2, agg} ELSE {})]]]

MCTrace == [b \in Builds |-> [f \in Files |-> [n \in Sizes |-> {}]]]

MCAgg == [s \in SubFiles |-> agg]
MCLimit == [f \in Files |-> IF f = main THEN 2 ELSE 1]
=============================================================================
