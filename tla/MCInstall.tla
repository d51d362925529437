------------------------------ MODULE MCInstall -------------------------------
(* What an installation runs on, in four sides a behaviour is one of: the    *)
(* plugins it hosts (Plugin), its store being opened (Opening), its labelling *)
(* secret (Secret) and what its reports read (StoreReads).                   *)
EXTENDS Plugin, Opening, Secret, StoreReads, TLC

VARIABLE side

Line(kind) == [kind |-> kind, body |-> {}]
Body(kind, body) == [kind |-> kind, body |-> body]
Hello == Line("handshake")
Declaration(needs, fields, where) ==
    Body("declaration", [needs |-> needs, fields |-> fields, where |-> where])

\* Two rows of usage, one session, and an array derived from the usage rows.
MCSections ==
    [usage    |-> [capability |-> "usage", columns |-> {"model", "out"}, texts |-> {"model"}],
     byModel  |-> [capability |-> "usage", columns |-> {"name", "tokens"}, texts |-> {"name"}],
     sessions |-> [capability |-> "sessions", columns |-> {"tool", "turns"}, texts |-> {"tool"}]]
MCPrepared ==
    [usage    |-> <<[model |-> "a", out |-> "1"], [model |-> "b", out |-> "2"]>>,
     byModel  |-> <<[name |-> "a", tokens |-> "1"], [name |-> "b", tokens |-> "2"]>>,
     sessions |-> <<[tool |-> "a", turns |-> "2"]>>]

\* Streams with a bad line, with more than the buffer holds and without a handshake;
\* declarations that drop derived rows, the whole of a section, and invalid ones;
\* an answer of two documents; and alerts with and without an error.
MCScripts ==
    [scan     |-> {<<Hello, Body("record", "r1"), Line("bad"), Body("record", "r2")>>,
                   <<Hello, Body("record", "r1"), Body("record", "r2"), Body("record", "r3"), Line("blank")>>,
                   <<Line("bad"), Body("record", "r1")>>},
     describe |-> {<<Hello, Declaration({"usage", "sessions"}, "sessions" :> {"turns"}, <<"byModel", "name">> :> {"a"})>>,
                   <<Hello, Declaration({"sessions", "usage", "prices"}, "usage" :> {"out"}, <<"sessions", "tool">> :> {"b"})>>,
                   <<Hello, Declaration({"sessions"}, "usage" :> {"out"}, <<>>)>>},
     analyze  |-> {<<Hello, Line("verdict")>>, <<Hello, Line("verdict"), Line("verdict")>>},
     evaluate |-> {<<Hello, Body("alerts", {"warn"})>>, <<Hello, Line("blank"), Body("alerts", {"warn", "error"})>>}]
MCAllow == [m1 |-> {}, m2 |-> {"usage"}]

\* A window with an unpriced model that used tokens, and one where it used none.
MCWindows ==
    LET priced == [id |-> 1, tokens |-> 1, worth |-> 1, priced |-> TRUE]
    IN  {{priced, [id |-> 2, tokens |-> n, worth |-> n, priced |-> FALSE]} : n \in {0, 2}}
MCBudgets == {[tokens |-> 2, cost |-> 0], [tokens |-> 0, cost |-> 1], [tokens |-> 0, cost |-> 0]}
MCParsers == <<"p1", "p2">>
MCMetrics == <<"m1", "m2">>
MCRulePlugins == <<"r1">>

\* A table, an added column, the archive of the old grain, re-reads, and a later column.
MCBodies ==
    << <<<<"make", "usage_record">>>>, <<<<"add", "c2">>>>,
       <<<<"move", "block">>, <<"forget", "claude">>>>,
       <<<<"forget", "claude">>, <<"forget", "codex">>>>,
       <<<<"make", "repository">>, <<"add", "c5">>>> >>

StoredRow(session, ts, label, key, grain, tokens, kind) ==
    [session |-> session, member |-> "", ts |-> ts, tool |-> "t", label |-> label, key |-> key,
     grain |-> grain, tokens |-> tokens, sidechain |-> kind \in {"sidechain", "summary"},
     aggregate |-> kind \in {"aggregate", "summary"}, agent |-> IF kind = "main" THEN "" ELSE "a",
     skill |-> IF tokens > 1 THEN "k" ELSE "", miss |-> IF ts > 0 THEN "m" ELSE "",
     conflict |-> FALSE]

\* Two repositories called x, one really called "x (2)", a row of x that names none, a
\* session that worked in both, a sub-agent counted by its turns and by a summary from
\* before sub-agents were marked, and one that has only a marked summary.
MCRowPool ==
    <<StoredRow("s1", 0, <<"x">>, "ka", "turn", 1, "main"),
      StoredRow("s1", 2, <<"x">>, "kb", "turn", 2, "sidechain"),
      StoredRow("s2", 1, <<"x">>, "kb", "session", 3, "aggregate"),
      StoredRow("s2", 2, <<"x">>, "", "turn", 1, "main"),
      StoredRow("s3", 1, <<"x", "2">>, "kc", "session", 1, "summary")>>
MCDigits == <<"1", "2", "3", "4", "5">>

Init ==
    /\ side \in {"plugins", "opening", "secret", "reads"}
    /\ PluginInit /\ SecretInit /\ ReadInit
    /\ OpenInit /\ (side # "opening" => schema.recorded = {})

Next ==
    /\ UNCHANGED side
    /\ \/ side = "plugins" /\ PluginNext /\ UNCHANGED <<openVars, secretVars, readVars>>
       \/ side = "opening" /\ OpenNext /\ UNCHANGED <<pluginVars, secretVars, readVars>>
       \/ side = "secret" /\ SecretNext /\ UNCHANGED <<pluginVars, openVars, readVars>>
       \/ side = "reads" /\ ReadNext /\ UNCHANGED <<pluginVars, openVars, secretVars>>

Spec ==
    /\ Init /\ [][Next]_<<side, pluginVars, openVars, secretVars, readVars>>
    /\ HostFairness
===============================================================================
