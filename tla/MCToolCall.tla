----------------------------- MODULE MCToolCall -----------------------------
(* ToolCall for TLC: four scanners, two engines, lists of up to three rules,    *)
(* and every kind of directory request with up to two rules.                   *)
EXTENDS ToolCall

MCPipeline == <<"injection", "offensive", "secret", "pii">>
MCEngines == <<"gitleaks", "gitguardian">>
MCFilterings == {{}, {{1}}, {{1}, {2}}, {{1, 2}}}

ShortLists(S) == {<<>>} \cup {<<r>> : r \in S} \cup {<<r, q>> : r \in S, q \in S}

(* Of three rules, those whose order can matter.                               *)
Telling == {r \in Rule : r.action = IF r.mode = "deny" THEN "ask" ELSE "warn"}
MCRuleLists == ShortLists(Rule) \cup {<<r, q, p>> : r \in Telling, q \in Telling, p \in Telling}

MCDirectories ==
    [excluded : BOOLEAN, rules : ShortLists(DirectoryRule), marker : BOOLEAN,
     action : {"block", "warn", "log-only", "ask"}, broken : {"no", "rules", "check"}]
=============================================================================
