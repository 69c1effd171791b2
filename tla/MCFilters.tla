----------------------------- MODULE MCFilters -----------------------------
(* The instance of Filters that TLC checks: one group, two URLs, and the    *)
(* bounds as a choice of scenarios.                                         *)
EXTENDS Filters

Ad == <<"ad", "x">>
X == <<"x">>
MCNames == {Ad, X}
Text(block, allow, tag) == [block |-> block, allow |-> allow, etag |-> tag]
Texts == <<Text({X}, {}, "e1"), Text({X}, {Ad}, None), Text({}, {}, "e3")>>
Rule(action, regex, pattern) == [action |-> action, regex |-> regex, pattern |-> pattern]
MCRules == {Rule("allow", FALSE, {X}), Rule("block", TRUE, {Ad})}
First == Row("u1", "block")

B(ops, pausing, publishes, faults, crashes, imports) ==
  [ops |-> ops, pauses |-> pausing, publishes |-> publishes, faults |-> faults, crashes |-> crashes, imports |-> imports]
MCBudgets == {B(2, 0, 0, 0, 0, 0), B(1, 0, 1, 1, 0, 0), B(0, 0, 3, 0, 1, 0), B(1, 0, 0, 0, 0, 1), B(0, 0, 1, 0, 0, 1), B(0, 2, 0, 1, 1, 0), B(0, 1, 0, 1, 0, 1), B(0, 0, 0, 1, 1, 1)}
\* One import, and publishers that send no ETags.
Untagged == <<Text({X}, {}, None)>>
ImportOnly == {B(0, 0, 0, 0, 0, 1)}
=============================================================================
