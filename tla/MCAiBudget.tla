----------------------------- MODULE MCAiBudget -----------------------------
(* A shared policy of an ending period and a lifetime policy of one run.   *)
EXTENDS AiBudget

CONSTANTS shared, own, r1, r2

MCPolicies == {shared, own}
MCRenewed == {shared}
MCRuns == {r1, r2}
MCAppliesTo == [p \in MCPolicies |-> IF p = shared THEN {r1, r2} ELSE {r1}]
MCMaxGen == [r \in MCRuns |-> 1]
MCCeilings == {2}
MCConsumed == {0, 2}
=============================================================================
