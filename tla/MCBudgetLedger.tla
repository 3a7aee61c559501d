--------------------------- MODULE MCBudgetLedger ---------------------------
(* TLC instances of BudgetLedger.                                          *)
EXTENDS BudgetLedger

CONSTANTS a1, a2, s1, s2

TwoSandboxes == {s1, s2}
TwoAttempts == {a1, a2}
=============================================================================
