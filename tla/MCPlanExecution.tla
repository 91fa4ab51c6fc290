--------------------------- MODULE MCPlanExecution ---------------------------
EXTENDS PlanExecution, TLC

Symmetry == Permutations(Client)

=============================================================================
