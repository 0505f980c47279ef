----------------------------- MODULE MCRiskDay -----------------------------
EXTENDS RiskDay, TLC
(* Both symbols are peers, and alike; fills of exits lose, end even, or win. *)
MCCluster == {Symbol}
MCPnl == {-3, -1, 0, 1}
MCSymmetry == Permutations(Symbol)
=============================================================================
