--------------------------- MODULE MCDashboardBridge ---------------------------
(* Two connections, which are interchangeable.                             *)
EXTENDS DashboardBridge, TLC

CONSTANTS c1, c2

Interchangeable == Permutations({c1, c2})
=============================================================================
