-------------------------- MODULE MCSessionRecovery --------------------------
(* Instances of SessionRecovery for TLC.  The accounts' equities are       *)
(* disjoint, so that a number tells which account it came from, and each   *)
(* account can gain, lose within a 20% budget, and breach it; zero is an   *)
(* account without funds.                                                  *)
EXTENDS SessionRecovery

CONSTANTS live, testnet

OneAccount == [v \in Envs |-> {75, 90, 100}]
TwoAccounts == [v \in Envs |-> IF v = live THEN {0, 8, 10} ELSE {75, 90, 100}]
=============================================================================
