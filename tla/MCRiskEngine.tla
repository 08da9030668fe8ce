----------------------------- MODULE MCRiskEngine -----------------------------
(* Two symbols: one of the configured leverage, one with a lower cap.      *)
EXTENDS RiskEngine

CONSTANTS btc, eth

MCMult == [s \in Symbols |-> IF s = btc THEN 1 ELSE 2]
MCMaxLeverageOf == [s \in Symbols |-> IF s = btc THEN 5 ELSE 2]
=============================================================================
