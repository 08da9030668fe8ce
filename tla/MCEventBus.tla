----------------------------- MODULE MCEventBus -----------------------------
(* Instances of EventBus for TLC; the constants are plain numbers.         *)
EXTENDS EventBus
=============================================================================
