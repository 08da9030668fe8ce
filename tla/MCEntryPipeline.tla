--------------------------- MODULE MCEntryPipeline ---------------------------
(* Instances of EntryPipeline for TLC.                                     *)
EXTENDS EntryPipeline

CONSTANTS btc, eth, sol
=============================================================================
