-------------------------- MODULE MCOrderLifecycle --------------------------
(* An OCO group of two legs.                                               *)
EXTENDS OrderLifecycle

CONSTANTS target, stop

MCOrders == {target, stop}
MCOco == <<target, stop>>
=============================================================================
