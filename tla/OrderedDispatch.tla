--------------------------- MODULE OrderedDispatch ---------------------------
(* What the event bus promises (core/event_bus.py, module docstring: "a    *)
(* single asyncio.Queue drives an ordered dispatch loop so that event      *)
(* handling within a process is deterministic and race-free"): whatever it *)
(* accepted it handles once, in the order in which it accepted it.         *)
EXTENDS Naturals, Sequences

CONSTANT Events

VARIABLES accepted, handled

Init == accepted = <<>> /\ handled = <<>>

Accept ==
    /\ \E e \in Events : accepted' = Append(accepted, e)
    /\ UNCHANGED handled

Handle ==
    /\ Len(handled) < Len(accepted)
    /\ handled' = Append(handled, accepted[Len(handled) + 1])
    /\ UNCHANGED accepted

Next == Accept \/ Handle

Spec == Init /\ [][Next]_<<accepted, handled>>
=============================================================================
