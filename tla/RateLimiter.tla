----------------------------- MODULE RateLimiter -----------------------------
(***************************************************************************)
(* _TokenRateLimiter of risk/risk_engine.py: two deques of the times at    *)
(* which an order was let through, one for the last second and one for the *)
(* last minute.  Time is counted in units; Second and Minute are the two   *)
(* spans in that unit, and the clock (time.monotonic) never runs back.     *)
(***************************************************************************)
EXTENDS Integers, Sequences

CONSTANTS
    Second, Minute,   \* the spans of the two windows
    MaxPerSecond,     \* settings.risk.max_orders_per_second
    MaxPerMinute,     \* settings.risk.max_orders_per_minute
    MaxNow            \* bound: the last instant of a behaviour

ASSUME LimiterAssumption ==
    /\ Second \in Nat /\ Minute \in Nat /\ MaxNow \in Nat
    /\ MaxPerSecond \in Nat \ {0} /\ MaxPerMinute \in Nat \ {0}

VARIABLES
    now,           \* time.monotonic()
    secondWindow,  \* _second_window, oldest first
    minuteWindow,  \* _minute_window, oldest first
    acquired       \* history: the times of all orders let through

limiterVars == <<now, secondWindow, minuteWindow, acquired>>

LimiterTypeOK ==
    /\ now \in 0 .. MaxNow
    /\ secondWindow \in Seq(0 .. MaxNow)
    /\ minuteWindow \in Seq(0 .. MaxNow)
    /\ acquired \in Seq(0 .. MaxNow)

-----------------------------------------------------------------------------
M_StaleAtTheEdge(t, span) == now - t >= span
Stale(t, span) == now - t > span

(* The popleft loops: the head goes as long as it is stale.                *)
FirstFresh(w, span) ==
    CHOOSE k \in 1 .. Len(w) + 1 :
        /\ \A j \in 1 .. k - 1 : Stale(w[j], span)
        /\ k <= Len(w) => ~Stale(w[k], span)

Pruned(w, span) == SubSeq(w, FirstFresh(w, span), Len(w))

(* Both windows are pruned before either is counted.                       *)
HasRoom ==
    /\ Len(Pruned(secondWindow, Second)) < MaxPerSecond
    /\ Len(Pruned(minuteWindow, Minute)) < MaxPerMinute

Acquire ==
    /\ HasRoom
    /\ secondWindow' = Append(Pruned(secondWindow, Second), now)
    /\ minuteWindow' = Append(Pruned(minuteWindow, Minute), now)
    /\ acquired' = Append(acquired, now)
    /\ UNCHANGED now

Refuse ==
    /\ ~HasRoom
    /\ secondWindow' = Pruned(secondWindow, Second)
    /\ minuteWindow' = Pruned(minuteWindow, Minute)
    /\ UNCHANGED <<now, acquired>>

Clock ==
    /\ now < MaxNow
    /\ now' = now + 1
    /\ UNCHANGED <<secondWindow, minuteWindow, acquired>>

LimiterInit ==
    /\ now = 0
    /\ secondWindow = <<>>
    /\ minuteWindow = <<>>
    /\ acquired = <<>>

LimiterNext == Acquire \/ Refuse \/ Clock

LimiterSpec == LimiterInit /\ [][LimiterNext]_limiterVars

-----------------------------------------------------------------------------
(* No closed interval of one second holds more than MaxPerSecond orders,   *)
(* and none of one minute more than MaxPerMinute: an order and the one     *)
(* that many places later are more than the span apart.  The windows keep  *)
(* what is exactly one span old (risk_engine.py:55), so this is so even at *)
(* the edge.                                                               *)
RateBound ==
    /\ \A i \in 1 .. Len(acquired) - MaxPerSecond :
           acquired[i + MaxPerSecond] - acquired[i] > Second
    /\ \A i \in 1 .. Len(acquired) - MaxPerMinute :
           acquired[i + MaxPerMinute] - acquired[i] > Minute
=============================================================================
