--------------------------- MODULE PositionMonitor ---------------------------
(***************************************************************************)
(* The exit side of the live scanner: the polling loop that watches every  *)
(* open position, the native stop orders it rests on the exchange, and the *)
(* operator's flatten command, all acting on the same exchange position.   *)
(*   execution/position_monitor.py   _loop, _check_once, _arm_native_stop, *)
(*                                   _disarm_native_stop, _close_position  *)
(*   execution/binance_broker.py     get_position_details, place_order,    *)
(*                                   place_stop_loss, cancel_stop_loss     *)
(*   scripts/run_live_binance_scanner.py                                   *)
(*                                   flatten_all_positions,                *)
(*                                   on_position_close                     *)
(*                                                                         *)
(* The exchange is external: it holds one net position per symbol, executes *)
(* the market orders sent to it (they are not reduce-only), and triggers   *)
(* resting STOP_MARKET orders with closePosition.  A position is one unit; *)
(* its margin is one hundred, so that unrealized P&L and ROI% are the same *)
(* integer.  One pass of _check_once is split at its awaits.               *)
(*                                                                         *)
(* A definition M_X that stands before a definition is a faulty variant of *)
(* it: replacing it must break a property (see the README).                *)
(***************************************************************************)
EXTENDS Integers, FiniteSets

CONSTANTS
    Symbols,      \* symbols that may be traded
    MaxLives,     \* bound: entries per symbol in a behaviour
    Sides,        \* entry directions in use, a subset of {1, -1}
    Rois,         \* ROI% values the exchange may report for a position
    LossLimits,   \* values of equity * stop_loss_equity_pct / 100
    ArmPct, BasePct, StepPct, StepIncrementPct, HardCapPct,  \* trailing profit
    Hazards       \* which failures and rival actors are enabled, see below

(* "equity"  get_account_equity raises while a new position is frozen      *)
(* "audit"   on_close_event raises (push_audit's broadcast)                *)
(* "refuse"  a REST call fails: an order is refused, a stop not placed     *)
(* "answer"  the exchange accepts a native stop, its answer is lost        *)
(* "cancel"  the cancellation of a native stop fails                       *)
(* "native"  a resting stop triggers on the exchange                       *)
(* "flatten" the operator flattens                                         *)
(* "crash"   the process dies and comes back                               *)
AllHazards ==
    {"equity", "audit", "refuse", "answer", "cancel", "native", "flatten", "crash"}

(* ROI below every reported one stands for an absent dictionary entry; the *)
(* rest are the settings' own validators (config/settings.py).             *)
NoRoi == -1000

ASSUME MonitorAssumption ==
    /\ IsFiniteSet(Symbols)
    /\ MaxLives \in Nat
    /\ Sides \subseteq {1, -1}
    /\ Rois \subseteq Int /\ \A r \in Rois : r > NoRoi
    /\ LossLimits \subseteq Nat \ {0}
    /\ {ArmPct, BasePct, StepPct, StepIncrementPct, HardCapPct} \subseteq Nat
    /\ StepIncrementPct > 0
    /\ BasePct <= ArmPct
    /\ HardCapPct > ArmPct
    /\ Hazards \subseteq AllHazards

VARIABLES
    (* the exchange *)
    pos,       \* net position per symbol
    life,      \* how many entries the symbol has had
    dir,       \* direction of the symbol's latest entry
    stops,     \* lives for which a native stop still rests
    stray,     \* history: symbols whose position a closing order opened
    inflight,  \* market orders sent and not yet resolved, by sender and symbol
    (* PositionMonitor *)
    watched,   \* _positions: quantity, 0 for an absent symbol
    closing,   \* _closing
    native,    \* _native_stop_order_id: the life it was placed for, 0 if absent
    peak,      \* _peak_roi_pct
    stop,      \* _position_stop_loss_usdt, 0 if absent (the default of .get)
    (* the pass of _check_once under way *)
    pc,        \* "idle", "scan", "arm", "evaluate", "notify", "sent"
    cur,       \* the symbol at which the pass is suspended
    todo,      \* details still to be looked at
    fresh,     \* symbols not in previous_symbols
    gone,      \* previous_symbols - current_symbols still to be disarmed
    roi,       \* ROI% in the details this pass read
    (* flatten_all_positions *)
    flat,      \* quantities it read and has not closed yet
    (* history *)
    top,       \* the best ROI evaluated in the symbol's current life
    seen,      \* the ROI last evaluated in the current life
    adrift,    \* lives whose resting stop the process cannot know of: its
               \* answer was lost, its cancellation failed, or the process that
               \* had noted it died
    failed     \* lives whose closing order the exchange refused, or the audit
               \* line kept from being sent

exchange == <<pos, life, dir, stops, stray>>
tracked == <<watched, closing, native, peak, stop>>
pass == <<pc, cur, todo, fresh, gone, roi>>
vars == <<exchange, inflight, tracked, pass, flat, top, seen, adrift, failed>>

Senders == {"monitor", "flatten"}
None == "none"
Higher(a, b) == IF a >= b THEN a ELSE b
Open == {s \in Symbols : pos[s] # 0}
WatchedSet == {s \in Symbols : watched[s] # 0}
Zero == [s \in Symbols |-> 0]
NoRois == [s \in Symbols |-> NoRoi]

-----------------------------------------------------------------------------
(* position_monitor.py: thresholds                                         *)

(* \div is floor, as math.floor of the quotient.                           *)
TrailingStopLevel(p) == BasePct + ((p - ArmPct) \div StepIncrementPct) * StepPct

(* The three exits of _check_once for ROI r, peak p and frozen loss l.     *)
MustClose(r, p, l) ==
    \/ r <= -l
    \/ r >= HardCapPct
    \/ p >= ArmPct /\ r <= TrailingStopLevel(p)

-----------------------------------------------------------------------------
Init ==
    /\ pos = Zero /\ life = Zero /\ dir = [s \in Symbols |-> 1]
    /\ stops = [s \in Symbols |-> {}]
    /\ stray = {}
    /\ inflight = [b \in Senders |-> Zero]
    /\ watched = Zero /\ closing = {} /\ native = Zero /\ peak = NoRois /\ stop = Zero
    /\ pc = "idle" /\ cur = None /\ todo = {} /\ fresh = {} /\ gone = {} /\ roi = NoRois
    /\ flat = Zero
    /\ top = NoRois /\ seen = NoRois
    /\ adrift = [s \in Symbols |-> {}]
    /\ failed = [s \in Symbols |-> {}]

-----------------------------------------------------------------------------
(* The exchange, and entries of the scanner.                               *)

(* An entry of the scanner fills.  on_bar refuses a symbol that the        *)
(* monitor's last poll still showed open.                                  *)
Enter(s, d) ==
    /\ pos[s] = 0
    /\ watched[s] = 0
    /\ life[s] < MaxLives
    /\ pos' = [pos EXCEPT ![s] = d]
    /\ dir' = [dir EXCEPT ![s] = d]
    /\ life' = [life EXCEPT ![s] = @ + 1]
    /\ stray' = stray \ {s}
    /\ top' = [top EXCEPT ![s] = NoRoi]
    /\ seen' = [seen EXCEPT ![s] = NoRoi]
    /\ UNCHANGED <<stops, inflight, tracked, pass, flat, adrift, failed>>

(* A market order executes in full, whatever the position is by then.      *)
Execute(b, s) ==
    /\ inflight[b][s] # 0
    /\ pos' = [pos EXCEPT ![s] = @ + inflight[b][s]]
    /\ stray' = IF pos'[s] # 0 THEN stray \cup {s} ELSE stray
    /\ inflight' = [inflight EXCEPT ![b][s] = 0]
    /\ UNCHANGED <<life, dir, stops, tracked, pass, flat, top, seen, adrift, failed>>

(* The exchange refuses it, or the request never reaches it: place_order   *)
(* queues an OrderRejectEvent and returns normally.                        *)
Refuse(b, s) ==
    /\ "refuse" \in Hazards
    /\ inflight[b][s] # 0
    /\ inflight' = [inflight EXCEPT ![b][s] = 0]
    /\ failed' = IF b = "monitor" THEN [failed EXCEPT ![s] = @ \cup {life[s]}] ELSE failed
    /\ UNCHANGED <<exchange, tracked, pass, flat, top, seen, adrift>>

(* A resting stop triggers and closes the whole position.  One left over   *)
(* from an earlier entry may trigger on a later one of either side, which  *)
(* is more than the exchange does.                                         *)
NativeTrigger(s) ==
    /\ "native" \in Hazards
    /\ \E l \in stops[s] : stops' = [stops EXCEPT ![s] = @ \ {l}]
    /\ pos[s] = dir[s]
    /\ pos' = [pos EXCEPT ![s] = 0]
    /\ UNCHANGED <<life, dir, stray, inflight, tracked, pass, flat, top, seen, adrift, failed>>

-----------------------------------------------------------------------------
(* One pass of _check_once.                                                *)

EndPass ==
    /\ pc' = "idle" /\ cur' = None
    /\ todo' = {} /\ fresh' = {} /\ gone' = {} /\ roi' = NoRois

M_PollKeepsClosing(r) ==
    /\ pc = "idle"
    /\ inflight["monitor"] = Zero
    /\ closing' = closing
    /\ watched' = [s \in Symbols |-> pos[s]]
    /\ todo' = Open
    /\ fresh' = Open \ WatchedSet
    /\ gone' = WatchedSet \ Open
    /\ roi' = [s \in Symbols |-> IF s \in Open THEN r[s] ELSE NoRoi]
    /\ pc' = "scan"
    /\ UNCHANGED <<exchange, inflight, native, peak, stop, cur, flat, top, seen, adrift, failed>>
(* get_position_details answers; everything up to the first await of the   *)
(* loop over the details.  A restart takes longer than the execution of an *)
(* order that a dead process had sent, so none is in flight.               *)
Poll(r) ==
    /\ pc = "idle"
    /\ inflight["monitor"] = Zero
    /\ closing' = closing \cap Open
    /\ watched' = [s \in Symbols |-> pos[s]]
    /\ todo' = Open
    /\ fresh' = Open \ WatchedSet
    /\ gone' = WatchedSet \ Open
    /\ roi' = [s \in Symbols |-> IF s \in Open THEN r[s] ELSE NoRoi]
    /\ pc' = "scan"
    /\ UNCHANGED <<exchange, inflight, native, peak, stop, cur, flat, top, seen, adrift, failed>>

(* The loop meets a symbol that is being closed already.                   *)
SkipClosing(s) ==
    /\ pc = "scan" /\ s \in todo
    /\ s \in closing
    /\ todo' = todo \ {s}
    /\ roi' = [roi EXCEPT ![s] = NoRoi]
    /\ UNCHANGED <<exchange, inflight, tracked, pc, cur, fresh, gone, flat, top, seen, adrift, failed>>

M_FreezeStopZero(s, l) ==
    /\ pc = "scan" /\ s \in todo \cap fresh /\ s \notin closing
    /\ pc' = "arm" /\ cur' = s
    /\ UNCHANGED <<exchange, inflight, tracked, todo, fresh, gone, roi, flat, top, seen, adrift, failed>>
(* A newly seen symbol: the equity is read and the loss limit frozen.      *)
FreezeStop(s, l) ==
    /\ pc = "scan" /\ s \in todo \cap fresh /\ s \notin closing
    /\ stop' = [stop EXCEPT ![s] = l]
    /\ pc' = "arm" /\ cur' = s
    /\ UNCHANGED <<exchange, inflight, watched, closing, native, peak,
                   todo, fresh, gone, roi, flat, top, seen, adrift, failed>>

(* The equity request raises: _loop logs it and the pass is over.          *)
EquityFails(s) ==
    /\ "equity" \in Hazards
    /\ pc = "scan" /\ s \in todo \cap fresh /\ s \notin closing
    /\ EndPass
    /\ UNCHANGED <<exchange, inflight, tracked, flat, top, seen, adrift, failed>>

(* place_stop_loss answers with an order id; or it returns None for any     *)
(* exception, which is not retried: the exchange did not place the stop,   *)
(* or it did and the answer never arrived.                                 *)
ArmNativeStop ==
    /\ pc = "arm"
    /\ \/ /\ stops' = [stops EXCEPT ![cur] = @ \cup {life[cur]}]
          /\ native' = [native EXCEPT ![cur] = life[cur]]
          /\ UNCHANGED adrift
       \/ /\ "refuse" \in Hazards
          /\ UNCHANGED <<stops, native, adrift>>
       \/ /\ "answer" \in Hazards
          /\ stops' = [stops EXCEPT ![cur] = @ \cup {life[cur]}]
          /\ adrift' = [adrift EXCEPT ![cur] = @ \cup {life[cur]}]
          /\ UNCHANGED native
    /\ fresh' = fresh \ {cur}
    /\ pc' = "evaluate"
    /\ UNCHANGED <<pos, life, dir, stray, inflight, watched, closing, peak, stop,
                   cur, todo, gone, roi, flat, top, seen, failed>>

M_EvaluateForgetsPeak(s) ==
    /\ \/ pc = "scan" /\ s \in todo \ (fresh \cup closing)
       \/ pc = "evaluate" /\ s = cur
    /\ todo' = todo \ {s}
    /\ peak' = [peak EXCEPT ![s] = roi[s]]
    /\ top' = [top EXCEPT ![s] = Higher(@, roi[s])]
    /\ seen' = [seen EXCEPT ![s] = roi[s]]
    /\ roi' = [roi EXCEPT ![s] = NoRoi]
    /\ IF MustClose(roi[s], peak'[s], stop[s])
       THEN closing' = closing \cup {s} /\ pc' = "notify" /\ cur' = s
       ELSE pc' = "scan" /\ cur' = None /\ UNCHANGED closing
    /\ UNCHANGED <<exchange, inflight, watched, native, stop, fresh, gone, flat, adrift, failed>>
(* A symbol seen before, or one just armed: the peak is raised and the     *)
(* three exits are tried; a close marks the symbol and awaits              *)
(* on_close_event.                                                         *)
Evaluate(s) ==
    /\ \/ pc = "scan" /\ s \in todo \ (fresh \cup closing)
       \/ pc = "evaluate" /\ s = cur
    /\ todo' = todo \ {s}
    /\ peak' = [peak EXCEPT ![s] = Higher(@, roi[s])]
    /\ top' = [top EXCEPT ![s] = Higher(@, roi[s])]
    /\ seen' = [seen EXCEPT ![s] = roi[s]]
    /\ roi' = [roi EXCEPT ![s] = NoRoi]
    /\ \/ /\ MustClose(roi[s], peak'[s], stop[s])
          /\ closing' = closing \cup {s}
          /\ pc' = "notify" /\ cur' = s
       \/ /\ ~MustClose(roi[s], peak'[s], stop[s])
          /\ pc' = "scan" /\ cur' = None
          /\ UNCHANGED closing
    /\ UNCHANGED <<exchange, inflight, watched, native, stop, fresh, gone, flat, adrift, failed>>

(* push_audit raises: the closing order is never submitted.                *)
AuditFails ==
    /\ "audit" \in Hazards
    /\ pc = "notify"
    /\ EndPass
    /\ failed' = [failed EXCEPT ![cur] = @ \cup {life[cur]}]
    /\ UNCHANGED <<exchange, inflight, tracked, flat, top, seen, adrift>>

M_SubmitCloseAlwaysSells ==
    /\ pc = "notify"
    /\ inflight["monitor"][cur] = 0
    /\ inflight' = [inflight EXCEPT !["monitor"][cur] = -1]
    /\ pc' = "sent"
    /\ UNCHANGED <<exchange, tracked, cur, todo, fresh, gone, roi, flat, top, seen, adrift, failed>>
(* The order for the quantity of the poll goes out, opposite in sign.      *)
SubmitClose ==
    /\ pc = "notify"
    /\ inflight["monitor"][cur] = 0
    /\ inflight' = [inflight EXCEPT !["monitor"][cur] = -watched[cur]]
    /\ pc' = "sent"
    /\ UNCHANGED <<exchange, tracked, cur, todo, fresh, gone, roi, flat, top, seen, adrift, failed>>

(* futures_create_order has answered, one way or the other.                *)
CloseAnswered ==
    /\ pc = "sent"
    /\ inflight["monitor"][cur] = 0
    /\ pc' = "scan" /\ cur' = None
    /\ UNCHANGED <<exchange, inflight, tracked, todo, fresh, gone, roi, flat, top, seen, adrift, failed>>

M_DisarmKeepsOrder(s) ==
    /\ pc = "scan" /\ todo = {} /\ s \in gone
    /\ gone' = gone \ {s}
    /\ native' = [native EXCEPT ![s] = 0]
    /\ peak' = [peak EXCEPT ![s] = NoRoi]
    /\ stop' = [stop EXCEPT ![s] = 0]
    /\ UNCHANGED <<exchange, inflight, watched, closing,
                   pc, cur, todo, fresh, roi, flat, top, seen, adrift, failed>>
M_DisarmKeepsPeak(s) ==
    /\ pc = "scan" /\ todo = {} /\ s \in gone
    /\ gone' = gone \ {s}
    /\ native' = [native EXCEPT ![s] = 0]
    /\ stops' = [stops EXCEPT ![s] = @ \ {native[s]}]
    /\ stop' = [stop EXCEPT ![s] = 0]
    /\ UNCHANGED <<pos, life, dir, stray, inflight, watched, closing, peak,
                   pc, cur, todo, fresh, roi, flat, top, seen, adrift, failed>>
(* The tail of the pass: a symbol that closed loses its native stop (best  *)
(* effort: cancel_stop_loss swallows a failure), its peak and its limit.   *)
(* A stop adrift that a dead process placed for the same position stays.   *)
DisarmNativeStop(s) ==
    /\ pc = "scan" /\ todo = {} /\ s \in gone
    /\ gone' = gone \ {s}
    /\ native' = [native EXCEPT ![s] = 0]
    /\ \/ /\ stops' = [stops EXCEPT ![s] = @ \ ({native[s]} \ adrift[s])]
          /\ UNCHANGED adrift
       \/ /\ "cancel" \in Hazards
          /\ adrift' = [adrift EXCEPT ![s] = @ \cup (stops[s] \cap {native[s]})]
          /\ UNCHANGED stops
    /\ peak' = [peak EXCEPT ![s] = NoRoi]
    /\ stop' = [stop EXCEPT ![s] = 0]
    /\ UNCHANGED <<pos, life, dir, stray, inflight, watched, closing,
                   pc, cur, todo, fresh, roi, flat, top, seen, failed>>

FinishPass ==
    /\ pc = "scan" /\ todo = {} /\ gone = {}
    /\ EndPass
    /\ UNCHANGED <<exchange, inflight, tracked, flat, top, seen, adrift, failed>>

-----------------------------------------------------------------------------
(* Rival actors.                                                           *)

(* flatten_all_positions reads the positions (commands of one client are   *)
(* handled one after the other) ...                                        *)
FlattenRead ==
    /\ "flatten" \in Hazards
    /\ flat = Zero /\ inflight["flatten"] = Zero /\ Open # {}
    /\ flat' = pos
    /\ UNCHANGED <<exchange, inflight, tracked, pass, top, seen, adrift, failed>>

(* ... and later, one symbol after the other, closes what it had read.     *)
FlattenSubmit(s) ==
    /\ flat[s] # 0
    /\ inflight["flatten"] = Zero
    /\ inflight' = [inflight EXCEPT !["flatten"][s] = -flat[s]]
    /\ flat' = [flat EXCEPT ![s] = 0]
    /\ UNCHANGED <<exchange, tracked, pass, top, seen, adrift, failed>>

(* The process dies: its memory is gone, the exchange's state is not.      *)
Crash ==
    /\ "crash" \in Hazards
    /\ watched' = Zero /\ closing' = {} /\ native' = Zero /\ peak' = NoRois /\ stop' = Zero
    /\ flat' = Zero
    /\ EndPass
    /\ adrift' = [s \in Symbols |-> adrift[s] \cup stops[s]]
    /\ UNCHANGED <<exchange, inflight, top, seen, failed>>

-----------------------------------------------------------------------------
PassStep ==
    \/ \E s \in Symbols : \/ SkipClosing(s)
                          \/ \E l \in LossLimits : FreezeStop(s, l)
                          \/ EquityFails(s)
                          \/ Evaluate(s)
                          \/ DisarmNativeStop(s)
    \/ ArmNativeStop
    \/ AuditFails
    \/ SubmitClose
    \/ CloseAnswered
    \/ FinishPass

PollAny == \E r \in [Open -> Rois] : Poll(r)

Next ==
    \/ \E s \in Symbols, d \in Sides : Enter(s, d)
    \/ \E b \in Senders, s \in Symbols : Execute(b, s) \/ Refuse(b, s)
    \/ \E s \in Symbols : NativeTrigger(s)
    \/ PollAny
    \/ PassStep
    \/ FlattenRead
    \/ \E s \in Symbols : FlattenSubmit(s)
    \/ Crash

Spec == Init /\ [][Next]_vars

(* The loop polls every poll_interval_s and never stays in a pass, and the *)
(* exchange resolves every order it was sent.                              *)
Fairness ==
    /\ WF_vars(PollAny)
    /\ WF_vars(PassStep)
    /\ \A b \in Senders, s \in Symbols : WF_vars(Execute(b, s) \/ Refuse(b, s))

FairSpec == Spec /\ Fairness

-----------------------------------------------------------------------------
(* Type invariant of the exchange, the monitor and the pass under way.     *)
TypeOK ==
    /\ pos \in [Symbols -> Int]
    /\ life \in [Symbols -> 0 .. MaxLives]
    /\ dir \in [Symbols -> {1, -1}]
    /\ stops \in [Symbols -> SUBSET (1 .. MaxLives)]
    /\ stray \subseteq Symbols
    /\ inflight \in [Senders -> [Symbols -> Int]]
    /\ watched \in [Symbols -> Int]
    /\ closing \subseteq Symbols
    /\ native \in [Symbols -> 0 .. MaxLives]
    /\ peak \in [Symbols -> Rois \cup {NoRoi}]
    /\ stop \in [Symbols -> LossLimits \cup {0}]
    /\ pc \in {"idle", "scan", "arm", "evaluate", "notify", "sent"}
    /\ cur \in Symbols \cup {None}
    /\ todo \subseteq Symbols /\ fresh \subseteq Symbols /\ gone \subseteq Symbols
    /\ roi \in [Symbols -> Rois \cup {NoRoi}]
    /\ flat \in [Symbols -> Int]
    /\ top \in [Symbols -> Rois \cup {NoRoi}]
    /\ seen \in [Symbols -> Rois \cup {NoRoi}]
    /\ adrift \in [Symbols -> SUBSET (1 .. MaxLives)]
    /\ failed \in [Symbols -> SUBSET (1 .. MaxLives)]

(* Closing orders only ever reduce exposure: whatever closes a position,   *)
(* and however often, the symbol never ends up on the other side of the    *)
(* market (_close_position: "this order only ever REDUCES exposure").      *)
OnlyReduces == \A s \in Symbols : pos[s] \in {0, dir[s]}

(* A watched position whose first look is over has the loss limit frozen   *)
(* from equity, never the default 0 that would close it on any loss        *)
(* (module docstring: "the first time a position is seen, current equity   *)
(* is read once and ... frozen").                                          *)
StopLossFrozen ==
    \A s \in WatchedSet \ (fresh \cup closing) : stop[s] \in LossLimits

(* A position of the scanner that is held and not being closed was, at its *)
(* last look, above its loss limit, below the hard cap and above the       *)
(* trailing level of the best profit of its life.                          *)
HeldWithinExits ==
    \A s \in Symbols \ (stray \cup fresh \cup closing) :
        watched[s] # 0 /\ pos[s] = watched[s] /\ seen[s] # NoRoi =>
            ~MustClose(seen[s], top[s], stop[s])

(* The peak behind the trailing stop was reached by this position, not by  *)
(* an earlier one in the same symbol.                                      *)
PeakIsOwn ==
    \A s \in Symbols \ (stray \cup fresh \cup closing) :
        watched[s] # 0 => peak[s] <= top[s]

(* A native stop that rests on the exchange is one the monitor has noted   *)
(* and will cancel once its position is closed ("disarms it once the       *)
(* position is closed by any other means"), unless it is adrift: the       *)
(* answer to placing it was lost, its cancellation failed, or the process  *)
(* that had noted it died.  An entry in the same symbol between two polls  *)
(* leaves none behind; a pass that raises before its disarming tail may,   *)
(* and is left out of the runs and the theorem.                            *)
NoOrphanStop == \A s \in Symbols : stops[s] \subseteq {native[s]} \cup adrift[s]

(* No stop order rests for a symbol that the monitor, between two passes,  *)
(* takes for closed ("disarms it once the position is closed by any other  *)
(* means").  It fails: a stop adrift rests on (see the README).            *)
DisarmedOnceClosed ==
    \A s \in Symbols : pc = "idle" /\ watched[s] = 0 => stops[s] = {}

(* A position the monitor decided to close gets closed on the exchange     *)
(* (module docstring: "closes a position the instant it hits the stop-loss *)
(* threshold or a trailing profit stop"), whatever becomes of the passes   *)
(* and of the other symbols, with two exceptions.  The process dies: the   *)
(* restarted monitor, which watches nothing until its first poll, judges   *)
(* the position anew.  Or the closing order is refused, or the audit line  *)
(* before it raises: then the symbol stays in _closing and every later     *)
(* pass skips the position, however far it falls.                          *)
ClosingCompletes ==
    \A s \in Symbols, l \in 1 .. MaxLives :
        (s \in closing /\ life[s] = l) ~>
            (pos[s] = 0 \/ life[s] > l \/ watched[s] = 0 \/ l \in failed[s])
=============================================================================
