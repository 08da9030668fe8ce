------------------------ MODULE PositionMonitorProofs ------------------------
(* What holds of PositionMonitor for every universe, every number of lives *)
(* of a symbol, every ROI and every setting.                               *)
EXTENDS PositionMonitor, TLAPS

(* A symbol that was never entered has no trace anywhere, so the native    *)
(* stop of a watched position is numbered from 1.                          *)
LifeInv ==
    \A s \in Symbols : life[s] = 0 =>
        /\ pos[s] = 0 /\ watched[s] = 0 /\ flat[s] = 0
        /\ \A b \in Senders : inflight[b][s] = 0

(* Where a pass of _check_once is, and what its sets have to do with       *)
(* _positions and _closing.                                                *)
PassInv ==
    /\ pc = "idle" => todo = {} /\ fresh = {} /\ gone = {}
    /\ pc \in {"arm", "evaluate"} => cur \in todo
    /\ pc = "arm" => cur \in fresh
    /\ pc = "evaluate" => cur \notin fresh
    /\ pc \in {"notify", "sent"} => cur \in WatchedSet \ (todo \cup fresh)
    /\ fresh \subseteq todo \ closing
    /\ todo \cup closing \subseteq WatchedSet
    /\ gone \cap WatchedSet = {}

MonitorInv == TypeOK /\ LifeInv /\ PassInv

(* The better of two reported ROIs is one of them.                         *)
LEMMA HigherType ==
    ASSUME NEW R, NEW a \in R, NEW b \in R
    PROVE  Higher(a, b) \in R
BY DEF Higher

(* The monitor starts with nothing watched and no pass under way.          *)
LEMMA MonitorInit == Init => MonitorInv
<1> SUFFICES ASSUME Init PROVE MonitorInv
  OBVIOUS
<1>1. TypeOK
  BY MonitorAssumption DEF Init, TypeOK, Zero, NoRois, Senders
<1>2. LifeInv /\ PassInv
  BY DEF Init, LifeInv, PassInv, Zero, Senders, WatchedSet
<1> QED BY <1>1, <1>2 DEF MonitorInv

(* What the exchange, the operator and a restart do keeps the invariant.   *)
LEMMA MarketKeeps ==
    ASSUME MonitorInv,
           \/ \E s \in Symbols, d \in Sides : Enter(s, d)
           \/ \E b \in Senders, s \in Symbols : Execute(b, s) \/ Refuse(b, s)
           \/ \E s \in Symbols : NativeTrigger(s)
           \/ FlattenRead
           \/ \E s \in Symbols : FlattenSubmit(s)
           \/ Crash
    PROVE  MonitorInv'
<1> USE MonitorAssumption DEF MonitorInv, TypeOK, LifeInv, PassInv, WatchedSet, Senders,
        exchange, tracked, pass
<1>1. ASSUME NEW s \in Symbols, NEW d \in Sides, Enter(s, d) PROVE MonitorInv'
  <2>1. d \in {1, -1}
    OBVIOUS
  <2> QED BY <1>1, <2>1 DEF Enter
<1>2. ASSUME NEW b \in Senders, NEW s \in Symbols, Execute(b, s) PROVE MonitorInv'
  <2>1. inflight' \in [Senders -> [Symbols -> Int]]
    BY <1>2 DEF Execute
  <2>2. pos' \in [Symbols -> Int] /\ stray' \subseteq Symbols
    BY <1>2 DEF Execute
  <2>3. LifeInv'
    BY <1>2 DEF Execute
  <2>4. PassInv'
    BY <1>2 DEF Execute
  <2> QED BY <1>2, <2>1, <2>2, <2>3, <2>4 DEF Execute
<1>3. ASSUME NEW b \in Senders, NEW s \in Symbols, Refuse(b, s) PROVE MonitorInv'
  <2>1. inflight' \in [Senders -> [Symbols -> Int]]
    BY <1>3 DEF Refuse
  <2>2. LifeInv'
    BY <1>3 DEF Refuse
  <2>3. life[s] \in 1 .. MaxLives
    BY <1>3 DEF Refuse
  <2>4. failed' \in [Symbols -> SUBSET (1 .. MaxLives)]
    <3>1. CASE failed' = [failed EXCEPT ![s] = @ \cup {life[s]}]
      BY <3>1, <2>3
    <3>2. CASE UNCHANGED failed
      BY <3>2
    <3> QED BY <1>3, <3>1, <3>2 DEF Refuse
  <2> QED BY <1>3, <2>1, <2>2, <2>4 DEF Refuse
<1>4. ASSUME NEW s \in Symbols, NativeTrigger(s) PROVE MonitorInv'
  <2>1. stops' \in [Symbols -> SUBSET (1 .. MaxLives)]
    BY <1>4 DEF NativeTrigger
  <2> QED BY <1>4, <2>1 DEF NativeTrigger
<1>5. CASE FlattenRead
  BY <1>5 DEF FlattenRead
<1>6. ASSUME NEW s \in Symbols, FlattenSubmit(s) PROVE MonitorInv'
  <2>1. inflight' \in [Senders -> [Symbols -> Int]]
    BY <1>6 DEF FlattenSubmit
  <2>2. flat' \in [Symbols -> Int]
    BY <1>6 DEF FlattenSubmit
  <2>3. LifeInv'
    BY <1>6 DEF FlattenSubmit
  <2> QED BY <1>6, <2>1, <2>2, <2>3 DEF FlattenSubmit
<1>7. CASE Crash
  BY <1>7 DEF Crash, EndPass, Zero, NoRois
<1> QED BY <1>1, <1>2, <1>3, <1>4, <1>5, <1>6, <1>7

(* So does every step of a pass.                                           *)
LEMMA PassKeeps ==
    ASSUME MonitorInv, PollAny \/ PassStep
    PROVE  MonitorInv'
<1> USE MonitorAssumption DEF MonitorInv, TypeOK, LifeInv, PassInv, WatchedSet, Senders,
        exchange, tracked, pass
<1>1. ASSUME NEW r \in [Open -> Rois], Poll(r) PROVE MonitorInv'
  <2>1. roi' \in [Symbols -> Rois \cup {NoRoi}]
    BY <1>1 DEF Poll
  <2>2. PassInv'
    BY <1>1 DEF Poll, Open
  <2> QED BY <1>1, <2>1, <2>2 DEF Poll, Open
<1>2. ASSUME NEW s \in Symbols, SkipClosing(s) PROVE MonitorInv'
  <2>1. roi' \in [Symbols -> Rois \cup {NoRoi}]
    BY <1>2 DEF SkipClosing
  <2> QED BY <1>2, <2>1 DEF SkipClosing
<1>3. ASSUME NEW s \in Symbols, NEW l \in LossLimits, FreezeStop(s, l) PROVE MonitorInv'
  <2>1. stop' \in [Symbols -> LossLimits \cup {0}]
    BY <1>3 DEF FreezeStop
  <2> QED BY <1>3, <2>1 DEF FreezeStop
<1>4. ASSUME EndPass, UNCHANGED <<exchange, inflight, tracked, flat, top, seen, adrift>>,
             failed' \in [Symbols -> SUBSET (1 .. MaxLives)]
     PROVE  MonitorInv'
  BY <1>4 DEF EndPass, NoRois
<1>5. ASSUME NEW s \in Symbols, EquityFails(s) PROVE MonitorInv'
  BY <1>4, <1>5 DEF EquityFails
<1>6. ASSUME NEW s \in Symbols, Evaluate(s) PROVE MonitorInv'
  <2>1. /\ peak' \in [Symbols -> Rois \cup {NoRoi}]
        /\ top' \in [Symbols -> Rois \cup {NoRoi}]
    BY <1>6, HigherType DEF Evaluate
  <2>2. /\ seen' \in [Symbols -> Rois \cup {NoRoi}]
        /\ roi' \in [Symbols -> Rois \cup {NoRoi}]
    BY <1>6 DEF Evaluate
  <2>3. /\ closing' \subseteq Symbols
        /\ pc' \in {"scan", "notify"}
        /\ cur' \in Symbols \cup {None}
        /\ todo' \subseteq Symbols
    BY <1>6 DEF Evaluate
  <2>4. s \in todo /\ s \notin fresh
    BY <1>6 DEF Evaluate
  <2>5. PassInv'
    BY <1>6, <2>4 DEF Evaluate
  <2> QED BY <1>6, <2>1, <2>2, <2>3, <2>5 DEF Evaluate
<1>7. ASSUME NEW s \in Symbols, DisarmNativeStop(s) PROVE MonitorInv'
  <2>1. /\ stops' \in [Symbols -> SUBSET (1 .. MaxLives)]
        /\ adrift' \in [Symbols -> SUBSET (1 .. MaxLives)]
    <3>1. CASE /\ stops' = [stops EXCEPT ![s] = @ \ ({native[s]} \ adrift[s])]
               /\ UNCHANGED adrift
      BY <3>1
    <3>2. CASE /\ adrift' = [adrift EXCEPT ![s] = @ \cup (stops[s] \cap {native[s]})]
               /\ UNCHANGED stops
      BY <3>2
    <3> QED BY <1>7, <3>1, <3>2 DEF DisarmNativeStop
  <2>2. /\ native' \in [Symbols -> 0 .. MaxLives]
        /\ peak' \in [Symbols -> Rois \cup {NoRoi}]
        /\ stop' \in [Symbols -> LossLimits \cup {0}]
    BY <1>7 DEF DisarmNativeStop
  <2> QED BY <1>7, <2>1, <2>2 DEF DisarmNativeStop
<1>8. CASE ArmNativeStop
  <2>1. cur \in Symbols /\ life[cur] \in 1 .. MaxLives
    BY <1>8 DEF ArmNativeStop
  <2>2. /\ stops' \in [Symbols -> SUBSET (1 .. MaxLives)]
        /\ native' \in [Symbols -> 0 .. MaxLives]
        /\ adrift' \in [Symbols -> SUBSET (1 .. MaxLives)]
    <3>1. CASE UNCHANGED <<stops, native, adrift>>
      BY <3>1
    <3>2. CASE /\ stops' = [stops EXCEPT ![cur] = @ \cup {life[cur]}]
               /\ native' = [native EXCEPT ![cur] = life[cur]]
               /\ UNCHANGED adrift
      BY <3>2, <2>1
    <3>3. CASE /\ stops' = [stops EXCEPT ![cur] = @ \cup {life[cur]}]
               /\ adrift' = [adrift EXCEPT ![cur] = @ \cup {life[cur]}]
               /\ UNCHANGED native
      BY <3>3, <2>1
    <3> QED BY <1>8, <3>1, <3>2, <3>3 DEF ArmNativeStop
  <2>3. PassInv'
    BY <1>8 DEF ArmNativeStop
  <2> QED BY <1>8, <2>2, <2>3 DEF ArmNativeStop
<1>9. CASE AuditFails
  <2>1. cur \in Symbols /\ life[cur] \in 1 .. MaxLives
    BY <1>9 DEF AuditFails
  <2>2. failed' \in [Symbols -> SUBSET (1 .. MaxLives)]
    BY <1>9, <2>1 DEF AuditFails
  <2> QED BY <1>4, <1>9, <2>2 DEF AuditFails
<1>10. CASE SubmitClose
  <2>1. cur \in Symbols /\ -watched[cur] \in Int
    BY <1>10 DEF SubmitClose
  <2>2. inflight' \in [Senders -> [Symbols -> Int]]
    BY <1>10, <2>1 DEF SubmitClose
  <2>3. LifeInv'
    BY <1>10, <2>1 DEF SubmitClose
  <2> QED BY <1>10, <2>2, <2>3 DEF SubmitClose
<1>11. CASE CloseAnswered
  BY <1>11 DEF CloseAnswered
<1>12. CASE FinishPass
  BY <1>4, <1>12 DEF FinishPass
<1> QED
  BY <1>1, <1>2, <1>3, <1>5, <1>6, <1>7, <1>8, <1>9, <1>10, <1>11, <1>12 DEF PollAny, PassStep

(* The invariant of the exchange, the monitor and the pass.                *)
LEMMA MonitorInvariant == Spec => []MonitorInv
<1>1. MonitorInv /\ [Next]_vars => MonitorInv'
  <2>1. ASSUME MonitorInv, Next PROVE MonitorInv'
    BY <2>1, MarketKeeps, PassKeeps DEF Next
  <2>2. ASSUME MonitorInv, UNCHANGED vars PROVE MonitorInv'
    BY <2>2 DEF MonitorInv, TypeOK, LifeInv, PassInv, WatchedSet, vars, exchange, tracked, pass
  <2> QED BY <2>1, <2>2
<1> QED BY MonitorInit, <1>1, PTL DEF Spec

(* Type correctness of the exchange, the monitor and the pass, whatever    *)
(* fails and whoever else acts.                                            *)
THEOREM TypeCorrect == Spec => []TypeOK
BY MonitorInvariant, PTL DEF MonitorInv
-----------------------------------------------------------------------------
(* A pass that starts runs to its end: the equity request answers, and if  *)
(* the audit hook may raise, there is no second symbol whose turn is lost. *)
(* (An exception leaves _check_once in the middle, after _positions was    *)
(* replaced: the next poll takes a symbol that was not reached for one     *)
(* seen before.)                                                           *)
PassesComplete ==
    /\ "equity" \notin Hazards
    /\ "audit" \in Hazards => \A s, t \in Symbols : s = t

PassEnds ==
    /\ fresh = {} /\ gone = {}
    /\ EndPass
    /\ UNCHANGED <<exchange, inflight, tracked, flat, top, seen, adrift>>

(* Then no symbol is left unlooked-at or undisarmed by the end of a pass.  *)
LEMMA PassCases ==
    ASSUME MonitorInv, PassesComplete, PassStep
    PROVE  \/ \E s \in Symbols : \/ SkipClosing(s)
                                 \/ \E l \in LossLimits : FreezeStop(s, l)
                                 \/ Evaluate(s)
                                 \/ DisarmNativeStop(s)
           \/ ArmNativeStop
           \/ SubmitClose
           \/ CloseAnswered
           \/ PassEnds
<1> USE DEF MonitorInv, TypeOK, PassInv, PassesComplete, WatchedSet
<1>1. \A s \in Symbols : ~EquityFails(s)
  BY DEF EquityFails
<1>2. ASSUME AuditFails PROVE PassEnds
  <2>1. cur \in WatchedSet \ (todo \cup fresh) /\ \A t \in Symbols : t = cur
    BY <1>2 DEF AuditFails
  <2>2. fresh = {} /\ gone = {}
    BY <2>1
  <2> QED BY <1>2, <2>2 DEF AuditFails, PassEnds
<1>3. ASSUME FinishPass PROVE PassEnds
  BY <1>3 DEF FinishPass, PassEnds
<1> QED BY <1>1, <1>2, <1>3 DEF PassStep

(* The loss limit is written before the stop order is placed, and what     *)
(* leaves a symbol unwatched takes it out of the claim.                    *)
FrozenInv ==
    /\ StopLossFrozen
    /\ pc = "arm" => stop[cur] \in LossLimits

(* No position is ever watched, past its first look, under the default     *)
(* limit 0: the limit is frozen when it is first seen, and it survives     *)
(* until the poll that finds the position closed.                          *)
THEOREM LimitsFrozen == PassesComplete => (Spec => []StopLossFrozen)
<1> SUFFICES ASSUME PassesComplete PROVE Spec => []StopLossFrozen
  OBVIOUS
<1>1. Init => FrozenInv
  BY DEF Init, FrozenInv, StopLossFrozen, WatchedSet, Zero
<1>2. MonitorInv /\ FrozenInv /\ [Next]_vars => FrozenInv'
  <2> SUFFICES ASSUME MonitorInv, FrozenInv, [Next]_vars PROVE FrozenInv'
    OBVIOUS
  <2> USE DEF FrozenInv, StopLossFrozen, MonitorInv, TypeOK, PassInv, WatchedSet,
          exchange, tracked, pass
  <2>1. CASE UNCHANGED <<tracked, pass>>
    BY <2>1
  <2>2. ASSUME NEW r \in [Open -> Rois], Poll(r) PROVE FrozenInv'
    <3>1. /\ pc = "idle" /\ pc' = "scan" /\ fresh = {} /\ UNCHANGED stop
          /\ fresh' = Open \ WatchedSet /\ closing' = closing \cap Open
      BY <2>2 DEF Poll
    <3>2. \A s \in Symbols : watched'[s] = pos[s]
      BY <2>2 DEF Poll
    <3>3. ASSUME NEW s \in WatchedSet' \ (fresh' \cup closing') PROVE stop'[s] \in LossLimits
      <4>1. s \in WatchedSet \ (fresh \cup closing)
        BY <3>1, <3>2 DEF Open
      <4> QED BY <3>1, <4>1
    <3> QED BY <3>1, <3>3
  <2>3. ASSUME NEW s \in Symbols, SkipClosing(s) \/ DisarmNativeStop(s) PROVE FrozenInv'
    <3>1. CASE SkipClosing(s)
      BY <3>1 DEF SkipClosing
    <3>2. CASE DisarmNativeStop(s)
      <4>1. /\ UNCHANGED <<watched, closing, pc, fresh>> /\ pc = "scan"
            /\ s \notin WatchedSet /\ stop' = [stop EXCEPT ![s] = 0]
        BY <3>2 DEF DisarmNativeStop
      <4> QED BY <4>1
    <3> QED BY <2>3, <3>1, <3>2
  <2>4. ASSUME NEW s \in Symbols, NEW l \in LossLimits, FreezeStop(s, l) PROVE FrozenInv'
    BY <2>4 DEF FreezeStop
  <2>5. CASE PassEnds
    BY <2>5 DEF PassEnds, EndPass
  <2>6. ASSUME NEW s \in Symbols, Evaluate(s) PROVE FrozenInv'
    BY <2>6 DEF Evaluate
  <2>7. CASE ArmNativeStop
    BY <2>7 DEF ArmNativeStop
  <2>8. CASE SubmitClose \/ CloseAnswered
    BY <2>8 DEF SubmitClose, CloseAnswered
  <2>9. CASE Crash
    BY <2>9 DEF Crash, EndPass, Zero
  <2>10. ASSUME \/ \E s \in Symbols, d \in Sides : Enter(s, d)
                \/ \E b \in Senders, s \in Symbols : Execute(b, s) \/ Refuse(b, s)
                \/ \E s \in Symbols : NativeTrigger(s) \/ FlattenSubmit(s)
                \/ FlattenRead
                \/ UNCHANGED vars
         PROVE  UNCHANGED <<tracked, pass>>
    BY <2>10 DEF Enter, Execute, Refuse, NativeTrigger, FlattenSubmit, FlattenRead, vars
  <2>11. CASE PassStep
    BY <2>11, PassCases, <2>3, <2>4, <2>5, <2>6, <2>7, <2>8
  <2> QED BY <2>1, <2>2, <2>9, <2>10, <2>11 DEF Next, PollAny
<1>3. FrozenInv => StopLossFrozen
  BY DEF FrozenInv
<1> QED BY <1>1, <1>2, <1>3, MonitorInvariant, PTL DEF Spec
-----------------------------------------------------------------------------
(* What a symbol leaves behind when the monitor is done with it: nothing.  *)
(* A symbol is out of the monitor's sight when it is neither watched nor   *)
(* waiting to be disarmed, and it comes back into it as a fresh one.       *)
OutOfSight(s) == s \notin gone /\ (watched[s] = 0 \/ s \in fresh)

PeakInv ==
    \A s \in Symbols :
        /\ OutOfSight(s) => peak[s] = NoRoi
        /\ watched[s] # 0 => peak[s] <= top[s]

(* "No ROI yet" is a number below every ROI the exchange reports.          *)
LEMMA NoRoiType == NoRoi \in Int /\ \A r \in Rois \cup {NoRoi} : r \in Int /\ NoRoi <= r
BY MonitorAssumption DEF NoRoi

(* Of all the steps only these touch what the claims about a position's    *)
(* own peak and own stop order are about.                                  *)
LEMMA OtherSteps ==
    ASSUME [Next]_vars, ~PollAny, ~PassStep, ~Crash
    PROVE  /\ UNCHANGED <<tracked, pass, adrift>>
           /\ \/ \E s \in Symbols, d \in Sides : Enter(s, d)
              \/ \E b \in Senders, s \in Symbols : Execute(b, s)
              \/ \E s \in Symbols : NativeTrigger(s)
              \/ UNCHANGED <<exchange, top, seen>>
BY DEF Next, vars, exchange, tracked, Enter, Execute, Refuse, NativeTrigger,
       FlattenSubmit, FlattenRead

(* A watched position's peak is at most the best ROI of its own life.      *)
LEMMA PeakInvariant == PassesComplete => (Spec => []PeakInv)
<1> SUFFICES ASSUME PassesComplete PROVE Spec => []PeakInv
  OBVIOUS
<1>1. Init => PeakInv
  BY NoRoiType DEF Init, PeakInv, OutOfSight, Zero, NoRois
<1>2. MonitorInv /\ PeakInv /\ [Next]_vars => PeakInv'
  <2> SUFFICES ASSUME MonitorInv, PeakInv, [Next]_vars PROVE PeakInv'
    OBVIOUS
  <2> USE DEF PeakInv, OutOfSight, MonitorInv, TypeOK, PassInv, WatchedSet,
          exchange, tracked, pass
  <2>1. ASSUME NEW r \in [Open -> Rois], Poll(r) PROVE PeakInv'
    <3> SUFFICES ASSUME NEW s \in Symbols
                 PROVE  PeakInv!(s)'
      OBVIOUS
    <3>1. gone = {} /\ fresh = {}
      BY <2>1 DEF Poll
    <3>2. CASE watched[s] = 0
      <4>1. peak[s] = NoRoi
        BY <3>1, <3>2
      <4>2. peak[s] <= top[s]
        BY <4>1, NoRoiType
      <4> QED BY <4>1, <4>2, <2>1 DEF Poll, Open
    <3>3. CASE watched[s] # 0
      BY <3>1, <3>3, <2>1 DEF Poll, Open
    <3> QED BY <3>2, <3>3
  <2>2. ASSUME NEW s \in Symbols, SkipClosing(s) PROVE PeakInv'
    BY <2>2 DEF SkipClosing
  <2>3. ASSUME NEW s \in Symbols, DisarmNativeStop(s) PROVE PeakInv'
    BY <2>3 DEF DisarmNativeStop
  <2>4. ASSUME NEW s \in Symbols, NEW l \in LossLimits, FreezeStop(s, l) PROVE PeakInv'
    BY <2>4 DEF FreezeStop
  <2>5. CASE PassEnds
    BY <2>5 DEF PassEnds, EndPass
  <2>6. ASSUME NEW s \in Symbols, Evaluate(s) PROVE PeakInv'
    <3>1. watched[s] # 0 /\ s \notin fresh
      BY <2>6 DEF Evaluate
    <3>2. Higher(peak[s], roi[s]) <= Higher(top[s], roi[s])
      <4>1. peak[s] \in Int /\ top[s] \in Int /\ roi[s] \in Int
        BY NoRoiType
      <4> QED BY <3>1, <4>1 DEF Higher
    <3>3. \A t \in Symbols : t # s => peak'[t] = peak[t] /\ top'[t] = top[t]
      BY <2>6 DEF Evaluate
    <3>4. /\ peak'[s] = Higher(peak[s], roi[s])
          /\ top'[s] = Higher(top[s], roi[s])
          /\ UNCHANGED <<watched, fresh, gone>>
      BY <2>6 DEF Evaluate
    <3> QED BY <3>1, <3>2, <3>3, <3>4
  <2>7. CASE ArmNativeStop
    BY <2>7 DEF ArmNativeStop
  <2>8. CASE SubmitClose \/ CloseAnswered
    BY <2>8 DEF SubmitClose, CloseAnswered
  <2>9. CASE Crash
    BY <2>9 DEF Crash, EndPass, Zero, NoRois
  <2>10. CASE ~PollAny /\ ~PassStep /\ ~Crash
    <3>1. ASSUME NEW s \in Symbols, NEW d \in Sides, Enter(s, d) PROVE PeakInv'
      BY <3>1 DEF Enter
    <3>2. CASE UNCHANGED <<tracked, pass, top>>
      BY <3>2
    <3> QED BY <3>1, <3>2, <2>10, OtherSteps DEF Execute, NativeTrigger
  <2> QED BY <2>1, <2>2, <2>3, <2>4, <2>5, <2>6, <2>7, <2>8, <2>9, <2>10, PassCases DEF PollAny
<1> QED BY <1>1, <1>2, MonitorInvariant, PTL DEF Spec

(* The trailing stop never works with a peak inherited from an earlier     *)
(* position in the symbol: the pass that finds a position closed forgets   *)
(* its peak before the symbol can be seen again.                           *)
THEOREM PeaksAreOwn == PassesComplete => (Spec => []PeakIsOwn)
<1>1. PeakInv => PeakIsOwn
  BY DEF PeakInv, PeakIsOwn
<1> QED BY <1>1, PeakInvariant, PTL
-----------------------------------------------------------------------------
(* The stop that rests is the one the monitor has noted or one adrift, and *)
(* for a symbol out of its sight nothing is noted.                         *)
StopsInv ==
    /\ NoOrphanStop
    /\ \A s \in Symbols : OutOfSight(s) => native[s] = 0 /\ stops[s] \subseteq adrift[s]

(* Through refused orders, lost answers, failed cancellations, crashes and *)
(* native stops that trigger: if passes complete, no STOP_MARKET order     *)
(* rests unnoted but one whose answer or cancellation was lost or whose    *)
(* process died.  The rest are armed once per position, noted, and         *)
(* cancelled by the pass that finds the position closed, before the symbol *)
(* can be armed again and the note overwritten.                            *)
THEOREM StopsAreKnown == PassesComplete => (Spec => []NoOrphanStop)
<1> SUFFICES ASSUME PassesComplete PROVE Spec => []NoOrphanStop
  OBVIOUS
<1>1. Init => StopsInv
  BY DEF Init, StopsInv, NoOrphanStop, OutOfSight, Zero
<1>2. MonitorInv /\ StopsInv /\ [Next]_vars => StopsInv'
  <2> SUFFICES ASSUME MonitorInv, StopsInv, [Next]_vars PROVE StopsInv'
    OBVIOUS
  <2> USE DEF StopsInv, NoOrphanStop, OutOfSight, MonitorInv, TypeOK, PassInv, WatchedSet,
          exchange, tracked, pass
  <2>1. ASSUME NEW r \in [Open -> Rois], Poll(r) PROVE StopsInv'
    <3>1. gone = {} /\ fresh = {}
      BY <2>1 DEF Poll
    <3>2. UNCHANGED <<stops, native, adrift>>
      BY <2>1 DEF Poll
    <3>3. ASSUME NEW s \in Symbols, OutOfSight(s)' PROVE watched[s] = 0
      BY <2>1, <3>3 DEF Poll, Open
    <3> QED BY <3>1, <3>2, <3>3
  <2>2. ASSUME NEW s \in Symbols, SkipClosing(s) \/ Evaluate(s) PROVE StopsInv'
    BY <2>2 DEF SkipClosing, Evaluate
  <2>3. ASSUME NEW s \in Symbols, NEW l \in LossLimits, FreezeStop(s, l) PROVE StopsInv'
    BY <2>3 DEF FreezeStop
  <2>4. ASSUME NEW s \in Symbols, DisarmNativeStop(s) PROVE StopsInv'
    <3>1. /\ native' = [native EXCEPT ![s] = 0]
          /\ UNCHANGED <<watched, fresh>>
          /\ gone' = gone \ {s}
      BY <2>4 DEF DisarmNativeStop
    <3>2. /\ stops'[s] \subseteq adrift'[s]
          /\ \A t \in Symbols : t # s => stops'[t] = stops[t] /\ adrift'[t] = adrift[t]
      <4>1. CASE /\ stops' = [stops EXCEPT ![s] = @ \ ({native[s]} \ adrift[s])]
                 /\ UNCHANGED adrift
        BY <4>1
      <4>2. CASE /\ adrift' = [adrift EXCEPT ![s] = @ \cup (stops[s] \cap {native[s]})]
                 /\ UNCHANGED stops
        BY <4>2
      <4> QED BY <2>4, <4>1, <4>2 DEF DisarmNativeStop
    <3>3. \A t \in Symbols : t # s => native'[t] = native[t]
      BY <3>1
    <3> QED BY <3>1, <3>2, <3>3
  <2>5. CASE ArmNativeStop
    <3>1. cur \in Symbols /\ cur \in fresh /\ OutOfSight(cur)
      BY <2>5 DEF ArmNativeStop
    <3>2. \A t \in Symbols : OutOfSight(t)' => OutOfSight(t) /\ t # cur
      BY <2>5, <3>1 DEF ArmNativeStop
    <3>3. \A t \in Symbols : t # cur =>
             stops'[t] = stops[t] /\ native'[t] = native[t] /\ adrift'[t] = adrift[t]
      BY <2>5, <3>1 DEF ArmNativeStop
    <3>4. stops'[cur] \subseteq {native'[cur]} \cup adrift'[cur]
      <4>1. stops[cur] \subseteq adrift[cur]
        BY <3>1
      <4> QED BY <2>5, <3>1, <4>1 DEF ArmNativeStop
    <3>5. \A t \in Symbols : stops'[t] \subseteq {native'[t]} \cup adrift'[t]
      BY <3>3, <3>4
    <3>6. \A t \in Symbols : OutOfSight(t)' => native'[t] = 0 /\ stops'[t] \subseteq adrift'[t]
      <4> SUFFICES ASSUME NEW t \in Symbols, OutOfSight(t)'
                   PROVE  native'[t] = 0 /\ stops'[t] \subseteq adrift'[t]
        OBVIOUS
      <4>1. OutOfSight(t) /\ t # cur
        BY <3>2
      <4> QED BY <4>1, <3>3
    <3> QED BY <3>5, <3>6
  <2>6. CASE SubmitClose \/ CloseAnswered
    BY <2>6 DEF SubmitClose, CloseAnswered
  <2>7. CASE PassEnds
    BY <2>7 DEF PassEnds, EndPass
  <2>8. CASE Crash
    <3>1. \A s \in Symbols : stops'[s] \subseteq adrift'[s] /\ native'[s] = 0
      BY <2>8 DEF Crash, Zero
    <3> QED BY <3>1
  <2>9. CASE ~PollAny /\ ~PassStep /\ ~Crash
    <3>1. UNCHANGED <<native, watched, gone, fresh, adrift>>
      BY <2>9, OtherSteps
    <3>2. \A s \in Symbols : stops'[s] \subseteq stops[s]
      BY <2>9, OtherSteps DEF Enter, Execute, NativeTrigger
    <3> QED BY <3>1, <3>2
  <2> QED BY <2>1, <2>2, <2>3, <2>4, <2>5, <2>6, <2>7, <2>8, <2>9, PassCases DEF PollAny
<1>3. StopsInv => NoOrphanStop
  BY DEF StopsInv
<1> QED BY <1>1, <1>2, <1>3, MonitorInvariant, PTL DEF Spec
-----------------------------------------------------------------------------
(* A scanner's position that the monitor has not seen has no history of    *)
(* its own; once watched, the monitor's peak is the best ROI of its life,  *)
(* and the last look it survived is one it had to survive.                 *)
HeldInv ==
    \A s \in Symbols \ stray :
        /\ watched[s] = 0 /\ pos[s] # 0 => top[s] = NoRoi /\ seen[s] = NoRoi
        /\ watched[s] # 0 => peak[s] = top[s]
        /\ s \in fresh => seen[s] = NoRoi
        /\ s \notin fresh \cup closing /\ watched[s] # 0 /\ seen[s] # NoRoi =>
              ~MustClose(seen[s], top[s], stop[s])

(* While the process lives, a position that the monitor goes on holding    *)
(* was within its exits when last looked at, measured against the best     *)
(* profit of its own life.                                                 *)
THEOREM HoldsOnlyWithinExits ==
    PassesComplete /\ "crash" \notin Hazards => (Spec => []HeldWithinExits)
<1> SUFFICES ASSUME PassesComplete, "crash" \notin Hazards PROVE Spec => []HeldWithinExits
  OBVIOUS
<1>1. Init => HeldInv
  BY DEF Init, HeldInv, Zero, NoRois
<1>2. MonitorInv /\ PeakInv /\ HeldInv /\ [Next]_vars => HeldInv'
  <2> SUFFICES ASSUME MonitorInv, PeakInv, HeldInv, [Next]_vars PROVE HeldInv'
    OBVIOUS
  <2> USE DEF HeldInv, MonitorInv, TypeOK, PassInv, WatchedSet, exchange, tracked, pass
  <2>1. ASSUME NEW r \in [Open -> Rois], Poll(r) PROVE HeldInv'
    <3>1. gone = {} /\ fresh = {}
      BY <2>1 DEF Poll
    <3>2. /\ UNCHANGED <<pos, stray, peak, stop, top, seen>>
          /\ \A s \in Symbols : watched'[s] = pos[s]
          /\ closing' = closing \cap Open
          /\ fresh' = Open \ WatchedSet
      BY <2>1 DEF Poll
    <3> SUFFICES ASSUME NEW s \in Symbols \ stray PROVE HeldInv!(s)'
      BY <3>2
    <3>3. CASE pos[s] = 0
      BY <3>2, <3>3 DEF Open
    <3>4. CASE pos[s] # 0 /\ watched[s] = 0
      <4>1. peak[s] = NoRoi
        BY <3>1, <3>4 DEF PeakInv, OutOfSight
      <4> QED BY <3>2, <3>4, <4>1 DEF Open
    <3>5. CASE pos[s] # 0 /\ watched[s] # 0
      BY <3>1, <3>2, <3>5 DEF Open
    <3> QED BY <3>3, <3>4, <3>5
  <2>2. ASSUME NEW s \in Symbols, SkipClosing(s) PROVE HeldInv'
    BY <2>2 DEF SkipClosing
  <2>3. ASSUME NEW s \in Symbols, NEW l \in LossLimits, FreezeStop(s, l) PROVE HeldInv'
    BY <2>3 DEF FreezeStop
  <2>4. ASSUME NEW s \in Symbols, DisarmNativeStop(s) PROVE HeldInv'
    BY <2>4 DEF DisarmNativeStop
  <2>5. CASE ArmNativeStop
    BY <2>5 DEF ArmNativeStop
  <2>6. CASE SubmitClose \/ CloseAnswered
    BY <2>6 DEF SubmitClose, CloseAnswered
  <2>7. CASE PassEnds
    BY <2>7 DEF PassEnds, EndPass
  <2>8. ~Crash
    BY DEF Crash
  <2>9. ASSUME NEW s \in Symbols, Evaluate(s) PROVE HeldInv'
    <3>1. s \in todo /\ watched[s] # 0 /\ s \notin fresh
      BY <2>9 DEF Evaluate
    <3>2. /\ peak'[s] = Higher(peak[s], roi[s])
          /\ top'[s] = Higher(top[s], roi[s])
          /\ seen'[s] = roi[s]
          /\ UNCHANGED <<pos, stray, watched, fresh, stop>>
          /\ s \in closing' \/ ~MustClose(roi[s], peak'[s], stop[s])
      BY <2>9 DEF Evaluate
    <3>3. \A t \in Symbols : t # s => /\ peak'[t] = peak[t] /\ top'[t] = top[t]
                                      /\ seen'[t] = seen[t]
                                      /\ t \notin closing' => t \notin closing
      BY <2>9 DEF Evaluate
    <3> SUFFICES ASSUME NEW t \in Symbols \ stray PROVE HeldInv!(t)'
      BY <3>2
    <3>4. CASE t = s
      BY <3>1, <3>2, <3>4
    <3>5. CASE t # s
      BY <3>2, <3>3, <3>5
    <3> QED BY <3>4, <3>5
  <2>10. CASE ~PollAny /\ ~PassStep
    <3>1. UNCHANGED <<tracked, pass>>
      BY <2>8, <2>10, OtherSteps
    <3>2. ASSUME NEW s \in Symbols, NEW d \in Sides, Enter(s, d) PROVE HeldInv'
      BY <3>2, <3>1 DEF Enter
    <3>3. ASSUME NEW b \in Senders, NEW s \in Symbols, Execute(b, s) PROVE HeldInv'
      BY <3>3, <3>1 DEF Execute
    <3>4. ASSUME NEW s \in Symbols, NativeTrigger(s) PROVE HeldInv'
      BY <3>4, <3>1 DEF NativeTrigger
    <3>5. CASE UNCHANGED <<exchange, top, seen>>
      BY <3>1, <3>5
    <3> QED BY <3>2, <3>3, <3>4, <3>5, <2>8, <2>10, OtherSteps
  <2> QED BY <2>1, <2>2, <2>3, <2>4, <2>5, <2>6, <2>7, <2>9, <2>10, PassCases DEF PollAny
<1>3. HeldInv => HeldWithinExits
  BY DEF HeldInv, HeldWithinExits
<1> QED BY <1>1, <1>2, <1>3, MonitorInvariant, PeakInvariant, PTL DEF Spec
-----------------------------------------------------------------------------
(* With the monitor alone closing positions, what it decided to close is   *)
(* what is there: nothing else moves the position between the poll and the *)
(* order, and at most one order of the monitor is under way.               *)
ReduceInv ==
    /\ OnlyReduces
    /\ \A s \in Symbols :
        /\ flat[s] = 0 /\ inflight["flatten"][s] = 0
        /\ inflight["monitor"][s] # 0 =>
              /\ pos[s] = dir[s] /\ inflight["monitor"][s] = -dir[s]
              /\ pc = "idle" \/ (pc = "sent" /\ s = cur)
        /\ s \in todo => watched[s] = pos[s]
        /\ pc = "notify" /\ s = cur => watched[s] = pos[s]

(* The claim of _close_position, that its orders only reduce exposure, is  *)
(* true of the monitor by itself: through refused orders, requests that    *)
(* raise, failed cancellations and restarts.  It takes a second closer (a  *)
(* native stop that triggers, the operator's flatten) to break it.         *)
THEOREM MonitorOnlyReduces ==
    {"native", "flatten"} \cap Hazards = {} => (Spec => []OnlyReduces)
<1> SUFFICES ASSUME {"native", "flatten"} \cap Hazards = {} PROVE Spec => []OnlyReduces
  OBVIOUS
<1>1. Init => ReduceInv
  BY DEF Init, ReduceInv, OnlyReduces, Zero, Senders
<1>2. MonitorInv /\ ReduceInv /\ [Next]_vars => ReduceInv'
  <2> SUFFICES ASSUME MonitorInv, ReduceInv, [Next]_vars PROVE ReduceInv'
    OBVIOUS
  <2> USE DEF ReduceInv, OnlyReduces, MonitorInv, TypeOK, PassInv, WatchedSet, Senders,
          exchange, tracked, pass
  <2>1. ASSUME NEW s \in Symbols, NEW d \in Sides, Enter(s, d) PROVE ReduceInv'
    BY <2>1, MonitorAssumption DEF Enter
  <2>2. ASSUME NEW b \in Senders, NEW s \in Symbols, Execute(b, s) PROVE ReduceInv'
    <3>1. b = "monitor" /\ pos[s] = dir[s] /\ inflight[b][s] = -dir[s]
      BY <2>2 DEF Execute
    <3>2. pos' = [pos EXCEPT ![s] = 0]
      <4>1. dir[s] \in Int /\ pos[s] + inflight[b][s] = 0
        BY <3>1
      <4> QED BY <2>2, <4>1 DEF Execute
    <3>3. s \notin todo /\ ~(pc = "notify" /\ s = cur)
      BY <2>2, <3>1 DEF Execute
    <3> QED BY <2>2, <3>1, <3>2, <3>3 DEF Execute
  <2>3. ASSUME NEW b \in Senders, NEW s \in Symbols, Refuse(b, s) PROVE ReduceInv'
    BY <2>3 DEF Refuse
  <2>4. ASSUME NEW s \in Symbols PROVE ~NativeTrigger(s) /\ ~FlattenSubmit(s)
    BY DEF NativeTrigger, FlattenSubmit
  <2>5. ~FlattenRead
    BY DEF FlattenRead
  <2>6. ASSUME NEW r \in [Open -> Rois], Poll(r) PROVE ReduceInv'
    BY <2>6 DEF Poll, Open, Zero
  <2>7. ASSUME NEW s \in Symbols, SkipClosing(s) \/ DisarmNativeStop(s) PROVE ReduceInv'
    BY <2>7 DEF SkipClosing, DisarmNativeStop
  <2>8. ASSUME NEW s \in Symbols, NEW l \in LossLimits, FreezeStop(s, l) PROVE ReduceInv'
    BY <2>8 DEF FreezeStop
  <2>9. ASSUME EndPass, UNCHANGED <<pos, dir, inflight, flat>> PROVE ReduceInv'
    BY <2>9 DEF EndPass
  <2>10. ASSUME NEW s \in Symbols, EquityFails(s) \/ AuditFails \/ FinishPass \/ Crash
         PROVE  ReduceInv'
    BY <2>9, <2>10 DEF EquityFails, AuditFails, FinishPass, Crash, Zero
  <2>11. ASSUME NEW s \in Symbols, Evaluate(s) PROVE ReduceInv'
    BY <2>11 DEF Evaluate
  <2>12. CASE ArmNativeStop
    BY <2>12 DEF ArmNativeStop
  <2>13. CASE SubmitClose
    BY <2>13 DEF SubmitClose
  <2>14. CASE CloseAnswered
    BY <2>14 DEF CloseAnswered
  <2>15. CASE UNCHANGED vars
    BY <2>15 DEF vars
  <2>16. CASE Symbols = {}
    BY <2>16
  <2> QED
    BY <2>1, <2>2, <2>3, <2>4, <2>5, <2>6, <2>7, <2>8, <2>10, <2>11, <2>12, <2>13, <2>14,
       <2>15, <2>16 DEF Next, PollAny, PassStep
<1>3. ReduceInv => OnlyReduces
  BY DEF ReduceInv
<1> QED BY <1>1, <1>2, <1>3, MonitorInvariant, PTL DEF Spec
=============================================================================
