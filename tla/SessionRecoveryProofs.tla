------------------------ MODULE SessionRecoveryProofs ------------------------
(* Proofs about SessionRecovery for every set of accounts, every set of    *)
(* equities, every number of days and every drawdown limit.                *)
EXTENDS SessionRecovery, TLAPS

(* What update() returns: a breaker of the right type, in the session of   *)
(* day d or in the one it was in, whose numbers are its old ones or e.     *)
LEMMA UpdateType ==
    ASSUME NEW c \in Session, NEW e \in Nat, NEW d \in Days
    PROVE  /\ Update(c, e, d) \in Session
           /\ Update(c, e, d).date = d
           /\ Update(c, e, d).start \in {c.start, e}
           /\ Update(c, e, d).peak \in {c.peak, e}
<1>1. CASE c.date # d
  BY <1>1 DEF Update, ResetSession, Session
<1>2. CASE c.date = d
  BY <1>2 DEF Update, ForceHalt, Larger, Session
<1> QED BY <1>1, <1>2

(* A breaker that was halted in the session of day d stays halted.         *)
LEMMA UpdateKeepsHalt ==
    ASSUME NEW c \in Session, NEW e \in Nat, c.halted
    PROVE  Update(c, e, c.date).halted
BY DEF Update, ForceHalt, Larger, Session

(* The snapshots that can be on disk.                                      *)
LEMMA SnapshotTypes ==
    /\ NewBreaker(0) \in Session
    /\ Absent \in SnapshotFile
    /\ Torn \in SnapshotFile
    /\ \A c \in Session, v \in Envs :
          Snapshot(c, v) \in SnapshotFile
<1>1. NewBreaker(0) \in Session
  BY SessionAssumption DEF NewBreaker, Session, Days
<1>2. (CHOOSE v \in Envs : TRUE) \in Envs
  BY SessionAssumption
<1> QED BY <1>1, <1>2 DEF Absent, Torn, Snapshot, SnapshotFile

(* EquityOf only holds natural numbers, and Equities covers it.            *)
LEMMA EquityIsNat ==
    ASSUME NEW v \in Envs, NEW e \in EquityOf[v]
    PROVE  e \in Nat
BY SessionAssumption

-----------------------------------------------------------------------------
(* The type invariant is inductive: every handler leaves the breaker, the  *)
(* snapshot and the process state well formed.                             *)
THEOREM TypeCorrect == Spec => []TypeOK
<1>1. Init => TypeOK
  <2> SUFFICES ASSUME Init PROVE TypeOK
    OBVIOUS
  <2>1. today \in Days
    BY SessionAssumption DEF Init, Days
  <2>2. cb \in Session /\ disk \in SnapshotFile
    BY SnapshotTypes DEF Init
  <2> QED BY <2>1, <2>2 DEF Init, TypeOK
<1>2. TypeOK /\ [Next]_vars => TypeOK'
  <2> SUFFICES ASSUME TypeOK, [Next]_vars PROVE TypeOK'
    OBVIOUS
  <2> USE SessionAssumption, SnapshotTypes
  <2> USE DEF TypeOK
  <2>1. CASE Midnight
    BY <2>1 DEF Midnight, runVars, Days
  <2>2. ASSUME NEW v \in Envs, NEW e \in Equities, Recover(v, e) PROVE TypeOK'
    <3>1. e \in Nat
      BY <2>2, EquityIsNat DEF Recover
    <3>2. RestoreCircuitBreaker(v, e) \in Session
      BY <3>1 DEF RestoreCircuitBreaker, ResetSession, Session, SnapshotFile
    <3> QED BY <2>2, <3>2 DEF Recover
  <2>3. CASE FinishStartup
    BY <2>3 DEF FinishStartup, runVars
  <2>4. CASE Crash
    BY <2>4 DEF Crash, Die
  <2>5. CASE CrashDuringPersist
    BY <2>5 DEF CrashDuringPersist, Die
  <2>6. ASSUME NEW e \in Equities, MonitorCheck(e) PROVE TypeOK'
    <3>1. e \in Nat
      BY <2>6, EquityIsNat DEF MonitorCheck
    <3>2. cb' \in Session
      BY <2>6, <3>1, UpdateType DEF MonitorCheck
    <3>3. NewHalt(cb') \in Halt
      BY <3>2 DEF NewHalt, Halt, Session
    <3>4. halts' \subseteq Halt
      BY <2>6, <3>3 DEF MonitorCheck
    <3>5. disk' \in SnapshotFile
      BY <2>6, <3>2 DEF MonitorCheck, Persist
    <3> QED BY <2>6, <3>1, <3>2, <3>4, <3>5 DEF MonitorCheck
  <2>7. CASE AutoResetPersist
    <3>1. disk' \in SnapshotFile
      BY <2>7 DEF AutoResetPersist, Persist
    <3> QED BY <2>7, <3>1 DEF AutoResetPersist
  <2>8. CASE AutoResetAuditFails
    BY <2>8 DEF AutoResetAuditFails
  <2>9. CASE EngageKillSwitch
    <3>1. ForceHalt(cb) \in Session
      BY DEF ForceHalt, Session
    <3>2. NewHalt(cb) \in Halt
      BY DEF NewHalt, Halt, Session
    <3>3. cb' \in Session /\ halts' \subseteq Halt
      BY <2>9, <3>1, <3>2 DEF EngageKillSwitch
    <3>4. disk' \in SnapshotFile
      BY <2>9, <3>3 DEF EngageKillSwitch, Persist
    <3> QED BY <2>9, <3>3, <3>4 DEF EngageKillSwitch
  <2>10. CASE RequestReset
    BY <2>10 DEF RequestReset
  <2>11. CASE ResetEquityFails
    BY <2>11 DEF ResetEquityFails
  <2>12. ASSUME NEW e \in Equities, ApplyReset(e) PROVE TypeOK'
    <3>1. e \in Nat
      BY <2>12, EquityIsNat DEF ApplyReset
    <3>2. ResetSession(today, e) \in Session
      BY <3>1 DEF ResetSession, Session
    <3>3. cb' \in Session /\ halts' \subseteq Halt
      BY <2>12, <3>2 DEF ApplyReset
    <3>4. disk' \in SnapshotFile
      BY <2>12, <3>3 DEF ApplyReset, Persist
    <3> QED BY <2>12, <3>3, <3>4 DEF ApplyReset
  <2>13. CASE Pause
    BY <2>13 DEF Pause
  <2>14. CASE Resume
    BY <2>14 DEF Resume
  <2>15. CASE UNCHANGED vars
    BY <2>15 DEF vars
  <2> QED
    BY <2>1, <2>2, <2>3, <2>4, <2>5, <2>6, <2>7, <2>8, <2>9, <2>10, <2>11,
       <2>12, <2>13, <2>14, <2>15 DEF Next
<1> QED BY <1>1, <1>2, PTL DEF Spec

-----------------------------------------------------------------------------
(* BaselineIsOwn, strengthened by the same of a readable snapshot: what is *)
(* on disk was reported by the account whose id is on disk.                *)
BaselineInv ==
    /\ BaselineIsOwn
    /\ disk.kind = "ok" => /\ disk.session.start \in EquityOf[disk.env]
                           /\ disk.session.peak \in EquityOf[disk.env]

(* What persist() leaves on disk is the given breaker or nothing readable. *)
LEMMA PersistKinds ==
    ASSUME NEW c, NEW v, Persist(c, v)
    PROVE  disk' = Snapshot(c, v) \/ disk'.kind # "ok"
BY DEF Persist, Torn, Absent

(* The baseline a running process compares equity against was reported by  *)
(* the account it trades, whatever accounts, crashes and torn writes came  *)
(* before: restore() is guarded by environment_id, and every other write   *)
(* of start or peak comes from the running account.                        *)
THEOREM BaselineOwned == Spec => []BaselineIsOwn
<1>1. Init => BaselineInv
  BY DEF Init, BaselineInv, BaselineIsOwn, Absent
<1>2. TypeOK /\ BaselineInv /\ [Next]_vars => BaselineInv'
  <2> SUFFICES ASSUME TypeOK, BaselineInv, [Next]_vars PROVE BaselineInv'
    OBVIOUS
  <2> USE DEF BaselineInv, BaselineIsOwn
  <2>1. CASE Midnight
    BY <2>1 DEF Midnight, runVars
  <2>2. ASSUME NEW v \in Envs, NEW e \in Equities, Recover(v, e) PROVE BaselineInv'
    <3>1. /\ RestoreCircuitBreaker(v, e).start \in EquityOf[v]
          /\ RestoreCircuitBreaker(v, e).peak \in EquityOf[v]
      BY <2>2 DEF Recover, RestoreCircuitBreaker, Usable, ResetSession
    <3> QED BY <2>2, <3>1 DEF Recover, Snapshot, Torn, Absent
  <2>3. CASE FinishStartup
    BY <2>3 DEF FinishStartup, runVars
  <2>4. CASE Crash
    BY <2>4 DEF Crash, Die
  <2>5. CASE CrashDuringPersist
    BY <2>5 DEF CrashDuringPersist, Die, Torn, Absent
  <2>6. ASSUME NEW e \in Equities, MonitorCheck(e) PROVE BaselineInv'
    <3>1. cb'.start \in EquityOf[env] /\ cb'.peak \in EquityOf[env]
      BY <2>6, UpdateType, EquityIsNat DEF MonitorCheck, TypeOK
    <3>2. UNCHANGED disk \/ disk' = Snapshot(cb', env) \/ disk'.kind # "ok"
      BY <2>6, PersistKinds DEF MonitorCheck
    <3> QED BY <2>6, <3>1, <3>2 DEF MonitorCheck, Snapshot
  <2>7. CASE AutoResetPersist
    <3>1. disk' = Snapshot(cb, env) \/ disk'.kind # "ok"
      BY <2>7, PersistKinds DEF AutoResetPersist
    <3>2. phase # "down"
      BY <2>7 DEF AutoResetPersist
    <3> QED BY <2>7, <3>1, <3>2 DEF AutoResetPersist, Snapshot
  <2>8. CASE AutoResetAuditFails
    BY <2>8 DEF AutoResetAuditFails
  <2>9. CASE EngageKillSwitch
    <3>1. ForceHalt(cb).start = cb.start /\ ForceHalt(cb).peak = cb.peak
      BY DEF ForceHalt, TypeOK, Session
    <3>2. disk' = Snapshot(cb', env) \/ disk'.kind # "ok"
      BY <2>9, PersistKinds DEF EngageKillSwitch
    <3> QED BY <2>9, <3>1, <3>2 DEF EngageKillSwitch, Snapshot
  <2>10. CASE RequestReset
    BY <2>10 DEF RequestReset
  <2>11. CASE ResetEquityFails
    BY <2>11 DEF ResetEquityFails
  <2>12. ASSUME NEW e \in Equities, ApplyReset(e) PROVE BaselineInv'
    <3>1. cb'.start \in EquityOf[env] /\ cb'.peak \in EquityOf[env]
      BY <2>12 DEF ApplyReset, ResetSession
    <3>2. UNCHANGED disk \/ disk' = Snapshot(cb', env) \/ disk'.kind # "ok"
      BY <2>12, PersistKinds DEF ApplyReset
    <3> QED BY <2>12, <3>1, <3>2 DEF ApplyReset, Snapshot
  <2>13. CASE Pause
    BY <2>13 DEF Pause
  <2>14. CASE Resume
    BY <2>14 DEF Resume
  <2>15. CASE UNCHANGED vars
    BY <2>15 DEF vars
  <2> QED
    BY <2>1, <2>2, <2>3, <2>4, <2>5, <2>6, <2>7, <2>8, <2>9, <2>10, <2>11,
       <2>12, <2>13, <2>14, <2>15 DEF Next
<1> QED BY <1>1, <1>2, TypeCorrect, PTL DEF Spec, BaselineInv

-----------------------------------------------------------------------------
(* Dates only move forward: memory is never behind the snapshot, and       *)
(* neither is ahead of the calendar.                                       *)
DatesInv ==
    /\ cb.date <= today
    /\ disk.session.date <= today
    /\ phase # "down" => disk.session.date <= cb.date

(* The halts that stand are on disk: the snapshot is readable, no standing *)
(* halt is of a later session, and one of its own session made it halted.  *)
(* The same holds of a running breaker; its third part is HaltStands.      *)
HaltInv ==
    /\ DatesInv
    /\ \A h \in halts :
          /\ disk.kind = "ok"
          /\ disk.env = env
          /\ h.session <= disk.session.date
          /\ h.session = disk.session.date => disk.session.halted
          /\ phase # "down" /\ h.session = cb.date => cb.halted

(* With one account and writes that never fail, a halt stands for its      *)
(* session across every crash and restart until an operator resets it.     *)
(* (Both assumptions are needed: runs session_account_switch and           *)
(* session_torn_write violate HaltStands without them.)                    *)
THEOREM HaltsStand ==
    ASSUME \A v, w \in Envs : v = w,
           DiskFaults = {}
    PROVE  Spec => []HaltStands
<1>1. Init => HaltInv
  BY SessionAssumption DEF Init, HaltInv, DatesInv, Absent, NewBreaker
<1>2. TypeOK /\ HaltInv /\ [Next]_vars => HaltInv'
  <2> SUFFICES ASSUME TypeOK, HaltInv, [Next]_vars PROVE HaltInv'
    OBVIOUS
  <2> USE DEF HaltInv, DatesInv
  <2>0. /\ today \in Int /\ cb.date \in Int /\ disk.session.date \in Int
        /\ \A h \in halts : h.session \in Int /\ h.env = env
    BY DEF TypeOK, Days, Session, SnapshotFile, Halt
  <2>1. CASE Midnight
    BY <2>0, <2>1 DEF Midnight, runVars
  <2>2. ASSUME NEW v \in Envs, NEW e \in Equities, Recover(v, e) PROVE HaltInv'
    <3>1. /\ cb' = RestoreCircuitBreaker(v, e) /\ disk' = Snapshot(cb', v)
          /\ env' = env /\ halts' = halts /\ today' = today
      BY <2>2 DEF Recover, TypeOK
    <3>2. cb'.date = today
      BY <3>1 DEF RestoreCircuitBreaker, Usable, ResetSession
    <3>3. ASSUME NEW h \in halts, h.session = today PROVE cb'.halted
      <4>1. disk.session.date = today
        BY <2>0, <3>3
      <4>2. Usable(v)
        BY <4>1 DEF Usable, TypeOK
      <4> QED BY <3>1, <3>3, <4>1, <4>2 DEF RestoreCircuitBreaker
    <3>4. \A h \in halts : h.session <= today
      BY <2>0
    <3> QED BY <2>0, <3>1, <3>2, <3>3, <3>4 DEF Snapshot, TypeOK
  <2>3. CASE FinishStartup
    BY <2>3 DEF FinishStartup, runVars
  <2>4. CASE Crash
    BY <2>4 DEF Crash, Die, NewBreaker, TypeOK, Days
  <2>5. CASE CrashDuringPersist
    BY <2>5 DEF CrashDuringPersist
  <2>6. ASSUME NEW e \in Equities, MonitorCheck(e) PROVE HaltInv'
    <3>1. e \in Nat /\ cb \in Session /\ today \in Days
      BY <2>6, EquityIsNat DEF MonitorCheck, TypeOK
    <3>2. cb' = Update(cb, e, today) /\ cb'.date = today
      BY <2>6, <3>1, UpdateType DEF MonitorCheck
    <3>3. CASE cb.date # today
      <4>1. ~cb'.halted
        BY <3>2, <3>3 DEF Update, ResetSession
      <4> QED BY <2>0, <2>6, <3>2, <3>3, <4>1 DEF MonitorCheck
    <3>4. CASE cb.date = today
      <4>1. cb.halted => cb'.halted
        BY <3>1, <3>2, <3>4, UpdateKeepsHalt
      <4>2. CASE UpdateRaises(cb, today)
        <5>1. ~cb'.halted
          BY <3>1, <3>2, <4>2 DEF UpdateRaises, Update, Session
        <5> QED BY <2>0, <2>6, <3>2, <3>4, <4>1, <4>2, <5>1 DEF MonitorCheck
      <4>3. CASE ~UpdateRaises(cb, today)
        <5>1. disk' = Snapshot(cb', env)
          BY <2>6, <3>4, <4>3 DEF MonitorCheck, Persist
        <5>2. \A h \in halts' : h \in halts \/ (h.session = today /\ cb'.halted)
          BY <2>6, <3>2 DEF MonitorCheck, NewHalt
        <5>3. \A h \in halts' : h.session <= today /\ (h.session = today => cb'.halted)
          BY <2>0, <2>6, <3>4, <4>1, <5>2 DEF MonitorCheck
        <5>4. phase' = phase /\ env' = env /\ today' = today
          BY <2>6 DEF MonitorCheck
        <5> QED BY <2>0, <3>2, <5>1, <5>3, <5>4 DEF Snapshot
      <4> QED BY <4>2, <4>3
    <3> QED BY <3>3, <3>4
  <2>7. CASE AutoResetPersist
    <3>1. disk' = Snapshot(cb, env)
      BY <2>7 DEF AutoResetPersist, Persist
    <3> QED BY <2>0, <2>7, <3>1 DEF AutoResetPersist, Snapshot
  <2>8. CASE AutoResetAuditFails
    BY <2>8 DEF AutoResetAuditFails
  <2>9. CASE EngageKillSwitch
    <3>1. /\ disk' = Snapshot(cb', env) /\ cb' = ForceHalt(cb) /\ phase = "up"
          /\ halts' = halts \cup {NewHalt(cb)}
          /\ phase' = phase /\ env' = env /\ today' = today
      BY <2>9 DEF EngageKillSwitch, Persist
    <3>2. cb'.date = cb.date /\ cb'.halted
      BY <3>1 DEF ForceHalt, TypeOK, Session
    <3>3. \A h \in halts' : h.session <= cb.date
      BY <2>0, <3>1 DEF NewHalt
    <3> QED BY <2>0, <3>1, <3>2, <3>3 DEF Snapshot
  <2>10. CASE RequestReset
    BY <2>10 DEF RequestReset
  <2>11. CASE ResetEquityFails
    BY <2>11 DEF ResetEquityFails
  <2>12. ASSUME NEW e \in Equities, ApplyReset(e) PROVE HaltInv'
    <3>1. halts' = {}
      BY <2>0, <2>12 DEF ApplyReset
    <3>2. cb'.date = today /\ today' = today
      BY <2>12 DEF ApplyReset, ResetSession
    <3>3. UNCHANGED disk \/ disk' = Snapshot(cb', env)
      BY <2>12 DEF ApplyReset, Persist
    <3> QED BY <2>0, <3>1, <3>2, <3>3 DEF Snapshot
  <2>13. CASE Pause
    BY <2>13 DEF Pause
  <2>14. CASE Resume
    BY <2>14 DEF Resume
  <2>15. CASE UNCHANGED vars
    BY <2>15 DEF vars
  <2> QED
    BY <2>1, <2>2, <2>3, <2>4, <2>5, <2>6, <2>7, <2>8, <2>9, <2>10, <2>11,
       <2>12, <2>13, <2>14, <2>15 DEF Next
<1>3. HaltInv => HaltStands
  BY DEF HaltInv, HaltStands
<1> QED BY <1>1, <1>2, <1>3, TypeCorrect, PTL DEF Spec

-----------------------------------------------------------------------------
(* The two ways to write the limit: the code's ratio and the floor it      *)
(* leaves; and a session that just started is above its floor.             *)
LEMMA FloorOfLimit ==
    ASSUME NEW p \in Nat, NEW e \in Nat, NEW d \in Nat,
           ~((p - e) * 100 >= d * p)
    PROVE  e * 100 > p * (100 - d)
OBVIOUS

(* Equity that is its own peak is above the floor.                         *)
LEMMA FreshIsAboveFloor ==
    ASSUME NEW e \in Nat, NEW d \in 1 .. 100, e > 0
    PROVE  e * 100 > e * (100 - d)
<1>1. e * d > 0
  OBVIOUS
<1> QED BY <1>1

(* update() on a session with a positive start halts or stays above the    *)
(* floor.                                                                  *)
LEMMA UpdateKeepsBudget ==
    ASSUME NEW c \in Session, NEW e \in Nat, NEW d \in Days,
           e > 0, c.date = d => c.start > 0, ~Update(c, e, d).halted
    PROVE  e * 100 > Update(c, e, d).peak * (100 - MaxDrawdownPct)
<1>1. CASE c.date # d
  <2>1. Update(c, e, d).peak = e
    BY <1>1 DEF Update, ResetSession
  <2> QED BY <2>1, FreshIsAboveFloor, SessionAssumption
<1>2. CASE c.date = d
  <2> DEFINE p == [c EXCEPT !.peak = Larger(@, e)]
  <2>1. p \in Session /\ p.start = c.start
    BY DEF Session, Larger
  <2>2. ~DrawdownBreached(p, e) /\ Update(c, e, d) = p
    BY <1>2, <2>1 DEF Update, ForceHalt, Session
  <2>3. p.peak \in Nat /\ MaxDrawdownPct \in Nat
    BY <2>1, SessionAssumption DEF Session
  <2>4. ~((p.peak - e) * 100 >= MaxDrawdownPct * p.peak)
    BY <2>2 DEF DrawdownBreached
  <2> QED BY <2>2, <2>3, <2>4, FloorOfLimit
<1> QED BY <1>1, <1>2

(* The budget invariant: besides the budget, a process that is starting    *)
(* has fed nothing yet (BaselineIsOwn supplies that a baseline is > 0).    *)
BudgetInv ==
    /\ WithinBudget
    /\ phase = "starting" => fed = NoEquity

(* On accounts that never report zero, no run of updates, resets, days and *)
(* restarts leaves an unhalted bot at or below its drawdown floor. (With a *)
(* zero baseline it does: run session_zero_baseline.)                      *)
THEOREM BudgetHolds ==
    ASSUME \A v \in Envs : 0 \notin EquityOf[v]
    PROVE  Spec => []WithinBudget
<1>1. Init => BudgetInv
  BY DEF Init, BudgetInv, WithinBudget
<1>2. TypeOK /\ BaselineIsOwn /\ BudgetInv /\ [Next]_vars => BudgetInv'
  <2> SUFFICES ASSUME TypeOK, BaselineIsOwn, BudgetInv, [Next]_vars PROVE BudgetInv'
    OBVIOUS
  <2> USE DEF BudgetInv, WithinBudget
  <2>1. CASE Midnight
    BY <2>1 DEF Midnight, runVars
  <2>2. ASSUME NEW v \in Envs, NEW e \in Equities, Recover(v, e) PROVE BudgetInv'
    BY <2>2 DEF Recover
  <2>3. CASE FinishStartup
    BY <2>3 DEF FinishStartup, runVars
  <2>4. CASE Crash
    BY <2>4 DEF Crash, Die
  <2>5. CASE CrashDuringPersist
    BY <2>5 DEF CrashDuringPersist, Die
  <2>6. ASSUME NEW e \in Equities, MonitorCheck(e) PROVE BudgetInv'
    <3>1. e \in Nat /\ e > 0
      BY <2>6, EquityIsNat DEF MonitorCheck, TypeOK
    <3>2. cb.start > 0
      BY <2>6, EquityIsNat DEF MonitorCheck, TypeOK, BaselineIsOwn
    <3>3. ~cb'.halted => e * 100 > cb'.peak * (100 - MaxDrawdownPct)
      BY <2>6, <3>1, <3>2, UpdateKeepsBudget DEF MonitorCheck, TypeOK
    <3> QED BY <2>6, <3>3 DEF MonitorCheck
  <2>7. CASE AutoResetPersist
    BY <2>7 DEF AutoResetPersist
  <2>8. CASE AutoResetAuditFails
    BY <2>8 DEF AutoResetAuditFails
  <2>9. CASE EngageKillSwitch
    <3>1. ForceHalt(cb).halted
      BY DEF ForceHalt, TypeOK, Session
    <3> QED BY <2>9, <3>1 DEF EngageKillSwitch
  <2>10. CASE RequestReset
    BY <2>10 DEF RequestReset
  <2>11. CASE ResetEquityFails
    BY <2>11 DEF ResetEquityFails
  <2>12. ASSUME NEW e \in Equities, ApplyReset(e) PROVE BudgetInv'
    BY <2>12 DEF ApplyReset
  <2>13. CASE Pause
    BY <2>13 DEF Pause
  <2>14. CASE Resume
    BY <2>14 DEF Resume
  <2>15. CASE UNCHANGED vars
    BY <2>15 DEF vars
  <2> QED
    BY <2>1, <2>2, <2>3, <2>4, <2>5, <2>6, <2>7, <2>8, <2>9, <2>10, <2>11,
       <2>12, <2>13, <2>14, <2>15 DEF Next
<1> QED BY <1>1, <1>2, TypeCorrect, BaselineOwned, PTL DEF Spec, BudgetInv
=============================================================================
