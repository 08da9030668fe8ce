--------------------------- MODULE SessionRecovery ---------------------------
(***************************************************************************)
(* The daily drawdown circuit breaker of the live scanner, its snapshot on *)
(* disk, and everything that reads or writes either one:                   *)
(*   risk/circuit_breaker.py       reset_session, restore, update,         *)
(*                                 force_halt, consume_auto_reset_flag     *)
(*   utils/state_recovery.py       recover, _read_snapshot, persist        *)
(*   scripts/run_live_binance_scanner.py                                   *)
(*                                 start-up, monitor_loop and the operator *)
(*                                 commands of the dashboard               *)
(*                                                                         *)
(* One process at a time runs the bot.  It may die at any moment and is    *)
(* started again, possibly on another day or against another account.      *)
(* asyncio switches coroutines only at an await that suspends, so a stretch *)
(* of code without one is one action; where an await separates a read from *)
(* its use the operation has two actions.  Equity is what the account      *)
(* reports: any value of EquityOf[env].  Ratios of floats are exact here.  *)
(*                                                                         *)
(* A definition M_X that stands before a definition is a faulty variant of *)
(* it: replacing it must break a property (see the README).                *)
(***************************************************************************)
EXTENDS Integers

CONSTANTS
    Envs,            \* environment ids: testnet/live plus key fingerprint
    EquityOf,        \* EquityOf[v]: equities that account v may report
    MaxDay,          \* bound: the last calendar day of a behaviour
    MaxDrawdownPct,  \* settings.risk.max_daily_drawdown_pct
    DiskFaults       \* subset of {"crash", "full"}: how a write may go wrong

(* The breaker's own validation of its limit (circuit_breaker.py:33), an   *)
(* account that reports at least one equity, and equities that are never   *)
(* negative (Binance closes an account out before that).                   *)
ASSUME SessionAssumption ==
    /\ Envs # {}
    /\ EquityOf \in [Envs -> SUBSET Nat]
    /\ \A v \in Envs : EquityOf[v] # {}
    /\ MaxDay \in Nat
    /\ MaxDrawdownPct \in 1 .. 100
    /\ DiskFaults \subseteq {"crash", "full"}

VARIABLES
    today,      \* the UTC calendar day
    phase,      \* "down"; "starting": recovered, bridge up, scanner still None; "up"
    env,        \* environment_id of the running process
    cb,         \* the DrawdownCircuitBreaker's fields
    paused,     \* not scanner._active
    rolling,    \* monitor_loop awaits the notifications of an auto-reset
    resetting,  \* a reset_kill_switch awaits its equity
    disk,       \* session_state.json
    halts,      \* history: halts that no operator has reset since
    fed         \* history: the last equity fed to this session, or NoEquity

runVars == <<env, cb, paused, rolling, resetting>>
vars == <<today, phase, env, cb, paused, rolling, resetting, disk, halts, fed>>

-----------------------------------------------------------------------------
Days == 0 .. MaxDay
NoEquity == -1

Session == [date : Days, start : Nat, peak : Nat, halted : BOOLEAN]

(* What session_state.json may hold; only an "ok" file's fields are read.  *)
SnapshotFile == [kind : {"absent", "torn", "ok"}, env : Envs, session : Session]

(* A halt of the history: whose account, which session the breaker was in, *)
(* and the calendar day on which it happened.                              *)
Halt == [env : Envs, session : Days, day : Days]

(* The dataclass as main() builds it, before recover() overwrites it.      *)
NewBreaker(d) == [date |-> d, start |-> 1, peak |-> 1, halted |-> FALSE]

Absent == [kind |-> "absent", env |-> CHOOSE v \in Envs : TRUE, session |-> NewBreaker(0)]
Torn == [Absent EXCEPT !.kind = "torn"]
Snapshot(c, v) == [kind |-> "ok", env |-> v, session |-> c]

Larger(a, b) == IF a >= b THEN a ELSE b

-----------------------------------------------------------------------------
(* circuit_breaker.py                                                      *)

ResetSession(d, e) == [date |-> d, start |-> e, peak |-> e, halted |-> FALSE]

ForceHalt(c) == [c EXCEPT !.halted = TRUE]

(* Either drawdown, from the session's start or from its peak.             *)
M_DrawdownBreachedFromStart(c, e) == (c.start - e) * 100 >= MaxDrawdownPct * c.start
DrawdownBreached(c, e) ==
    \/ (c.start - e) * 100 >= MaxDrawdownPct * c.start
    \/ (c.peak - e) * 100 >= MaxDrawdownPct * c.peak

(* A zero baseline divides by zero; a halted breaker returns before that.  *)
UpdateRaises(c, d) == c.date = d /\ ~c.halted /\ c.start = 0

M_UpdateNeverRolls(c, e, d) ==
    LET p == [c EXCEPT !.peak = Larger(@, e)]
    IN  IF ~p.halted /\ p.start # 0 /\ DrawdownBreached(p, e) THEN ForceHalt(p) ELSE p
(* update(e) on day d.  The peak is raised before the division that may    *)
(* raise, and on a halted breaker too.                                     *)
Update(c, e, d) ==
    IF c.date # d
    THEN ResetSession(d, e)
    ELSE LET p == [c EXCEPT !.peak = Larger(@, e)]
         IN  IF ~p.halted /\ p.start # 0 /\ DrawdownBreached(p, e)
             THEN ForceHalt(p)
             ELSE p

-----------------------------------------------------------------------------
(* state_recovery.py                                                       *)

M_UsableAnyEnv(v) == disk.kind = "ok" /\ disk.session.date = today
(* _read_snapshot gives None for a missing or unreadable file; otherwise   *)
(* day and environment must both match.                                    *)
Usable(v) ==
    /\ disk.kind = "ok"
    /\ disk.session.date = today
    /\ disk.env = v

RestoreCircuitBreaker(v, e) ==
    IF Usable(v) THEN disk.session ELSE ResetSession(today, e)

(* write_text truncates, then writes.  A full disk leaves the file empty   *)
(* and raises into the caller, all of whose work is already done.          *)
Persist(c, v) ==
    \/ disk' = Snapshot(c, v)
    \/ /\ "full" \in DiskFaults
       /\ disk' = Torn

-----------------------------------------------------------------------------
Init ==
    /\ today = 0
    /\ phase = "down"
    /\ env \in Envs
    /\ cb = NewBreaker(0)
    /\ paused = FALSE
    /\ rolling = FALSE
    /\ resetting = FALSE
    /\ disk = Absent
    /\ halts = {}
    /\ fed = NoEquity

Midnight ==
    /\ today < MaxDay
    /\ today' = today + 1
    /\ UNCHANGED <<phase, runVars, disk, halts, fed>>

-----------------------------------------------------------------------------
(* Process life.                                                           *)

(* main() up to the dashboard bridge being started: the breaker is built,  *)
(* recover() restores or resets it and persists.  If that write fails the  *)
(* exception leaves main() and the process is down again.                  *)
Recover(v, e) ==
    /\ phase = "down"
    /\ e \in EquityOf[v]
    /\ \/ /\ phase' = "starting"
          /\ env' = v
          /\ cb' = RestoreCircuitBreaker(v, e)
          /\ disk' = Snapshot(cb', v)
          /\ fed' = NoEquity
       \/ /\ "full" \in DiskFaults
          /\ disk' = Torn
          /\ UNCHANGED <<phase, env, cb, fed>>
    /\ UNCHANGED <<today, paused, rolling, resetting, halts>>

(* The universe feed is backfilled, then the scanner is constructed and    *)
(* attached and monitor_loop starts.                                       *)
FinishStartup ==
    /\ phase = "starting"
    /\ phase' = "up"
    /\ UNCHANGED <<today, runVars, disk, halts, fed>>

(* A crash, a kill -9, or an orderly shutdown (which persists nothing).    *)
Die ==
    /\ phase # "down"
    /\ phase' = "down"
    /\ cb' = NewBreaker(0)
    /\ paused' = FALSE
    /\ rolling' = FALSE
    /\ resetting' = FALSE
    /\ UNCHANGED <<today, env, halts, fed>>

Crash == Die /\ UNCHANGED disk

(* The process dies between write_text's truncation and its write.         *)
CrashDuringPersist ==
    /\ "crash" \in DiskFaults
    /\ Die
    /\ disk' = Torn

-----------------------------------------------------------------------------
(* monitor_loop                                                            *)

NewHalt(c) == [env |-> env, session |-> c.date, day |-> today]

(* One pass of the loop with equity e.  update() either rolls the session  *)
(* over, and the loop then awaits two notifications before it persists, or *)
(* raises, and the loop skips persist(), or returns, and (cancel_all() has *)
(* no symbol to await on) the snapshot is written at once.                 *)
MonitorCheck(e) ==
    /\ phase = "up"
    /\ ~rolling
    /\ e \in EquityOf[env]
    /\ cb' = Update(cb, e, today)
    /\ fed' = e
    /\ halts' = IF cb'.halted /\ ~cb.halted THEN halts \cup {NewHalt(cb')} ELSE halts
    /\ \/ /\ cb.date # today
          /\ rolling' = TRUE
          /\ UNCHANGED disk
       \/ /\ UpdateRaises(cb, today)
          /\ UNCHANGED <<rolling, disk>>
       \/ /\ cb.date = today
          /\ ~UpdateRaises(cb, today)
          /\ Persist(cb', env)
          /\ UNCHANGED rolling
    /\ UNCHANGED <<today, phase, env, paused, resetting>>

(* The notifications of an auto-reset are out: the loop persists.          *)
AutoResetPersist ==
    /\ phase = "up"
    /\ rolling
    /\ rolling' = FALSE
    /\ Persist(cb, env)
    /\ UNCHANGED <<today, phase, env, cb, paused, resetting, halts, fed>>

(* push_audit raised: the loop's except branch skips persist().            *)
AutoResetAuditFails ==
    /\ phase = "up"
    /\ rolling
    /\ rolling' = FALSE
    /\ UNCHANGED <<today, phase, env, cb, paused, resetting, disk, halts, fed>>

-----------------------------------------------------------------------------
(* Operator commands.  Until the scanner exists they raise on it, which    *)
(* _handle_incoming reports as failed: only a reset has changed anything   *)
(* by then.                                                                *)

M_EngageKillSwitchNoPersist ==
    /\ phase = "up"
    /\ paused' = TRUE
    /\ cb' = ForceHalt(cb)
    /\ halts' = halts \cup {NewHalt(cb)}
    /\ UNCHANGED <<today, phase, env, rolling, resetting, disk, fed>>
EngageKillSwitch ==
    /\ phase = "up"
    /\ paused' = TRUE
    /\ cb' = ForceHalt(cb)
    /\ Persist(cb', env)
    /\ halts' = halts \cup {NewHalt(cb)}
    /\ UNCHANGED <<today, phase, env, rolling, resetting, fed>>

RequestReset ==
    /\ phase # "down"
    /\ ~resetting
    /\ resetting' = TRUE
    /\ UNCHANGED <<today, phase, env, cb, paused, rolling, disk, halts, fed>>

(* The equity request of a reset fails: the command does nothing.          *)
ResetEquityFails ==
    /\ resetting
    /\ resetting' = FALSE
    /\ UNCHANGED <<today, phase, env, cb, paused, rolling, disk, halts, fed>>

(* With the scanner still None the breaker is reset, then resume() raises, *)
(* so nothing is persisted.                                                *)
ApplyReset(e) ==
    /\ resetting
    /\ e \in EquityOf[env]
    /\ resetting' = FALSE
    /\ cb' = ResetSession(today, e)
    /\ fed' = NoEquity
    /\ halts' = {h \in halts : h.env # env}
    /\ \/ /\ phase = "up"
          /\ paused' = FALSE
          /\ Persist(cb', env)
       \/ /\ phase = "starting"
          /\ UNCHANGED <<paused, disk>>
    /\ UNCHANGED <<today, phase, env, rolling>>

Pause ==
    /\ phase = "up"
    /\ paused' = TRUE
    /\ UNCHANGED <<today, phase, env, cb, rolling, resetting, disk, halts, fed>>

Resume ==
    /\ phase = "up"
    /\ paused' = FALSE
    /\ UNCHANGED <<today, phase, env, cb, rolling, resetting, disk, halts, fed>>

-----------------------------------------------------------------------------
Equities == UNION {EquityOf[v] : v \in Envs}

Next ==
    \/ Midnight
    \/ \E v \in Envs : \E e \in Equities : Recover(v, e)
    \/ FinishStartup
    \/ Crash
    \/ CrashDuringPersist
    \/ \E e \in Equities : MonitorCheck(e)
    \/ AutoResetPersist
    \/ AutoResetAuditFails
    \/ EngageKillSwitch
    \/ RequestReset
    \/ ResetEquityFails
    \/ \E e \in Equities : ApplyReset(e)
    \/ Pause
    \/ Resume

Spec == Init /\ [][Next]_vars

(* systemd restarts the process (Restart=always, quoted in monitor_loop),  *)
(* start-up completes, the notifications of an auto-reset end, and the     *)
(* loop keeps polling.  Nothing is assumed of crashes or of the operator.  *)
Fairness ==
    /\ WF_vars(\E v \in Envs : \E e \in Equities : Recover(v, e))
    /\ WF_vars(FinishStartup)
    /\ WF_vars(\E e \in Equities : MonitorCheck(e))
    /\ WF_vars(AutoResetPersist \/ AutoResetAuditFails)

FairSpec == Spec /\ Fairness

-----------------------------------------------------------------------------
(* Type invariant of the breaker, the snapshot and the process state.      *)
TypeOK ==
    /\ today \in Days
    /\ phase \in {"down", "starting", "up"}
    /\ env \in Envs
    /\ cb \in Session
    /\ paused \in BOOLEAN
    /\ rolling \in BOOLEAN
    /\ resetting \in BOOLEAN
    /\ disk \in SnapshotFile
    /\ halts \subseteq Halt
    /\ fed \in Nat \cup {NoEquity}

(* A halt stands for its session: as long as no operator reset it, a       *)
(* process that runs in the session (same account, same session date) that *)
(* was halted is halted, however often it crashed and recovered in between *)
(* (restore(): "a system that was halted before a crash MUST still be      *)
(* halted after it comes back up").                                        *)
HaltStands ==
    phase # "down" =>
        \A h \in halts : h.env = env /\ h.session = cb.date => cb.halted

(* The same for the calendar day on which the halt happened (module        *)
(* docstring of circuit_breaker.py: "Once tripped, it stays tripped for    *)
(* the rest of that trading day").  The code does not keep this: a halt     *)
(* between midnight and the first update of the day is undone by it.       *)
HaltStandsForTheDay ==
    phase # "down" =>
        \A h \in halts : h.env = env /\ h.day = today => cb.halted

(* Every number the breaker compares equity against was reported by the    *)
(* account the process trades (the incident of 2026-08-16 that added       *)
(* environment_id to the snapshot).                                        *)
BaselineIsOwn ==
    phase # "down" => cb.start \in EquityOf[env] /\ cb.peak \in EquityOf[env]

(* An unhalted bot is within its drawdown budget, measured from the        *)
(* session's peak, at the last equity it saw, over every sequence of       *)
(* updates, resets, days and restarts (update(), "halts ... the instant    *)
(* daily P&L breaches a configured drawdown threshold").                   *)
WithinBudget ==
    phase = "up" /\ ~cb.halted /\ fed # NoEquity /\ cb.peak > 0 =>
        fed * 100 > cb.peak * (100 - MaxDrawdownPct)

(* A running bot never stays in yesterday's session: the rollover happens  *)
(* in update() or, after a crash, in recover().                            *)
NewDayStartsNewSession ==
    (phase = "up" /\ cb.date # today) ~> (phase # "down" /\ cb.date = today)
=============================================================================
