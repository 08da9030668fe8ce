---------------------------- MODULE DashboardBridge ----------------------------
(***************************************************************************)
(* DashboardBridge (server/dashboard_bridge.py) with its browser tabs, the *)
(* trade tracker and the two daily logs (utils/daily_log.py).              *)
(*                                                                         *)
(* The tasks that share the set of clients are the bus's dispatch task,    *)
(* which handles fills one after the other, another task (the KPI loop, a  *)
(* command, the monitor) that sends a status or an audit line, and one     *)
(* handler per connection.  They interleave wherever a send is awaited.    *)
(* Lines and trades are numbered in the order in which they are made.      *)
(***************************************************************************)
EXTENDS TradeTracker, FiniteSets, Sequences, SequencesExt

CONSTANTS
    Conns,              \* connections; a tab that reconnects is a new one
    Prices, MaxHeld,    \* fills: prices, and the largest position
    MaxRecentAudit, MaxRecentTrades,
    TabAudit, TabTrades,  \* MAX_AUDIT_EVENTS and MAX_CLOSED_TRADES of the tab's store
    DaysBack,           \* days that read_recent() goes back
    DiskFaults,         \* of {"fails", "torn"}: how an append may go wrong
    MaxFills, MaxNotes, MaxDay, MaxMishaps    \* bounds

ASSUME BridgeAssumption ==
    /\ Prices \subseteq Nat
    /\ {MaxHeld, MaxRecentAudit, MaxRecentTrades, TabAudit, TabTrades} \subseteq Nat \ {0}
    /\ {DaysBack, MaxFills, MaxNotes, MaxDay, MaxMishaps} \subseteq Nat
    /\ DiskFaults \subseteq {"fails", "torn"}

VARIABLES
    up,       \* the process runs
    clients,  \* _clients
    stage,    \* where the handler of a connection is
    alive,    \* whether the socket of a connection still works
    view,     \* what the tab lists: audit lines and closed trades
    recent,   \* _audit_recent and _closed_trades_recent
    disk,     \* the two logs: records with their days, and a torn last line
    cast,     \* per task: the broadcast in progress
    fill,     \* the fill that the bus's task handles
    trade,    \* the tracker's open trade
    day,
    mishaps,  \* crashes, broken sockets, failed writes and midnights so far
    made,     \* history: lines, trades, fills and other messages so far
    ledger,   \* history: the account's position, and how often it became flat
    cut,      \* history: messages whose broadcast met a changed set of clients
    unkept,   \* history: records that never became a line of the log
    unread,   \* history: records whose lines the last start could not read
    astray    \* history: the tracker has missed a fill

vars == <<up, clients, stage, alive, view, recent, disk, cast, fill, trade,
          day, mishaps, made, ledger, cut, unkept, unread, astray>>

Lists == {"audit", "trades"}
Tasks == {"bus", "other"}
NoFill == [q |-> 0, price |-> 0]
NoCast == [step |-> "idle", id |-> 0, seen |-> {}, start |-> {}, dead |-> {}]

(* The list a message is kept in.  Order updates, execution markers and    *)
(* status messages are only passed on.                                     *)
ListOf(step) ==
    CASE step \in {"filled", "concluded", "note"} -> "audit"
      [] step = "closed" -> "trades"
      [] OTHER -> "none"

Limit(l) == IF l = "audit" THEN MaxRecentAudit ELSE MaxRecentTrades
TabLimit(l) == IF l = "audit" THEN TabAudit ELSE TabTrades
Trim(s, n) == IF Len(s) > n THEN SubSeq(s, Len(s) - n + 1, Len(s)) ELSE s

-----------------------------------------------------------------------------
(* utils/daily_log.py                                                      *)

(* append(): a failure is logged and may leave part of a line behind.  The *)
(* next record is then written on to that part, and neither can be read.   *)
LogAppend(f, id, outcome) ==
    CASE outcome = "torn" -> [f EXCEPT !.torn = TRUE]
      [] outcome = "ok" /\ f.torn -> [f EXCEPT !.torn = FALSE]
      [] outcome = "ok" /\ ~f.torn -> [f EXCEPT !.lines = Append(@, [id |-> id, day |-> day])]
      [] OTHER -> f

(* The lines in the files of the days from d on; and those of them that    *)
(* read_recent() may leave out: an OSError costs the rest of one day's     *)
(* file, and the next day's is read again.                                 *)
Due(f, d) == {k \in DOMAIN f.lines : f.lines[k].day >= d}
Unreadable(f) ==
    {bad \in SUBSET Due(f, day - DaysBack) :
        \A j \in bad, k \in DOMAIN f.lines :
            j < k /\ f.lines[j].day = f.lines[k].day => k \in bad}

(* The ids of lines K, oldest first; what cannot be parsed is no line.     *)
Ascending(s) == \A i, j \in DOMAIN s : i < j => s[i] < s[j]
ReadLines(f, K) ==
    LET ks == CHOOSE s \in UNION {[1 .. n -> K] : n \in 0 .. Len(f.lines)} :
                  Ascending(s) /\ \A k \in K : \E i \in DOMAIN s : s[i] = k
    IN  [i \in DOMAIN ks |-> f.lines[ks[i]].id]

M_ReadToday(f, bad) == ReadLines(f, Due(f, day) \ bad)
(* read_recent(), when the lines bad could not be read.                    *)
ReadRecent(f, bad) == ReadLines(f, Due(f, day - DaysBack) \ bad)

-----------------------------------------------------------------------------
(* _broadcast                                                              *)

(* The tab's store adds a live message to the newest it has.               *)
Deliver(v, c, step, id) ==
    IF alive[c] /\ ListOf(step) # "none"
    THEN [v EXCEPT ![c][ListOf(step)] = Trim(Append(@, id), TabLimit(ListOf(step)))] ELSE v

(* A step of a handler up to the first await of its broadcast: the message *)
(* is kept, logged and sent to the first client.  With no client the       *)
(* broadcast is over at once.                                              *)
Start(t, step, live, outcome) ==
    LET l == ListOf(step)
        id == IF l = "none" THEN 0 ELSE made[l] + 1
    IN  /\ IF l = "none"
           THEN outcome = "ok" /\ UNCHANGED <<recent, disk, unkept>>
           ELSE /\ recent' = [recent EXCEPT ![l] = Trim(Append(@, id), Limit(l))]
                /\ disk' = [disk EXCEPT ![l] = LogAppend(@, id, outcome)]
                /\ unkept' = IF outcome # "ok" \/ disk[l].torn
                             THEN unkept \cup {<<l, id>>} ELSE unkept
        /\ mishaps' = IF outcome = "ok" THEN mishaps ELSE mishaps + 1
        /\ mishaps' <= MaxMishaps
        /\ clients' = live
        /\ IF live = {}
           THEN cast' = [cast EXCEPT ![t] = [NoCast EXCEPT !.step = step, !.id = id]]
                /\ UNCHANGED view
           ELSE \E c \in live :
                  /\ view' = Deliver(view, c, step, id)
                  /\ cast' = [cast EXCEPT ![t] =
                       [step |-> step, id |-> id, seen |-> {c}, start |-> live,
                        dead |-> IF alive[c] THEN {} ELSE {c}]]

(* The iterator refuses to go on over a set of another size.  Over one of  *)
(* the same size with other members it visits any of those not yet seen.   *)
Resized(b) == b.start # {} /\ Cardinality(clients) # Cardinality(b.start)
Swapped(b) == b.start # {} /\ clients # b.start
CutBy(b) == IF ListOf(b.step) = "none" THEN cut ELSE cut \cup {<<ListOf(b.step), b.id>>}

Send(t, c) ==
    LET b == cast[t]
    IN  /\ b.start # {} /\ ~Resized(b)
        /\ c \in clients \ b.seen
        /\ cut' = IF Swapped(b) THEN CutBy(b) ELSE cut
        /\ view' = Deliver(view, c, b.step, b.id)
        /\ cast' = [cast EXCEPT ![t].seen = @ \cup {c},
                                ![t].dead = IF alive[c] THEN @ ELSE @ \cup {c}]
        /\ UNCHANGED <<up, clients, stage, alive, recent, disk, fill, trade, day, mishaps,
                       made, ledger, unkept, unread, astray>>

(* The error ends the handler: the bus logs it, and so do the other        *)
(* callers or their callers.                                               *)
BroadcastRaises(t) ==
    LET b == cast[t]
    IN  /\ b.step # "idle" /\ Resized(b)
        /\ cut' = IF b.seen = b.start THEN cut ELSE CutBy(b)
        /\ astray' = (astray \/ b.step \in {"order", "marker", "filled"})
        /\ fill' = IF t = "bus" THEN NoFill ELSE fill
        /\ cast' = [cast EXCEPT ![t] = NoCast]
        /\ UNCHANGED <<up, clients, stage, alive, view, recent, disk, trade, day, mishaps,
                       made, ledger, unkept, unread>>

-----------------------------------------------------------------------------
(* Callers                                                                 *)

Init ==
    /\ up = TRUE
    /\ clients = {}
    /\ stage = [c \in Conns |-> "away"]
    /\ alive = [c \in Conns |-> TRUE]
    /\ view = [c \in Conns |-> [l \in Lists |-> <<>>]]
    /\ recent = [l \in Lists |-> <<>>]
    /\ disk = [l \in Lists |-> [lines |-> <<>>, torn |-> FALSE]]
    /\ cast = [t \in Tasks |-> NoCast]
    /\ fill = NoFill
    /\ trade = NoTrade
    /\ day = 0 /\ mishaps = 0
    /\ made = [audit |-> 0, trades |-> 0, fills |-> 0, notes |-> 0]
    /\ ledger = [pos |-> 0, rounds |-> 0]
    /\ cut = {} /\ unkept = {} /\ unread = {} /\ astray = FALSE

Count(step) == [made EXCEPT ![IF ListOf(step) = "none" THEN "notes" ELSE ListOf(step)] = @ + 1]

(* _handle_order_event for a fill, up to its first broadcast.  Orders that *)
(* close are sized to the position, so a fill does not cross zero.         *)
OnExecutionEvent(q, price) ==
    /\ up /\ cast["bus"].step = "idle"
    /\ made.fills < MaxFills
    /\ Size(ledger.pos + q) <= MaxHeld
    /\ ledger.pos = 0 \/ (q > 0 <=> ledger.pos > 0) \/ Size(q) <= Size(ledger.pos)
    /\ fill' = [q |-> q, price |-> price]
    /\ ledger' = [pos |-> ledger.pos + q,
                  rounds |-> IF ledger.pos + q = 0 THEN ledger.rounds + 1 ELSE ledger.rounds]
    /\ Start("bus", "order", clients, "ok")
    /\ made' = [made EXCEPT !.fills = @ + 1]
    /\ UNCHANGED <<up, stage, alive, trade, day, cut, unread, astray>>

(* push_audit from another task, or a message of the KPI loop.             *)
Other(step, outcome) ==
    /\ up /\ cast["other"].step = "idle"
    /\ made.notes < MaxNotes
    /\ Start("other", step, clients, outcome)
    /\ made' = [Count(step) EXCEPT !.notes = made.notes + 1]
    /\ UNCHANGED <<up, stage, alive, fill, trade, day, ledger, cut, unread, astray>>

M_FollowingUnrecorded(step, after) ==
    CASE step = "order" -> "marker" [] step = "marker" -> "filled" [] OTHER -> "idle"
(* What the handler does after the broadcast of a step.                    *)
Following(step, after) ==
    CASE step = "order" -> "marker"
      [] step = "marker" -> "filled"
      [] step = "filled" /\ after.held = 0 -> "closed"
      [] step = "closed" -> "concluded"
      [] OTHER -> "idle"

M_ReturnRebuilds(t) == cast[t].start \ cast[t].dead
(* self._clients -= dead                                                   *)
Remaining(t) == clients \ cast[t].dead

(* The broadcast returns and the handler goes on to its next one.  After   *)
(* the audit line of a fill the tracker sees the fill.                     *)
Return(t, outcome) ==
    LET b == cast[t]
        after == IF b.step = "filled" THEN OnExecution(trade, fill.q, fill.price) ELSE trade
        next == Following(b.step, after)
    IN  /\ b.step # "idle" /\ ~Resized(b)
        /\ IF Swapped(b) THEN cut' = CutBy(b) ELSE b.seen = b.start /\ UNCHANGED cut
        /\ trade' = IF after.held = 0 THEN NoTrade ELSE after
        /\ fill' = IF b.step = "filled" THEN NoFill ELSE fill
        /\ IF next = "idle"
           THEN /\ outcome = "ok"
                /\ clients' = Remaining(t)
                /\ cast' = [cast EXCEPT ![t] = NoCast]
                /\ UNCHANGED <<view, recent, disk, mishaps, unkept, made>>
           ELSE /\ Start(t, next, Remaining(t), outcome)
                /\ made' = IF next = "marker" THEN made ELSE Count(next)
        /\ UNCHANGED <<up, stage, alive, day, ledger, unread, astray>>

-----------------------------------------------------------------------------
(* Connections                                                             *)

M_AuditFirst == <<"audit", "trades">>
BackfillOrder == <<"trades", "audit">>

(* A backfill replaces the tab's list; an empty one is not sent.           *)
Backfill(c, l) ==
    IF alive[c] /\ recent[l] # <<>>
    THEN [view EXCEPT ![c][l] = Trim(recent[l], TabLimit(l))] ELSE view

(* _handle_client registers the connection and sends the first list.       *)
Connect(c) ==
    /\ up /\ stage[c] = "away"
    /\ clients' = clients \cup {c}
    /\ stage' = [stage EXCEPT ![c] = "backfill"]
    /\ view' = Backfill(c, BackfillOrder[1])
    /\ UNCHANGED <<up, alive, recent, disk, cast, fill, trade, day, mishaps, made, ledger,
                   cut, unkept, unread, astray>>

(* The second list of _send_backfill; a failed send skips it.              *)
BackfillRest(c) ==
    /\ stage[c] = "backfill"
    /\ stage' = [stage EXCEPT ![c] = "open"]
    /\ view' = Backfill(c, BackfillOrder[2])
    /\ UNCHANGED <<up, clients, alive, recent, disk, cast, fill, trade, day, mishaps, made,
                   ledger, cut, unkept, unread, astray>>

SocketBreaks(c) ==
    /\ stage[c] \in {"backfill", "open"} /\ alive[c]
    /\ mishaps < MaxMishaps
    /\ alive' = [alive EXCEPT ![c] = FALSE]
    /\ mishaps' = mishaps + 1
    /\ UNCHANGED <<up, clients, stage, view, recent, disk, cast, fill, trade, day, made,
                   ledger, cut, unkept, unread, astray>>

(* The message loop of a broken connection ends.                           *)
Disconnect(c) ==
    /\ stage[c] = "open" /\ ~alive[c]
    /\ clients' = clients \ {c}
    /\ stage' = [stage EXCEPT ![c] = "gone"]
    /\ UNCHANGED <<up, alive, view, recent, disk, cast, fill, trade, day, mishaps, made,
                   ledger, cut, unkept, unread, astray>>

-----------------------------------------------------------------------------
(* The process dies, with all its memory.  The tabs keep what they show.   *)
Crash ==
    /\ up /\ mishaps < MaxMishaps
    /\ up' = FALSE
    /\ mishaps' = mishaps + 1
    /\ clients' = {}
    /\ stage' = [c \in Conns |-> IF stage[c] = "away" THEN "away" ELSE "gone"]
    /\ alive' = [c \in Conns |-> stage[c] = "away"]
    /\ recent' = [l \in Lists |-> <<>>]
    /\ cast' = [t \in Tasks |-> NoCast]
    /\ fill' = NoFill
    /\ trade' = NoTrade
    /\ astray' = (astray \/ trade.held # 0 \/ cast["bus"].step \in {"order", "marker", "filled"})
    /\ UNCHANGED <<view, disk, day, made, ledger, cut, unkept, unread>>

(* start(): both lists are read from the logs, as far as they can be read. *)
Restart ==
    /\ ~up
    /\ up' = TRUE
    /\ \E bad \in [Lists -> UNION {Unreadable(disk[l]) : l \in Lists}] :
           /\ \A l \in Lists : bad[l] \in Unreadable(disk[l])
           /\ recent' = [l \in Lists |-> ReadRecent(disk[l], bad[l])]
           /\ unread' = UNION {{<<l, disk[l].lines[k].id>> : k \in bad[l]} : l \in Lists}
    /\ UNCHANGED <<clients, stage, alive, view, disk, cast, fill, trade, day, mishaps, made,
                   ledger, cut, unkept, astray>>

(* A new day has new files, without torn lines.                            *)
Midnight ==
    /\ day < MaxDay /\ mishaps < MaxMishaps
    /\ day' = day + 1
    /\ mishaps' = mishaps + 1
    /\ disk' = [l \in Lists |-> [disk[l] EXCEPT !.torn = FALSE]]
    /\ UNCHANGED <<up, clients, stage, alive, view, recent, cast, fill, trade, made, ledger,
                   cut, unkept, unread, astray>>

Next ==
    \/ \E q \in -MaxHeld .. MaxHeld \ {0}, p \in Prices : OnExecutionEvent(q, p)
    \/ \E o \in DiskFaults \cup {"ok"} :
           \/ \E step \in {"note", "status"} : Other(step, o)
           \/ \E t \in Tasks : Return(t, o)
    \/ \E t \in Tasks : BroadcastRaises(t) \/ \E c \in Conns : Send(t, c)
    \/ \E c \in Conns : Connect(c) \/ BackfillRest(c) \/ SocketBreaks(c) \/ Disconnect(c)
    \/ Crash \/ Restart \/ Midnight

Spec == Init /\ [][Next]_vars

-----------------------------------------------------------------------------
Holds(s, x) == \E i \in DOMAIN s : s[i] = x

Views == [Conns -> [Lists -> Seq(Nat)]]
Steps == {"idle", "order", "marker", "filled", "closed", "concluded", "note", "status"}
Casts == [step : Steps, id : Nat, seen : SUBSET Conns, start : SUBSET Conns, dead : SUBSET Conns]
Logs == [lines : Seq([id : Nat, day : Nat]), torn : BOOLEAN]

(* Type invariant.  A client is a connection that is being served, and a   *)
(* trade of which nothing is held is none.                                 *)
TypeOK ==
    /\ up \in BOOLEAN /\ astray \in BOOLEAN
    /\ stage \in [Conns -> {"away", "backfill", "open", "gone"}]
    /\ clients \subseteq {c \in Conns : stage[c] \in {"backfill", "open"}}
    /\ alive \in [Conns -> BOOLEAN]
    /\ view \in Views
    /\ recent \in [Lists -> Seq(Nat)]
    /\ disk \in [Lists -> Logs]
    /\ cast \in [Tasks -> Casts]
    /\ fill \in [q : Int, price : Nat]
    /\ trade \in [held : Int, avg : Int, exited : Int, pnl : Int]
    /\ trade = NoTrade \/ trade.held # 0
    /\ day \in 0 .. MaxDay /\ mishaps \in 0 .. MaxMishaps
    /\ made \in [audit : Nat, trades : Nat, fills : Nat, notes : Nat]
    /\ ledger \in [pos : Int, rounds : Nat]
    /\ cut \in SUBSET (Lists \X Nat) /\ unkept \in SUBSET (Lists \X Nat)
    /\ unread \in SUBSET (Lists \X Nat)

(* A connected tab shows every line and every trade of the bridge's lists, *)
(* whether it came with the backfill or live, however its registration     *)
(* (before its backfill, dashboard_bridge.py:228-230) falls into the       *)
(* broadcasts of several tasks; what it lacks is on its way, was cut off   *)
(* when the set of clients changed under the broadcast (line 308), or had  *)
(* to make room for something newer.                                       *)
NothingMissed ==
    \A c \in Conns, l \in Lists :
        alive[c] /\ stage[c] = "open" =>
            \A i \in DOMAIN recent[l] :
                LET id == recent[l][i]
                IN  \/ Holds(view[c][l], id)
                    \/ <<l, id>> \in cut
                    \/ /\ Len(view[c][l]) = TabLimit(l)
                       /\ \E j \in DOMAIN view[c][l] : view[c][l][j] > id
                    \/ \E t \in Tasks : /\ ListOf(cast[t].step) = l /\ cast[t].id = id
                                        /\ c \in cast[t].start \ cast[t].seen

(* No tab lists a closed trade twice, so its sum of profits is right:      *)
(* registration and the trades' backfill are one step.                     *)
TradesOnce ==
    \A c \in Conns : \A i, j \in DOMAIN view[c]["trades"] :
        i # j /\ view[c]["trades"][i] = view[c]["trades"][j]
            => <<"trades", view[c]["trades"][i]>> \in cut

(* What some tab has shown, a tab opened now shows too, also after crashes *)
(* and over midnight: records are logged before they are sent.  Exceptions *)
(* are records whose line was not written or ran into a torn one, those    *)
(* whose line this process could not read when it started (an OSError      *)
(* costs the rest of a day's file, daily_log.py:70), and the limits of     *)
(* read_recent() and of the lists.                                         *)
NothingForgotten ==
    up => \A c \in Conns, l \in Lists : \A i \in DOMAIN view[c][l] :
        LET id == view[c][l][i]
        IN  \/ Holds(recent[l], id)
            \/ <<l, id>> \in unkept \cup unread
            \/ Len(recent[l]) >= Limit(l) /\ id < recent[l][1]
            \/ \E k \in DOMAIN disk[l].lines :
                   disk[l].lines[k].id = id /\ disk[l].lines[k].day < day - DaysBack

(* As long as every fill reaches the tracker, which is the last to see it  *)
(* (dashboard_bridge.py:432, after three broadcasts that may raise), its   *)
(* trade is the account's position and there is one record per round trip, *)
(* also over crashes.                                                      *)
TrackerFollows ==
    ~astray /\ cast["bus"].step \notin {"order", "marker", "filled"} =>
        trade.held = ledger.pos /\ made.trades = ledger.rounds

(* Whenever a fill reaches the tracker, what it has done to the trade is   *)
(* the step of a bookkeeping that adds up over every sequence of fills:    *)
(* recorded profits, quantities and the open trade agree with the money    *)
(* paid and received (trade_tracker.py:6-11).                              *)
TrackerAddsUp == [][trade' # trade => FillsAddUp]_vars
=============================================================================
