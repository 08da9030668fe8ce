------------------------- MODULE DashboardBridgeProofs -------------------------
(* What holds of DashboardBridge for any number of connections, any limits *)
(* of the lists, any fills and any sequence of mishaps.                    *)
EXTENDS DashboardBridge, SequenceTheorems, WellFoundedInduction, TLAPS

-----------------------------------------------------------------------------
(* The operators that steps are made of.                                   *)

(* Which messages are kept, and where.                                     *)
LEMMA ListOfSteps ==
    /\ \A step \in {"filled", "concluded", "note"} : ListOf(step) = "audit"
    /\ ListOf("closed") = "trades"
    /\ \A step \in {"idle", "order", "marker", "status"} : ListOf(step) = "none"
    /\ \A step \in Steps : ListOf(step) \in Lists \cup {"none"}
<1>1. \A step \in {"filled", "concluded", "note"} : ListOf(step) = "audit"
  BY Zenon DEF ListOf
<1>2. ListOf("closed") = "trades"
  BY Zenon DEF ListOf
<1>3. \A step \in {"idle", "order", "marker", "status"} : ListOf(step) = "none"
  BY Zenon DEF ListOf
<1> QED BY <1>1, <1>2, <1>3 DEF Steps, Lists

(* What follows what in the handling of a fill.                            *)
LEMMA FollowingSteps ==
    ASSUME NEW after
    PROVE  /\ Following("order", after) = "marker" /\ Following("marker", after) = "filled"
           /\ after.held = 0 => Following("filled", after) = "closed"
           /\ after.held # 0 => Following("filled", after) = "idle"
           /\ Following("closed", after) = "concluded"
           /\ \A step \in {"concluded", "note", "status"} : Following(step, after) = "idle"
<1>1. Following("order", after) = "marker" /\ Following("marker", after) = "filled"
  BY Zenon DEF Following
<1>2. after.held = 0 => Following("filled", after) = "closed"
  BY Zenon DEF Following
<1>3. after.held # 0 => Following("filled", after) = "idle"
  BY Zenon DEF Following
<1>4. Following("closed", after) = "concluded"
  BY Zenon DEF Following
<1>5. \A step \in {"concluded", "note", "status"} : Following(step, after) = "idle"
  BY Zenon DEF Following
<1> QED BY <1>1, <1>2, <1>3, <1>4, <1>5

(* An append adds a line, or leaves or mends a torn one.                   *)
LEMMA LogAppends ==
    ASSUME NEW f \in Logs, NEW id \in Nat, NEW outcome \in {"ok", "fails", "torn"}, day \in Nat
    PROVE  /\ LogAppend(f, id, outcome) \in Logs
           /\ outcome = "ok" /\ ~f.torn =>
                  LogAppend(f, id, outcome).lines = Append(f.lines, [id |-> id, day |-> day])
           /\ outcome # "ok" \/ f.torn => LogAppend(f, id, outcome).lines = f.lines
<1> DEFINE g == LogAppend(f, id, outcome)
           more == Append(f.lines, [id |-> id, day |-> day])
<1>0. f.lines \in Seq([id : Nat, day : Nat]) /\ f.torn \in BOOLEAN
  BY DEF Logs
<1>1. more \in Seq([id : Nat, day : Nat])
  <2>1. [id |-> id, day |-> day] \in [id : Nat, day : Nat]
    OBVIOUS
  <2> QED BY <1>0, <2>1, AppendProperties
<1> HIDE DEF more
<1>2. CASE outcome = "torn"
  <2>1. g = [f EXCEPT !.torn = TRUE]
    BY <1>2, Zenon DEF LogAppend
  <2> HIDE DEF g
  <2> QED BY <1>2, <2>1 DEF Logs, g
<1>3. CASE outcome = "ok" /\ f.torn
  <2>1. g = [f EXCEPT !.torn = FALSE]
    BY <1>3, Zenon DEF LogAppend
  <2> HIDE DEF g
  <2> QED BY <1>3, <2>1 DEF Logs, g
<1>4. CASE outcome = "ok" /\ ~f.torn
  <2>1. g = [f EXCEPT !.lines = more]
    BY <1>4, Zenon DEF LogAppend, more
  <2> HIDE DEF g
  <2>2. g \in Logs /\ g.lines = more
    BY <1>1, <2>1 DEF Logs
  <2> QED BY <1>4, <2>2 DEF g, more
<1>5. CASE outcome = "fails"
  <2>1. g = f
    BY <1>5, Zenon DEF LogAppend
  <2> HIDE DEF g
  <2> QED BY <1>5, <2>1 DEF g
<1> QED BY <1>2, <1>3, <1>4, <1>5

(* Trim leaves a tail.                                                     *)
LEMMA TrimIsTail ==
    ASSUME NEW S, NEW s \in Seq(S), NEW n \in Nat \ {0}
    PROVE  /\ Trim(s, n) \in Seq(S)
           /\ Len(s) \in Nat /\ Len(Trim(s, n)) \in Nat
           /\ Len(Trim(s, n)) = IF Len(s) > n THEN n ELSE Len(s)
           /\ \A i \in 1 .. Len(Trim(s, n)) :
                  /\ Len(s) - Len(Trim(s, n)) + i \in 1 .. Len(s)
                  /\ Trim(s, n)[i] = s[Len(s) - Len(Trim(s, n)) + i]
<1>1. Len(s) \in Nat /\ \A i \in 1 .. Len(s) : s[i] \in S
  BY LenProperties, ElementOfSeq
<1>2. CASE Len(s) > n
  <2> DEFINE m == Len(s) - n + 1
             r == SubSeq(s, m, Len(s))
  <2>1. m \in Int /\ Len(s) \in Int /\ m <= Len(s) /\ \A i \in m .. Len(s) : s[i] \in S
    BY <1>1, <1>2
  <2>2. /\ r \in Seq(S) /\ Len(r) = IF m <= Len(s) THEN Len(s) - m + 1 ELSE 0
        /\ \A i \in 1 .. Len(s) - m + 1 : r[i] = s[m + i - 1]
    <3> HIDE DEF m
    <3> QED BY <2>1, SubSeqProperties
  <2>3. Trim(s, n) = r
    BY <1>2 DEF Trim
  <2> HIDE DEF r
  <2>4. Len(r) = n
    BY <1>1, <1>2, <2>1, <2>2
  <2>5. ASSUME NEW i \in 1 .. Len(r) PROVE Len(s) - Len(r) + i \in 1 .. Len(s) /\ r[i] = s[Len(s) - Len(r) + i]
    <3>1. i \in 1 .. Len(s) - m + 1 /\ m + i - 1 = Len(s) - Len(r) + i /\ Len(s) - Len(r) + i \in 1 .. Len(s)
      BY <1>1, <1>2, <2>4
    <3>2. r[i] = s[m + i - 1]
      BY <2>2, <3>1
    <3> QED BY <3>1, <3>2
  <2> QED BY <1>1, <1>2, <2>2, <2>3, <2>4, <2>5
<1>3. CASE ~(Len(s) > n)
  <2>1. Trim(s, n) = s
    BY <1>3 DEF Trim
  <2>2. ASSUME NEW i \in 1 .. Len(s) PROVE Len(s) - Len(s) + i = i
    BY <1>1
  <2> QED BY <1>1, <1>3, <2>1, <2>2
<1> QED BY <1>2, <1>3

(* A record is added at the end and the list trimmed: the new record is    *)
(* the last, and the others keep their order.                              *)
LEMMA AppendTrims ==
    ASSUME NEW s \in Seq(Nat), NEW x \in Nat, NEW n \in Nat \ {0}
    PROVE  LET r == Trim(Append(s, x), n)
           IN  /\ r \in Seq(Nat) /\ Len(s) \in Nat /\ Len(r) \in Nat /\ Len(r) >= 1
               /\ Len(r) = IF Len(s) + 1 > n THEN n ELSE Len(s) + 1
               /\ r[Len(r)] = x
               /\ \A i \in 1 .. Len(r) - 1 : /\ Len(s) + 1 - Len(r) + i \in 1 .. Len(s)
                                             /\ r[i] = s[Len(s) + 1 - Len(r) + i]
<1> DEFINE g == Append(s, x)
           r == Trim(g, n)
<1>1. /\ g \in Seq(Nat) /\ Len(s) \in Nat /\ Len(g) = Len(s) + 1 /\ g[Len(s) + 1] = x
      /\ \A i \in 1 .. Len(s) : g[i] = s[i]
  BY AppendProperties, LenProperties
<1> HIDE DEF g
<1>2. /\ r \in Seq(Nat) /\ Len(r) \in Nat /\ Len(r) = IF Len(g) > n THEN n ELSE Len(g)
      /\ \A i \in 1 .. Len(r) : /\ Len(g) - Len(r) + i \in 1 .. Len(g)
                                /\ r[i] = g[Len(g) - Len(r) + i]
  BY <1>1, TrimIsTail
<1> HIDE DEF r
<1>3. Len(r) >= 1 /\ Len(r) = IF Len(s) + 1 > n THEN n ELSE Len(s) + 1
  BY <1>1, <1>2
<1>4. r[Len(r)] = x
  <2>1. Len(r) \in 1 .. Len(r) /\ Len(g) - Len(r) + Len(r) = Len(s) + 1
    BY <1>1, <1>2, <1>3
  <2> QED BY <1>1, <1>2, <2>1
<1>5. ASSUME NEW i \in 1 .. Len(r) - 1
      PROVE  Len(s) + 1 - Len(r) + i \in 1 .. Len(s) /\ r[i] = s[Len(s) + 1 - Len(r) + i]
  <2>1. i \in 1 .. Len(r) /\ Len(g) - Len(r) + i = Len(s) + 1 - Len(r) + i
    BY <1>1, <1>2, <1>3
  <2>2. Len(s) + 1 - Len(r) + i \in 1 .. Len(s)
    BY <1>1, <1>2, <1>3
  <2> QED BY <1>1, <1>2, <2>1, <2>2
<1> QED BY <1>1, <1>2, <1>3, <1>4, <1>5 DEF r, g

(* The limits are positive.                                                *)
LEMMA LimitTypes ==
    \A l \in Lists : Limit(l) \in Nat \ {0} /\ TabLimit(l) \in Nat \ {0}
BY BridgeAssumption DEF Limit, TabLimit, Lists

(* A delivery changes one list of one tab, if it changes any.              *)
LEMMA Delivers ==
    ASSUME NEW v \in Views, NEW c \in Conns, NEW step \in Steps, NEW id \in Nat
    PROVE  /\ Deliver(v, c, step, id) \in Views
           /\ \A d \in Conns, m \in Lists :
                  \/ Deliver(v, c, step, id)[d][m] = v[d][m]
                  \/ /\ d = c /\ m = ListOf(step)
                     /\ Deliver(v, c, step, id)[d][m] = Trim(Append(v[c][m], id), TabLimit(m))
<1> DEFINE l == ListOf(step)
           new == Trim(Append(v[c][l], id), TabLimit(l))
           w == Deliver(v, c, step, id)
<1>1. CASE alive[c] /\ l # "none"
  <2>1. l \in Lists
    BY <1>1, ListOfSteps
  <2>2. new \in Seq(Nat)
    <3>1. v[c][l] \in Seq(Nat) /\ TabLimit(l) \in Nat \ {0}
      BY <2>1, LimitTypes DEF Views
    <3> QED BY <3>1, AppendTrims
  <2>3. w = [v EXCEPT ![c][l] = new]
    BY <1>1 DEF Deliver
  <2> HIDE DEF new, l, w
  <2>4. /\ w \in Views
        /\ \A d \in Conns, m \in Lists : w[d][m] = IF d = c /\ m = l THEN new ELSE v[d][m]
    BY <2>1, <2>2, <2>3 DEF Views
  <2> QED BY <2>4 DEF new, l, w
<1>2. CASE ~(alive[c] /\ l # "none")
  <2>1. w = v
    BY <1>2 DEF Deliver
  <2> QED BY <2>1
<1> QED BY <1>1, <1>2

(* A fill changes the quantity held by its own, if it does not cross zero. *)
LEMMA FillIsTracked ==
    ASSUME NEW t \in [held : Int, avg : Int, exited : Int, pnl : Int], NEW q \in Int, NEW price \in Nat
    PROVE  /\ OnExecution(t, q, price).held \in Int
           /\ q # 0 /\ (t.held = 0 \/ (q > 0 <=> t.held > 0) \/ Size(q) <= Size(t.held)) =>
                  OnExecution(t, q, price).held = t.held + q
<1> DEFINE a == OnExecution(t, q, price)
<1>1. CASE t.held = 0
  <2>1. a = OpenTrade(q, price)
    BY <1>1 DEF OnExecution
  <2> QED BY <1>1, <2>1 DEF OpenTrade
<1>2. CASE t.held # 0 /\ (q > 0 <=> t.held > 0)
  <2>1. a = ScaleIn(t, q, price)
    BY <1>2 DEF OnExecution
  <2>2. ScaleIn(t, q, price).held = t.held + q
    BY DEF ScaleIn
  <2> QED BY <2>1, <2>2
<1>3. CASE t.held # 0 /\ ~(q > 0 <=> t.held > 0)
  <2> DEFINE closing == IF Size(q) <= Size(t.held) THEN Size(q) ELSE Size(t.held)
             side == IF t.held > 0 THEN 1 ELSE -1
  <2>1. a = CloseSome(t, q, price)
    BY <1>3 DEF OnExecution
  <2>2. CloseSome(t, q, price).held = t.held - side * closing
    BY DEF CloseSome
  <2>3. closing \in Int /\ Size(q) \in Nat /\ Size(t.held) \in Nat
    BY DEF Size
  <2>4. CASE t.held > 0
    <3>1. side * closing = closing
      BY <2>3, <2>4
    <3>2. a.held = t.held - closing
      BY <2>1, <2>2, <3>1
    <3>3. q <= 0 /\ Size(q) = -q /\ Size(t.held) = t.held
      BY <1>3, <2>4 DEF Size
    <3> HIDE DEF a
    <3> QED BY <1>3, <2>3, <2>4, <3>2, <3>3 DEF a
  <2>5. CASE ~(t.held > 0)
    <3>1. side * closing = -closing
      BY <2>3, <2>5
    <3>2. a.held = t.held + closing
      BY <2>1, <2>2, <2>3, <3>1
    <3>3. q > 0 /\ Size(q) = q /\ Size(t.held) = -t.held
      BY <1>3, <2>5 DEF Size
    <3> HIDE DEF a
    <3> QED BY <1>3, <2>3, <2>5, <3>2, <3>3 DEF a
  <2> QED BY <2>4, <2>5
<1> QED BY <1>1, <1>2, <1>3

(* A fill leaves a trade of the same type.                                 *)
LEMMA FillType ==
    ASSUME NEW t \in [held : Int, avg : Int, exited : Int, pnl : Int], NEW q \in Int, NEW price \in Nat
    PROVE  OnExecution(t, q, price) \in [held : Int, avg : Int, exited : Int, pnl : Int]
<1> DEFINE R == [held : Int, avg : Int, exited : Int, pnl : Int]
<1>0. \A a, b \in Int : a * b \in Int
  OBVIOUS
<1>1. Mult \in Int /\ Fee \in Int /\ price \in Int /\ t.held \in Int /\ t.avg \in Int /\ t.exited \in Int /\ t.pnl \in Int
  BY TrackerAssumption
<1>2. CASE t.held = 0
  <2>1. OnExecution(t, q, price) = OpenTrade(q, price)
    BY <1>2 DEF OnExecution
  <2> QED BY <1>1, <2>1 DEF OpenTrade
<1>3. CASE t.held # 0 /\ (q > 0 <=> t.held > 0)
  <2>1. OnExecution(t, q, price) = ScaleIn(t, q, price)
    BY <1>3 DEF OnExecution
  <2>2. Size(t.held + q) \in Nat \ {0} /\ Size(t.held) \in Int /\ Size(q) \in Int
    BY <1>1, <1>3 DEF Size
  <2>3. (t.avg * Size(t.held) + price * Size(q)) \div Size(t.held + q) \in Int
    <3> DEFINE n == t.avg * Size(t.held) + price * Size(q)
               d == Size(t.held + q)
    <3>1. n \in Int /\ d \in Nat \ {0}
      BY <1>0, <1>1, <2>2
    <3> HIDE DEF n, d
    <3>2. n \div d \in Int
      BY <3>1
    <3> QED BY <3>2 DEF n, d
  <2>4. ScaleIn(t, q, price) \in R
    <3> DEFINE avg == (t.avg * Size(t.held) + price * Size(q)) \div Size(t.held + q)
    <3>1. ScaleIn(t, q, price) = [t EXCEPT !.held = t.held + q, !.pnl = t.pnl - Fee, !.avg = avg]
      BY DEF ScaleIn
    <3>2. avg \in Int
      BY <2>3
    <3> HIDE DEF avg
    <3>3. t.held + q \in Int /\ t.pnl - Fee \in Int
      BY <1>1
    <3>4. \A h, p, a \in Int : [t EXCEPT !.held = h, !.pnl = p, !.avg = a] \in R
      OBVIOUS
    <3> QED BY <3>1, <3>2, <3>3, <3>4
  <2> QED BY <2>1, <2>4
<1>4. CASE t.held # 0 /\ ~(q > 0 <=> t.held > 0)
  <2> DEFINE closing == IF Size(q) <= Size(t.held) THEN Size(q) ELSE Size(t.held)
             side == IF t.held > 0 THEN 1 ELSE -1
  <2>1. OnExecution(t, q, price) = CloseSome(t, q, price)
    BY <1>4 DEF OnExecution
  <2>2. closing \in Int /\ side \in Int
    BY <1>1 DEF Size
  <2>3. CloseSome(t, q, price) = [held |-> t.held - side * closing, avg |-> t.avg, exited |-> t.exited + closing,
                                  pnl |-> t.pnl + side * (price - t.avg) * closing * Mult - Fee]
    BY DEF CloseSome
  <2> HIDE DEF closing, side
  <2>4. side * closing \in Int /\ side * (price - t.avg) * closing * Mult \in Int
    <3>1. price - t.avg \in Int
      BY <1>1
    <3>2. side * (price - t.avg) \in Int /\ side * closing \in Int
      BY <1>0, <2>2, <3>1
    <3>3. side * (price - t.avg) * closing \in Int
      BY <1>0, <2>2, <3>2
    <3> QED BY <1>0, <1>1, <3>2, <3>3
  <2> QED BY <1>1, <2>1, <2>2, <2>3, <2>4
<1> QED BY <1>2, <1>3, <1>4

-----------------------------------------------------------------------------
(* The start of a broadcast, which most steps are made of.                 *)

Outcomes == {"ok", "fails", "torn"}

(* The number of the record that a step makes.                             *)
NewId(step) == IF ListOf(step) = "none" THEN 0 ELSE made[ListOf(step)] + 1

(* Numbers of records.                                                     *)
LEMMA MadeTypes ==
    ASSUME TypeOK
    PROVE  /\ \A l \in Lists : made[l] \in Nat
           /\ \A step \in Steps : NewId(step) \in Nat
<1>1. made["audit"] \in Nat /\ made["trades"] \in Nat
  BY DEF TypeOK
<1>2. \A l \in Lists : made[l] \in Nat
  BY <1>1 DEF Lists
<1> QED BY <1>2, ListOfSteps DEF NewId

(* A message is kept, logged and sent to the first client.                 *)
LEMMA StartCasts ==
    ASSUME TypeOK, NEW t \in Tasks, NEW step \in Steps, NEW live \in SUBSET Conns,
           NEW outcome \in Outcomes, Start(t, step, live, outcome)
    PROVE  /\ cast' \in [Tasks -> Casts] /\ clients' = live
           /\ \A u \in Tasks : u # t => cast'[u] = cast[u]
           /\ cast'[t].step = step /\ cast'[t].id = NewId(step) /\ cast'[t].start = live
           /\ cast'[t].seen \subseteq live
           /\ view' \in Views
           /\ \A d \in Conns, m \in Lists :
                  \/ view'[d][m] = view[d][m]
                  \/ /\ d \in cast'[t].seen /\ m = ListOf(step)
                     /\ view'[d][m] = Trim(Append(view[d][m], NewId(step)), TabLimit(m))
<1> DEFINE id == NewId(step)
<1>0. cast \in [Tasks -> Casts] /\ view \in Views
  BY DEF TypeOK
<1>1. id \in Nat
  BY MadeTypes
<1>2. CASE live = {}
  <2> DEFINE b == [NoCast EXCEPT !.step = step, !.id = id]
  <2>1. cast' = [cast EXCEPT ![t] = b] /\ view' = view /\ clients' = live
    BY <1>2 DEF Start, NewId
  <2>2. b \in Casts /\ b.step = step /\ b.id = id /\ b.start = {} /\ b.seen = {}
    <3> HIDE DEF id
    <3> QED BY <1>1 DEF NoCast, Casts
  <2> HIDE DEF b, id
  <2>3. cast' \in [Tasks -> Casts] /\ cast'[t] = b /\ \A u \in Tasks : u # t => cast'[u] = cast[u]
    BY <1>0, <2>1, <2>2
  <2> QED BY <1>0, <1>2, <2>1, <2>2, <2>3 DEF id
<1>3. CASE live # {}
  <2>1. PICK c \in live :
            /\ view' = Deliver(view, c, step, id)
            /\ cast' = [cast EXCEPT ![t] =
                  [step |-> step, id |-> id, seen |-> {c}, start |-> live,
                   dead |-> IF alive[c] THEN {} ELSE {c}]]
            /\ clients' = live
    BY <1>3 DEF Start, NewId
  <2> DEFINE b == [step |-> step, id |-> id, seen |-> {c}, start |-> live,
                   dead |-> IF alive[c] THEN {} ELSE {c}]
  <2> HIDE DEF id
  <2>2. b \in Casts /\ b.step = step /\ b.id = id /\ b.start = live /\ b.seen = {c}
    BY <1>1 DEF Casts
  <2>3. cast' = [cast EXCEPT ![t] = b]
    BY <2>1
  <2> HIDE DEF b
  <2>4. cast' \in [Tasks -> Casts] /\ cast'[t] = b /\ \A u \in Tasks : u # t => cast'[u] = cast[u]
    BY <1>0, <2>2, <2>3
  <2>5. /\ view' \in Views
        /\ \A d \in Conns, m \in Lists :
               \/ view'[d][m] = view[d][m]
               \/ d = c /\ m = ListOf(step) /\ view'[d][m] = Trim(Append(view[c][m], id), TabLimit(m))
    <3>1. c \in Conns
      OBVIOUS
    <3> DEFINE w == Deliver(view, c, step, id)
    <3>2. /\ w \in Views
          /\ \A d \in Conns, m \in Lists :
                 \/ w[d][m] = view[d][m]
                 \/ d = c /\ m = ListOf(step) /\ w[d][m] = Trim(Append(view[c][m], id), TabLimit(m))
      BY <1>0, <1>1, <3>1, Delivers
    <3>3. view' = w
      BY <2>1
    <3> HIDE DEF w
    <3> QED BY <3>2, <3>3
  <2> QED BY <2>1, <2>2, <2>4, <2>5 DEF id
<1> QED BY <1>2, <1>3

(* What it does to the lists and the logs.                                 *)
LEMMA StartRecords ==
    ASSUME TypeOK, NEW t \in Tasks, NEW step \in Steps, NEW live \in SUBSET Conns,
           NEW outcome \in Outcomes, Start(t, step, live, outcome)
    PROVE  /\ recent' \in [Lists -> Seq(Nat)] /\ disk' \in [Lists -> Logs]
           /\ unkept' \in SUBSET (Lists \X Nat) /\ unkept \subseteq unkept'
           /\ mishaps' \in 0 .. MaxMishaps
           /\ \A m \in Lists \ {ListOf(step)} : recent'[m] = recent[m] /\ disk'[m] = disk[m]
           /\ ListOf(step) # "none" =>
                  LET l == ListOf(step)
                  IN  /\ recent'[l] = Trim(Append(recent[l], NewId(step)), Limit(l))
                      /\ disk'[l] = LogAppend(disk[l], NewId(step), outcome)
                      /\ unkept' = IF outcome # "ok" \/ disk[l].torn
                                   THEN unkept \cup {<<l, NewId(step)>>} ELSE unkept
<1> DEFINE id == NewId(step)
           l == ListOf(step)
<1>0. /\ recent \in [Lists -> Seq(Nat)] /\ disk \in [Lists -> Logs] /\ unkept \in SUBSET (Lists \X Nat)
      /\ mishaps \in Nat /\ day \in Nat /\ MaxMishaps \in Nat
  <2>1. MaxMishaps \in Nat /\ mishaps \in 0 .. MaxMishaps /\ day \in 0 .. MaxDay /\ MaxDay \in Nat
    BY BridgeAssumption DEF TypeOK
  <2> QED BY <2>1 DEF TypeOK
<1>1. id \in Nat
  BY MadeTypes
<1>2. mishaps' \in 0 .. MaxMishaps
  BY <1>0 DEF Start
<1>3. CASE l = "none"
  <2>1. recent' = recent /\ disk' = disk /\ unkept' = unkept
    BY <1>3 DEF Start
  <2> QED BY <1>0, <1>2, <1>3, <2>1
<1>4. CASE l # "none"
  <2>1. l \in Lists
    BY <1>4, ListOfSteps
  <2>2. /\ recent' = [recent EXCEPT ![l] = Trim(Append(recent[l], id), Limit(l))]
        /\ disk' = [disk EXCEPT ![l] = LogAppend(disk[l], id, outcome)]
        /\ unkept' = IF outcome # "ok" \/ disk[l].torn THEN unkept \cup {<<l, id>>} ELSE unkept
    BY <1>4 DEF Start, NewId
  <2>3. Trim(Append(recent[l], id), Limit(l)) \in Seq(Nat)
    <3>1. recent[l] \in Seq(Nat) /\ Limit(l) \in Nat \ {0}
      BY <1>0, <2>1, LimitTypes
    <3> QED BY <1>1, <3>1, AppendTrims
  <2>4. LogAppend(disk[l], id, outcome) \in Logs
    <3>1. disk[l] \in Logs
      BY <1>0, <2>1
    <3> QED BY <1>0, <1>1, <3>1, LogAppends DEF Outcomes
  <2> HIDE DEF id, l
  <2>5. /\ recent' \in [Lists -> Seq(Nat)] /\ disk' \in [Lists -> Logs]
        /\ \A m \in Lists \ {l} : recent'[m] = recent[m] /\ disk'[m] = disk[m]
        /\ recent'[l] = Trim(Append(recent[l], id), Limit(l))
        /\ disk'[l] = LogAppend(disk[l], id, outcome)
    BY <1>0, <2>1, <2>2, <2>3, <2>4
  <2>6. unkept' \in SUBSET (Lists \X Nat) /\ unkept \subseteq unkept'
    BY <1>0, <1>1, <2>1, <2>2
  <2> QED BY <1>2, <2>2, <2>5, <2>6 DEF id, l
<1> QED BY <1>3, <1>4

-----------------------------------------------------------------------------
(* Types.                                                                  *)

Trades == [held : Int, avg : Int, exited : Int, pnl : Int]
Counters == [audit : Nat, trades : Nat, fills : Nat, notes : Nat]

(* A record made is counted in its list.                                   *)
LEMMA Counts ==
    ASSUME made \in Counters, NEW step \in Steps
    PROVE  /\ Count(step) \in Counters
           /\ \A l \in Lists : Count(step)[l] = IF l = ListOf(step) THEN made[l] + 1 ELSE made[l]
<1>1. CASE ListOf(step) = "audit"
  <2>1. Count(step) = [made EXCEPT !["audit"] = @ + 1]
    BY <1>1 DEF Count
  <2>2. Count(step) \in Counters /\ Count(step).audit = made.audit + 1 /\ Count(step).trades = made.trades
    BY <2>1 DEF Counters
  <2> QED BY <1>1, <2>2 DEF Lists
<1>2. CASE ListOf(step) = "trades"
  <2>1. Count(step) = [made EXCEPT !["trades"] = @ + 1]
    BY <1>2 DEF Count
  <2>2. Count(step) \in Counters /\ Count(step).audit = made.audit /\ Count(step).trades = made.trades + 1
    BY <2>1 DEF Counters
  <2> QED BY <1>2, <2>2 DEF Lists
<1>3. CASE ListOf(step) = "none"
  <2>1. Count(step) = [made EXCEPT !["notes"] = @ + 1]
    BY <1>3 DEF Count
  <2>2. Count(step) \in Counters /\ Count(step).audit = made.audit /\ Count(step).trades = made.trades
    BY <2>1 DEF Counters
  <2> QED BY <1>3, <2>2 DEF Lists
<1> QED BY <1>1, <1>2, <1>3, ListOfSteps DEF Lists

(* A fill, up to its first broadcast.                                      *)
LEMMA ExecutionEffect ==
    ASSUME TypeOK, NEW q \in Int, NEW p \in Prices, OnExecutionEvent(q, p)
    PROVE  /\ Start("bus", "order", clients, "ok") /\ "order" \in Steps /\ "ok" \in Outcomes
           /\ "bus" \in Tasks /\ clients \in SUBSET Conns
           /\ made' \in Counters /\ \A l \in Lists : made'[l] = made[l]
           /\ fill' = [q |-> q, price |-> p] /\ p \in Nat
<1>1. made \in Counters /\ made' = [made EXCEPT !.fills = @ + 1]
  BY DEF TypeOK, Counters, OnExecutionEvent
<1>2. made' \in Counters /\ made'.audit = made.audit /\ made'.trades = made.trades
  BY <1>1 DEF Counters
<1>3. \A l \in Lists : made'[l] = made[l]
  BY <1>2 DEF Lists
<1> QED BY <1>2, <1>3, BridgeAssumption DEF OnExecutionEvent, TypeOK, Steps, Outcomes, Tasks

(* A message of another task.                                              *)
LEMMA OtherEffect ==
    ASSUME TypeOK, NEW step \in {"note", "status"}, NEW o \in Outcomes, Other(step, o)
    PROVE  /\ Start("other", step, clients, o) /\ step \in Steps
           /\ "other" \in Tasks /\ clients \in SUBSET Conns
           /\ made' \in Counters
           /\ \A l \in Lists : made'[l] = IF l = ListOf(step) THEN made[l] + 1 ELSE made[l]
<1>1. made \in Counters /\ step \in Steps
  BY DEF TypeOK, Counters, Steps
<1>2. /\ Count(step) \in Counters
      /\ \A l \in Lists : Count(step)[l] = IF l = ListOf(step) THEN made[l] + 1 ELSE made[l]
  BY <1>1, Counts
<1>3. made' = [Count(step) EXCEPT !.notes = made.notes + 1] /\ made.notes \in Nat
  BY <1>1 DEF Other, Counters
<1> DEFINE n == Count(step)
<1> HIDE DEF n
<1>4. made' \in Counters /\ made'.audit = n.audit /\ made'.trades = n.trades
  BY <1>2, <1>3 DEF Counters, n
<1>5. \A l \in Lists : made'[l] = n[l]
  BY <1>4 DEF Lists
<1> QED BY <1>1, <1>2, <1>4, <1>5 DEF Other, TypeOK, Tasks, n

(* The tracker's trade after a broadcast, and the handler's next message.  *)
After(t) == IF cast[t].step = "filled" THEN OnExecution(trade, fill.q, fill.price) ELSE trade
Then(t) == Following(cast[t].step, After(t))

(* A broadcast returns: the handler is done or starts the next one.        *)
LEMMA ReturnEffect ==
    ASSUME TypeOK, NEW t \in Tasks, NEW o \in Outcomes, Return(t, o)
    PROVE  /\ cast[t].step # "idle" /\ cast[t].step \in Steps /\ After(t) \in Trades
           /\ trade' = (IF After(t).held = 0 THEN NoTrade ELSE After(t))
           /\ fill' = (IF cast[t].step = "filled" THEN NoFill ELSE fill)
           /\ Then(t) \in Steps /\ Remaining(t) \in SUBSET clients
           /\ UNCHANGED <<up, stage, alive, day, ledger, unread, astray>>
           /\ cut \subseteq cut' /\ cut' \in SUBSET (Lists \X Nat)
           /\ made' \in Counters
           /\ \/ /\ Then(t) = "idle" /\ clients' = Remaining(t)
                 /\ cast' = [cast EXCEPT ![t] = NoCast]
                 /\ UNCHANGED <<view, recent, disk, mishaps, unkept, made>>
              \/ /\ Then(t) # "idle" /\ Start(t, Then(t), Remaining(t), o)
                 /\ \A l \in Lists : made'[l] = IF l = ListOf(Then(t)) THEN made[l] + 1 ELSE made[l]
<1> DEFINE b == cast[t]
<1>0. /\ b \in Casts /\ b.step \in Steps /\ made \in Counters /\ clients \subseteq Conns
      /\ trade \in Trades /\ fill.q \in Int /\ fill.price \in Nat /\ b.id \in Nat
      /\ cut \in SUBSET (Lists \X Nat)
  BY DEF TypeOK, Casts, Trades, Counters
<1>1. After(t) \in Trades
  BY <1>0, FillType DEF After, Trades
<1>2. /\ b.step # "idle"
      /\ trade' = (IF After(t).held = 0 THEN NoTrade ELSE After(t))
      /\ fill' = (IF b.step = "filled" THEN NoFill ELSE fill)
      /\ UNCHANGED <<up, stage, alive, day, ledger, unread, astray>>
      /\ cut' = CutBy(b) \/ cut' = cut
      /\ IF Then(t) = "idle"
         THEN /\ clients' = Remaining(t)
              /\ cast' = [cast EXCEPT ![t] = NoCast]
              /\ UNCHANGED <<view, recent, disk, mishaps, unkept, made>>
         ELSE /\ Start(t, Then(t), Remaining(t), o)
              /\ made' = IF Then(t) = "marker" THEN made ELSE Count(Then(t))
  BY DEF Return, After, Then
<1>3. Then(t) \in Steps /\ Then(t) \in {"marker", "filled", "closed", "concluded", "idle"}
  <2>1. b.step \in {"order", "marker", "filled", "closed", "concluded", "note", "status"}
    BY <1>0, <1>2 DEF Steps
  <2> HIDE DEF b
  <2>2. Following(b.step, After(t)) \in {"marker", "filled", "closed", "concluded", "idle"}
    BY <2>1, FollowingSteps
  <2> QED BY <2>2 DEF Then, b, Steps
<1>4. cut \subseteq cut' /\ cut' \in SUBSET (Lists \X Nat)
  <2>1. ListOf(b.step) \in Lists \cup {"none"}
    BY <1>0, ListOfSteps
  <2> HIDE DEF b
  <2> QED BY <1>0, <1>2, <2>1 DEF CutBy
<1>5. ASSUME Then(t) # "idle"
      PROVE  /\ made' \in Counters
             /\ \A l \in Lists : made'[l] = IF l = ListOf(Then(t)) THEN made[l] + 1 ELSE made[l]
  <2>1. CASE Then(t) = "marker"
    <3>1. made' = made /\ ListOf(Then(t)) = "none"
      BY <1>2, <1>5, <2>1, ListOfSteps
    <3> QED BY <1>0, <3>1 DEF Lists
  <2>2. CASE Then(t) # "marker"
    BY <1>0, <1>2, <1>3, <1>5, <2>2, Counts
  <2> QED BY <2>1, <2>2
<1> QED BY <1>0, <1>1, <1>2, <1>3, <1>4, <1>5 DEF Remaining

(* A message is sent to a further client.                                  *)
LEMMA SendEffect ==
    ASSUME TypeOK, NEW t \in Tasks, NEW c \in Conns, Send(t, c)
    PROVE  /\ cast[t] \in Casts /\ cast[t].step \in Steps /\ cast[t].id \in Nat
           /\ c \in clients \ cast[t].seen
           /\ cast' \in [Tasks -> Casts] /\ \A u \in Tasks : u # t => cast'[u] = cast[u]
           /\ cast'[t].step = cast[t].step /\ cast'[t].id = cast[t].id
           /\ cast'[t].start = cast[t].start /\ cast'[t].seen = cast[t].seen \cup {c}
           /\ cut \subseteq cut' /\ cut' \in SUBSET (Lists \X Nat)
           /\ Swapped(cast[t]) => cut' = CutBy(cast[t])
           /\ ~Swapped(cast[t]) => c \in cast[t].start
           /\ view' \in Views
           /\ \A d \in Conns, m \in Lists :
                  \/ view'[d][m] = view[d][m]
                  \/ /\ d = c /\ m = ListOf(cast[t].step)
                     /\ view'[d][m] = Trim(Append(view[c][m], cast[t].id), TabLimit(m))
           /\ UNCHANGED <<up, clients, stage, alive, recent, disk, fill, trade, day, mishaps,
                          made, ledger, unkept, unread, astray>>
<1> DEFINE b == cast[t]
           dead == IF alive[c] THEN b.dead ELSE b.dead \cup {c}
           n == [b EXCEPT !.seen = b.seen \cup {c}, !.dead = dead]
<1>0. cast \in [Tasks -> Casts] /\ b \in Casts /\ cut \in SUBSET (Lists \X Nat) /\ view \in Views
  BY DEF TypeOK
<1>1. b.step \in Steps /\ b.id \in Nat /\ b.seen \subseteq Conns /\ b.start \subseteq Conns /\ b.dead \subseteq Conns
  BY <1>0 DEF Casts
<1>2. /\ b.start # {} /\ c \in clients \ b.seen
      /\ cut' = (IF Swapped(b) THEN CutBy(b) ELSE cut)
      /\ view' = Deliver(view, c, b.step, b.id)
      /\ cast' = [cast EXCEPT ![t].seen = @ \cup {c}, ![t].dead = IF alive[c] THEN @ ELSE @ \cup {c}]
      /\ UNCHANGED <<up, clients, stage, alive, recent, disk, fill, trade, day, mishaps,
                     made, ledger, unkept, unread, astray>>
  BY DEF Send
<1>3. n \in Casts /\ n.step = b.step /\ n.id = b.id /\ n.start = b.start /\ n.seen = b.seen \cup {c}
  <2>1. b.seen \cup {c} \in SUBSET Conns /\ dead \in SUBSET Conns
    BY <1>1
  <2> DEFINE s == b.seen \cup {c}
  <2>4. s \in SUBSET Conns /\ dead \in SUBSET Conns
    BY <2>1
  <2> HIDE DEF s, dead
  <2>5. n = [b EXCEPT !.seen = s, !.dead = dead]
    BY DEF s
  <2> HIDE DEF b, n
  <2>6. n \in Casts
    BY <1>0, <2>4, <2>5 DEF Casts
  <2>7. n.step = b.step /\ n.id = b.id /\ n.start = b.start /\ n.seen = s
    BY <1>0, <2>4, <2>5 DEF Casts
  <2> QED BY <2>6, <2>7 DEF s
<1>4. cast' = [cast EXCEPT ![t] = n]
  BY <1>0, <1>2
<1> HIDE DEF n
<1>6. cast' \in [Tasks -> Casts] /\ cast'[t] = n /\ \A u \in Tasks : u # t => cast'[u] = cast[u]
  BY <1>0, <1>3, <1>4
<1> HIDE DEF b
<1>7. cut \subseteq cut' /\ cut' \in SUBSET (Lists \X Nat)
  <2>1. ListOf(b.step) \in Lists \cup {"none"}
    BY <1>1, ListOfSteps
  <2> QED BY <1>0, <1>1, <1>2, <2>1 DEF CutBy
<1>8. ~Swapped(b) => c \in b.start
  BY <1>2 DEF Swapped
<1>9. /\ view' \in Views
      /\ \A d \in Conns, m \in Lists :
             \/ view'[d][m] = view[d][m]
             \/ d = c /\ m = ListOf(b.step) /\ view'[d][m] = Trim(Append(view[c][m], b.id), TabLimit(m))
  <2> DEFINE w == Deliver(view, c, b.step, b.id)
  <2>1. /\ w \in Views
        /\ \A d \in Conns, m \in Lists :
               \/ w[d][m] = view[d][m]
               \/ d = c /\ m = ListOf(b.step) /\ w[d][m] = Trim(Append(view[c][m], b.id), TabLimit(m))
    BY <1>0, <1>1, Delivers
  <2>2. view' = w
    BY <1>2
  <2> HIDE DEF w
  <2> QED BY <2>1, <2>2
<1> QED BY <1>0, <1>1, <1>2, <1>3, <1>6, <1>7, <1>8, <1>9 DEF b

(* A broadcast raises.                                                     *)
LEMMA RaiseEffect ==
    ASSUME TypeOK, NEW t \in Tasks, BroadcastRaises(t)
    PROVE  /\ cast' \in [Tasks -> Casts] /\ cast'[t] = NoCast
           /\ \A u \in Tasks : u # t => cast'[u] = cast[u]
           /\ cut \subseteq cut' /\ cut' \in SUBSET (Lists \X Nat)
           /\ UNCHANGED <<up, clients, stage, alive, view, recent, disk, trade, day, mishaps,
                          made, ledger, unkept, unread>>
           /\ fill' = (IF t = "bus" THEN NoFill ELSE fill)
           /\ astray' = (astray \/ cast[t].step \in {"order", "marker", "filled"})
<1> DEFINE b == cast[t]
<1>0. cast \in [Tasks -> Casts] /\ b \in Casts /\ cut \in SUBSET (Lists \X Nat)
  BY DEF TypeOK
<1>1. b.step \in Steps /\ b.id \in Nat
  BY <1>0 DEF Casts
<1>2. /\ cut' = CutBy(b) \/ cut' = cut
      /\ cast' = [cast EXCEPT ![t] = NoCast]
      /\ UNCHANGED <<up, clients, stage, alive, view, recent, disk, trade, day, mishaps,
                     made, ledger, unkept, unread>>
      /\ fill' = (IF t = "bus" THEN NoFill ELSE fill)
      /\ astray' = (astray \/ cast[t].step \in {"order", "marker", "filled"})
  BY DEF BroadcastRaises
<1>3. NoCast \in Casts
  BY DEF NoCast, Casts, Steps
<1>4. cut \subseteq cut' /\ cut' \in SUBSET (Lists \X Nat)
  <2>1. ListOf(b.step) \in Lists \cup {"none"}
    BY <1>1, ListOfSteps
  <2> HIDE DEF b
  <2> QED BY <1>0, <1>1, <1>2, <2>1 DEF CutBy
<1> QED BY <1>0, <1>2, <1>3, <1>4

(* A backfill replaces one list of one tab, if any.                        *)
LEMMA Backfills ==
    ASSUME TypeOK, NEW c \in Conns, NEW l \in Lists
    PROVE  /\ Backfill(c, l) \in Views
           /\ \A d \in Conns, m \in Lists :
                  \/ Backfill(c, l)[d][m] = view[d][m]
                  \/ d = c /\ m = l /\ Backfill(c, l)[d][m] = Trim(recent[l], TabLimit(l))
<1> DEFINE new == Trim(recent[l], TabLimit(l))
           w == Backfill(c, l)
<1>0. view \in Views /\ recent[l] \in Seq(Nat)
  BY DEF TypeOK
<1>1. new \in Seq(Nat)
  <2>1. TabLimit(l) \in Nat \ {0}
    BY LimitTypes
  <2> QED BY <1>0, <2>1, TrimIsTail
<1>2. w = view \/ w = [view EXCEPT ![c][l] = new]
  BY DEF Backfill
<1> HIDE DEF new, w
<1>3. CASE w = [view EXCEPT ![c][l] = new]
  <2>1. /\ w \in Views
        /\ \A d \in Conns, m \in Lists : w[d][m] = IF d = c /\ m = l THEN new ELSE view[d][m]
    BY <1>0, <1>1, <1>3 DEF Views
  <2> QED BY <2>1 DEF new, w
<1>4. CASE w = view
  BY <1>0, <1>4 DEF w
<1> QED BY <1>2, <1>3, <1>4

(* The lists in the order in which a new tab gets them.                    *)
LEMMA BackfillLists == BackfillOrder[1] = "trades" /\ BackfillOrder[2] = "audit"
BY DEF BackfillOrder

(* Induction, for a set of numbers.                                        *)
LEMMA NatSetInduction ==
    ASSUME NEW T, T \subseteq Nat, 0 \in T, \A n \in T : n + 1 \in T
    PROVE  T = Nat
<1> DEFINE R == Nat \ T
<1>1. SUFFICES ASSUME R # {} PROVE FALSE
  OBVIOUS
<1>2. PICK n \in R : \A y \in R : ~(<<y, n>> \in OpToRel(<, Nat))
  <2>1. R \subseteq Nat
    OBVIOUS
  <2> HIDE DEF R
  <2> QED BY <1>1, <2>1, WFMin, NatLessThanWellFounded
<1>3. \A y \in R : ~(y < n)
  BY <1>2 DEF OpToRel
<1>4. n - 1 \in T
  BY <1>3
<1> QED BY <1>4

(* Numbers can be listed in ascending order.                               *)
ListedBy(s, K) == Ascending(s) /\ \A k \in K : \E i \in DOMAIN s : s[i] = k

LEMMA AscendingExists ==
    ASSUME NEW m \in Nat, NEW K \in SUBSET (1 .. m)
    PROVE  \E n \in 0 .. m : \E s \in [1 .. n -> K] : ListedBy(s, K)
<1> DEFINE Can(x) == \A J \in SUBSET (1 .. x) :
                         \E n \in 0 .. x : \E s \in [1 .. n -> J] : ListedBy(s, J)
<1>1. Can(0)
  <2> SUFFICES ASSUME NEW J \in SUBSET (1 .. 0)
               PROVE  \E n \in 0 .. 0 : \E s \in [1 .. n -> J] : ListedBy(s, J)
    OBVIOUS
  <2> DEFINE s == [i \in 1 .. 0 |-> i]
  <2>1. J = {} /\ 1 .. 0 = {}
    OBVIOUS
  <2>2. s \in [1 .. 0 -> J] /\ ListedBy(s, J)
    BY <2>1 DEF ListedBy, Ascending
  <2>3. 0 \in 0 .. 0
    OBVIOUS
  <2> HIDE DEF s
  <2> QED BY <2>2, <2>3
<1>2. ASSUME NEW x \in Nat, Can(x) PROVE Can(x + 1)
  <2> SUFFICES ASSUME NEW J \in SUBSET (1 .. x + 1)
               PROVE  \E n \in 0 .. x + 1 : \E s \in [1 .. n -> J] : ListedBy(s, J)
    OBVIOUS
  <2> DEFINE I == J \ {x + 1}
  <2>1. x \in Nat /\ I \in SUBSET (1 .. x) /\ \A k \in I : k < x + 1
    OBVIOUS
  <2>a. PICK n \in 0 .. x : \E s \in [1 .. n -> I] : ListedBy(s, I)
    BY <1>2, <2>1
  <2>2. PICK s \in [1 .. n -> I] : ListedBy(s, I)
    BY <2>a
  <2>3. CASE x + 1 \notin J
    <3>1. I = J /\ n \in 0 .. x + 1
      BY <2>1, <2>3
    <3> QED BY <2>2, <3>1
  <2>4. CASE x + 1 \in J
    <3> DEFINE u == [i \in 1 .. n + 1 |-> IF i = n + 1 THEN x + 1 ELSE s[i]]
    <3>1. n \in Nat /\ n + 1 \in 0 .. x + 1 /\ \A i \in 1 .. n + 1 : i = n + 1 \/ i \in 1 .. n
      BY <2>1
    <3>2. /\ u[n + 1] = x + 1 /\ \A i \in 1 .. n : u[i] = s[i] /\ s[i] \in I
          /\ DOMAIN u = 1 .. n + 1 /\ DOMAIN s = 1 .. n
      BY <2>1
    <3>3. u \in [1 .. n + 1 -> J]
      BY <2>4, <3>1, <3>2
    <3> HIDE DEF u
    <3>4. Ascending(u)
      <4> SUFFICES ASSUME NEW i \in 1 .. n + 1, NEW j \in 1 .. n + 1, i < j PROVE u[i] < u[j]
        BY <3>2 DEF Ascending
      <4>1. i \in 1 .. n
        BY <3>1
      <4>2. CASE j = n + 1
        <5>1. u[i] \in I /\ u[j] = x + 1
          BY <3>2, <4>1, <4>2
        <5> QED BY <2>1, <5>1
      <4>3. CASE j \in 1 .. n
        BY <2>2, <3>2, <4>1, <4>3 DEF ListedBy, Ascending
      <4> QED BY <3>1, <4>2, <4>3
    <3>5. \A k \in J : \E i \in DOMAIN u : u[i] = k
      <4> SUFFICES ASSUME NEW k \in J PROVE \E i \in 1 .. n + 1 : u[i] = k
        BY <3>2
      <4>1. CASE k = x + 1
        BY <3>1, <3>2, <4>1
      <4>2. CASE k # x + 1
        <5>1. PICK i \in 1 .. n : s[i] = k
          BY <2>2, <3>2, <4>2 DEF ListedBy
        <5> QED BY <3>1, <3>2, <5>1
      <4> QED BY <4>1, <4>2
    <3> QED BY <3>1, <3>3, <3>4, <3>5 DEF ListedBy
  <2> QED BY <2>3, <2>4
<1> HIDE DEF Can
<1>3. {x \in Nat : Can(x)} = Nat
  <2> DEFINE T == {x \in Nat : Can(x)}
  <2>1. T \subseteq Nat /\ 0 \in T /\ \A x \in T : x + 1 \in T
    BY <1>1, <1>2
  <2> HIDE DEF T
  <2>2. T = Nat
    BY <2>1, NatSetInduction
  <2> QED BY <2>2 DEF T
<1>4. Can(m)
  BY <1>3
<1> QED BY <1>4 DEF Can

(* What is read of some lines of a log: their ids, in their order.         *)
LEMMA ReadsLines ==
    ASSUME NEW f \in Logs, NEW K \in SUBSET DOMAIN f.lines
    PROVE  /\ ReadLines(f, K) \in Seq(Nat)
           /\ \E n \in Nat : \E s \in [1 .. n -> K] :
                  /\ Len(ReadLines(f, K)) = n /\ ListedBy(s, K)
                  /\ \A i \in 1 .. n : ReadLines(f, K)[i] = f.lines[s[i]].id
<1> DEFINE N == Len(f.lines)
           C == UNION {[1 .. n -> K] : n \in 0 .. N}
           P(s) == Ascending(s) /\ \A k \in K : \E i \in DOMAIN s : s[i] = k
           ks == CHOOSE s \in C : P(s)
           r == ReadLines(f, K)
<1>1. /\ N \in Nat /\ DOMAIN f.lines = 1 .. N
      /\ \A k \in 1 .. N : f.lines[k] \in [id : Nat, day : Nat]
  <2>1. f.lines \in Seq([id : Nat, day : Nat])
    BY DEF Logs
  <2> QED BY <2>1, LenProperties, ElementOfSeq
<1>2. \E s \in C : P(s)
  <2>1. PICK n \in 0 .. N : \E s \in [1 .. n -> K] : ListedBy(s, K)
    BY <1>1, AscendingExists
  <2>2. PICK s \in [1 .. n -> K] : ListedBy(s, K)
    BY <2>1
  <2> QED BY <2>2 DEF ListedBy
<1>3. ks \in C /\ P(ks)
  <2> HIDE DEF P, C
  <2> QED BY <1>2
<1>4. r = [i \in DOMAIN ks |-> f.lines[ks[i]].id]
  BY DEF ReadLines
<1> HIDE DEF ks, r
<1>5. PICK n \in 0 .. N : ks \in [1 .. n -> K]
  BY <1>3
<1>6. n \in Nat /\ DOMAIN ks = 1 .. n /\ r \in [1 .. n -> Nat]
  BY <1>1, <1>4, <1>5
<1>7. r \in Seq(Nat) /\ Len(r) = n
  BY <1>6, IsASeq, LenProperties
<1> QED BY <1>3, <1>4, <1>5, <1>6, <1>7 DEF r, ListedBy

(* What a start reads: the lines that are due and can be read; and it      *)
(* knows no more of the rest.                                              *)
LEMMA RestartReads ==
    ASSUME TypeOK, Restart
    PROVE  /\ unread' \in SUBSET (Lists \X Nat)
           /\ \A l \in Lists : \E bad \in SUBSET DOMAIN disk[l].lines :
                  /\ recent'[l] = ReadLines(disk[l], Due(disk[l], day - DaysBack) \ bad)
                  /\ \A k \in bad : <<l, disk[l].lines[k].id>> \in unread'
<1>1. PICK bad \in [Lists -> UNION {Unreadable(disk[l]) : l \in Lists}] :
          /\ \A l \in Lists : bad[l] \in Unreadable(disk[l])
          /\ recent' = [l \in Lists |-> ReadRecent(disk[l], bad[l])]
          /\ unread' = UNION {{<<l, disk[l].lines[k].id>> : k \in bad[l]} : l \in Lists}
  BY DEF Restart
<1>2. \A l \in Lists : bad[l] \in SUBSET DOMAIN disk[l].lines
  BY <1>1 DEF Unreadable, Due
<1>3. \A l \in Lists : \A k \in DOMAIN disk[l].lines : disk[l].lines[k].id \in Nat
  <2> SUFFICES ASSUME NEW l \in Lists, NEW k \in DOMAIN disk[l].lines
               PROVE  disk[l].lines[k].id \in Nat
    OBVIOUS
  <2>1. disk[l].lines \in Seq([id : Nat, day : Nat])
    BY DEF TypeOK, Logs
  <2>2. disk[l].lines[k] \in [id : Nat, day : Nat]
    BY <2>1, LenProperties, ElementOfSeq
  <2> QED BY <2>2
<1>4. unread' \in SUBSET (Lists \X Nat)
  BY <1>1, <1>2, <1>3
<1>5. ASSUME NEW l \in Lists
      PROVE  /\ recent'[l] = ReadLines(disk[l], Due(disk[l], day - DaysBack) \ bad[l])
             /\ \A k \in bad[l] : <<l, disk[l].lines[k].id>> \in unread'
  BY <1>1 DEF ReadRecent
<1> QED BY <1>2, <1>4, <1>5

(* The bounds, and the variables that they bound.                          *)
LEMMA BoundTypes ==
    /\ MaxMishaps \in Nat /\ MaxDay \in Nat /\ DaysBack \in Nat
    /\ TypeOK => day \in Nat /\ mishaps \in Nat /\ day <= MaxDay /\ mishaps <= MaxMishaps
<1>1. MaxMishaps \in Nat /\ MaxDay \in Nat /\ DaysBack \in Nat
  BY BridgeAssumption
<1>2. TypeOK => day \in 0 .. MaxDay /\ mishaps \in 0 .. MaxMishaps
  BY DEF TypeOK
<1> QED BY <1>1, <1>2

(* Every variable keeps its type, through every mishap.                    *)
THEOREM TypeCorrect == Spec => []TypeOK
<1>1. Init => TypeOK
  <2> SUFFICES ASSUME Init PROVE TypeOK
    OBVIOUS
  <2>1. NoCast \in Casts /\ NoTrade \in [held : Int, avg : Int, exited : Int, pnl : Int] /\ NoFill \in [q : Int, price : Nat]
    BY DEF NoCast, Casts, Steps, NoTrade, NoFill
  <2>2. view \in Views /\ recent \in [Lists -> Seq(Nat)] /\ disk \in [Lists -> Logs]
    BY DEF Init, Views, Logs
  <2>3. cast \in [Tasks -> Casts]
    BY <2>1 DEF Init
  <2>4. day \in 0 .. MaxDay /\ mishaps \in 0 .. MaxMishaps
    BY BoundTypes DEF Init
  <2>5. made \in [audit : Nat, trades : Nat, fills : Nat, notes : Nat] /\ ledger \in [pos : Int, rounds : Nat]
    BY DEF Init
  <2>6. stage \in [Conns -> {"away", "backfill", "open", "gone"}] /\ alive \in [Conns -> BOOLEAN]
    BY DEF Init
  <2>7. /\ clients = {} /\ up = TRUE /\ astray = FALSE /\ cut = {} /\ unkept = {} /\ unread = {}
        /\ fill = NoFill /\ trade = NoTrade
    BY DEF Init
  <2> QED BY <2>1, <2>2, <2>3, <2>4, <2>5, <2>6, <2>7 DEF TypeOK
<1>2. TypeOK /\ [Next]_vars => TypeOK'
  <2> SUFFICES ASSUME TypeOK, [Next]_vars PROVE TypeOK'
    OBVIOUS
  <2>1. ASSUME NEW q \in -MaxHeld .. MaxHeld \ {0}, NEW p \in Prices, OnExecutionEvent(q, p) PROVE TypeOK'
    <3>0. q \in Int
      BY BridgeAssumption
    <3>1. /\ Start("bus", "order", clients, "ok") /\ "order" \in Steps /\ "ok" \in Outcomes
          /\ "bus" \in Tasks /\ clients \in SUBSET Conns /\ made' \in Counters
          /\ fill' \in [q : Int, price : Nat]
      BY <2>1, <3>0, ExecutionEffect
    <3>2. cast' \in [Tasks -> Casts] /\ clients' = clients /\ view' \in Views
      BY <3>1, StartCasts
    <3>3. /\ recent' \in [Lists -> Seq(Nat)] /\ disk' \in [Lists -> Logs]
          /\ unkept' \in SUBSET (Lists \X Nat) /\ mishaps' \in 0 .. MaxMishaps
      BY <3>1, StartRecords
    <3>4. UNCHANGED <<up, stage, alive, trade, day, cut, unread, astray>>
      BY <2>1 DEF OnExecutionEvent
    <3>5. ledger' \in [pos : Int, rounds : Nat]
      <4>1. ledger.pos \in Int /\ ledger.rounds \in Nat
        BY DEF TypeOK
      <4>2. ledger' = [pos |-> ledger.pos + q,
                       rounds |-> IF ledger.pos + q = 0 THEN ledger.rounds + 1 ELSE ledger.rounds]
        BY <2>1 DEF OnExecutionEvent
      <4> QED BY <3>0, <4>1, <4>2
    <3> QED BY <3>1, <3>2, <3>3, <3>4, <3>5 DEF TypeOK, Counters
  <2>2. ASSUME NEW o \in DiskFaults \cup {"ok"}, NEW step \in {"note", "status"}, Other(step, o) PROVE TypeOK'
    <3>0. o \in Outcomes
      BY BridgeAssumption DEF Outcomes
    <3>1. /\ Start("other", step, clients, o) /\ step \in Steps
          /\ "other" \in Tasks /\ clients \in SUBSET Conns /\ made' \in Counters
      BY <2>2, <3>0, OtherEffect
    <3>2. cast' \in [Tasks -> Casts] /\ clients' = clients /\ view' \in Views
      BY <3>0, <3>1, StartCasts
    <3>3. /\ recent' \in [Lists -> Seq(Nat)] /\ disk' \in [Lists -> Logs]
          /\ unkept' \in SUBSET (Lists \X Nat) /\ mishaps' \in 0 .. MaxMishaps
      BY <3>0, <3>1, StartRecords
    <3>4. UNCHANGED <<up, stage, alive, fill, trade, day, ledger, cut, unread, astray>>
      BY <2>2 DEF Other
    <3> QED BY <3>1, <3>2, <3>3, <3>4 DEF TypeOK, Counters
  <2>3. ASSUME NEW o \in DiskFaults \cup {"ok"}, NEW t \in Tasks, Return(t, o) PROVE TypeOK'
    <3>0. o \in Outcomes
      BY BridgeAssumption DEF Outcomes
    <3>1. /\ After(t) \in Trades
          /\ trade' = (IF After(t).held = 0 THEN NoTrade ELSE After(t))
          /\ fill' = (IF cast[t].step = "filled" THEN NoFill ELSE fill)
          /\ Then(t) \in Steps /\ Remaining(t) \in SUBSET clients
          /\ UNCHANGED <<up, stage, alive, day, ledger, unread, astray>>
          /\ cut' \in SUBSET (Lists \X Nat)
          /\ made' \in Counters
          /\ \/ /\ Then(t) = "idle" /\ clients' = Remaining(t)
                /\ cast' = [cast EXCEPT ![t] = NoCast]
                /\ UNCHANGED <<view, recent, disk, mishaps, unkept, made>>
             \/ Start(t, Then(t), Remaining(t), o)
      BY <2>3, <3>0, ReturnEffect
    <3>2. /\ cast' \in [Tasks -> Casts] /\ clients' = Remaining(t) /\ view' \in Views
          /\ recent' \in [Lists -> Seq(Nat)] /\ disk' \in [Lists -> Logs]
          /\ unkept' \in SUBSET (Lists \X Nat) /\ mishaps' \in 0 .. MaxMishaps
      <4>1. CASE clients' = Remaining(t) /\ cast' = [cast EXCEPT ![t] = NoCast]
                 /\ UNCHANGED <<view, recent, disk, mishaps, unkept>>
        <5>1. NoCast \in Casts
          BY DEF NoCast, Casts, Steps
        <5> QED BY <4>1, <5>1 DEF TypeOK
      <4>2. CASE Start(t, Then(t), Remaining(t), o)
        <5>1. Remaining(t) \in SUBSET Conns
          BY <3>1 DEF TypeOK
        <5>2. cast' \in [Tasks -> Casts] /\ clients' = Remaining(t) /\ view' \in Views
          BY <3>0, <3>1, <4>2, <5>1, StartCasts
        <5> QED BY <3>0, <3>1, <4>2, <5>1, <5>2, StartRecords
      <4> QED BY <3>1, <4>1, <4>2
    <3>3. fill' \in [q : Int, price : Nat]
      BY <3>1 DEF TypeOK, NoFill
    <3>4. trade' \in Trades /\ (trade' = NoTrade \/ trade'.held # 0)
      BY <3>1 DEF Trades, NoTrade
    <3> QED BY <3>1, <3>2, <3>3, <3>4 DEF TypeOK, Counters, Trades
  <2>4. ASSUME NEW t \in Tasks, BroadcastRaises(t) PROVE TypeOK'
    <3>1. /\ cast' \in [Tasks -> Casts] /\ cut' \in SUBSET (Lists \X Nat)
          /\ UNCHANGED <<up, clients, stage, alive, view, recent, disk, trade, day, mishaps,
                         made, ledger, unkept, unread>>
          /\ fill' = (IF t = "bus" THEN NoFill ELSE fill)
          /\ astray' = (astray \/ cast[t].step \in {"order", "marker", "filled"})
      BY <2>4, RaiseEffect
    <3>2. astray' \in BOOLEAN
      BY <3>1 DEF TypeOK
    <3>3. fill' \in [q : Int, price : Nat]
      BY <3>1 DEF TypeOK, NoFill
    <3> QED BY <3>1, <3>2, <3>3 DEF TypeOK
  <2>5. ASSUME NEW t \in Tasks, NEW c \in Conns, Send(t, c) PROVE TypeOK'
    <3>1. /\ cast' \in [Tasks -> Casts] /\ cut' \in SUBSET (Lists \X Nat) /\ view' \in Views
          /\ UNCHANGED <<up, clients, stage, alive, recent, disk, fill, trade, day, mishaps,
                         made, ledger, unkept, unread, astray>>
      BY <2>5, SendEffect
    <3> QED BY <3>1 DEF TypeOK
  <2>6. ASSUME NEW c \in Conns, Connect(c) \/ BackfillRest(c) PROVE TypeOK'
    <3>1. /\ view' = Backfill(c, "trades") \/ view' = Backfill(c, "audit")
          /\ UNCHANGED <<up, alive, recent, disk, cast, fill, trade, day, mishaps, made, ledger,
                         cut, unkept, unread, astray>>
          /\ clients' = clients \/ clients' = clients \cup {c}
          /\ \E s \in {"backfill", "open"} : stage' = [stage EXCEPT ![c] = s]
      BY <2>6, BackfillLists DEF Connect, BackfillRest
    <3>2. view' \in Views
      BY <3>1, Backfills DEF Lists
    <3>3. stage' \in [Conns -> {"away", "backfill", "open", "gone"}]
          /\ clients' \subseteq {d \in Conns : stage'[d] \in {"backfill", "open"}}
      BY <3>1 DEF TypeOK
    <3> QED BY <3>1, <3>2, <3>3 DEF TypeOK
  <2>7. ASSUME NEW c \in Conns, SocketBreaks(c) PROVE TypeOK'
    <3>1. alive' \in [Conns -> BOOLEAN] /\ mishaps' \in 0 .. MaxMishaps
      <4>1. mishaps' = mishaps + 1 /\ mishaps < MaxMishaps /\ alive' = [alive EXCEPT ![c] = FALSE]
        BY <2>7 DEF SocketBreaks
      <4> QED BY <4>1, BoundTypes DEF TypeOK
    <3> QED BY <2>7, <3>1 DEF SocketBreaks, TypeOK
  <2>8. ASSUME NEW c \in Conns, Disconnect(c) PROVE TypeOK'
    <3>1. stage' \in [Conns -> {"away", "backfill", "open", "gone"}]
          /\ clients' \subseteq {d \in Conns : stage'[d] \in {"backfill", "open"}}
      BY <2>8 DEF Disconnect, TypeOK
    <3> QED BY <2>8, <3>1 DEF Disconnect, TypeOK
  <2>9. CASE Crash
    <3>1. stage' \in [Conns -> {"away", "backfill", "open", "gone"}] /\ alive' \in [Conns -> BOOLEAN]
      BY <2>9 DEF Crash, TypeOK
    <3>2. mishaps' \in 0 .. MaxMishaps /\ astray' \in BOOLEAN /\ up' \in BOOLEAN
      <4>1. mishaps' = mishaps + 1 /\ mishaps < MaxMishaps /\ up' = FALSE
        BY <2>9 DEF Crash
      <4>2. astray' \in BOOLEAN
        BY <2>9 DEF Crash, TypeOK
      <4>3. mishaps' \in 0 .. MaxMishaps
        BY <4>1, BoundTypes
      <4>4. up' \in BOOLEAN
        BY <4>1
      <4> QED BY <4>2, <4>3, <4>4
    <3>3. cast' \in [Tasks -> Casts] /\ recent' \in [Lists -> Seq(Nat)]
      <4>1. NoCast \in Casts
        BY DEF NoCast, Casts, Steps
      <4> QED BY <2>9, <4>1 DEF Crash
    <3>4. trade' = NoTrade /\ NoTrade \in [held : Int, avg : Int, exited : Int, pnl : Int] /\ fill' \in [q : Int, price : Nat]
      BY <2>9 DEF Crash, NoTrade, NoFill
    <3>5. clients' = {} /\ UNCHANGED <<view, disk, day, made, ledger, cut, unkept, unread>>
      BY <2>9 DEF Crash
    <3> QED BY <3>1, <3>2, <3>3, <3>4, <3>5 DEF TypeOK
  <2>10. CASE Restart
    <3>1. recent' \in [Lists -> Seq(Nat)]
      <4>1. ASSUME NEW l \in Lists PROVE recent'[l] \in Seq(Nat)
        <5>1. PICK bad \in SUBSET DOMAIN disk[l].lines :
                  recent'[l] = ReadLines(disk[l], Due(disk[l], day - DaysBack) \ bad)
          BY <2>10, RestartReads
        <5>2. /\ disk[l] \in Logs
              /\ Due(disk[l], day - DaysBack) \ bad \in SUBSET DOMAIN disk[l].lines
          BY DEF TypeOK, Due
        <5> QED BY <5>1, <5>2, ReadsLines
      <4>2. DOMAIN recent' = Lists /\ recent' = [l \in DOMAIN recent' |-> recent'[l]]
        BY <2>10 DEF Restart
      <4> QED BY <4>1, <4>2
    <3>2. unread' \in SUBSET (Lists \X Nat)
      BY <2>10, RestartReads
    <3> QED BY <2>10, <3>1, <3>2 DEF Restart, TypeOK
  <2>11. CASE Midnight
    <3>1. disk' \in [Lists -> Logs]
      <4>0. \A l \in Lists : disk[l] \in Logs
        BY DEF TypeOK
      <4>1. \A l \in Lists : [disk[l] EXCEPT !.torn = FALSE] \in Logs
        <5>1. ASSUME NEW f \in Logs PROVE [f EXCEPT !.torn = FALSE] \in Logs
          BY DEF Logs
        <5> QED BY <4>0, <5>1
      <4> QED BY <2>11, <4>1 DEF Midnight
    <3>2. day' \in 0 .. MaxDay /\ mishaps' \in 0 .. MaxMishaps
      <4>1. mishaps' = mishaps + 1 /\ mishaps < MaxMishaps /\ day' = day + 1 /\ day < MaxDay
        BY <2>11 DEF Midnight
      <4> QED BY <4>1, BoundTypes
    <3> QED BY <2>11, <3>1, <3>2 DEF Midnight, TypeOK
  <2>12. CASE UNCHANGED vars
    BY <2>12 DEF vars, TypeOK
  <2> QED BY <2>1, <2>2, <2>3, <2>4, <2>5, <2>6, <2>7, <2>8, <2>9, <2>10, <2>11, <2>12 DEF Next
<1> QED BY <1>1, <1>2, PTL DEF Spec

-----------------------------------------------------------------------------
(* The trade tracker.  While a fill is on its way, the account is ahead of *)
(* the tracker by that fill, and of the records by the round trip that it  *)
(* completes.                                                              *)

OtherTask == cast["other"].step \in {"idle", "note", "status"}

InFlight == cast["bus"].step \in {"order", "marker", "filled"}

Ahead ==
    /\ fill.q # 0 /\ trade.held + fill.q = ledger.pos
    /\ trade.held = 0 \/ (fill.q > 0 <=> trade.held > 0) \/ Size(fill.q) <= Size(trade.held)
    /\ ledger.rounds = IF ledger.pos = 0 THEN made.trades + 1 ELSE made.trades

Level == trade.held = ledger.pos /\ made.trades = ledger.rounds

TrackInv == OtherTask /\ (~astray => IF InFlight THEN Ahead ELSE Level)

(* Only the bus's task follows fills.                                      *)
LEMMA OtherTaskStays ==
    ASSUME TypeOK, OtherTask, [Next]_vars
    PROVE  OtherTask'
<1>0. cast \in [Tasks -> Casts] /\ "other" \in Tasks /\ "bus" \in Tasks
  BY DEF TypeOK, Tasks
<1>1. ASSUME NEW q \in -MaxHeld .. MaxHeld \ {0}, NEW p \in Prices, OnExecutionEvent(q, p) PROVE OtherTask'
  <2>1. q \in Int
    BY BridgeAssumption
  <2>2. /\ Start("bus", "order", clients, "ok") /\ "order" \in Steps /\ "ok" \in Outcomes
        /\ clients \in SUBSET Conns
    BY <1>1, <2>1, ExecutionEffect
  <2>3. cast'["other"] = cast["other"]
    BY <1>0, <2>2, StartCasts
  <2> QED BY <2>3 DEF OtherTask
<1>2. ASSUME NEW o \in DiskFaults \cup {"ok"}, NEW step \in {"note", "status"}, Other(step, o) PROVE OtherTask'
  <2>1. o \in Outcomes
    BY BridgeAssumption DEF Outcomes
  <2>2. Start("other", step, clients, o) /\ step \in Steps /\ clients \in SUBSET Conns
    BY <1>2, <2>1, OtherEffect
  <2>3. cast'["other"].step = step
    BY <1>0, <2>1, <2>2, StartCasts
  <2> QED BY <2>3 DEF OtherTask
<1>3. ASSUME NEW o \in DiskFaults \cup {"ok"}, NEW t \in Tasks, Return(t, o) PROVE OtherTask'
  <2>1. o \in Outcomes
    BY BridgeAssumption DEF Outcomes
  <2>2. /\ cast[t].step # "idle" /\ Then(t) \in Steps /\ Remaining(t) \in SUBSET Conns
        /\ \/ Then(t) = "idle" /\ cast' = [cast EXCEPT ![t] = NoCast]
           \/ Then(t) # "idle" /\ Start(t, Then(t), Remaining(t), o)
    BY <1>3, <2>1, ReturnEffect DEF TypeOK
  <2>3. CASE t = "other"
    <3>1. Then(t) = "idle"
      BY <2>2, <2>3, FollowingSteps DEF OtherTask, Then
    <3>2. cast'["other"] = NoCast
      BY <1>0, <2>2, <2>3, <3>1
    <3> QED BY <3>2 DEF OtherTask, NoCast
  <2>4. CASE t # "other"
    <3>1. cast'["other"] = cast["other"]
      <4>1. CASE cast' = [cast EXCEPT ![t] = NoCast]
        BY <1>0, <2>4, <4>1
      <4>2. CASE Start(t, Then(t), Remaining(t), o)
        BY <1>0, <2>1, <2>2, <2>4, <4>2, StartCasts
      <4> QED BY <2>2, <4>1, <4>2
    <3> QED BY <3>1 DEF OtherTask
  <2> QED BY <2>3, <2>4
<1>4. ASSUME NEW t \in Tasks, BroadcastRaises(t) PROVE OtherTask'
  <2>1. cast'["other"] = NoCast \/ cast'["other"] = cast["other"]
    BY <1>0, <1>4, RaiseEffect
  <2> QED BY <2>1 DEF OtherTask, NoCast
<1>5. ASSUME NEW t \in Tasks, NEW c \in Conns, Send(t, c) PROVE OtherTask'
  <2>1. cast'["other"].step = cast["other"].step
    BY <1>0, <1>5, SendEffect
  <2> QED BY <2>1 DEF OtherTask
<1>6. CASE Crash
  <2>1. cast'["other"] = NoCast
    BY <1>0, <1>6 DEF Crash
  <2> QED BY <2>1 DEF OtherTask, NoCast
<1>7. CASE Restart \/ Midnight \/ UNCHANGED vars
  BY <1>7 DEF Restart, Midnight, vars, OtherTask
<1>8. ASSUME NEW c \in Conns, Connect(c) \/ BackfillRest(c) \/ SocketBreaks(c) \/ Disconnect(c) PROVE OtherTask'
  BY <1>8 DEF Connect, BackfillRest, SocketBreaks, Disconnect, OtherTask
<1> QED BY <1>1, <1>2, <1>3, <1>4, <1>5, <1>6, <1>7, <1>8 DEF Next

(* A fill brings the account ahead of the tracker.                         *)
LEMMA FillGoesAhead ==
    ASSUME TypeOK, TrackInv, NEW q \in Int, q # 0, NEW p \in Prices, OnExecutionEvent(q, p)
    PROVE  ~astray' => InFlight' /\ Ahead'
<1>1. /\ Start("bus", "order", clients, "ok") /\ "order" \in Steps /\ "ok" \in Outcomes
      /\ "bus" \in Tasks /\ clients \in SUBSET Conns
      /\ made'["trades"] = made["trades"] /\ fill' = [q |-> q, price |-> p]
  BY ExecutionEffect DEF Lists
<1>2. cast'["bus"].step = "order"
  BY <1>1, StartCasts
<1>3. /\ cast["bus"].step = "idle" /\ UNCHANGED <<trade, astray>>
      /\ ledger.pos = 0 \/ (q > 0 <=> ledger.pos > 0) \/ Size(q) <= Size(ledger.pos)
      /\ ledger' = [pos |-> ledger.pos + q,
                    rounds |-> IF ledger.pos + q = 0 THEN ledger.rounds + 1 ELSE ledger.rounds]
  BY DEF OnExecutionEvent
<1>4. ASSUME ~astray PROVE Ahead'
  <2>1. trade.held = ledger.pos /\ made.trades = ledger.rounds
    BY <1>3, <1>4 DEF TrackInv, InFlight, Level
  <2>2. /\ ledger.pos \in Int /\ ledger.rounds \in Nat /\ trade.held \in Int /\ made.trades \in Nat
    BY DEF TypeOK
  <2>3. /\ fill'.q = q /\ ledger'.pos = ledger.pos + q /\ trade' = trade /\ made'.trades = made.trades
        /\ ledger'.rounds = IF ledger.pos + q = 0 THEN ledger.rounds + 1 ELSE ledger.rounds
    BY <1>1, <1>3
  <2>4. trade'.held + fill'.q = ledger'.pos /\ fill'.q # 0
    BY <2>1, <2>2, <2>3
  <2>5. ledger'.rounds = IF ledger'.pos = 0 THEN made'.trades + 1 ELSE made'.trades
    BY <2>1, <2>2, <2>3
  <2>6. trade'.held = 0 \/ (fill'.q > 0 <=> trade'.held > 0) \/ Size(fill'.q) <= Size(trade'.held)
    BY <1>3, <2>1, <2>3
  <2> QED BY <2>4, <2>5, <2>6 DEF Ahead
<1> QED BY <1>2, <1>3, <1>4 DEF InFlight

(* A return of the bus's task: the tracker sees the fill after its third   *)
(* message, and records a round trip in the fourth.                        *)
LEMMA BusCatchesUp ==
    ASSUME TypeOK, TrackInv, NEW o \in Outcomes, Return("bus", o), ~astray
    PROVE  ~astray' => IF InFlight' THEN Ahead' ELSE Level'
<1> DEFINE t == "bus"
           b == cast[t]
<1>0. t \in Tasks /\ cast \in [Tasks -> Casts]
  BY DEF Tasks, TypeOK
<1>1. /\ b.step # "idle" /\ b.step \in Steps /\ After(t) \in Trades
      /\ trade' = (IF After(t).held = 0 THEN NoTrade ELSE After(t))
      /\ fill' = (IF b.step = "filled" THEN NoFill ELSE fill)
      /\ Then(t) \in Steps /\ Remaining(t) \in SUBSET Conns
      /\ UNCHANGED <<ledger, astray>>
      /\ \/ /\ Then(t) = "idle" /\ made' = made
            /\ cast' = [cast EXCEPT ![t] = NoCast]
         \/ /\ Then(t) # "idle" /\ Start(t, Then(t), Remaining(t), o)
            /\ \A l \in Lists : made'[l] = IF l = ListOf(Then(t)) THEN made[l] + 1 ELSE made[l]
  BY <1>0, ReturnEffect DEF TypeOK
<1>2. cast'[t].step = Then(t)
  <2>1. CASE Then(t) = "idle" /\ cast' = [cast EXCEPT ![t] = NoCast]
    BY <1>0, <2>1 DEF NoCast
  <2>2. CASE Start(t, Then(t), Remaining(t), o)
    BY <1>0, <1>1, <2>2, StartCasts
  <2> QED BY <1>1, <2>1, <2>2
<1>3. made'.trades = IF Then(t) = "closed" THEN made.trades + 1 ELSE made.trades
  <2>1. Then(t) = "idle" \/ Then(t) = "closed" \/ ListOf(Then(t)) # "trades"
    BY <1>1, ListOfSteps DEF Steps
  <2>2. "trades" \in Lists
    BY DEF Lists
  <2> QED BY <1>1, <2>1, <2>2, ListOfSteps
<1>4. /\ ledger.pos \in Int /\ ledger.rounds \in Nat /\ trade \in Trades /\ trade.held \in Int /\ made.trades \in Nat
      /\ fill.q \in Int /\ fill.price \in Nat /\ (trade = NoTrade \/ trade.held # 0)
  BY DEF TypeOK, Trades
<1>5. CASE b.step \in {"order", "marker"}
  <2>1. InFlight /\ Ahead
    BY <1>5 DEF TrackInv, InFlight
  <2>2. Then(t) \in {"marker", "filled"} /\ After(t) = trade
    BY <1>5, FollowingSteps DEF Then, After
  <2>3. trade'.held = trade.held /\ fill' = fill /\ made'.trades = made.trades /\ ledger' = ledger
    BY <1>1, <1>3, <1>4, <1>5, <2>2 DEF NoTrade
  <2>4. InFlight'
    BY <1>2, <2>2 DEF InFlight
  <2> QED BY <2>1, <2>3, <2>4 DEF Ahead
<1>6. CASE b.step = "filled"
  <2>1. Ahead
    BY <1>6 DEF TrackInv, InFlight
  <2>2. After(t) = OnExecution(trade, fill.q, fill.price)
    BY <1>6 DEF After
  <2>3. After(t).held = trade.held + fill.q
    BY <1>4, <2>1, <2>2, FillIsTracked DEF Ahead, Trades
  <2>4. After(t).held = ledger.pos
    BY <2>1, <2>3 DEF Ahead
  <2>5. trade'.held = ledger'.pos
    BY <1>1, <2>4 DEF NoTrade
  <2>6. Then(t) = IF ledger.pos = 0 THEN "closed" ELSE "idle"
    BY <1>6, <2>4, FollowingSteps DEF Then
  <2>7. made'.trades = ledger'.rounds
    BY <1>1, <1>3, <1>4, <2>1, <2>6 DEF Ahead
  <2>8. ~InFlight'
    BY <1>2, <2>6 DEF InFlight
  <2> QED BY <2>5, <2>7, <2>8 DEF Level
<1>7. CASE b.step \in {"closed", "concluded", "note", "status"}
  <2>1. ~InFlight /\ Level
    BY <1>7 DEF TrackInv, InFlight
  <2>2. Then(t) \in {"concluded", "idle"} /\ After(t) = trade
    BY <1>7, FollowingSteps DEF Then, After
  <2>3. trade'.held = trade.held /\ made'.trades = made.trades /\ ledger' = ledger
    BY <1>1, <1>3, <1>4, <2>2 DEF NoTrade
  <2>4. ~InFlight'
    BY <1>2, <2>2 DEF InFlight
  <2> QED BY <2>1, <2>3, <2>4 DEF Level
<1> QED BY <1>1, <1>5, <1>6, <1>7 DEF Steps

(* The tracker's trade is the account's position and there is one record   *)
(* per round trip, as long as no fill was lost to an error or a crash.     *)
THEOREM TrackerKeepsUp == Spec => []TrackerFollows
<1>1. Init => TrackInv
  <2> SUFFICES ASSUME Init PROVE TrackInv
    OBVIOUS
  <2>1. cast["bus"].step = "idle" /\ cast["other"].step = "idle"
    BY DEF Init, NoCast, Tasks
  <2>2. trade.held = 0 /\ ledger.pos = 0 /\ ledger.rounds = 0 /\ made.trades = 0
    BY DEF Init, NoTrade
  <2> QED BY <2>1, <2>2 DEF TrackInv, OtherTask, InFlight, Level
<1>2. TypeOK /\ TrackInv /\ [Next]_vars => TrackInv'
  <2> SUFFICES ASSUME TypeOK, TrackInv, [Next]_vars PROVE ~astray' => IF InFlight' THEN Ahead' ELSE Level'
    BY OtherTaskStays DEF TrackInv
  <2> DEFINE Goal == ~astray' => IF InFlight' THEN Ahead' ELSE Level'
  <2>0. cast \in [Tasks -> Casts] /\ "other" \in Tasks /\ "bus" \in Tasks
    BY DEF TypeOK, Tasks
  <2>s. ASSUME cast'["bus"].step = cast["bus"].step, made'["trades"] = made["trades"],
               UNCHANGED <<fill, ledger>>, trade'.held = trade.held, ~astray' => ~astray
        PROVE  Goal
    <3>1. made'.trades = made.trades
      BY <2>s
    <3> QED BY <2>s, <3>1 DEF TrackInv, InFlight, Ahead, Level
  <2> HIDE DEF Goal
  <2>1. ASSUME NEW q \in -MaxHeld .. MaxHeld \ {0}, NEW p \in Prices, OnExecutionEvent(q, p) PROVE Goal
    <3>1. q \in Int /\ q # 0
      BY BridgeAssumption
    <3> QED BY <2>1, <3>1, FillGoesAhead DEF Goal
  <2>2. ASSUME NEW o \in DiskFaults \cup {"ok"}, NEW step \in {"note", "status"}, Other(step, o) PROVE Goal
    <3>1. o \in Outcomes
      BY BridgeAssumption DEF Outcomes
    <3>2. /\ Start("other", step, clients, o) /\ step \in Steps /\ clients \in SUBSET Conns
          /\ made'["trades"] = IF "trades" = ListOf(step) THEN made["trades"] + 1 ELSE made["trades"]
      BY <2>2, <3>1, OtherEffect DEF Lists
    <3>3. made'["trades"] = made["trades"]
      BY <3>2, ListOfSteps
    <3>4. cast'["bus"] = cast["bus"]
      BY <2>0, <3>1, <3>2, StartCasts
    <3>5. UNCHANGED <<fill, trade, ledger, astray>>
      BY <2>2 DEF Other
    <3> QED BY <2>s, <3>3, <3>4, <3>5
  <2>3. ASSUME NEW o \in DiskFaults \cup {"ok"}, NEW t \in Tasks, Return(t, o) PROVE Goal
    <3>1. o \in Outcomes
      BY BridgeAssumption DEF Outcomes
    <3>2. CASE t = "bus"
      <4>1. astray' = astray
        BY <2>3, <3>1, ReturnEffect
      <4>2. CASE astray
        BY <4>1, <4>2 DEF Goal
      <4>3. CASE ~astray
        <5>1. Return("bus", o)
          BY <2>3, <3>2
        <5> QED BY <3>1, <4>3, <5>1, BusCatchesUp DEF Goal
      <4> QED BY <4>2, <4>3
    <3>3. CASE t # "bus"
      <4>1. t = "other" /\ cast[t].step \in {"note", "status"}
        BY <2>3, <3>1, <3>3, ReturnEffect DEF Tasks, TrackInv, OtherTask
      <4>2. Then(t) = "idle" /\ After(t) = trade
        BY <4>1, FollowingSteps DEF Then, After
      <4>3. /\ trade' = (IF trade.held = 0 THEN NoTrade ELSE trade) /\ UNCHANGED <<fill, ledger, made, astray>>
            /\ cast' = [cast EXCEPT ![t] = NoCast]
        BY <2>3, <3>1, <4>1, <4>2, ReturnEffect
      <4>4. trade'.held = trade.held
        BY <4>3 DEF NoTrade
      <4>5. cast'["bus"] = cast["bus"]
        BY <2>0, <3>3, <4>3
      <4> QED BY <2>s, <4>3, <4>4, <4>5
    <3> QED BY <3>2, <3>3
  <2>4. ASSUME NEW t \in Tasks, BroadcastRaises(t) PROVE Goal
    <3>1. /\ cast'[t] = NoCast /\ \A u \in Tasks : u # t => cast'[u] = cast[u]
          /\ UNCHANGED <<trade, made, ledger>>
          /\ fill' = (IF t = "bus" THEN NoFill ELSE fill)
          /\ astray' = (astray \/ cast[t].step \in {"order", "marker", "filled"})
      BY <2>4, RaiseEffect
    <3>2. CASE t = "bus"
      <4>1. CASE astray \/ InFlight
        BY <3>1, <3>2, <4>1 DEF Goal, InFlight
      <4>2. CASE ~astray /\ ~InFlight
        <5>1. Level /\ ~InFlight'
          BY <3>1, <3>2, <4>2 DEF TrackInv, InFlight, NoCast
        <5> QED BY <3>1, <5>1 DEF Goal, Level
      <4> QED BY <4>1, <4>2
    <3>3. CASE t # "bus"
      <4>1. cast'["bus"] = cast["bus"] /\ fill' = fill /\ (~astray' => ~astray)
        BY <2>0, <3>1, <3>3
      <4> QED BY <2>s, <3>1, <4>1
    <3> QED BY <3>2, <3>3
  <2>5. ASSUME NEW t \in Tasks, NEW c \in Conns, Send(t, c) PROVE Goal
    <3>1. cast'["bus"].step = cast["bus"].step /\ UNCHANGED <<fill, trade, made, ledger, astray>>
      BY <2>0, <2>5, SendEffect
    <3> QED BY <2>s, <3>1
  <2>6. ASSUME Crash PROVE Goal
    <3>1. /\ cast'["bus"] = NoCast /\ trade' = NoTrade /\ UNCHANGED <<made, ledger>>
          /\ astray' = (astray \/ trade.held # 0 \/ cast["bus"].step \in {"order", "marker", "filled"})
      BY <2>0, <2>6 DEF Crash
    <3>2. ASSUME ~astray' PROVE ~InFlight' /\ Level'
      <4>1. ~astray /\ trade.held = 0 /\ ~InFlight
        BY <3>1, <3>2 DEF InFlight
      <4>2. Level
        BY <4>1 DEF TrackInv
      <4> QED BY <3>1, <4>1, <4>2 DEF InFlight, Level, NoCast, NoTrade
    <3> QED BY <3>2 DEF Goal
  <2>7. ASSUME Restart \/ Midnight \/ UNCHANGED vars PROVE Goal
    <3>1. UNCHANGED <<cast, fill, trade, made, ledger, astray>>
      BY <2>7 DEF Restart, Midnight, vars
    <3> QED BY <2>s, <3>1
  <2>8. ASSUME NEW c \in Conns, Connect(c) \/ BackfillRest(c) \/ SocketBreaks(c) \/ Disconnect(c) PROVE Goal
    <3>1. UNCHANGED <<cast, fill, trade, made, ledger, astray>>
      BY <2>8 DEF Connect, BackfillRest, SocketBreaks, Disconnect
    <3> QED BY <2>s, <3>1
  <2>9. Goal
    BY <2>1, <2>2, <2>3, <2>4, <2>5, <2>6, <2>7, <2>8 DEF Next
  <2> QED BY <2>9 DEF Goal
<1>3. TrackInv => TrackerFollows
  BY DEF TrackInv, TrackerFollows, InFlight, Level
<1> QED BY <1>1, <1>2, <1>3, TypeCorrect, PTL DEF Spec

-----------------------------------------------------------------------------
(* The lists and their logs.  Both are in the order of the numbers; every  *)
(* record made is in the log or known not to be, and while the process     *)
(* runs it is in the list, or there is a reason why it is not.             *)

Rising(s, n) ==
    /\ \A i \in 1 .. Len(s) : s[i] \in 1 .. n
    /\ \A i, j \in 1 .. Len(s) : i < j => s[i] < s[j]

InOrder(s, n, d) ==
    /\ \A i \in 1 .. Len(s) : s[i].id \in 1 .. n /\ s[i].day <= d
    /\ \A i, j \in 1 .. Len(s) : i < j => s[i].id < s[j].id

Listed(s, id) == \E i \in 1 .. Len(s) : s[i] = id

Written(s, id) == \E k \in 1 .. Len(s) : s[k].id = id

Expired(s, id, d) == \E k \in 1 .. Len(s) : s[k].id = id /\ s[k].day < d - DaysBack

Outlived(s, id, n) == Len(s) >= n /\ id < s[1]

RecordInv(l) ==
    /\ Rising(recent[l], made[l])
    /\ InOrder(disk[l].lines, made[l], day)
    /\ \A id \in 1 .. made[l] : <<l, id>> \in unkept \/ Written(disk[l].lines, id)
    /\ up => \A id \in 1 .. made[l] :
                 \/ Listed(recent[l], id) \/ Outlived(recent[l], id, Limit(l))
                 \/ <<l, id>> \in unkept \cup unread \/ Expired(disk[l].lines, id, day)

(* What a step does to the records of a list: nothing, or it adds one.     *)
SameRecords(l) ==
    /\ recent'[l] = recent[l] /\ disk'[l].lines = disk[l].lines
    /\ unkept \subseteq unkept'
    /\ made'[l] = made[l] /\ UNCHANGED <<day, up, unread>>

AddsRecord(l) ==
    /\ recent'[l] = Trim(Append(recent[l], made[l] + 1), Limit(l))
    /\ made'[l] = made[l] + 1 /\ UNCHANGED <<day, up, unread>>
    /\ unkept \subseteq unkept'
    /\ \/ disk'[l].lines = Append(disk[l].lines, [id |-> made[l] + 1, day |-> day])
       \/ disk'[l].lines = disk[l].lines /\ <<l, made[l] + 1>> \in unkept'

(* The start of a broadcast is one of the two.                             *)
LEMMA StartIsRecord ==
    ASSUME TypeOK, NEW t \in Tasks, NEW step \in Steps, NEW live \in SUBSET Conns,
           NEW o \in Outcomes, Start(t, step, live, o), NEW l \in Lists,
           made'[l] = (IF l = ListOf(step) THEN made[l] + 1 ELSE made[l]),
           UNCHANGED <<up, day, unread>>
    PROVE  SameRecords(l) \/ AddsRecord(l)
<1>1. CASE l # ListOf(step)
  <2>1. recent'[l] = recent[l] /\ disk'[l] = disk[l] /\ unkept \subseteq unkept'
    BY <1>1, StartRecords
  <2> QED BY <1>1, <2>1 DEF SameRecords
<1>2. CASE l = ListOf(step)
  <2>0. ListOf(step) # "none" /\ NewId(step) = made[l] + 1
    BY <1>2 DEF NewId, Lists
  <2> DEFINE x == made[l] + 1
             f == disk[l]
  <2>1. x \in Nat /\ f \in Logs /\ day \in Nat
    <3>1. f \in Logs
      BY DEF TypeOK
    <3>2. made[l] \in Nat /\ day \in Nat
      BY MadeTypes, BoundTypes
    <3> QED BY <3>1, <3>2
  <2>2. /\ recent'[l] = Trim(Append(recent[l], x), Limit(l))
        /\ disk'[l] = LogAppend(f, x, o)
        /\ unkept' = (IF o # "ok" \/ f.torn THEN unkept \cup {<<l, x>>} ELSE unkept)
    <3> DEFINE m == ListOf(step)
    <3>1. /\ recent'[m] = Trim(Append(recent[m], NewId(step)), Limit(m))
          /\ disk'[m] = LogAppend(disk[m], NewId(step), o)
          /\ unkept' = IF o # "ok" \/ disk[m].torn THEN unkept \cup {<<m, NewId(step)>>} ELSE unkept
      BY <2>0, StartRecords
    <3>2. m = l /\ NewId(step) = x
      BY <1>2, <2>0
    <3> HIDE DEF m, x
    <3> QED BY <3>1, <3>2
  <2>3. /\ o = "ok" /\ ~f.torn => LogAppend(f, x, o).lines = Append(f.lines, [id |-> x, day |-> day])
        /\ o # "ok" \/ f.torn => LogAppend(f, x, o).lines = f.lines
    BY <2>1, LogAppends DEF Outcomes
  <2>4. CASE o = "ok" /\ ~f.torn
    <3>1. disk'[l].lines = Append(f.lines, [id |-> x, day |-> day]) /\ unkept' = unkept
      BY <2>2, <2>3, <2>4
    <3> QED BY <1>2, <2>2, <3>1 DEF AddsRecord
  <2>5. CASE o # "ok" \/ f.torn
    <3>1. disk'[l].lines = f.lines /\ unkept' = unkept \cup {<<l, x>>}
      BY <2>2, <2>3, <2>5
    <3> QED BY <1>2, <2>2, <3>1 DEF AddsRecord
  <2> QED BY <2>4, <2>5
<1> QED BY <1>1, <1>2

(* Steps that leave the records of a list alone.                           *)
LEMMA SameKeeps ==
    ASSUME NEW l \in Lists, RecordInv(l), SameRecords(l)
    PROVE  RecordInv(l)'
<1>1. Rising(recent[l], made[l])' /\ InOrder(disk[l].lines, made[l], day)'
  BY DEF RecordInv, SameRecords, Rising, InOrder
<1>2. ASSUME NEW id \in 1 .. made[l] PROVE <<l, id>> \in unkept' \/ Written(disk[l].lines, id)'
  BY <1>2 DEF RecordInv, SameRecords, Written
<1>3. ASSUME up, NEW id \in 1 .. made[l]
      PROVE  \/ Listed(recent'[l], id) \/ Outlived(recent'[l], id, Limit(l))
             \/ <<l, id>> \in unkept' \cup unread' \/ Expired(disk'[l].lines, id, day')
  BY <1>3 DEF RecordInv, SameRecords
<1> QED BY <1>1, <1>2, <1>3 DEF RecordInv, SameRecords, Written, Listed, Outlived, Expired

(* A list takes a new record: it is listed, and what was listed or had     *)
(* made room before still is or has.                                       *)
LEMMA ListGrows ==
    ASSUME NEW s \in Seq(Nat), NEW n \in Nat, NEW lim \in Nat \ {0}, Rising(s, n)
    PROVE  LET r == Trim(Append(s, n + 1), lim)
           IN  /\ Rising(r, n + 1) /\ Listed(r, n + 1)
               /\ \A id \in 1 .. n : Listed(s, id) \/ Outlived(s, id, lim)
                                     => Listed(r, id) \/ Outlived(r, id, lim)
<1> DEFINE x == n + 1
           r == Trim(Append(s, x), lim)
           d == Len(s) + 1 - Len(r)
<1>1. /\ r \in Seq(Nat) /\ Len(s) \in Nat /\ Len(r) \in Nat /\ Len(r) >= 1
      /\ Len(r) = IF Len(s) + 1 > lim THEN lim ELSE Len(s) + 1
      /\ r[Len(r)] = x
      /\ \A i \in 1 .. Len(r) - 1 : d + i \in 1 .. Len(s) /\ r[i] = s[d + i]
  <2>1. x \in Nat
    OBVIOUS
  <2> QED BY <2>1, AppendTrims
<1> HIDE DEF r
<1>2. /\ \A i \in 1 .. Len(s) : s[i] \in 1 .. n
      /\ \A i, j \in 1 .. Len(s) : i < j => s[i] < s[j]
  BY DEF Rising
<1>3. d \in Nat /\ Len(r) = Len(s) + 1 - d
  BY <1>1
<1> HIDE DEF d
<1>4. \A i \in 1 .. Len(r) : i \in 1 .. Len(r) - 1 \/ i = Len(r)
  BY <1>1
<1>5. Rising(r, x)
  <2>1. ASSUME NEW i \in 1 .. Len(r) PROVE r[i] \in 1 .. x
    <3>1. CASE i \in 1 .. Len(r) - 1
      <4>1. r[i] \in 1 .. n
        BY <1>1, <1>2, <3>1
      <4> QED BY <4>1
    <3>2. CASE i = Len(r)
      BY <1>1, <3>2
    <3> QED BY <1>4, <3>1, <3>2
  <2>2. ASSUME NEW i \in 1 .. Len(r), NEW j \in 1 .. Len(r), i < j PROVE r[i] < r[j]
    <3>1. i \in 1 .. Len(r) - 1 /\ d + i \in 1 .. Len(s) /\ r[i] = s[d + i] /\ s[d + i] \in 1 .. n
      <4>1. i \in 1 .. Len(r) - 1
        BY <1>1, <2>2
      <4> QED BY <1>1, <1>2, <4>1
    <3>2. CASE j \in 1 .. Len(r) - 1
      <4>1. d + j \in 1 .. Len(s) /\ r[j] = s[d + j]
        BY <1>1, <3>2
      <4>2. d + i < d + j
        BY <1>3, <2>2
      <4> QED BY <1>2, <3>1, <4>1, <4>2
    <3>3. CASE j = Len(r)
      <4>1. r[j] = x /\ r[i] \in 1 .. n
        BY <1>1, <3>1, <3>3
      <4> QED BY <4>1
    <3> QED BY <1>4, <3>2, <3>3
  <2> QED BY <2>1, <2>2 DEF Rising
<1>6. Listed(r, x)
  <2>1. Len(r) \in 1 .. Len(r)
    BY <1>1
  <2> QED BY <1>1, <2>1 DEF Listed
<1>7. ASSUME NEW id \in 1 .. n, d >= 1, \/ Len(s) >= 1 /\ id < s[1]
                                        \/ \E i \in 1 .. Len(s) : i <= d /\ s[i] = id
      PROVE  Outlived(r, id, lim)
  <2>1. Len(r) >= lim
    <3>1. Len(r) = Len(s) + 1 - d /\ d \in Nat /\ d >= 1 /\ Len(s) \in Nat
      BY <1>1, <1>3, <1>7
    <3>2. Len(r) # Len(s) + 1
      BY <3>1
    <3> QED BY <1>1, <3>2
  <2>2. id < r[1]
    <3>1. CASE Len(r) = 1
      <4>1. r[1] = x
        BY <1>1, <3>1
      <4> QED BY <4>1
    <3>2. CASE Len(r) # 1
      <4>1. 1 \in 1 .. Len(r) - 1
        BY <1>1, <3>2
      <4>2. d + 1 \in 1 .. Len(s) /\ r[1] = s[d + 1] /\ s[d + 1] \in Nat
        <5>1. d + 1 \in 1 .. Len(s) /\ r[1] = s[d + 1]
          BY <1>1, <4>1
        <5>2. s[d + 1] \in 1 .. n
          BY <1>2, <5>1
        <5> QED BY <5>1, <5>2
      <4>3. CASE Len(s) >= 1 /\ id < s[1]
        <5>1. 1 \in 1 .. Len(s) /\ 1 < d + 1
          <6>1. 1 <= Len(s) /\ Len(s) \in Nat
            BY <1>1, <4>3
          <6>2. 1 < d + 1
            BY <1>3, <1>7
          <6> QED BY <6>1, <6>2
        <5>2. s[1] < s[d + 1] /\ s[1] \in Nat
          BY <1>2, <4>2, <5>1
        <5> QED BY <4>2, <4>3, <5>2
      <4>4. ASSUME NEW i \in 1 .. Len(s), i <= d, s[i] = id PROVE id < r[1]
        <5>1. i < d + 1
          BY <1>3, <4>4
        <5> QED BY <1>2, <4>2, <4>4, <5>1
      <4> QED BY <1>7, <4>3, <4>4
    <3> QED BY <3>1, <3>2
  <2> QED BY <2>1, <2>2 DEF Outlived
<1>8. ASSUME NEW id \in 1 .. n, Outlived(s, id, lim) PROVE Outlived(r, id, lim)
  <2>1. Len(s) >= lim /\ id < s[1]
    BY <1>8 DEF Outlived
  <2>2. d >= 1 /\ Len(s) >= 1
    <3>1. Len(s) \in Nat /\ lim \in Nat /\ lim >= 1 /\ Len(s) + 1 > lim /\ Len(s) >= 1
      BY <1>1, <2>1
    <3>2. Len(r) = lim
      BY <1>1, <3>1
    <3> QED BY <1>3, <2>1, <3>1, <3>2
  <2> QED BY <1>7, <2>1, <2>2
<1>9. ASSUME NEW id \in 1 .. n, Listed(s, id) PROVE Listed(r, id) \/ Outlived(r, id, lim)
  <2>1. PICK i \in 1 .. Len(s) : s[i] = id
    BY <1>9 DEF Listed
  <2>2. CASE i <= d
    <3>1. d >= 1
      BY <1>3, <2>2
    <3> QED BY <1>7, <2>1, <2>2, <3>1
  <2>3. CASE ~(i <= d)
    <3>1. i - d \in 1 .. Len(r) - 1 /\ d + (i - d) = i
      <4>1. Len(s) \in Nat /\ Len(r) \in Nat
        BY <1>1
      <4> QED BY <1>3, <2>3, <4>1
    <3>2. r[i - d] = s[d + (i - d)]
      BY <1>1, <3>1
    <3>3. i - d \in 1 .. Len(r) /\ r[i - d] = id
      <4>1. r[i - d] = id
        BY <2>1, <3>1, <3>2
      <4>2. Len(r) \in Nat /\ i - d \in 1 .. Len(r) - 1
        BY <1>1, <3>1
      <4> QED BY <4>1, <4>2
    <3> QED BY <3>3 DEF Listed
  <2> QED BY <2>2, <2>3
<1> QED BY <1>5, <1>6, <1>8, <1>9 DEF r

(* A log takes a line.                                                     *)
LEMMA LogGrows ==
    ASSUME NEW s \in Seq([id : Nat, day : Nat]), NEW n \in Nat, NEW d \in Nat, InOrder(s, n, d)
    PROVE  LET g == Append(s, [id |-> n + 1, day |-> d])
           IN  /\ InOrder(g, n + 1, d) /\ Written(g, n + 1) /\ InOrder(s, n + 1, d)
               /\ \A id : Written(s, id) => Written(g, id)
               /\ \A id, e : Expired(s, id, e) => Expired(g, id, e)
<1> DEFINE y == [id |-> n + 1, day |-> d]
           g == Append(s, y)
<1>1. y \in [id : Nat, day : Nat] /\ y.id = n + 1 /\ y.day = d
  OBVIOUS
<1> HIDE DEF y
<1>2. /\ Len(s) \in Nat /\ Len(g) = Len(s) + 1 /\ g[Len(s) + 1] = y
      /\ \A i \in 1 .. Len(s) : i \in 1 .. Len(g) /\ g[i] = s[i]
  BY <1>1, AppendProperties, LenProperties
<1> HIDE DEF g
<1>3. \A i \in 1 .. Len(g) : i \in 1 .. Len(s) \/ i = Len(s) + 1
  BY <1>2
<1>4. /\ \A i \in 1 .. Len(s) : s[i].id \in 1 .. n /\ s[i].day <= d
      /\ \A i, j \in 1 .. Len(s) : i < j => s[i].id < s[j].id
  BY DEF InOrder
<1>5. ASSUME NEW i \in 1 .. Len(s) PROVE s[i].id \in 1 .. n + 1 /\ s[i].id < n + 1
  BY <1>4
<1>6. InOrder(s, n + 1, d)
  BY <1>4, <1>5 DEF InOrder
<1>7. InOrder(g, n + 1, d)
  <2>1. ASSUME NEW i \in 1 .. Len(g) PROVE g[i].id \in 1 .. n + 1 /\ g[i].day <= d
    <3>1. CASE i \in 1 .. Len(s)
      BY <1>2, <1>4, <1>5, <3>1
    <3>2. CASE i = Len(s) + 1
      BY <1>1, <1>2, <3>2
    <3> QED BY <1>3, <3>1, <3>2
  <2>2. ASSUME NEW i \in 1 .. Len(g), NEW j \in 1 .. Len(g), i < j PROVE g[i].id < g[j].id
    <3>1. i \in 1 .. Len(s) /\ g[i] = s[i]
      BY <1>2, <1>3, <2>2
    <3>2. CASE j \in 1 .. Len(s)
      BY <1>2, <1>4, <2>2, <3>1, <3>2
    <3>3. CASE j = Len(s) + 1
      BY <1>1, <1>2, <1>5, <3>1, <3>3
    <3> QED BY <1>3, <3>2, <3>3
  <2> QED BY <2>1, <2>2 DEF InOrder
<1>8. Written(g, n + 1)
  <2>1. Len(s) + 1 \in 1 .. Len(g)
    BY <1>2
  <2> QED BY <1>1, <1>2, <2>1 DEF Written
<1>9. /\ \A id : Written(s, id) => Written(g, id)
      /\ \A id, e : Expired(s, id, e) => Expired(g, id, e)
  BY <1>2 DEF Written, Expired
<1> QED BY <1>6, <1>7, <1>8, <1>9 DEF g, y

(* Steps that add a record to a list.                                      *)
LEMMA AddKeeps ==
    ASSUME TypeOK, NEW l \in Lists, RecordInv(l), AddsRecord(l)
    PROVE  RecordInv(l)'
<1> DEFINE n == made[l]
           s == recent[l]
           r == recent'[l]
           f == disk[l].lines
           g == disk'[l].lines
           lim == Limit(l)
<1>0. /\ n \in Nat /\ s \in Seq(Nat) /\ f \in Seq([id : Nat, day : Nat]) /\ day \in Nat /\ lim \in Nat \ {0}
  <2>1. disk[l] \in Logs /\ s \in Seq(Nat)
    BY DEF TypeOK
  <2> QED BY <2>1, MadeTypes, BoundTypes, LimitTypes DEF Logs
<1>1. /\ r = Trim(Append(s, n + 1), lim) /\ made'[l] = n + 1
      /\ UNCHANGED <<day, up, unread>>
      /\ unkept \subseteq unkept'
      /\ \/ g = Append(f, [id |-> n + 1, day |-> day])
         \/ g = f /\ <<l, n + 1>> \in unkept'
  BY DEF AddsRecord
<1>2. /\ Rising(s, n) /\ InOrder(f, n, day)
      /\ \A id \in 1 .. n : <<l, id>> \in unkept \/ Written(f, id)
      /\ up => \A id \in 1 .. n : \/ Listed(s, id) \/ Outlived(s, id, lim)
                                  \/ <<l, id>> \in unkept \cup unread \/ Expired(f, id, day)
  BY DEF RecordInv
<1> HIDE DEF n, s, r, f, g, lim
<1>3. /\ Rising(r, n + 1) /\ Listed(r, n + 1)
      /\ \A id \in 1 .. n : Listed(s, id) \/ Outlived(s, id, lim)
                            => Listed(r, id) \/ Outlived(r, id, lim)
  BY <1>0, <1>1, <1>2, ListGrows
<1>4. /\ InOrder(g, n + 1, day) /\ (Written(g, n + 1) \/ <<l, n + 1>> \in unkept')
      /\ \A id : Written(f, id) => Written(g, id)
      /\ \A id, e : Expired(f, id, e) => Expired(g, id, e)
  <2>1. LET a == Append(f, [id |-> n + 1, day |-> day])
        IN  /\ InOrder(a, n + 1, day) /\ Written(a, n + 1) /\ InOrder(f, n + 1, day)
            /\ \A id : Written(f, id) => Written(a, id)
            /\ \A id, e : Expired(f, id, e) => Expired(a, id, e)
    BY <1>0, <1>2, LogGrows
  <2> QED BY <1>1, <2>1
<1>5. \A id \in 1 .. n + 1 : id \in 1 .. n \/ id = n + 1
  BY <1>0
<1>6. \A id \in 1 .. n + 1 : <<l, id>> \in unkept' \/ Written(g, id)
  BY <1>1, <1>2, <1>4, <1>5
<1>7. up' => \A id \in 1 .. n + 1 : \/ Listed(r, id) \/ Outlived(r, id, lim)
                                    \/ <<l, id>> \in unkept' \cup unread' \/ Expired(g, id, day')
  BY <1>1, <1>2, <1>3, <1>4, <1>5
<1>8. /\ Rising(recent'[l], made'[l]) /\ InOrder(disk'[l].lines, made'[l], day')
      /\ \A id \in 1 .. made'[l] : <<l, id>> \in unkept' \/ Written(disk'[l].lines, id)
      /\ up' => \A id \in 1 .. made'[l] : \/ Listed(recent'[l], id) \/ Outlived(recent'[l], id, Limit(l))
                                          \/ <<l, id>> \in unkept' \cup unread' \/ Expired(disk'[l].lines, id, day')
  BY <1>1, <1>3, <1>4, <1>6, <1>7 DEF r, g, lim
<1> QED BY <1>8 DEF RecordInv, Rising, InOrder, Written, Listed, Outlived, Expired

(* The process dies: its lists are empty.                                  *)
LEMMA CrashKeeps ==
    ASSUME TypeOK, NEW l \in Lists, RecordInv(l), Crash
    PROVE  RecordInv(l)'
<1>1. recent'[l] = <<>> /\ ~up' /\ UNCHANGED <<disk, day, made, unkept>>
  BY DEF Crash
<1>2. Rising(<<>>, made[l])
  <2>1. Len(<<>>) = 0 /\ 1 .. 0 = {}
    BY LenProperties
  <2> QED BY <2>1 DEF Rising
<1>3. /\ Rising(recent'[l], made'[l]) /\ InOrder(disk'[l].lines, made'[l], day')
      /\ \A id \in 1 .. made'[l] : <<l, id>> \in unkept' \/ Written(disk'[l].lines, id)
  BY <1>1, <1>2 DEF RecordInv
<1> QED BY <1>1, <1>3 DEF RecordInv, Rising, InOrder, Written

(* The process starts: its lists are what it could read of the logs, and   *)
(* what is not in them has expired or is known to be unread.               *)
LEMMA RestartKeeps ==
    ASSUME TypeOK, NEW l \in Lists, RecordInv(l), Restart
    PROVE  RecordInv(l)'
<1> DEFINE n == made[l]
           f == disk[l]
           L == f.lines
           N == Len(L)
           r == recent'[l]
           from == day - DaysBack
<1>0. n \in Nat /\ from \in Int /\ f \in Logs /\ L \in Seq([id : Nat, day : Nat])
  <2>1. f \in Logs
    BY DEF TypeOK
  <2> QED BY <2>1, MadeTypes, BoundTypes DEF Logs
<1>1. /\ N \in Nat /\ DOMAIN L = 1 .. N
      /\ \A k \in 1 .. N : L[k].day \in Nat
  <2>1. N \in Nat /\ DOMAIN L = 1 .. N
    BY <1>0, LenProperties
  <2>2. \A k \in 1 .. N : L[k] \in [id : Nat, day : Nat]
    BY <1>0, ElementOfSeq
  <2> QED BY <2>1, <2>2
<1>2. PICK bad \in SUBSET (1 .. N) :
          /\ r = ReadLines(f, Due(f, from) \ bad)
          /\ \A k \in bad : <<l, L[k].id>> \in unread'
  BY <1>1, RestartReads
<1> DEFINE K == Due(f, from) \ bad
<1>3. K \in SUBSET DOMAIN L
  BY DEF Due
<1>a. PICK m \in Nat : \E s \in [1 .. m -> K] :
          Len(r) = m /\ ListedBy(s, K) /\ \A i \in 1 .. m : r[i] = L[s[i]].id
  <2>1. r = ReadLines(f, K)
    BY <1>2
  <2>2. f \in Logs /\ K \in SUBSET DOMAIN f.lines /\ L = f.lines
    BY <1>0, <1>3
  <2> HIDE DEF r, f, K, L
  <2> QED BY <2>1, <2>2, ReadsLines
<1>4. PICK s \in [1 .. m -> K] :
          Len(r) = m /\ ListedBy(s, K) /\ \A i \in 1 .. m : r[i] = L[s[i]].id
  BY <1>a
<1>5. /\ UNCHANGED <<disk, day, made, unkept>>
      /\ \A i \in 1 .. N : L[i].id \in 1 .. n
      /\ \A i, j \in 1 .. N : i < j => L[i].id < L[j].id
      /\ InOrder(L, n, day)
      /\ \A id \in 1 .. n : <<l, id>> \in unkept \/ Written(L, id)
  BY DEF Restart, RecordInv, InOrder
<1>6. /\ \A k \in K : k \in 1 .. N
      /\ \A k \in 1 .. N : L[k].day < from \/ k \in bad \/ k \in K
  <2>1. \A k \in K : k \in 1 .. N
    BY <1>1, <1>3
  <2>2. ASSUME NEW k \in 1 .. N, k \notin bad, k \notin K PROVE L[k].day < from
    <3>1. k \notin Due(f, from)
      BY <2>2
    <3>2. ~(L[k].day >= from)
      BY <1>1, <3>1 DEF Due
    <3>3. L[k].day \in Nat /\ from \in Int
      BY <1>0, <1>1
    <3> HIDE DEF L, from
    <3> QED BY <3>2, <3>3
  <2> QED BY <2>1, <2>2
<1> HIDE DEF r, N, L, n, K, f, from
<1>7. Rising(r, n)
  <2>1. \A i \in 1 .. Len(r) : i \in DOMAIN s /\ s[i] \in 1 .. N /\ r[i] = L[s[i]].id
    BY <1>4, <1>6
  <2>2. ASSUME NEW i \in 1 .. Len(r), NEW j \in 1 .. Len(r), i < j PROVE r[i] < r[j]
    <3>1. s[i] < s[j]
      BY <1>4, <2>1, <2>2 DEF ListedBy, Ascending
    <3> QED BY <1>5, <2>1, <3>1
  <2> QED BY <1>5, <2>1, <2>2 DEF Rising
<1>8. ASSUME NEW id \in 1 .. n, <<l, id>> \notin unkept
      PROVE  Listed(r, id) \/ <<l, id>> \in unread' \/ Expired(L, id, day)
  <2>1. PICK k \in 1 .. N : L[k].id = id
    BY <1>5, <1>8 DEF Written, N
  <2>2. CASE L[k].day < from
    BY <2>1, <2>2 DEF Expired, N, from
  <2>3. CASE k \in bad
    BY <1>2, <2>1, <2>3
  <2>4. CASE k \in K
    <3>1. PICK i \in 1 .. Len(r) : s[i] = k
      BY <1>4, <2>4 DEF ListedBy
    <3>2. r[i] = id
      BY <1>4, <2>1, <3>1
    <3> QED BY <3>1, <3>2 DEF Listed
  <2> QED BY <1>6, <2>2, <2>3, <2>4
<1>9. /\ Rising(recent'[l], made'[l]) /\ InOrder(disk'[l].lines, made'[l], day')
      /\ \A id \in 1 .. made'[l] : <<l, id>> \in unkept' \/ Written(disk'[l].lines, id)
      /\ \A id \in 1 .. made'[l] : \/ Listed(recent'[l], id) \/ Outlived(recent'[l], id, Limit(l))
                                   \/ <<l, id>> \in unkept' \cup unread' \/ Expired(disk'[l].lines, id, day')
  BY <1>5, <1>7, <1>8 DEF r, n, L, f
<1> QED BY <1>9 DEF RecordInv, Rising, InOrder, Written, Listed, Outlived, Expired

(* A day begins: nothing is changed in the logs but their age.             *)
LEMMA MidnightKeeps ==
    ASSUME TypeOK, NEW l \in Lists, RecordInv(l), Midnight
    PROVE  RecordInv(l)'
<1> DEFINE L == disk[l].lines
           N == Len(L)
<1>0. day \in Nat /\ DaysBack \in Nat /\ disk[l] \in Logs /\ L \in Seq([id : Nat, day : Nat])
  <2>1. disk[l] \in Logs
    BY DEF TypeOK
  <2> QED BY <2>1, BoundTypes DEF Logs
<1>1. \A k \in 1 .. N : L[k].day \in Nat
  <2>1. \A k \in 1 .. N : L[k] \in [id : Nat, day : Nat]
    BY <1>0, ElementOfSeq
  <2> QED BY <2>1
<1>2. disk'[l].lines = L /\ day' = day + 1 /\ UNCHANGED <<up, recent, made, unkept, unread>>
  <2>1. disk'[l] = [disk[l] EXCEPT !.torn = FALSE]
    BY DEF Midnight
  <2>2. disk'[l].lines = L
    BY <1>0, <2>1 DEF Logs
  <2> QED BY <2>2 DEF Midnight
<1>3. InOrder(L, made[l], day + 1)
  <2>1. ASSUME NEW k \in 1 .. N, L[k].day <= day PROVE L[k].day <= day + 1
    <3>1. day \in Nat /\ L[k].day \in Nat
      BY <1>0, <1>1
    <3> QED BY <2>1, <3>1
  <2> QED BY <2>1 DEF RecordInv, InOrder
<1>4. ASSUME NEW id, Expired(L, id, day) PROVE Expired(L, id, day + 1)
  <2>1. PICK k \in 1 .. N : L[k].id = id /\ L[k].day < day - DaysBack
    BY <1>4 DEF Expired
  <2>2. L[k].day < (day + 1) - DaysBack
    <3>1. day \in Nat /\ DaysBack \in Nat /\ L[k].day \in Nat
      BY <1>0, <1>1
    <3> QED BY <2>1, <3>1
  <2> DEFINE e == day + 1
  <2>3. L[k].day < e - DaysBack
    BY <2>2
  <2> HIDE DEF e
  <2>4. Expired(L, id, e)
    BY <2>1, <2>3 DEF Expired
  <2> QED BY <2>4 DEF e
<1> HIDE DEF L
<1>5. /\ Rising(recent'[l], made'[l]) /\ InOrder(disk'[l].lines, made'[l], day')
      /\ \A id \in 1 .. made'[l] : <<l, id>> \in unkept' \/ Written(disk'[l].lines, id)
      /\ up' => \A id \in 1 .. made'[l] : \/ Listed(recent'[l], id) \/ Outlived(recent'[l], id, Limit(l))
                                          \/ <<l, id>> \in unkept' \cup unread' \/ Expired(disk'[l].lines, id, day')
  <2>1. /\ Rising(recent[l], made[l])
        /\ \A id \in 1 .. made[l] : <<l, id>> \in unkept \/ Written(L, id)
        /\ up => \A id \in 1 .. made[l] : \/ Listed(recent[l], id) \/ Outlived(recent[l], id, Limit(l))
                                          \/ <<l, id>> \in unkept \cup unread \/ Expired(L, id, day)
    BY DEF RecordInv, L
  <2> QED BY <1>2, <1>3, <1>4, <2>1
<1> QED BY <1>5 DEF RecordInv, Rising, InOrder, Written, Listed, Outlived, Expired

(* Every step keeps the order and the completeness of the lists.           *)
LEMMA RecordKept ==
    ASSUME TypeOK, NEW l \in Lists, RecordInv(l), [Next]_vars
    PROVE  RecordInv(l)'
<1>a. ASSUME NEW t \in Tasks, NEW step \in Steps, NEW live \in SUBSET Conns,
             NEW o \in Outcomes, Start(t, step, live, o),
             made'[l] = (IF l = ListOf(step) THEN made[l] + 1 ELSE made[l]), UNCHANGED <<up, day, unread>>
      PROVE  RecordInv(l)'
  <2>1. SameRecords(l) \/ AddsRecord(l)
    BY <1>a, StartIsRecord
  <2> QED BY <2>1, SameKeeps, AddKeeps
<1>b. ASSUME UNCHANGED <<recent, disk, unkept, unread, made, day, up>> PROVE RecordInv(l)'
  <2>1. SameRecords(l)
    BY <1>b DEF SameRecords
  <2> QED BY <2>1, SameKeeps
<1>1. ASSUME NEW q \in -MaxHeld .. MaxHeld \ {0}, NEW p \in Prices, OnExecutionEvent(q, p) PROVE RecordInv(l)'
  <2>1. q \in Int
    BY BridgeAssumption
  <2>2. /\ Start("bus", "order", clients, "ok") /\ "order" \in Steps /\ "ok" \in Outcomes
        /\ "bus" \in Tasks /\ clients \in SUBSET Conns /\ made'[l] = made[l]
    BY <1>1, <2>1, ExecutionEffect
  <2>3. l # ListOf("order")
    BY ListOfSteps DEF Lists
  <2>4. UNCHANGED <<up, day, unread>>
    BY <1>1 DEF OnExecutionEvent
  <2> QED BY <1>a, <2>2, <2>3, <2>4
<1>2. ASSUME NEW o \in DiskFaults \cup {"ok"}, NEW step \in {"note", "status"}, Other(step, o) PROVE RecordInv(l)'
  <2>1. o \in Outcomes
    BY BridgeAssumption DEF Outcomes
  <2>2. /\ Start("other", step, clients, o) /\ step \in Steps /\ "other" \in Tasks /\ clients \in SUBSET Conns
        /\ made'[l] = (IF l = ListOf(step) THEN made[l] + 1 ELSE made[l])
    BY <1>2, <2>1, OtherEffect
  <2>3. UNCHANGED <<up, day, unread>>
    BY <1>2 DEF Other
  <2> QED BY <1>a, <2>1, <2>2, <2>3
<1>3. ASSUME NEW o \in DiskFaults \cup {"ok"}, NEW t \in Tasks, Return(t, o) PROVE RecordInv(l)'
  <2>1. o \in Outcomes
    BY BridgeAssumption DEF Outcomes
  <2>2. /\ Then(t) \in Steps /\ Remaining(t) \in SUBSET clients /\ UNCHANGED <<up, day, unread>>
        /\ \/ UNCHANGED <<recent, disk, unkept, made>>
           \/ /\ Start(t, Then(t), Remaining(t), o)
              /\ made'[l] = IF l = ListOf(Then(t)) THEN made[l] + 1 ELSE made[l]
    BY <1>3, <2>1, ReturnEffect
  <2>3. Remaining(t) \in SUBSET Conns
    BY <2>2 DEF TypeOK
  <2>4. CASE UNCHANGED <<recent, disk, unkept, made>>
    BY <1>b, <2>2, <2>4
  <2>5. CASE /\ Start(t, Then(t), Remaining(t), o)
             /\ made'[l] = IF l = ListOf(Then(t)) THEN made[l] + 1 ELSE made[l]
    BY <1>a, <2>1, <2>2, <2>3, <2>5
  <2> QED BY <2>2, <2>4, <2>5
<1>4. ASSUME NEW t \in Tasks, BroadcastRaises(t) \/ \E c \in Conns : Send(t, c) PROVE RecordInv(l)'
  BY <1>4, <1>b DEF BroadcastRaises, Send
<1>5. ASSUME NEW c \in Conns, Connect(c) \/ BackfillRest(c) \/ SocketBreaks(c) \/ Disconnect(c)
      PROVE  RecordInv(l)'
  BY <1>5, <1>b DEF Connect, BackfillRest, SocketBreaks, Disconnect
<1>6. CASE UNCHANGED vars
  BY <1>6, <1>b DEF vars
<1> QED BY <1>1, <1>2, <1>3, <1>4, <1>5, <1>6, CrashKeeps, RestartKeeps, MidnightKeeps DEF Next

(* What is added to or taken over into a tab's list comes from what it is  *)
(* made of.                                                                *)
LEMMA TrimShows ==
    ASSUME NEW s \in Seq(Nat), NEW lim \in Nat \ {0}
    PROVE  \A i \in 1 .. Len(Trim(s, lim)) : \E j \in 1 .. Len(s) : Trim(s, lim)[i] = s[j]
BY TrimIsTail

(* The same for a list to which a number is added.                         *)
LEMMA AppendShows ==
    ASSUME NEW s \in Seq(Nat), NEW x \in Nat, NEW lim \in Nat \ {0}
    PROVE  \A i \in 1 .. Len(Trim(Append(s, x), lim)) :
               \/ Trim(Append(s, x), lim)[i] = x
               \/ \E j \in 1 .. Len(s) : Trim(Append(s, x), lim)[i] = s[j]
<1> DEFINE r == Trim(Append(s, x), lim)
<1>1. /\ r \in Seq(Nat) /\ Len(s) \in Nat /\ Len(r) \in Nat /\ Len(r) >= 1
      /\ Len(r) = IF Len(s) + 1 > lim THEN lim ELSE Len(s) + 1
      /\ r[Len(r)] = x
      /\ \A i \in 1 .. Len(r) - 1 : /\ Len(s) + 1 - Len(r) + i \in 1 .. Len(s)
                                    /\ r[i] = s[Len(s) + 1 - Len(r) + i]
  BY AppendTrims
<1> HIDE DEF r
<1>2. \A i \in 1 .. Len(r) : i = Len(r) \/ i \in 1 .. Len(r) - 1
  BY <1>1
<1>3. \A i \in 1 .. Len(r) : r[i] = x \/ \E j \in 1 .. Len(s) : r[i] = s[j]
  BY <1>1, <1>2
<1> QED BY <1>3 DEF r

(* A tab lists, and a broadcast carries, only numbers that were given.     *)
Shown(l) ==
    /\ \A t \in Tasks : ListOf(cast[t].step) = l => cast[t].id \in 1 .. made[l]
    /\ \A c \in Conns : \A i \in 1 .. Len(view[c][l]) : view[c][l][i] \in 1 .. made[l]

(* The start of a broadcast gives the next number.                         *)
LEMMA StartShows ==
    ASSUME TypeOK, NEW l \in Lists, Shown(l), NEW t \in Tasks, NEW step \in Steps,
           NEW live \in SUBSET Conns, NEW o \in Outcomes, Start(t, step, live, o),
           made'[l] = (IF l = ListOf(step) THEN made[l] + 1 ELSE made[l])
    PROVE  Shown(l)'
<1>0. made[l] \in Nat /\ NewId(step) \in Nat /\ view \in Views /\ TabLimit(l) \in Nat \ {0}
  BY MadeTypes, LimitTypes DEF TypeOK
<1>1. /\ \A u \in Tasks : u # t => cast'[u] = cast[u]
      /\ cast'[t].step = step /\ cast'[t].id = NewId(step)
      /\ \A c \in Conns : \/ view'[c][l] = view[c][l]
                          \/ /\ l = ListOf(step)
                             /\ view'[c][l] = Trim(Append(view[c][l], NewId(step)), TabLimit(l))
  <2>1. /\ \A u \in Tasks : u # t => cast'[u] = cast[u]
        /\ cast'[t].step = step /\ cast'[t].id = NewId(step)
        /\ \A d \in Conns, m \in Lists :
               \/ view'[d][m] = view[d][m]
               \/ /\ d \in cast'[t].seen /\ m = ListOf(step)
                  /\ view'[d][m] = Trim(Append(view[d][m], NewId(step)), TabLimit(m))
    BY StartCasts
  <2> QED BY <2>1
<1>2. /\ made[l] <= made'[l] /\ made'[l] \in Nat
      /\ l = ListOf(step) => NewId(step) \in 1 .. made'[l]
  <2>1. l = ListOf(step) => NewId(step) = made[l] + 1
    BY DEF NewId, Lists
  <2> QED BY <1>0, <2>1
<1>3. \A k \in 1 .. made[l] : k \in 1 .. made'[l]
  BY <1>0, <1>2
<1>4. \A u \in Tasks : ListOf(cast'[u].step) = l => cast'[u].id \in 1 .. made'[l]
  BY <1>1, <1>2, <1>3 DEF Shown
<1>5. ASSUME NEW c \in Conns, NEW i \in 1 .. Len(view'[c][l]) PROVE view'[c][l][i] \in 1 .. made'[l]
  <2>0. view[c][l] \in Seq(Nat) /\ \A j \in 1 .. Len(view[c][l]) : view[c][l][j] \in 1 .. made[l]
    BY <1>0 DEF Views, Shown
  <2>1. CASE view'[c][l] = view[c][l]
    BY <1>3, <1>5, <2>0, <2>1
  <2>2. CASE /\ l = ListOf(step)
             /\ view'[c][l] = Trim(Append(view[c][l], NewId(step)), TabLimit(l))
    <3>1. view'[c][l][i] = NewId(step) \/ \E j \in 1 .. Len(view[c][l]) : view'[c][l][i] = view[c][l][j]
      <4> DEFINE r == Trim(Append(view[c][l], NewId(step)), TabLimit(l))
      <4>1. \A k \in 1 .. Len(r) : r[k] = NewId(step) \/ \E j \in 1 .. Len(view[c][l]) : r[k] = view[c][l][j]
        BY <1>0, <2>0, AppendShows
      <4> HIDE DEF r
      <4>2. view'[c][l] = r
        BY <2>2 DEF r
      <4> QED BY <1>5, <4>1, <4>2
    <3> QED BY <1>2, <1>3, <2>0, <2>2, <3>1
  <2> QED BY <1>1, <2>1, <2>2
<1> QED BY <1>4, <1>5 DEF Shown

(* Every step keeps to numbers that were given.                            *)
LEMMA ShownKept ==
    ASSUME TypeOK, NEW l \in Lists, RecordInv(l), Shown(l), [Next]_vars
    PROVE  Shown(l)'
<1>0. /\ made[l] \in Nat /\ cast \in [Tasks -> Casts] /\ view \in Views /\ recent[l] \in Seq(Nat)
      /\ TabLimit(l) \in Nat \ {0}
  BY MadeTypes, LimitTypes DEF TypeOK
<1>n. ListOf("idle") # l /\ NoCast.step = "idle"
  BY ListOfSteps DEF NoCast, Lists
<1>b. ASSUME UNCHANGED <<view, cast, made>> PROVE Shown(l)'
  BY <1>b DEF Shown
<1>c. ASSUME NEW c \in Conns, NEW m \in Lists, view' = Backfill(c, m), UNCHANGED <<cast, made>> PROVE Shown(l)'
  <2>1. ASSUME NEW d \in Conns, NEW i \in 1 .. Len(view'[d][l]) PROVE view'[d][l][i] \in 1 .. made[l]
    <3>1. view'[d][l] = view[d][l] \/ view'[d][l] = Trim(recent[l], TabLimit(l))
      BY <1>c, Backfills
    <3>2. CASE view'[d][l] = view[d][l]
      BY <2>1, <3>2 DEF Shown
    <3>3. CASE view'[d][l] = Trim(recent[l], TabLimit(l))
      <4>1. \E j \in 1 .. Len(recent[l]) : view'[d][l][i] = recent[l][j]
        <5> DEFINE r == Trim(recent[l], TabLimit(l))
        <5>1. \A k \in 1 .. Len(r) : \E j \in 1 .. Len(recent[l]) : r[k] = recent[l][j]
          BY <1>0, TrimShows
        <5> HIDE DEF r
        <5>2. view'[d][l] = r
          BY <3>3 DEF r
        <5> QED BY <2>1, <5>1, <5>2
      <4> QED BY <4>1 DEF RecordInv, Rising
    <3> QED BY <3>1, <3>2, <3>3
  <2> QED BY <1>c, <2>1 DEF Shown
<1>1. ASSUME NEW q \in -MaxHeld .. MaxHeld \ {0}, NEW p \in Prices, OnExecutionEvent(q, p) PROVE Shown(l)'
  <2>1. q \in Int
    BY BridgeAssumption
  <2>2. /\ Start("bus", "order", clients, "ok") /\ "order" \in Steps /\ "ok" \in Outcomes
        /\ "bus" \in Tasks /\ clients \in SUBSET Conns /\ made'[l] = made[l]
    BY <1>1, <2>1, ExecutionEffect
  <2>3. l # ListOf("order")
    BY ListOfSteps DEF Lists
  <2> QED BY <2>2, <2>3, StartShows
<1>2. ASSUME NEW o \in DiskFaults \cup {"ok"}, NEW step \in {"note", "status"}, Other(step, o) PROVE Shown(l)'
  <2>1. o \in Outcomes
    BY BridgeAssumption DEF Outcomes
  <2>2. /\ Start("other", step, clients, o) /\ step \in Steps /\ "other" \in Tasks /\ clients \in SUBSET Conns
        /\ made'[l] = (IF l = ListOf(step) THEN made[l] + 1 ELSE made[l])
    BY <1>2, <2>1, OtherEffect
  <2> QED BY <2>1, <2>2, StartShows
<1>3. ASSUME NEW o \in DiskFaults \cup {"ok"}, NEW t \in Tasks, Return(t, o) PROVE Shown(l)'
  <2>1. o \in Outcomes
    BY BridgeAssumption DEF Outcomes
  <2>2. /\ Then(t) \in Steps /\ Remaining(t) \in SUBSET clients
        /\ \/ cast' = [cast EXCEPT ![t] = NoCast] /\ UNCHANGED <<view, made>>
           \/ /\ Start(t, Then(t), Remaining(t), o)
              /\ made'[l] = IF l = ListOf(Then(t)) THEN made[l] + 1 ELSE made[l]
    BY <1>3, <2>1, ReturnEffect
  <2>3. Remaining(t) \in SUBSET Conns
    BY <2>2 DEF TypeOK
  <2>4. CASE cast' = [cast EXCEPT ![t] = NoCast] /\ UNCHANGED <<view, made>>
    <3>1. \A u \in Tasks : cast'[u] = cast[u] \/ cast'[u] = NoCast
      BY <1>0, <2>4
    <3> QED BY <1>n, <2>4, <3>1 DEF Shown
  <2>5. CASE /\ Start(t, Then(t), Remaining(t), o)
             /\ made'[l] = IF l = ListOf(Then(t)) THEN made[l] + 1 ELSE made[l]
    BY <2>1, <2>2, <2>3, <2>5, StartShows
  <2> QED BY <2>2, <2>4, <2>5
<1>4. ASSUME NEW t \in Tasks, BroadcastRaises(t) PROVE Shown(l)'
  <2>1. UNCHANGED <<view, made>> /\ cast'[t] = NoCast /\ \A u \in Tasks : u # t => cast'[u] = cast[u]
    BY <1>4, RaiseEffect
  <2> QED BY <1>n, <2>1 DEF Shown
<1>5. ASSUME NEW t \in Tasks, NEW c \in Conns, Send(t, c) PROVE Shown(l)'
  <2>1. /\ cast[t].step \in Steps /\ cast[t].id \in Nat /\ made' = made
        /\ \A u \in Tasks : u # t => cast'[u] = cast[u]
        /\ cast'[t].step = cast[t].step /\ cast'[t].id = cast[t].id
        /\ \A d \in Conns : \/ view'[d][l] = view[d][l]
                            \/ /\ d = c /\ l = ListOf(cast[t].step)
                               /\ view'[d][l] = Trim(Append(view[c][l], cast[t].id), TabLimit(l))
    BY <1>5, SendEffect
  <2>2. \A u \in Tasks : ListOf(cast'[u].step) = l => cast'[u].id \in 1 .. made'[l]
    BY <2>1 DEF Shown
  <2>3. ASSUME NEW d \in Conns, NEW i \in 1 .. Len(view'[d][l]) PROVE view'[d][l][i] \in 1 .. made[l]
    <3>0. view[d][l] \in Seq(Nat) /\ \A j \in 1 .. Len(view[d][l]) : view[d][l][j] \in 1 .. made[l]
      BY <1>0 DEF Views, Shown
    <3>1. CASE view'[d][l] = view[d][l]
      BY <2>3, <3>0, <3>1
    <3>2. CASE /\ d = c /\ l = ListOf(cast[t].step)
               /\ view'[d][l] = Trim(Append(view[c][l], cast[t].id), TabLimit(l))
      <4>1. view'[d][l][i] = cast[t].id \/ \E j \in 1 .. Len(view[d][l]) : view'[d][l][i] = view[d][l][j]
        <5> DEFINE r == Trim(Append(view[d][l], cast[t].id), TabLimit(l))
        <5>1. \A k \in 1 .. Len(r) : r[k] = cast[t].id \/ \E j \in 1 .. Len(view[d][l]) : r[k] = view[d][l][j]
          BY <1>0, <2>1, <3>0, AppendShows
        <5> HIDE DEF r
        <5>2. view'[d][l] = r
          BY <3>2 DEF r
        <5> QED BY <2>3, <5>1, <5>2
      <4> QED BY <3>0, <3>2, <4>1 DEF Shown
    <3> QED BY <2>1, <3>1, <3>2
  <2> QED BY <2>1, <2>2, <2>3 DEF Shown
<1>6. ASSUME NEW c \in Conns, Connect(c) \/ BackfillRest(c) PROVE Shown(l)'
  <2>1. UNCHANGED <<cast, made>> /\ (view' = Backfill(c, "trades") \/ view' = Backfill(c, "audit"))
    BY <1>6, BackfillLists DEF Connect, BackfillRest
  <2>2. "trades" \in Lists /\ "audit" \in Lists
    BY DEF Lists
  <2> QED BY <1>c, <2>1, <2>2
<1>7. ASSUME NEW c \in Conns, SocketBreaks(c) \/ Disconnect(c) PROVE Shown(l)'
  BY <1>7, <1>b DEF SocketBreaks, Disconnect
<1>8. CASE Crash
  <2>1. UNCHANGED <<view, made>> /\ \A u \in Tasks : cast'[u] = NoCast
    BY <1>8 DEF Crash
  <2> QED BY <1>n, <2>1 DEF Shown
<1>9. CASE Restart \/ Midnight \/ UNCHANGED vars
  BY <1>9, <1>b DEF Restart, Midnight, vars
<1> QED BY <1>1, <1>2, <1>3, <1>4, <1>5, <1>6, <1>7, <1>8, <1>9 DEF Next

(* The lists are in order and complete, for every number given.            *)
BookInv == \A l \in Lists : RecordInv(l) /\ Shown(l)

(* This holds throughout.                                                  *)
LEMMA BooksKept == Spec => []BookInv
<1>1. Init => BookInv
  <2> SUFFICES ASSUME Init, NEW l \in Lists PROVE RecordInv(l) /\ Shown(l)
    BY DEF BookInv
  <2>1. /\ recent[l] = <<>> /\ disk[l].lines = <<>> /\ made[l] = 0
        /\ \A c \in Conns : view[c][l] = <<>>
        /\ \A t \in Tasks : cast[t] = NoCast
    BY DEF Init, Lists
  <2>2. Len(<<>>) = 0 /\ 1 .. 0 = {}
    BY LenProperties
  <2>3. ListOf(NoCast.step) # l
    BY ListOfSteps DEF NoCast, Lists
  <2>4. RecordInv(l)
    BY <2>1, <2>2 DEF RecordInv, Rising, InOrder
  <2>5. Shown(l)
    BY <2>1, <2>2, <2>3 DEF Shown
  <2> QED BY <2>4, <2>5
<1>2. TypeOK /\ BookInv /\ [Next]_vars => BookInv'
  <2> SUFFICES ASSUME TypeOK, BookInv, [Next]_vars, NEW l \in Lists PROVE RecordInv(l)' /\ Shown(l)'
    BY DEF BookInv
  <2> QED BY RecordKept, ShownKept DEF BookInv
<1> QED BY <1>1, <1>2, TypeCorrect, PTL DEF Spec

(* Whatever a tab has shown, the bridge's lists still have, also after     *)
(* crashes, failed writes and midnights, but for what could not be kept,   *)
(* what this process could not read when it started, what is too old and   *)
(* what had to make room.                                                  *)
THEOREM NothingIsForgotten == Spec => []NothingForgotten
<1>1. TypeOK /\ BookInv => NothingForgotten
  <2> SUFFICES ASSUME TypeOK, BookInv, up, NEW c \in Conns, NEW l \in Lists, NEW i \in DOMAIN view[c][l]
               PROVE  \/ Holds(recent[l], view[c][l][i])
                      \/ <<l, view[c][l][i]>> \in unkept \cup unread
                      \/ Len(recent[l]) >= Limit(l) /\ view[c][l][i] < recent[l][1]
                      \/ \E k \in DOMAIN disk[l].lines :
                             /\ disk[l].lines[k].id = view[c][l][i]
                             /\ disk[l].lines[k].day < day - DaysBack
    BY DEF NothingForgotten
  <2>1. view[c][l] \in Seq(Nat) /\ recent[l] \in Seq(Nat) /\ disk[l].lines \in Seq([id : Nat, day : Nat])
    <3>1. view \in Views /\ disk[l] \in Logs /\ recent[l] \in Seq(Nat)
      BY DEF TypeOK
    <3> QED BY <3>1 DEF Views, Logs
  <2>2. /\ DOMAIN view[c][l] = 1 .. Len(view[c][l]) /\ DOMAIN recent[l] = 1 .. Len(recent[l])
        /\ DOMAIN disk[l].lines = 1 .. Len(disk[l].lines)
    BY <2>1, LenProperties
  <2> DEFINE id == view[c][l][i]
  <2>3. id \in 1 .. made[l]
    BY <2>2 DEF Shown, BookInv
  <2> HIDE DEF id
  <2>4. \/ Listed(recent[l], id) \/ Outlived(recent[l], id, Limit(l))
        \/ <<l, id>> \in unkept \cup unread \/ Expired(disk[l].lines, id, day)
    BY <2>3 DEF RecordInv, BookInv
  <2> QED BY <2>2, <2>4 DEF id, Holds, Listed, Outlived, Expired
<1> QED BY <1>1, BooksKept, TypeCorrect, PTL

-----------------------------------------------------------------------------
(* A closed trade is listed once.  A broadcast goes to connections that    *)
(* have been registered, and those it has not reached yet list only older  *)
(* trades.                                                                 *)
Served == \A t \in Tasks : \A c \in cast[t].start : stage[c] # "away"

OlderThan(s, x) == \A i \in 1 .. Len(s) : s[i] < x

Fresh ==
    cast["bus"].step = "closed" =>
        \A c \in cast["bus"].start \ cast["bus"].seen : OlderThan(view[c]["trades"], cast["bus"].id)

Cut == {id \in Nat : <<"trades", id>> \in cut}

Once(s, C) == \A i, j \in 1 .. Len(s) : i # j /\ s[i] = s[j] => s[i] \in C

OnceInv ==
    /\ OtherTask
    /\ Served
    /\ Fresh
    /\ \A c \in Conns : Once(view[c]["trades"], Cut)

(* Every step keeps broadcasts to registered connections.                  *)
LEMMA ServedKept ==
    ASSUME TypeOK, Served, [Next]_vars
    PROVE  Served'
<1>0. /\ cast \in [Tasks -> Casts] /\ NoCast.start = {}
      /\ stage \in [Conns -> {"away", "backfill", "open", "gone"}]
      /\ \A c \in clients : c \in Conns /\ stage[c] # "away"
      /\ \A t \in Tasks : cast[t].start \subseteq Conns
  <2>1. cast \in [Tasks -> Casts] /\ stage \in [Conns -> {"away", "backfill", "open", "gone"}]
    BY DEF TypeOK
  <2>2. \A t \in Tasks : cast[t].start \subseteq Conns
    BY <2>1 DEF Casts
  <2>3. \A c \in clients : c \in Conns /\ stage[c] # "away"
    BY DEF TypeOK
  <2> QED BY <2>1, <2>2, <2>3 DEF NoCast
<1>a. ASSUME NEW t \in Tasks, NEW step \in Steps, NEW live \in SUBSET clients,
             NEW o \in Outcomes, Start(t, step, live, o), stage' = stage
      PROVE  Served'
  <2>0. live \in SUBSET Conns
    BY <1>0
  <2>1. cast'[t].start = live /\ \A u \in Tasks : u # t => cast'[u] = cast[u]
    BY <1>a, <2>0, StartCasts
  <2> QED BY <1>0, <1>a, <2>1 DEF Served
<1>b. ASSUME \A t \in Tasks : cast'[t].start = cast[t].start \/ cast'[t].start = {},
             \A c \in Conns : stage'[c] # "away" \/ stage'[c] = stage[c]
      PROVE  Served'
  BY <1>0, <1>b DEF Served
<1>1. ASSUME NEW q \in -MaxHeld .. MaxHeld \ {0}, NEW p \in Prices, OnExecutionEvent(q, p) PROVE Served'
  <2>1. q \in Int
    BY BridgeAssumption
  <2>2. Start("bus", "order", clients, "ok") /\ "order" \in Steps /\ "ok" \in Outcomes /\ "bus" \in Tasks
    BY <1>1, <2>1, ExecutionEffect
  <2>3. stage' = stage
    BY <1>1 DEF OnExecutionEvent
  <2> QED BY <1>a, <2>2, <2>3
<1>2. ASSUME NEW o \in DiskFaults \cup {"ok"}, NEW step \in {"note", "status"}, Other(step, o) PROVE Served'
  <2>1. o \in Outcomes
    BY BridgeAssumption DEF Outcomes
  <2>2. Start("other", step, clients, o) /\ step \in Steps /\ "other" \in Tasks
    BY <1>2, <2>1, OtherEffect
  <2>3. stage' = stage
    BY <1>2 DEF Other
  <2> QED BY <1>a, <2>1, <2>2, <2>3
<1>3. ASSUME NEW o \in DiskFaults \cup {"ok"}, NEW t \in Tasks, Return(t, o) PROVE Served'
  <2>1. o \in Outcomes
    BY BridgeAssumption DEF Outcomes
  <2>2. /\ Then(t) \in Steps /\ Remaining(t) \in SUBSET clients /\ stage' = stage
        /\ cast' = [cast EXCEPT ![t] = NoCast] \/ Start(t, Then(t), Remaining(t), o)
    BY <1>3, <2>1, ReturnEffect
  <2>3. CASE cast' = [cast EXCEPT ![t] = NoCast]
    <3>1. \A u \in Tasks : cast'[u] = cast[u] \/ cast'[u] = NoCast
      BY <1>0, <2>3
    <3> QED BY <1>0, <1>b, <2>2, <3>1
  <2>4. CASE Start(t, Then(t), Remaining(t), o)
    BY <1>a, <2>1, <2>2, <2>4
  <2> QED BY <2>2, <2>3, <2>4
<1>4. ASSUME NEW t \in Tasks, BroadcastRaises(t) PROVE Served'
  <2>1. stage' = stage /\ cast'[t] = NoCast /\ \A u \in Tasks : u # t => cast'[u] = cast[u]
    BY <1>4, RaiseEffect
  <2> QED BY <1>0, <1>b, <2>1
<1>5. ASSUME NEW t \in Tasks, NEW c \in Conns, Send(t, c) PROVE Served'
  <2>1. stage' = stage /\ cast'[t].start = cast[t].start /\ \A u \in Tasks : u # t => cast'[u] = cast[u]
    BY <1>5, SendEffect
  <2> QED BY <1>b, <2>1
<1>6. ASSUME NEW c \in Conns, Connect(c) \/ BackfillRest(c) \/ SocketBreaks(c) \/ Disconnect(c) PROVE Served'
  <2>1. cast' = cast /\ \/ stage' = stage
                        \/ \E x \in {"backfill", "open", "gone"} : stage' = [stage EXCEPT ![c] = x]
    BY <1>6 DEF Connect, BackfillRest, SocketBreaks, Disconnect
  <2>2. \A d \in Conns : stage'[d] # "away" \/ stage'[d] = stage[d]
    BY <1>0, <2>1
  <2> QED BY <1>b, <2>1, <2>2
<1>7. CASE Crash
  <2>1. \A t \in Tasks : cast'[t] = NoCast
    BY <1>7 DEF Crash
  <2> QED BY <1>0, <2>1 DEF Served
<1>8. CASE Restart \/ Midnight \/ UNCHANGED vars
  BY <1>8, <1>b DEF Restart, Midnight, vars
<1> QED BY <1>1, <1>2, <1>3, <1>4, <1>5, <1>6, <1>7, <1>8 DEF Next

(* A number that the list does not have, or that was cut, is added: still  *)
(* nothing is listed twice.                                                *)
LEMMA AppendOnce ==
    ASSUME NEW s \in Seq(Nat), NEW x \in Nat, NEW lim \in Nat \ {0}, NEW C, Once(s, C),
           OlderThan(s, x) \/ x \in C
    PROVE  Once(Trim(Append(s, x), lim), C)
<1> DEFINE r == Trim(Append(s, x), lim)
           d == Len(s) + 1 - Len(r)
<1>1. /\ Len(r) \in Nat /\ Len(s) \in Nat /\ r[Len(r)] = x
      /\ \A k \in 1 .. Len(r) - 1 : d + k \in 1 .. Len(s) /\ r[k] = s[d + k]
  BY AppendTrims
<1> HIDE DEF r
<1>2. d \in Int
  BY <1>1
<1> HIDE DEF d
<1>3. \A i \in 1 .. Len(r) : i = Len(r) \/ i \in 1 .. Len(r) - 1
  BY <1>1
<1>4. \A k \in 1 .. Len(s) : s[k] \in Nat
  BY ElementOfSeq
<1>5. ASSUME NEW i \in 1 .. Len(r), NEW j \in 1 .. Len(r), i # j, r[i] = r[j] PROVE r[i] \in C
  <2>1. CASE i \in 1 .. Len(r) - 1 /\ j \in 1 .. Len(r) - 1
    <3>1. d + i \in 1 .. Len(s) /\ r[i] = s[d + i] /\ d + j \in 1 .. Len(s) /\ r[j] = s[d + j]
      BY <1>1, <2>1
    <3>2. d + i # d + j
      BY <1>2, <1>5
    <3> QED BY <1>5, <3>1, <3>2 DEF Once
  <2>2. ASSUME NEW k \in 1 .. Len(r) - 1, r[k] = x PROVE x \in C
    <3>1. d + k \in 1 .. Len(s) /\ s[d + k] = x
      BY <1>1, <2>2
    <3>2. OlderThan(s, x) => x < x
      BY <3>1 DEF OlderThan
    <3> QED BY <3>2
  <2>3. CASE i = Len(r)
    <3>1. j \in 1 .. Len(r) - 1
      BY <1>3, <1>5, <2>3
    <3> QED BY <1>1, <1>5, <2>2, <2>3, <3>1
  <2>4. CASE j = Len(r)
    <3>1. i \in 1 .. Len(r) - 1
      BY <1>3, <1>5, <2>4
    <3> QED BY <1>1, <1>5, <2>2, <2>4, <3>1
  <2> QED BY <1>3, <2>1, <2>3, <2>4
<1>6. Once(r, C)
  BY <1>5 DEF Once
<1> QED BY <1>6 DEF r

(* The end of a list in order lists nothing twice.                         *)
LEMMA TailOnce ==
    ASSUME NEW s \in Seq(Nat), NEW n, NEW lim \in Nat \ {0}, NEW C, Rising(s, n)
    PROVE  Once(Trim(s, lim), C)
<1> DEFINE r == Trim(s, lim)
           d == Len(s) - Len(r)
<1>1. /\ Len(r) \in Nat /\ Len(s) \in Nat
      /\ \A k \in 1 .. Len(r) : d + k \in 1 .. Len(s) /\ r[k] = s[d + k]
  BY TrimIsTail
<1> HIDE DEF r
<1>2. d \in Int
  BY <1>1
<1> HIDE DEF d
<1>3. \A k \in 1 .. Len(s) : s[k] \in Nat
  BY ElementOfSeq
<1>4. ASSUME NEW i \in 1 .. Len(r), NEW j \in 1 .. Len(r), i # j PROVE r[i] # r[j]
  <2>1. d + i \in 1 .. Len(s) /\ r[i] = s[d + i] /\ d + j \in 1 .. Len(s) /\ r[j] = s[d + j]
    BY <1>1
  <2>2. d + i < d + j \/ d + j < d + i
    BY <1>2, <1>4
  <2>3. s[d + i] < s[d + j] \/ s[d + j] < s[d + i]
    BY <2>1, <2>2 DEF Rising
  <2>4. s[d + i] \in Nat /\ s[d + j] \in Nat
    BY <1>3, <2>1
  <2>5. s[d + i] # s[d + j]
    BY <2>3, <2>4
  <2> QED BY <2>1, <2>5
<1>5. Once(r, C)
  BY <1>4 DEF Once
<1> QED BY <1>5 DEF r

(* Only the record of a closed trade is listed with the trades.            *)
LEMMA OnlyClosed ==
    ASSUME NEW step \in Steps, ListOf(step) = "trades"
    PROVE  step = "closed"
BY ListOfSteps DEF Steps

(* A closed trade is broadcast first to one connection: the others list    *)
(* only older ones.                                                        *)
LEMMA StartOnce ==
    ASSUME TypeOK, OnceInv, Shown("trades"), NEW t \in Tasks, NEW step \in Steps,
           NEW live \in SUBSET Conns, NEW o \in Outcomes, Start(t, step, live, o),
           t = "other" => step # "closed", cut \subseteq cut'
    PROVE  Fresh' /\ \A c \in Conns : Once(view'[c]["trades"], Cut')
<1>0. /\ "trades" \in Lists /\ view \in Views /\ made["trades"] \in Nat /\ NewId(step) \in Nat
      /\ TabLimit("trades") \in Nat \ {0} /\ "bus" \in Tasks
  <2>1. "trades" \in Lists /\ view \in Views /\ "bus" \in Tasks
    BY DEF TypeOK, Lists, Tasks
  <2> QED BY <2>1, MadeTypes, LimitTypes
<1>1. /\ cast' \in [Tasks -> Casts] /\ \A u \in Tasks : u # t => cast'[u] = cast[u]
      /\ cast'[t].step = step /\ cast'[t].id = NewId(step)
      /\ cast'[t].start = live /\ view' \in Views
      /\ \A d \in Conns, m \in Lists :
             \/ view'[d][m] = view[d][m]
             \/ /\ d \in cast'[t].seen /\ m = ListOf(step)
                /\ view'[d][m] = Trim(Append(view[d][m], NewId(step)), TabLimit(m))
  BY StartCasts
<1>2. \A d \in Conns : \/ view'[d]["trades"] = view[d]["trades"]
                       \/ /\ d \in cast'[t].seen /\ step = "closed"
                          /\ view'[d]["trades"] = Trim(Append(view[d]["trades"], NewId(step)), TabLimit("trades"))
  BY <1>0, <1>1, OnlyClosed
<1>3. Cut \subseteq Cut' /\ \A c \in Conns : view[c]["trades"] \in Seq(Nat) /\ Once(view[c]["trades"], Cut')
  <2>1. Cut \subseteq Cut'
    BY DEF Cut
  <2> QED BY <1>0, <2>1 DEF OnceInv, Once, Views
<1>4. CASE step = "closed"
  <2>1. t = "bus" /\ NewId(step) = made["trades"] + 1
    BY <1>4, ListOfSteps DEF Tasks, NewId
  <2>2. ASSUME NEW c \in Conns PROVE OlderThan(view[c]["trades"], NewId(step))
    <3>1. \A i \in 1 .. Len(view[c]["trades"]) : view[c]["trades"][i] \in 1 .. made["trades"]
      BY DEF Shown
    <3>2. \A k \in 1 .. made["trades"] : k < NewId(step)
      BY <1>0, <2>1
    <3> QED BY <3>1, <3>2 DEF OlderThan
  <2>3. ASSUME NEW c \in Conns PROVE Once(view'[c]["trades"], Cut')
    <3>1. CASE view'[c]["trades"] = view[c]["trades"]
      BY <1>3, <3>1
    <3>2. CASE view'[c]["trades"] = Trim(Append(view[c]["trades"], NewId(step)), TabLimit("trades"))
      <4>1. Once(Trim(Append(view[c]["trades"], NewId(step)), TabLimit("trades")), Cut')
        BY <1>0, <1>3, <2>2, AppendOnce
      <4> QED BY <3>2, <4>1
    <3> QED BY <1>2, <3>1, <3>2
  <2>4. \A c \in live \ cast'["bus"].seen : OlderThan(view'[c]["trades"], cast'["bus"].id)
    BY <1>1, <1>2, <2>1, <2>2
  <2>5. Fresh'
    BY <1>1, <2>1, <2>4 DEF Fresh, OlderThan
  <2> QED BY <2>3, <2>5
<1>5. CASE step # "closed"
  <2>1. \A d \in Conns : view'[d]["trades"] = view[d]["trades"]
    BY <1>2, <1>5
  <2>2. cast'["bus"] = cast["bus"] \/ cast'["bus"].step # "closed"
    BY <1>0, <1>1, <1>5
  <2>3. cast["bus"].start \subseteq Conns
    BY <1>0 DEF TypeOK, Casts
  <2>4. Fresh'
    BY <2>1, <2>2, <2>3 DEF OnceInv, Fresh, OlderThan
  <2> QED BY <1>3, <2>1, <2>4
<1> QED BY <1>4, <1>5

(* A closed trade is sent to the next connection, which lists only older   *)
(* ones, unless the set of clients has been exchanged under the broadcast. *)
LEMMA SendOnce ==
    ASSUME TypeOK, OnceInv, NEW t \in Tasks, NEW c \in Conns, Send(t, c)
    PROVE  Fresh' /\ \A d \in Conns : Once(view'[d]["trades"], Cut')
<1>0. /\ "trades" \in Lists /\ view \in Views /\ TabLimit("trades") \in Nat \ {0} /\ "bus" \in Tasks
      /\ cast["bus"].start \subseteq Conns
  <2>1. "trades" \in Lists /\ "bus" \in Tasks
    BY DEF Lists, Tasks
  <2>2. cast["bus"].start \subseteq Conns /\ view \in Views
    BY <2>1 DEF TypeOK, Casts
  <2> QED BY <2>1, <2>2, LimitTypes
<1>1. /\ cast[t].step \in Steps /\ cast[t].id \in Nat /\ c \notin cast[t].seen
      /\ \A u \in Tasks : u # t => cast'[u] = cast[u]
      /\ cast'[t].step = cast[t].step /\ cast'[t].id = cast[t].id
      /\ cast'[t].start = cast[t].start /\ cast'[t].seen = cast[t].seen \cup {c}
      /\ cut \subseteq cut'
      /\ Swapped(cast[t]) => cut' = CutBy(cast[t])
      /\ ~Swapped(cast[t]) => c \in cast[t].start
      /\ \A d \in Conns, m \in Lists :
             \/ view'[d][m] = view[d][m]
             \/ /\ d = c /\ m = ListOf(cast[t].step)
                /\ view'[d][m] = Trim(Append(view[c][m], cast[t].id), TabLimit(m))
  BY SendEffect
<1>2. \A d \in Conns : \/ view'[d]["trades"] = view[d]["trades"]
                       \/ /\ d = c /\ cast[t].step = "closed"
                          /\ view'[d]["trades"] = Trim(Append(view[d]["trades"], cast[t].id), TabLimit("trades"))
  BY <1>0, <1>1, OnlyClosed
<1>3. Cut \subseteq Cut' /\ \A d \in Conns : view[d]["trades"] \in Seq(Nat) /\ Once(view[d]["trades"], Cut')
  <2>1. Cut \subseteq Cut'
    BY <1>1 DEF Cut
  <2> QED BY <1>0, <2>1 DEF OnceInv, Once, Views
<1>4. cast[t].step = "closed" => t = "bus"
  BY DEF OnceInv, OtherTask, Tasks
<1>5. Fresh'
  <2>1. cast["bus"].step = "closed" =>
            \A d \in cast["bus"].start \ cast'["bus"].seen : OlderThan(view'[d]["trades"], cast["bus"].id)
    <3>1. CASE t = "bus"
      BY <1>0, <1>1, <1>2, <3>1 DEF OnceInv, Fresh
    <3>2. CASE t # "bus"
      <4>1. cast[t].step # "closed" /\ cast'["bus"] = cast["bus"]
        BY <1>0, <1>1, <1>4, <3>2
      <4> QED BY <1>0, <1>2, <4>1 DEF OnceInv, Fresh
    <3> QED BY <3>1, <3>2
  <2>2. cast'["bus"].step = cast["bus"].step /\ cast'["bus"].id = cast["bus"].id /\ cast'["bus"].start = cast["bus"].start
    BY <1>0, <1>1
  <2> QED BY <2>1, <2>2 DEF Fresh, OlderThan
<1>6. ASSUME NEW d \in Conns PROVE Once(view'[d]["trades"], Cut')
  <2>1. CASE view'[d]["trades"] = view[d]["trades"]
    BY <1>3, <2>1
  <2>2. CASE /\ d = c /\ cast[t].step = "closed"
             /\ view'[d]["trades"] = Trim(Append(view[d]["trades"], cast[t].id), TabLimit("trades"))
    <3>1. OlderThan(view[d]["trades"], cast[t].id) \/ cast[t].id \in Cut'
      <4>1. CASE Swapped(cast[t])
        <5>1. <<"trades", cast[t].id>> \in cut'
          BY <1>1, <2>2, <4>1, ListOfSteps DEF CutBy
        <5> QED BY <1>1, <5>1 DEF Cut
      <4>2. CASE ~Swapped(cast[t])
        <5>1. t = "bus" /\ c \in cast["bus"].start \ cast["bus"].seen
          BY <1>1, <1>4, <2>2, <4>2
        <5> QED BY <2>2, <5>1 DEF OnceInv, Fresh
      <4> QED BY <4>1, <4>2
    <3>2. Once(Trim(Append(view[d]["trades"], cast[t].id), TabLimit("trades")), Cut')
      BY <1>0, <1>1, <1>3, <3>1, AppendOnce
    <3> QED BY <2>2, <3>2
  <2> QED BY <1>2, <2>1, <2>2
<1> QED BY <1>5, <1>6

(* A connection is registered and takes over the bridge's trades, which    *)
(* are in order; no broadcast is on its way to it.                         *)
LEMMA ConnectOnce ==
    ASSUME TypeOK, OnceInv, RecordInv("trades"), NEW c \in Conns, Connect(c)
    PROVE  Fresh' /\ \A d \in Conns : Once(view'[d]["trades"], Cut')
<1>0. /\ "trades" \in Lists /\ recent["trades"] \in Seq(Nat) /\ TabLimit("trades") \in Nat \ {0}
      /\ "bus" \in Tasks /\ cast["bus"].start \subseteq Conns
  <2>1. "trades" \in Lists /\ "bus" \in Tasks
    BY DEF Lists, Tasks
  <2>2. cast["bus"].start \subseteq Conns /\ recent["trades"] \in Seq(Nat)
    BY <2>1 DEF TypeOK, Casts
  <2> QED BY <2>1, <2>2, LimitTypes
<1>1. view' = Backfill(c, "trades") /\ stage[c] = "away" /\ UNCHANGED <<cast, cut>>
  BY BackfillLists DEF Connect
<1>2. \A d \in Conns : \/ view'[d]["trades"] = view[d]["trades"]
                       \/ d = c /\ view'[d]["trades"] = Trim(recent["trades"], TabLimit("trades"))
  BY <1>0, <1>1, Backfills
<1>3. c \notin cast["bus"].start
  BY <1>0, <1>1 DEF OnceInv, Served
<1>4. Cut' = Cut
  BY <1>1 DEF Cut
<1>5. Fresh'
  <2>1. \A d \in cast["bus"].start : view'[d]["trades"] = view[d]["trades"]
    BY <1>0, <1>2, <1>3
  <2> QED BY <1>1, <2>1 DEF OnceInv, Fresh, OlderThan
<1>6. Once(Trim(recent["trades"], TabLimit("trades")), Cut)
  BY <1>0, TailOnce DEF RecordInv
<1> QED BY <1>2, <1>4, <1>5, <1>6 DEF OnceInv

(* Every step keeps closed trades from being listed twice.                 *)
LEMMA OnceKept ==
    ASSUME TypeOK, BookInv, OnceInv, [Next]_vars
    PROVE  OnceInv'
<1> DEFINE Goal == Fresh' /\ \A c \in Conns : Once(view'[c]["trades"], Cut')
<1>0. RecordInv("trades") /\ Shown("trades") /\ "bus" \in Tasks /\ "trades" \in Lists /\ "audit" \in Lists
  BY DEF BookInv, Lists, Tasks
<1>1. cast \in [Tasks -> Casts] /\ cast["bus"].start \subseteq Conns
  BY <1>0 DEF TypeOK, Casts
<1>b. ASSUME \A c \in Conns : view'[c]["trades"] = view[c]["trades"], cut \subseteq cut',
             cast'["bus"] = cast["bus"] \/ cast'["bus"] = NoCast
      PROVE  Goal
  <2>1. Cut \subseteq Cut'
    BY <1>b DEF Cut
  <2>2. \A c \in Conns : Once(view'[c]["trades"], Cut')
    BY <1>b, <2>1 DEF OnceInv, Once
  <2>3. Fresh'
    BY <1>1, <1>b DEF OnceInv, Fresh, OlderThan, NoCast
  <2> QED BY <2>2, <2>3
<1>2. OtherTask' /\ Served'
  BY OtherTaskStays, ServedKept DEF OnceInv
<1> HIDE DEF Goal
<1>3. ASSUME NEW q \in -MaxHeld .. MaxHeld \ {0}, NEW p \in Prices, OnExecutionEvent(q, p) PROVE Goal
  <2>1. q \in Int
    BY BridgeAssumption
  <2>2. /\ Start("bus", "order", clients, "ok") /\ "order" \in Steps /\ "ok" \in Outcomes
        /\ "bus" \in Tasks /\ clients \in SUBSET Conns
    BY <1>3, <2>1, ExecutionEffect
  <2>3. cut' = cut
    BY <1>3 DEF OnExecutionEvent
  <2> QED BY <1>0, <2>2, <2>3, StartOnce DEF Goal
<1>4. ASSUME NEW o \in DiskFaults \cup {"ok"}, NEW step \in {"note", "status"}, Other(step, o) PROVE Goal
  <2>1. o \in Outcomes
    BY BridgeAssumption DEF Outcomes
  <2>2. Start("other", step, clients, o) /\ step \in Steps /\ "other" \in Tasks /\ clients \in SUBSET Conns
    BY <1>4, <2>1, OtherEffect
  <2>3. cut' = cut /\ step # "closed"
    BY <1>4 DEF Other
  <2> QED BY <1>0, <2>1, <2>2, <2>3, StartOnce DEF Goal
<1>5. ASSUME NEW o \in DiskFaults \cup {"ok"}, NEW t \in Tasks, Return(t, o) PROVE Goal
  <2>1. o \in Outcomes
    BY BridgeAssumption DEF Outcomes
  <2>2. /\ Then(t) \in Steps /\ Remaining(t) \in SUBSET clients /\ cut \subseteq cut' /\ cast[t].step # "idle"
        /\ \/ cast' = [cast EXCEPT ![t] = NoCast] /\ view' = view
           \/ Start(t, Then(t), Remaining(t), o)
    BY <1>5, <2>1, ReturnEffect
  <2>3. CASE cast' = [cast EXCEPT ![t] = NoCast] /\ view' = view
    <3>1. cast'["bus"] = cast["bus"] \/ cast'["bus"] = NoCast
      BY <1>0, <1>1, <2>3
    <3> QED BY <1>b, <2>2, <2>3, <3>1
  <2>4. CASE Start(t, Then(t), Remaining(t), o)
    <3>1. Remaining(t) \in SUBSET Conns
      BY <2>2 DEF TypeOK
    <3>2. t = "other" => Then(t) # "closed"
      <4>1. t = "other" => cast[t].step \in {"note", "status"}
        BY <2>2 DEF OnceInv, OtherTask
      <4>2. t = "other" => Then(t) = "idle"
        BY <4>1, FollowingSteps DEF Then
      <4> QED BY <4>2
    <3> QED BY <1>0, <2>1, <2>2, <2>4, <3>1, <3>2, StartOnce DEF Goal
  <2> QED BY <2>2, <2>3, <2>4
<1>6. ASSUME NEW t \in Tasks, BroadcastRaises(t) PROVE Goal
  <2>1. view' = view /\ cut \subseteq cut' /\ cast'[t] = NoCast /\ \A u \in Tasks : u # t => cast'[u] = cast[u]
    BY <1>6, RaiseEffect
  <2> QED BY <1>0, <1>b, <2>1
<1>7. ASSUME NEW t \in Tasks, NEW c \in Conns, Send(t, c) PROVE Goal
  BY <1>7, SendOnce DEF Goal
<1>8. ASSUME NEW c \in Conns, Connect(c) PROVE Goal
  BY <1>0, <1>8, ConnectOnce DEF Goal
<1>9. ASSUME NEW c \in Conns, BackfillRest(c) PROVE Goal
  <2>1. view' = Backfill(c, "audit") /\ UNCHANGED <<cast, cut>>
    BY <1>9, BackfillLists DEF BackfillRest
  <2>2. \A d \in Conns, m \in Lists :
            \/ Backfill(c, "audit")[d][m] = view[d][m]
            \/ d = c /\ m = "audit" /\ Backfill(c, "audit")[d][m] = Trim(recent["audit"], TabLimit("audit"))
    BY <1>0, Backfills
  <2>3. \A d \in Conns : view'[d]["trades"] = view[d]["trades"]
    BY <1>0, <2>1, <2>2
  <2> QED BY <1>b, <2>1, <2>3
<1>10. ASSUME NEW c \in Conns, SocketBreaks(c) \/ Disconnect(c) PROVE Goal
  BY <1>10, <1>b DEF SocketBreaks, Disconnect
<1>11. ASSUME Crash PROVE Goal
  <2>1. cast'["bus"] = NoCast /\ UNCHANGED <<view, cut>>
    BY <1>0, <1>11 DEF Crash
  <2> QED BY <1>b, <2>1
<1>12. ASSUME Restart \/ Midnight \/ UNCHANGED vars PROVE Goal
  BY <1>12, <1>b DEF Restart, Midnight, vars
<1>13. Goal
  BY <1>3, <1>4, <1>5, <1>6, <1>7, <1>8, <1>9, <1>10, <1>11, <1>12 DEF Next
<1> QED BY <1>2, <1>13 DEF Goal, OnceInv, Once

(* No tab lists a closed trade twice, however its registration falls into  *)
(* the broadcasts, unless the set of clients was exchanged under one.      *)
THEOREM TradesListedOnce == Spec => []TradesOnce
<1>1. Init => OnceInv
  <2> SUFFICES ASSUME Init PROVE OnceInv
    OBVIOUS
  <2>1. /\ \A t \in Tasks : cast[t] = NoCast
        /\ \A c \in Conns : view[c]["trades"] = <<>>
        /\ "bus" \in Tasks /\ "other" \in Tasks
    BY DEF Init, Lists, Tasks
  <2>2. Len(<<>>) = 0 /\ 1 .. 0 = {}
    BY LenProperties
  <2> QED BY <2>1, <2>2 DEF OnceInv, OtherTask, Served, Fresh, Once, NoCast
<1>2. TypeOK /\ BookInv /\ OnceInv /\ [Next]_vars => OnceInv'
  BY OnceKept
<1>3. TypeOK /\ OnceInv => TradesOnce
  <2> SUFFICES ASSUME TypeOK, OnceInv, NEW c \in Conns, NEW i \in DOMAIN view[c]["trades"],
                      NEW j \in DOMAIN view[c]["trades"], i # j, view[c]["trades"][i] = view[c]["trades"][j]
               PROVE  <<"trades", view[c]["trades"][i]>> \in cut
    BY DEF TradesOnce
  <2>1. view[c]["trades"] \in Seq(Nat)
    BY DEF TypeOK, Views, Lists
  <2>2. DOMAIN view[c]["trades"] = 1 .. Len(view[c]["trades"])
    BY <2>1, LenProperties
  <2>3. view[c]["trades"][i] \in Cut
    BY <2>2 DEF OnceInv, Once
  <2> QED BY <2>3 DEF Cut
<1> QED BY <1>1, <1>2, <1>3, BooksKept, TypeCorrect, PTL DEF Spec

-----------------------------------------------------------------------------
(* Nothing is missed.  A connection that works and is being served is in   *)
(* the set of clients: what a broadcast finds dead stays dead.             *)
Down == ~up => \A c \in Conns : stage[c] \in {"away", "gone"}

Registered == \A c \in Conns : alive[c] /\ stage[c] \in {"backfill", "open"} => c \in clients

DeadStay == \A t \in Tasks : \A c \in cast[t].dead : ~alive[c]

ClientInv == Down /\ Registered /\ DeadStay

(* The start of a broadcast finds at most its first connection dead, and   *)
(* reaches it if it is not.                                                *)
LEMMA StartReaches ==
    ASSUME TypeOK, NEW t \in Tasks, NEW step \in Steps, NEW live \in SUBSET Conns,
           NEW o \in Outcomes, Start(t, step, live, o)
    PROVE  /\ \A c \in cast'[t].dead : ~alive[c]
           /\ \A c \in cast'[t].seen : alive[c] /\ ListOf(step) # "none" =>
                  view'[c][ListOf(step)] = Trim(Append(view[c][ListOf(step)], NewId(step)), TabLimit(ListOf(step)))
<1> DEFINE id == NewId(step)
           l == ListOf(step)
<1>0. cast \in [Tasks -> Casts] /\ view \in Views
  BY DEF TypeOK
<1>1. CASE live = {}
  <2>1. cast' = [cast EXCEPT ![t] = [NoCast EXCEPT !.step = step, !.id = id]]
    BY <1>1 DEF Start, NewId
  <2>2. cast'[t].dead = {} /\ cast'[t].seen = {}
    BY <1>0, <2>1 DEF NoCast
  <2> QED BY <2>2
<1>2. CASE live # {}
  <2>1. PICK c \in live :
            /\ view' = Deliver(view, c, step, id)
            /\ cast' = [cast EXCEPT ![t] =
                 [step |-> step, id |-> id, seen |-> {c}, start |-> live,
                  dead |-> IF alive[c] THEN {} ELSE {c}]]
    BY <1>2 DEF Start, NewId
  <2>2. cast'[t].seen = {c} /\ cast'[t].dead = (IF alive[c] THEN {} ELSE {c})
    BY <1>0, <2>1
  <2>3. \A d \in cast'[t].dead : ~alive[d]
    BY <2>2
  <2>4. ASSUME alive[c], l # "none" PROVE view'[c][l] = Trim(Append(view[c][l], id), TabLimit(l))
    <3>1. l \in Lists /\ c \in Conns
      BY <2>4, ListOfSteps
    <3> DEFINE new == Trim(Append(view[c][l], id), TabLimit(l))
    <3>2. view' = [view EXCEPT ![c][l] = new]
      BY <2>1, <2>4 DEF Deliver
    <3> HIDE DEF new
    <3>3. view'[c][l] = new
      BY <1>0, <3>1, <3>2 DEF Views
    <3> QED BY <3>3 DEF new
  <2> QED BY <2>2, <2>3, <2>4
<1> QED BY <1>1, <1>2

(* So does every further send.                                             *)
LEMMA SendReaches ==
    ASSUME TypeOK, NEW t \in Tasks, NEW c \in Conns, Send(t, c)
    PROVE  /\ \A d \in cast'[t].dead : d \in cast[t].dead \/ ~alive[d]
           /\ alive[c] /\ ListOf(cast[t].step) # "none" =>
                  view'[c][ListOf(cast[t].step)] =
                      Trim(Append(view[c][ListOf(cast[t].step)], cast[t].id), TabLimit(ListOf(cast[t].step)))
<1> DEFINE l == ListOf(cast[t].step)
           dead == IF alive[c] THEN cast[t].dead ELSE cast[t].dead \cup {c}
<1>0. cast \in [Tasks -> Casts] /\ view \in Views /\ cast[t].step \in Steps
  BY DEF TypeOK, Casts
<1>1. cast'[t].dead = dead
  <2>1. cast' = [cast EXCEPT ![t].seen = @ \cup {c}, ![t].dead = IF alive[c] THEN @ ELSE @ \cup {c}]
    BY DEF Send
  <2> QED BY <1>0, <2>1 DEF Casts
<1>2. ASSUME alive[c], l # "none" PROVE view'[c][l] = Trim(Append(view[c][l], cast[t].id), TabLimit(l))
  <2>1. l \in Lists
    BY <1>0, <1>2, ListOfSteps
  <2> DEFINE new == Trim(Append(view[c][l], cast[t].id), TabLimit(l))
  <2>2. view' = [view EXCEPT ![c][l] = new]
    BY <1>2 DEF Send, Deliver
  <2> HIDE DEF new
  <2>3. view'[c][l] = new
    BY <1>0, <2>1, <2>2 DEF Views
  <2> QED BY <2>3 DEF new
<1> QED BY <1>1, <1>2

(* Every step keeps connections that work among the clients.               *)
LEMMA ClientsKept ==
    ASSUME TypeOK, ClientInv, [Next]_vars
    PROVE  ClientInv'
<1>0. /\ cast \in [Tasks -> Casts] /\ NoCast.dead = {} /\ "bus" \in Tasks /\ "other" \in Tasks
      /\ stage \in [Conns -> {"away", "backfill", "open", "gone"}] /\ alive \in [Conns -> BOOLEAN]
      /\ \A t \in Tasks : cast[t].dead \subseteq Conns
  <2>1. cast \in [Tasks -> Casts] /\ stage \in [Conns -> {"away", "backfill", "open", "gone"}]
        /\ alive \in [Conns -> BOOLEAN]
    BY DEF TypeOK
  <2>2. \A t \in Tasks : cast[t].dead \subseteq Conns
    BY <2>1 DEF Casts
  <2> QED BY <2>1, <2>2 DEF NoCast, Tasks
<1>a. ASSUME NEW t \in Tasks, NEW step \in Steps, NEW live \in SUBSET Conns, NEW o \in Outcomes,
             Start(t, step, live, o), UNCHANGED <<up, stage, alive>>,
             \A c \in clients : alive[c] => c \in live
      PROVE  ClientInv'
  <2>1. clients' = live /\ (\A u \in Tasks : u # t => cast'[u] = cast[u]) /\ \A c \in cast'[t].dead : ~alive[c]
    BY <1>a, StartCasts, StartReaches
  <2>2. Down' /\ Registered'
    BY <1>a, <2>1 DEF ClientInv, Down, Registered
  <2>3. DeadStay'
    BY <1>a, <2>1 DEF ClientInv, DeadStay
  <2> QED BY <2>2, <2>3 DEF ClientInv
<1>b. ASSUME UNCHANGED <<up, stage, alive>>, \A c \in clients : alive[c] => c \in clients',
             \A t \in Tasks : \A c \in cast'[t].dead : c \in cast[t].dead \/ ~alive[c]
      PROVE  ClientInv'
  <2>1. Down' /\ Registered'
    BY <1>b DEF ClientInv, Down, Registered
  <2>2. DeadStay'
    BY <1>b DEF ClientInv, DeadStay
  <2> QED BY <2>1, <2>2 DEF ClientInv
<1>1. ASSUME NEW q \in -MaxHeld .. MaxHeld \ {0}, NEW p \in Prices, OnExecutionEvent(q, p) PROVE ClientInv'
  <2>1. q \in Int
    BY BridgeAssumption
  <2>2. /\ Start("bus", "order", clients, "ok") /\ "order" \in Steps /\ "ok" \in Outcomes
        /\ clients \in SUBSET Conns
    BY <1>1, <2>1, ExecutionEffect
  <2>3. UNCHANGED <<up, stage, alive>>
    BY <1>1 DEF OnExecutionEvent
  <2> QED BY <1>0, <1>a, <2>2, <2>3
<1>2. ASSUME NEW o \in DiskFaults \cup {"ok"}, NEW step \in {"note", "status"}, Other(step, o) PROVE ClientInv'
  <2>1. o \in Outcomes
    BY BridgeAssumption DEF Outcomes
  <2>2. Start("other", step, clients, o) /\ step \in Steps /\ clients \in SUBSET Conns
    BY <1>2, <2>1, OtherEffect
  <2>3. UNCHANGED <<up, stage, alive>>
    BY <1>2 DEF Other
  <2> QED BY <1>0, <1>a, <2>1, <2>2, <2>3
<1>3. ASSUME NEW o \in DiskFaults \cup {"ok"}, NEW t \in Tasks, Return(t, o) PROVE ClientInv'
  <2>1. o \in Outcomes
    BY BridgeAssumption DEF Outcomes
  <2>2. /\ Then(t) \in Steps /\ Remaining(t) \in SUBSET clients /\ UNCHANGED <<up, stage, alive>>
        /\ \/ cast' = [cast EXCEPT ![t] = NoCast] /\ clients' = Remaining(t)
           \/ Start(t, Then(t), Remaining(t), o)
    BY <1>3, <2>1, ReturnEffect
  <2>3. Remaining(t) \in SUBSET Conns
    BY <2>2 DEF TypeOK
  <2>4. \A c \in clients : alive[c] => c \in Remaining(t)
    BY DEF Remaining, ClientInv, DeadStay
  <2>5. CASE cast' = [cast EXCEPT ![t] = NoCast] /\ clients' = Remaining(t)
    <3>1. \A u \in Tasks : cast'[u] = cast[u] \/ cast'[u] = NoCast
      BY <1>0, <2>5
    <3> QED BY <1>0, <1>b, <2>2, <2>4, <2>5, <3>1
  <2>6. CASE Start(t, Then(t), Remaining(t), o)
    BY <1>a, <2>1, <2>2, <2>3, <2>4, <2>6
  <2> QED BY <2>2, <2>5, <2>6
<1>4. ASSUME NEW t \in Tasks, BroadcastRaises(t) PROVE ClientInv'
  <2>1. /\ UNCHANGED <<up, clients, stage, alive>> /\ cast'[t] = NoCast
        /\ \A u \in Tasks : u # t => cast'[u] = cast[u]
    BY <1>4, RaiseEffect
  <2> QED BY <1>0, <1>b, <2>1
<1>5. ASSUME NEW t \in Tasks, NEW c \in Conns, Send(t, c) PROVE ClientInv'
  <2>1. UNCHANGED <<up, clients, stage, alive>> /\ \A u \in Tasks : u # t => cast'[u] = cast[u]
    BY <1>5, SendEffect
  <2>2. \A d \in cast'[t].dead : d \in cast[t].dead \/ ~alive[d]
    BY <1>5, SendReaches
  <2> QED BY <1>b, <2>1, <2>2
<1>6. ASSUME NEW c \in Conns, Connect(c) PROVE ClientInv'
  <2>1. up /\ clients' = clients \cup {c} /\ stage' = [stage EXCEPT ![c] = "backfill"] /\ UNCHANGED <<up, alive, cast>>
    BY <1>6 DEF Connect
  <2>2. Registered'
    BY <1>0, <2>1 DEF ClientInv, Registered
  <2> QED BY <2>1, <2>2 DEF ClientInv, Down, DeadStay
<1>7. ASSUME NEW c \in Conns, BackfillRest(c) PROVE ClientInv'
  <2>1. stage[c] = "backfill" /\ stage' = [stage EXCEPT ![c] = "open"] /\ UNCHANGED <<up, clients, alive, cast>>
    BY <1>7 DEF BackfillRest
  <2>2. up
    BY <2>1 DEF ClientInv, Down
  <2>3. Registered'
    BY <1>0, <2>1 DEF ClientInv, Registered
  <2> QED BY <2>1, <2>2, <2>3 DEF ClientInv, Down, DeadStay
<1>8. ASSUME NEW c \in Conns, SocketBreaks(c) PROVE ClientInv'
  <2>1. alive' = [alive EXCEPT ![c] = FALSE] /\ UNCHANGED <<up, clients, stage, cast>>
    BY <1>8 DEF SocketBreaks
  <2>2. \A d \in Conns : alive'[d] => alive[d]
    BY <1>0, <2>1
  <2>3. Registered' /\ Down'
    BY <2>1, <2>2 DEF ClientInv, Registered, Down
  <2>4. DeadStay'
    BY <1>0, <2>1, <2>2 DEF ClientInv, DeadStay
  <2> QED BY <2>3, <2>4 DEF ClientInv
<1>9. ASSUME NEW c \in Conns, Disconnect(c) PROVE ClientInv'
  <2>1. /\ ~alive[c] /\ clients' = clients \ {c} /\ stage' = [stage EXCEPT ![c] = "gone"]
        /\ UNCHANGED <<up, alive, cast>>
    BY <1>9 DEF Disconnect
  <2>2. \A d \in Conns : stage'[d] = stage[d] \/ (d = c /\ stage'[d] = "gone")
    BY <1>0, <2>1
  <2>3. Registered' /\ Down'
    BY <2>1, <2>2 DEF ClientInv, Registered, Down
  <2> QED BY <2>1, <2>3 DEF ClientInv, DeadStay
<1>10. CASE Crash
  <2>1. /\ stage' = [c \in Conns |-> IF stage[c] = "away" THEN "away" ELSE "gone"]
        /\ cast' = [t \in Tasks |-> NoCast]
    BY <1>10 DEF Crash
  <2>2. \A c \in Conns : stage'[c] \in {"away", "gone"}
    BY <2>1
  <2>3. \A t \in Tasks : cast'[t] = NoCast
    BY <2>1
  <2> QED BY <1>0, <2>2, <2>3 DEF ClientInv, Down, Registered, DeadStay
<1>11. CASE Restart
  <2>1. ~up /\ up' /\ UNCHANGED <<clients, stage, alive, cast>>
    BY <1>11 DEF Restart
  <2> QED BY <2>1 DEF ClientInv, Down, Registered, DeadStay
<1>12. CASE Midnight \/ UNCHANGED vars
  BY <1>12, <1>b DEF Midnight, vars
<1> QED BY <1>1, <1>2, <1>3, <1>4, <1>5, <1>6, <1>7, <1>8, <1>9, <1>10, <1>11, <1>12 DEF Next

(* Of two lines of the same list on their way, one is the newest.          *)
OneBehind(l) ==
    \A t, u \in Tasks : t # u /\ ListOf(cast[t].step) = l /\ ListOf(cast[u].step) = l
                            => cast[t].id = made[l] \/ cast[u].id = made[l]

(* Every step keeps it so.                                                 *)
LEMMA OneBehindKept ==
    ASSUME TypeOK, NEW l \in Lists, OneBehind(l), [Next]_vars
    PROVE  OneBehind(l)'
<1>0. cast \in [Tasks -> Casts] /\ ListOf(NoCast.step) # l
  BY ListOfSteps DEF TypeOK, NoCast, Lists
<1>a. ASSUME NEW t \in Tasks, NEW step \in Steps, NEW live \in SUBSET Conns, NEW o \in Outcomes,
             Start(t, step, live, o),
             made'[l] = (IF l = ListOf(step) THEN made[l] + 1 ELSE made[l])
      PROVE  OneBehind(l)'
  <2>1. /\ cast'[t].step = step /\ cast'[t].id = NewId(step)
        /\ \A u \in Tasks : u # t => cast'[u] = cast[u]
    BY <1>a, StartCasts
  <2>2. l = ListOf(step) => NewId(step) = made'[l]
    BY <1>a DEF NewId, Lists
  <2>3. CASE l = ListOf(step)
    <3>1. cast'[t].id = made'[l]
      BY <2>1, <2>2, <2>3
    <3>2. \A u, v \in Tasks : u # v => u = t \/ v = t
      BY DEF Tasks
    <3> QED BY <3>1, <3>2 DEF OneBehind
  <2>4. CASE l # ListOf(step)
    <3>1. made'[l] = made[l] /\ ListOf(cast'[t].step) # l
      BY <1>a, <2>1, <2>4
    <3> QED BY <2>1, <3>1 DEF OneBehind
  <2> QED BY <2>3, <2>4
<1>b. ASSUME \A t \in Tasks : \/ cast'[t].step = cast[t].step /\ cast'[t].id = cast[t].id
                              \/ cast'[t] = NoCast,
             made' = made
      PROVE  OneBehind(l)'
  BY <1>0, <1>b DEF OneBehind
<1>1. ASSUME NEW q \in -MaxHeld .. MaxHeld \ {0}, NEW p \in Prices, OnExecutionEvent(q, p) PROVE OneBehind(l)'
  <2>1. q \in Int
    BY BridgeAssumption
  <2>2. /\ Start("bus", "order", clients, "ok") /\ "order" \in Steps /\ "ok" \in Outcomes
        /\ "bus" \in Tasks /\ clients \in SUBSET Conns /\ made'[l] = made[l]
    BY <1>1, <2>1, ExecutionEffect
  <2>3. l # ListOf("order")
    BY ListOfSteps DEF Lists
  <2> QED BY <1>a, <2>2, <2>3
<1>2. ASSUME NEW o \in DiskFaults \cup {"ok"}, NEW step \in {"note", "status"}, Other(step, o) PROVE OneBehind(l)'
  <2>1. o \in Outcomes
    BY BridgeAssumption DEF Outcomes
  <2>2. /\ Start("other", step, clients, o) /\ step \in Steps /\ "other" \in Tasks /\ clients \in SUBSET Conns
        /\ made'[l] = (IF l = ListOf(step) THEN made[l] + 1 ELSE made[l])
    BY <1>2, <2>1, OtherEffect
  <2> QED BY <1>a, <2>1, <2>2
<1>3. ASSUME NEW o \in DiskFaults \cup {"ok"}, NEW t \in Tasks, Return(t, o) PROVE OneBehind(l)'
  <2>1. o \in Outcomes
    BY BridgeAssumption DEF Outcomes
  <2>2. /\ Then(t) \in Steps /\ Remaining(t) \in SUBSET clients
        /\ \/ cast' = [cast EXCEPT ![t] = NoCast] /\ made' = made
           \/ /\ Start(t, Then(t), Remaining(t), o)
              /\ made'[l] = IF l = ListOf(Then(t)) THEN made[l] + 1 ELSE made[l]
    BY <1>3, <2>1, ReturnEffect
  <2>3. Remaining(t) \in SUBSET Conns
    BY <2>2 DEF TypeOK
  <2>4. CASE cast' = [cast EXCEPT ![t] = NoCast] /\ made' = made
    <3>1. \A u \in Tasks : cast'[u] = cast[u] \/ cast'[u] = NoCast
      BY <1>0, <2>4
    <3> QED BY <1>b, <2>4, <3>1
  <2>5. CASE /\ Start(t, Then(t), Remaining(t), o)
             /\ made'[l] = IF l = ListOf(Then(t)) THEN made[l] + 1 ELSE made[l]
    BY <1>a, <2>1, <2>2, <2>3, <2>5
  <2> QED BY <2>2, <2>4, <2>5
<1>4. ASSUME NEW t \in Tasks, BroadcastRaises(t) PROVE OneBehind(l)'
  <2>1. made' = made /\ cast'[t] = NoCast /\ \A u \in Tasks : u # t => cast'[u] = cast[u]
    BY <1>4, RaiseEffect
  <2> QED BY <1>b, <2>1
<1>5. ASSUME NEW t \in Tasks, NEW c \in Conns, Send(t, c) PROVE OneBehind(l)'
  <2>1. /\ made' = made /\ cast'[t].step = cast[t].step /\ cast'[t].id = cast[t].id
        /\ \A u \in Tasks : u # t => cast'[u] = cast[u]
    BY <1>5, SendEffect
  <2> QED BY <1>b, <2>1
<1>6. ASSUME NEW c \in Conns, Connect(c) \/ BackfillRest(c) \/ SocketBreaks(c) \/ Disconnect(c)
      PROVE  OneBehind(l)'
  <2>1. UNCHANGED <<cast, made>>
    BY <1>6 DEF Connect, BackfillRest, SocketBreaks, Disconnect
  <2> QED BY <1>b, <2>1
<1>7. CASE Crash
  <2>1. made' = made /\ \A t \in Tasks : cast'[t] = NoCast
    BY <1>7 DEF Crash
  <2> QED BY <1>b, <2>1
<1>8. CASE Restart \/ Midnight \/ UNCHANGED vars
  <2>1. UNCHANGED <<cast, made>>
    BY <1>8 DEF Restart, Midnight, vars
  <2> QED BY <1>b, <2>1
<1> QED BY <1>1, <1>2, <1>3, <1>4, <1>5, <1>6, <1>7, <1>8 DEF Next

-----------------------------------------------------------------------------
(* The newest line of a tab is the last of its list or, when a late one    *)
(* has come after it, the last but one; then no other late one follows.    *)
(* So trimming, which drops the first, leaves something newer.             *)
Below(s, x) == \A i \in 1 .. Len(s) : s[i] <= x

Room(s, x) ==
    \/ Len(s) = 0
    \/ Below(s, s[Len(s)])
    \/ Len(s) >= 2 /\ Below(s, s[Len(s) - 1]) /\ x >= s[Len(s) - 1]

Covered(s, id, n) ==
    \/ \E i \in 1 .. Len(s) : s[i] = id
    \/ Len(s) = n /\ \E j \in 1 .. Len(s) : s[j] > id

(* A number is added: it is listed, and what was covered stays so.         *)
LEMMA AppendCovers ==
    ASSUME NEW s \in Seq(Nat), NEW x \in Nat, NEW n \in Nat, n >= 2, Room(s, x)
    PROVE  LET r == Trim(Append(s, x), n)
           IN  /\ Covered(r, x, n)
               /\ \A id \in Nat : Covered(s, id, n) => Covered(r, id, n)
<1> DEFINE r == Trim(Append(s, x), n)
           d == Len(s) + 1 - Len(r)
<1>1. /\ r \in Seq(Nat) /\ Len(s) \in Nat /\ Len(r) \in Nat /\ Len(r) >= 1
      /\ Len(r) = IF Len(s) + 1 > n THEN n ELSE Len(s) + 1
      /\ r[Len(r)] = x
      /\ \A i \in 1 .. Len(r) - 1 : d + i \in 1 .. Len(s) /\ r[i] = s[d + i]
  <2>1. n \in Nat \ {0}
    OBVIOUS
  <2> QED BY <2>1, AppendTrims
<1> HIDE DEF r
<1>2. d \in Nat /\ Len(r) = Len(s) + 1 - d
  BY <1>1
<1> HIDE DEF d
<1>3. Len(r) \in 1 .. Len(r) /\ \A i \in 1 .. Len(r) - 1 : i \in 1 .. Len(r)
  BY <1>1
<1>4. /\ \A i \in 1 .. Len(s) : s[i] \in Nat
      /\ \A i \in 1 .. Len(r) : r[i] \in Nat
  BY <1>1, ElementOfSeq
<1>5. Covered(r, x, n)
  BY <1>1, <1>3 DEF Covered
<1>6. ASSUME NEW j \in 1 .. Len(s) PROVE \E k \in 1 .. Len(r) : r[k] >= s[j]
  <2>0. Len(s) >= 1
    <3>1. Len(s) \in Nat
      BY <1>1
    <3> QED BY <1>6, <3>1
  <2>1. CASE Below(s, s[Len(s)])
    <3>1. Len(r) - 1 \in 1 .. Len(r) - 1 /\ d + (Len(r) - 1) = Len(s)
      <4>1. Len(s) \in Nat /\ Len(s) >= 1 /\ Len(r) = IF Len(s) + 1 > n THEN n ELSE Len(s) + 1
        BY <1>1, <2>0
      <4>2. Len(r) \in Nat /\ Len(r) >= 2
        BY <4>1
      <4> QED BY <1>2, <4>1, <4>2
    <3>2. r[Len(r) - 1] = s[Len(s)]
      BY <1>1, <3>1
    <3>3. s[Len(s)] >= s[j]
      <4>1. s[j] <= s[Len(s)] /\ Len(s) \in 1 .. Len(s)
        BY <1>1, <1>6, <2>0, <2>1 DEF Below
      <4> QED BY <1>4, <4>1
    <3> QED BY <1>3, <3>1, <3>2, <3>3
  <2>2. CASE Len(s) >= 2 /\ Below(s, s[Len(s) - 1]) /\ x >= s[Len(s) - 1]
    <3>1. s[j] <= s[Len(s) - 1] /\ s[Len(s) - 1] \in Nat /\ s[j] \in Nat
      <4>1. Len(s) - 1 \in 1 .. Len(s)
        BY <1>1, <2>2
      <4> QED BY <1>4, <1>6, <2>2, <4>1 DEF Below
    <3>2. x >= s[j]
      BY <2>2, <3>1
    <3> QED BY <1>1, <1>3, <3>2
  <2>3. Len(s) # 0
    BY <2>0
  <2> QED BY <2>1, <2>2, <2>3 DEF Room
<1>7. ASSUME NEW id \in Nat, Covered(s, id, n) PROVE Covered(r, id, n)
  <2>1. ASSUME NEW j \in 1 .. Len(s), s[j] >= id, Len(r) = n PROVE Covered(r, id, n)
    <3>1. PICK k \in 1 .. Len(r) : r[k] >= s[j]
      BY <1>6
    <3>2. r[k] \in Nat /\ s[j] \in Nat
      BY <1>4
    <3>3. r[k] = id \/ r[k] > id
      BY <2>1, <3>1, <3>2
    <3> QED BY <2>1, <3>3 DEF Covered
  <2>2. CASE Len(s) = n /\ \E j \in 1 .. Len(s) : s[j] > id
    <3>1. PICK j \in 1 .. Len(s) : s[j] > id
      BY <2>2
    <3>2. s[j] \in Nat
      BY <1>4
    <3>3. Len(r) = n
      BY <1>1, <2>2
    <3>4. s[j] >= id
      BY <3>1, <3>2
    <3> QED BY <2>1, <3>3, <3>4
  <2>3. ASSUME NEW j \in 1 .. Len(s), s[j] = id PROVE Covered(r, id, n)
    <3>1. CASE j <= d
      <4>1. d >= 1
        BY <1>2, <3>1
      <4>2. Len(r) # Len(s) + 1
        BY <1>1, <1>2, <4>1
      <4>3. Len(r) = n
        BY <1>1, <4>2
      <4>4. s[j] >= id
        BY <2>3
      <4> QED BY <2>1, <4>3, <4>4
    <3>2. CASE ~(j <= d)
      <4>1. Len(s) \in Nat /\ Len(r) \in Nat
        BY <1>1
      <4>2. j - d \in 1 .. Len(r) - 1 /\ d + (j - d) = j
        BY <1>2, <3>2, <4>1
      <4>3. r[j - d] = s[d + (j - d)]
        BY <1>1, <4>2
      <4>4. r[j - d] = id /\ j - d \in 1 .. Len(r)
        BY <1>3, <2>3, <4>2, <4>3
      <4> QED BY <4>4 DEF Covered
    <3> QED BY <3>1, <3>2
  <2> QED BY <1>7, <2>2, <2>3 DEF Covered
<1> QED BY <1>5, <1>7 DEF r

(* A tab takes over the end of the bridge's list: all of it is covered.    *)
LEMMA BackfillCovers ==
    ASSUME NEW s \in Seq(Nat), NEW m, NEW n \in Nat, n >= 2, Rising(s, m)
    PROVE  LET r == Trim(s, n)
           IN  /\ \A i \in 1 .. Len(s) : Covered(r, s[i], n)
               /\ Len(r) = 0 \/ Below(r, r[Len(r)])
<1> DEFINE r == Trim(s, n)
           d == Len(s) - Len(r)
<1>1. /\ Len(s) \in Nat /\ Len(r) \in Nat /\ Len(r) = IF Len(s) > n THEN n ELSE Len(s)
      /\ \A i \in 1 .. Len(r) : d + i \in 1 .. Len(s) /\ r[i] = s[d + i]
  <2>1. n \in Nat \ {0}
    OBVIOUS
  <2> QED BY <2>1, TrimIsTail
<1> HIDE DEF r
<1>2. d \in Nat /\ Len(r) = Len(s) - d
  BY <1>1
<1> HIDE DEF d
<1>3. /\ \A i \in 1 .. Len(s) : s[i] \in Nat
      /\ \A i, j \in 1 .. Len(s) : i < j => s[i] < s[j]
  BY ElementOfSeq DEF Rising
<1>4. ASSUME NEW i \in 1 .. Len(s) PROVE Covered(r, s[i], n)
  <2>1. CASE i <= d
    <3>1. Len(s) \in Nat /\ d >= 1 /\ Len(r) # Len(s)
      BY <1>1, <1>2, <2>1
    <3>2. Len(r) = n
      BY <1>1, <3>1
    <3>3. Len(r) \in 1 .. Len(r) /\ d + Len(r) = Len(s) /\ i < Len(s) /\ Len(s) \in 1 .. Len(s)
      BY <1>2, <2>1, <3>1, <3>2
    <3>4. r[Len(r)] = s[Len(s)] /\ s[i] < s[Len(s)]
      BY <1>1, <1>3, <3>3
    <3>5. r[Len(r)] > s[i]
      BY <1>3, <3>3, <3>4
    <3> QED BY <3>2, <3>3, <3>5 DEF Covered
  <2>2. CASE ~(i <= d)
    <3>1. Len(s) \in Nat
      BY <1>1
    <3>2. i - d \in 1 .. Len(r) /\ d + (i - d) = i
      BY <1>2, <2>2, <3>1
    <3>3. r[i - d] = s[d + (i - d)]
      BY <1>1, <3>2
    <3>4. r[i - d] = s[i]
      BY <3>2, <3>3
    <3> QED BY <3>2, <3>4 DEF Covered
  <2> QED BY <2>1, <2>2
<1>5. ASSUME Len(r) # 0, NEW i \in 1 .. Len(r) PROVE r[i] <= r[Len(r)]
  <2>1. Len(r) \in 1 .. Len(r) /\ (i < Len(r) \/ i = Len(r))
    BY <1>1, <1>5
  <2>2. /\ r[i] = s[d + i] /\ d + i \in 1 .. Len(s)
        /\ r[Len(r)] = s[d + Len(r)] /\ d + Len(r) \in 1 .. Len(s)
    BY <1>1, <2>1
  <2>3. s[d + i] \in Nat /\ s[d + Len(r)] \in Nat
    BY <1>3, <2>2
  <2>4. CASE i < Len(r)
    <3>1. d + i < d + Len(r)
      BY <1>1, <1>2, <2>4
    <3>2. s[d + i] < s[d + Len(r)]
      BY <1>3, <2>2, <3>1
    <3> QED BY <2>2, <2>3, <3>2
  <2>5. CASE i = Len(r)
    BY <2>2, <2>3, <2>5
  <2> QED BY <2>1, <2>4, <2>5
<1>6. Len(r) = 0 \/ Below(r, r[Len(r)])
  BY <1>5 DEF Below
<1> QED BY <1>4, <1>6 DEF r

(* A number is added to a list that has room for it: it is the newest, or  *)
(* the newest but one comes just before it.                                *)
LEMMA AppendTop ==
    ASSUME NEW s \in Seq(Nat), NEW x \in Nat, NEW n \in Nat, n >= 2, Room(s, x),
           NEW m \in Nat, Below(s, m), x <= m
    PROVE  LET r == Trim(Append(s, x), n)
           IN  \/ Below(r, r[Len(r)])
               \/ x # m /\ Len(r) >= 2 /\ Below(r, r[Len(r) - 1]) /\ r[Len(r) - 1] <= m
<1> DEFINE r == Trim(Append(s, x), n)
           d == Len(s) + 1 - Len(r)
<1>1. /\ r \in Seq(Nat) /\ Len(s) \in Nat /\ Len(r) \in Nat /\ Len(r) >= 1
      /\ Len(r) = IF Len(s) + 1 > n THEN n ELSE Len(s) + 1
      /\ r[Len(r)] = x
      /\ \A i \in 1 .. Len(r) - 1 : d + i \in 1 .. Len(s) /\ r[i] = s[d + i]
  <2>1. n \in Nat \ {0}
    OBVIOUS
  <2> QED BY <2>1, AppendTrims
<1> HIDE DEF r
<1>2. d \in Nat /\ Len(r) = Len(s) + 1 - d
  BY <1>1
<1> HIDE DEF d
<1>3. \A i \in 1 .. Len(s) : s[i] \in Nat
  BY ElementOfSeq
<1>4. \A i \in 1 .. Len(r) : i = Len(r) \/ i \in 1 .. Len(r) - 1
  BY <1>1
<1>5. \A i \in 1 .. Len(r) : r[i] = x \/ \E j \in 1 .. Len(s) : r[i] = s[j]
  BY <1>1, <1>4
<1>6. CASE Below(s, x)
  <2>1. Below(r, x)
    BY <1>5, <1>6 DEF Below
  <2> QED BY <1>1, <2>1 DEF r
<1>7. CASE ~Below(s, x)
  <2>0. PICK j \in 1 .. Len(s) : ~(s[j] <= x)
    BY <1>7 DEF Below
  <2>1. Len(s) >= 1 /\ Len(s) \in 1 .. Len(s)
    <3>1. Len(s) \in Nat
      BY <1>1
    <3> QED BY <2>0, <3>1
  <2>2. Below(s, s[Len(s)])
    <3>1. ~(Len(s) >= 2 /\ Below(s, s[Len(s) - 1]) /\ x >= s[Len(s) - 1])
      <4> SUFFICES ASSUME Len(s) >= 2, Below(s, s[Len(s) - 1]), x >= s[Len(s) - 1] PROVE FALSE
        OBVIOUS
      <4>1. Len(s) - 1 \in 1 .. Len(s)
        BY <1>1
      <4>2. s[j] \in Nat /\ s[Len(s) - 1] \in Nat /\ s[j] <= s[Len(s) - 1]
        BY <1>3, <4>1 DEF Below
      <4> QED BY <2>0, <4>2
    <3>2. Len(s) # 0
      BY <2>1
    <3> QED BY <3>1, <3>2 DEF Room
  <2> DEFINE y == s[Len(s)]
  <2>3. y \in Nat /\ x < y /\ y <= m
    <3>1. s[j] \in Nat /\ y \in Nat /\ s[j] <= y /\ y <= m
      BY <1>3, <2>1, <2>2 DEF Below
    <3> QED BY <2>0, <3>1
  <2>4. Len(r) >= 2
    <3>1. Len(s) \in Nat /\ Len(r) = IF Len(s) + 1 > n THEN n ELSE Len(s) + 1
      BY <1>1
    <3> QED BY <2>1, <3>1
  <2>5. Len(r) - 1 \in 1 .. Len(r) - 1 /\ d + (Len(r) - 1) = Len(s)
    <3>1. Len(s) \in Nat /\ Len(r) \in Nat
      BY <1>1
    <3> QED BY <1>2, <2>4, <3>1
  <2>6. r[Len(r) - 1] = y
    BY <1>1, <2>5
  <2>7. \A i \in 1 .. Len(s) : s[i] <= y
    BY <2>2 DEF Below
  <2> HIDE DEF y
  <2>8. x <= y /\ x # m
    BY <2>3
  <2>9. Below(r, y)
    BY <1>5, <2>7, <2>8 DEF Below
  <2> QED BY <2>3, <2>4, <2>6, <2>8, <2>9 DEF r
<1> QED BY <1>6, <1>7

(* What may still be sent to a tab.                                        *)
Owed(t, c, l) == ListOf(cast[t].step) = l /\ c \notin cast[t].seen

TopInv(c, l) ==
    \/ Len(view[c][l]) = 0
    \/ Below(view[c][l], view[c][l][Len(view[c][l])])
    \/ /\ Len(view[c][l]) >= 2
       /\ Below(view[c][l], view[c][l][Len(view[c][l]) - 1])
       /\ \A t \in Tasks : Owed(t, c, l) => cast[t].id >= view[c][l][Len(view[c][l]) - 1]

(* So every tab has room for what may still be sent to it, and for what is *)
(* newer than all.                                                         *)
LEMMA TopIsRoom ==
    ASSUME TypeOK, NEW c \in Conns, NEW l \in Lists, Shown(l), TopInv(c, l), NEW x \in Nat,
           x >= made[l] \/ \E t \in Tasks : Owed(t, c, l) /\ cast[t].id = x
    PROVE  Room(view[c][l], x)
<1> DEFINE s == view[c][l]
<1>0. s \in Seq(Nat) /\ made[l] \in Nat /\ Len(s) \in Nat
  <2>1. view \in Views
    BY DEF TypeOK
  <2>2. s \in Seq(Nat)
    BY <2>1 DEF Views
  <2> QED BY <2>2, MadeTypes, LenProperties
<1>1. \A i \in 1 .. Len(s) : s[i] \in 1 .. made[l]
  BY DEF Shown
<1>2. ASSUME Len(s) >= 2, Below(s, s[Len(s) - 1]),
             \A t \in Tasks : Owed(t, c, l) => cast[t].id >= s[Len(s) - 1]
      PROVE  Room(s, x)
  <2>1. Len(s) - 1 \in 1 .. Len(s)
    BY <1>0, <1>2
  <2>2. s[Len(s) - 1] \in 1 .. made[l]
    BY <1>1, <2>1
  <2>3. CASE x >= made[l]
    <3>1. x >= s[Len(s) - 1]
      BY <1>0, <2>2, <2>3
    <3> QED BY <1>2, <3>1 DEF Room
  <2>4. CASE \E t \in Tasks : Owed(t, c, l) /\ cast[t].id = x
    BY <1>2, <2>4 DEF Room
  <2> QED BY <2>3, <2>4
<1>3. Len(s) = 0 \/ Below(s, s[Len(s)]) => Room(s, x)
  BY DEF Room
<1> QED BY <1>2, <1>3 DEF TopInv

(* The start of a broadcast keeps it so: what is new is the newest.        *)
LEMMA StartTop ==
    ASSUME TypeOK, NEW c \in Conns, NEW l \in Lists, TabLimit(l) >= 2, Shown(l), TopInv(c, l),
           NEW t \in Tasks, NEW step \in Steps, NEW live \in SUBSET Conns, NEW o \in Outcomes,
           Start(t, step, live, o)
    PROVE  \/ Below(view'[c][l], view'[c][l][Len(view'[c][l])])
           \/ /\ view'[c][l] = view[c][l]
              /\ \A u \in Tasks : Owed(u, c, l)' => \/ Owed(u, c, l) /\ cast'[u].id = cast[u].id
                                                    \/ cast'[u].id \in Nat /\ cast'[u].id >= made[l]
<1> DEFINE x == NewId(step)
<1>0. /\ view[c][l] \in Seq(Nat) /\ made[l] \in Nat /\ x \in Nat
      /\ TabLimit(l) \in Nat
  <2>1. view \in Views
    BY DEF TypeOK
  <2>2. view[c][l] \in Seq(Nat)
    BY <2>1 DEF Views
  <2> QED BY <2>2, MadeTypes, LimitTypes
<1>1. /\ \A u \in Tasks : u # t => cast'[u] = cast[u]
      /\ cast'[t].step = step /\ cast'[t].id = x
      /\ \A d \in Conns, m \in Lists :
             \/ view'[d][m] = view[d][m]
             \/ /\ d \in cast'[t].seen /\ m = ListOf(step)
                /\ view'[d][m] = Trim(Append(view[d][m], x), TabLimit(m))
  BY StartCasts
<1>2. l = ListOf(step) => x = made[l] + 1
  BY DEF NewId, Lists
<1> HIDE DEF x
<1>3. CASE view'[c][l] = view[c][l]
  <2>1. ASSUME NEW u \in Tasks, Owed(u, c, l)'
        PROVE  \/ Owed(u, c, l) /\ cast'[u].id = cast[u].id
               \/ cast'[u].id \in Nat /\ cast'[u].id >= made[l]
    <3>1. CASE u # t
      BY <1>1, <2>1, <3>1 DEF Owed
    <3>2. CASE u = t
      <4>1. l = ListOf(step)
        BY <1>1, <2>1, <3>2 DEF Owed
      <4>2. made[l] + 1 >= made[l]
        BY <1>0
      <4> QED BY <1>0, <1>1, <1>2, <3>2, <4>1, <4>2
    <3> QED BY <3>1, <3>2
  <2> QED BY <1>3, <2>1
<1>4. CASE l = ListOf(step) /\ view'[c][l] = Trim(Append(view[c][l], x), TabLimit(l))
  <2>1. x >= made[l] /\ x = made[l] + 1
    BY <1>0, <1>2, <1>4
  <2>2. Room(view[c][l], x)
    BY <1>0, <2>1, TopIsRoom
  <2>3. Below(view[c][l], x)
    <3>1. \A i \in 1 .. Len(view[c][l]) : view[c][l][i] \in 1 .. made[l]
      BY DEF Shown
    <3>2. \A k \in 1 .. made[l] : k <= x
      BY <1>0, <2>1
    <3> QED BY <3>1, <3>2 DEF Below
  <2> DEFINE r == Trim(Append(view[c][l], x), TabLimit(l))
  <2>4. x <= x
    BY <1>0
  <2>5. Below(r, r[Len(r)]) \/ x # x
    BY <1>0, <2>2, <2>3, <2>4, AppendTop
  <2> HIDE DEF r
  <2>6. view'[c][l] = r
    BY <1>4 DEF r
  <2> QED BY <2>5, <2>6
<1> QED BY <1>1, <1>3, <1>4

(* So does every further send: of two on their way one is the newest.      *)
LEMMA SendTop ==
    ASSUME TypeOK, NEW c \in Conns, NEW l \in Lists, TabLimit(l) >= 2, Shown(l), OneBehind(l),
           TopInv(c, l), NEW t \in Tasks, NEW e \in Conns, Send(t, e)
    PROVE  TopInv(c, l)'
<1> DEFINE x == cast[t].id
           s == view[c][l]
           r == Trim(Append(s, x), TabLimit(l))
<1>0. s \in Seq(Nat) /\ made[l] \in Nat /\ TabLimit(l) \in Nat
  <2>1. view \in Views
    BY DEF TypeOK
  <2>2. s \in Seq(Nat)
    BY <2>1 DEF Views
  <2> QED BY <2>2, MadeTypes, LimitTypes
<1>1. /\ x \in Nat /\ e \notin cast[t].seen /\ \A u \in Tasks : u # t => cast'[u] = cast[u]
      /\ cast'[t].step = cast[t].step /\ cast'[t].id = x
      /\ cast'[t].seen = cast[t].seen \cup {e} /\ made' = made
      /\ \A d \in Conns, m \in Lists :
             \/ view'[d][m] = view[d][m]
             \/ /\ d = e /\ m = ListOf(cast[t].step)
                /\ view'[d][m] = Trim(Append(view[e][m], x), TabLimit(m))
  BY SendEffect
<1>2. \A u \in Tasks : Owed(u, c, l)' => Owed(u, c, l) /\ cast'[u].id = cast[u].id /\ (u = t => c # e)
  BY <1>1 DEF Owed
<1>3. CASE view'[c][l] = s
  BY <1>2, <1>3 DEF TopInv, Below, Owed
<1>4. CASE c = e /\ l = ListOf(cast[t].step) /\ view'[c][l] = r
  <2>1. Owed(t, c, l) /\ x \in 1 .. made[l]
    BY <1>1, <1>4 DEF Owed, Shown
  <2>2. Room(s, x)
    BY <1>1, <2>1, TopIsRoom
  <2>3. Below(s, made[l])
    <3>1. \A i \in 1 .. Len(s) : s[i] \in 1 .. made[l]
      BY DEF Shown
    <3>2. \A k \in 1 .. made[l] : k <= made[l]
      BY <1>0
    <3> QED BY <3>1, <3>2 DEF Below
  <2>4. x <= made[l]
    BY <1>0, <2>1
  <2> HIDE DEF x, s
  <2>5. \/ Below(r, r[Len(r)])
        \/ x # made[l] /\ Len(r) >= 2 /\ Below(r, r[Len(r) - 1]) /\ r[Len(r) - 1] <= made[l]
    BY <1>0, <1>1, <2>2, <2>3, <2>4, AppendTop
  <2>t. r \in Seq(Nat) /\ Len(r) \in Nat
    <3>1. TabLimit(l) \in Nat \ {0}
      BY LimitTypes
    <3> QED BY <1>0, <1>1, <3>1, AppendTrims
  <2> HIDE DEF r
  <2>6. CASE Below(r, r[Len(r)])
    <3>1. Below(view'[c][l], view'[c][l][Len(view'[c][l])])
      BY <1>4, <2>6
    <3> QED BY <3>1 DEF TopInv, Below
  <2>7. CASE x # made[l] /\ Len(r) >= 2 /\ Below(r, r[Len(r) - 1]) /\ r[Len(r) - 1] <= made[l]
    <3>1. ASSUME NEW u \in Tasks, Owed(u, c, l)' PROVE cast'[u].id >= r[Len(r) - 1]
      <4>1. u # t /\ Owed(u, c, l) /\ cast'[u].id = cast[u].id
        BY <1>2, <1>4, <3>1
      <4>2. cast[u].id = made[l]
        BY <1>4, <2>7, <4>1 DEF OneBehind, Owed, x
      <4>3. r[Len(r) - 1] \in Nat
        <5>1. Len(r) - 1 \in 1 .. Len(r)
          BY <2>7, <2>t
        <5> QED BY <2>t, <5>1, ElementOfSeq
      <4> QED BY <1>0, <2>7, <4>1, <4>2, <4>3
    <3>2. /\ Len(view'[c][l]) >= 2 /\ Below(view'[c][l], view'[c][l][Len(view'[c][l]) - 1])
          /\ \A u \in Tasks : Owed(u, c, l)' => cast'[u].id >= view'[c][l][Len(view'[c][l]) - 1]
      BY <1>4, <2>7, <3>1
    <3> QED BY <3>2 DEF TopInv, Below, Owed
  <2> QED BY <2>5, <2>6, <2>7
<1> QED BY <1>1, <1>3, <1>4

(* Every step keeps it so.                                                 *)
LEMMA TopKept ==
    ASSUME TypeOK, NEW c \in Conns, NEW l \in Lists, TabLimit(l) >= 2, RecordInv(l), Shown(l),
           OneBehind(l), TopInv(c, l), [Next]_vars
    PROVE  TopInv(c, l)'
<1>0. /\ cast \in [Tasks -> Casts] /\ recent[l] \in Seq(Nat) /\ made[l] \in Nat /\ TabLimit(l) \in Nat
      /\ view[c][l] \in Seq(Nat) /\ Len(view[c][l]) \in Nat /\ ListOf(NoCast.step) # l
  <2>1. cast \in [Tasks -> Casts] /\ recent[l] \in Seq(Nat) /\ view \in Views
    BY DEF TypeOK
  <2>2. view[c][l] \in Seq(Nat)
    BY <2>1 DEF Views
  <2>3. ListOf(NoCast.step) # l
    BY ListOfSteps DEF NoCast, Lists
  <2> QED BY <2>1, <2>2, <2>3, MadeTypes, LimitTypes, LenProperties
<1>a. ASSUME Len(view'[c][l]) = 0 \/ Below(view'[c][l], view'[c][l][Len(view'[c][l])]) PROVE TopInv(c, l)'
  BY <1>a DEF TopInv, Below
<1>b. ASSUME view'[c][l] = view[c][l],
             \A u \in Tasks : Owed(u, c, l)' => \/ Owed(u, c, l) /\ cast'[u].id = cast[u].id
                                                \/ cast'[u].id \in Nat /\ cast'[u].id >= made[l]
      PROVE  TopInv(c, l)'
  <2>1. CASE Len(view[c][l]) = 0 \/ Below(view[c][l], view[c][l][Len(view[c][l])])
    BY <1>a, <1>b, <2>1
  <2>2. CASE /\ Len(view[c][l]) >= 2
             /\ Below(view[c][l], view[c][l][Len(view[c][l]) - 1])
             /\ \A t \in Tasks : Owed(t, c, l) => cast[t].id >= view[c][l][Len(view[c][l]) - 1]
    <3>1. view[c][l][Len(view[c][l]) - 1] \in 1 .. made[l]
      <4>1. Len(view[c][l]) - 1 \in 1 .. Len(view[c][l])
        BY <1>0, <2>2
      <4> QED BY <4>1 DEF Shown
    <3> DEFINE y == view[c][l][Len(view[c][l]) - 1]
    <3> HIDE DEF y
    <3>2. ASSUME NEW u \in Tasks, Owed(u, c, l)' PROVE cast'[u].id >= y
      <4>1. CASE Owed(u, c, l) /\ cast'[u].id = cast[u].id
        BY <2>2, <4>1 DEF y
      <4>2. CASE cast'[u].id \in Nat /\ cast'[u].id >= made[l]
        <5>1. y \in 1 .. made[l]
          BY <3>1 DEF y
        <5> QED BY <1>0, <4>2, <5>1
      <4> QED BY <1>b, <3>2, <4>1, <4>2
    <3>3. /\ Len(view'[c][l]) >= 2 /\ Below(view'[c][l], view'[c][l][Len(view'[c][l]) - 1])
          /\ \A u \in Tasks : Owed(u, c, l)' => cast'[u].id >= view'[c][l][Len(view'[c][l]) - 1]
      BY <1>b, <2>2, <3>2 DEF y
    <3> QED BY <3>3 DEF TopInv, Below, Owed
  <2> QED BY <2>1, <2>2 DEF TopInv
<1>s. ASSUME NEW t \in Tasks, NEW step \in Steps, NEW live \in SUBSET Conns, NEW o \in Outcomes,
             Start(t, step, live, o)
      PROVE  TopInv(c, l)'
  <2>1. \/ Below(view'[c][l], view'[c][l][Len(view'[c][l])])
        \/ /\ view'[c][l] = view[c][l]
           /\ \A u \in Tasks : Owed(u, c, l)' => \/ Owed(u, c, l) /\ cast'[u].id = cast[u].id
                                                 \/ cast'[u].id \in Nat /\ cast'[u].id >= made[l]
    BY <1>s, StartTop
  <2> QED BY <2>1, <1>a, <1>b
<1>n. ASSUME view' = view, \A u \in Tasks : cast'[u] = cast[u] \/ cast'[u] = NoCast PROVE TopInv(c, l)'
  <2>1. \A u \in Tasks : Owed(u, c, l)' => Owed(u, c, l) /\ cast'[u].id = cast[u].id
    BY <1>0, <1>n DEF Owed
  <2> QED BY <1>b, <1>n, <2>1
<1>f. ASSUME NEW e \in Conns, NEW m \in Lists, view' = Backfill(e, m), cast' = cast PROVE TopInv(c, l)'
  <2>1. view'[c][l] = view[c][l] \/ view'[c][l] = Trim(recent[l], TabLimit(l))
    BY <1>f, Backfills
  <2>2. CASE view'[c][l] = view[c][l]
    <3>1. \A u \in Tasks : Owed(u, c, l)' => Owed(u, c, l) /\ cast'[u].id = cast[u].id
      BY <1>f DEF Owed
    <3> QED BY <1>b, <2>2, <3>1
  <2>3. CASE view'[c][l] = Trim(recent[l], TabLimit(l))
    <3> DEFINE r == Trim(recent[l], TabLimit(l))
    <3>1. Rising(recent[l], made[l])
      BY DEF RecordInv
    <3>2. Len(r) = 0 \/ Below(r, r[Len(r)])
      BY <1>0, <3>1, BackfillCovers
    <3> HIDE DEF r
    <3>3. view'[c][l] = r
      BY <2>3 DEF r
    <3> QED BY <1>a, <3>2, <3>3
  <2> QED BY <2>1, <2>2, <2>3
<1>1. ASSUME NEW q \in -MaxHeld .. MaxHeld \ {0}, NEW p \in Prices, OnExecutionEvent(q, p) PROVE TopInv(c, l)'
  <2>1. q \in Int
    BY BridgeAssumption
  <2>2. /\ Start("bus", "order", clients, "ok") /\ "order" \in Steps /\ "ok" \in Outcomes
        /\ "bus" \in Tasks /\ clients \in SUBSET Conns
    BY <1>1, <2>1, ExecutionEffect
  <2> QED BY <1>s, <2>2
<1>2. ASSUME NEW o \in DiskFaults \cup {"ok"}, NEW step \in {"note", "status"}, Other(step, o) PROVE TopInv(c, l)'
  <2>1. o \in Outcomes
    BY BridgeAssumption DEF Outcomes
  <2>2. Start("other", step, clients, o) /\ step \in Steps /\ "other" \in Tasks /\ clients \in SUBSET Conns
    BY <1>2, <2>1, OtherEffect
  <2> QED BY <1>s, <2>1, <2>2
<1>3. ASSUME NEW o \in DiskFaults \cup {"ok"}, NEW t \in Tasks, Return(t, o) PROVE TopInv(c, l)'
  <2>1. o \in Outcomes
    BY BridgeAssumption DEF Outcomes
  <2>2. /\ Then(t) \in Steps /\ Remaining(t) \in SUBSET clients
        /\ \/ cast' = [cast EXCEPT ![t] = NoCast] /\ view' = view
           \/ Start(t, Then(t), Remaining(t), o)
    BY <1>3, <2>1, ReturnEffect
  <2>3. Remaining(t) \in SUBSET Conns
    BY <2>2 DEF TypeOK
  <2>4. CASE cast' = [cast EXCEPT ![t] = NoCast] /\ view' = view
    <3>1. \A u \in Tasks : cast'[u] = cast[u] \/ cast'[u] = NoCast
      BY <1>0, <2>4
    <3> QED BY <1>n, <2>4, <3>1
  <2>5. CASE Start(t, Then(t), Remaining(t), o)
    BY <1>s, <2>1, <2>2, <2>3, <2>5
  <2> QED BY <2>2, <2>4, <2>5
<1>4. ASSUME NEW t \in Tasks, BroadcastRaises(t) PROVE TopInv(c, l)'
  <2>1. view' = view /\ cast'[t] = NoCast /\ \A u \in Tasks : u # t => cast'[u] = cast[u]
    BY <1>4, RaiseEffect
  <2> QED BY <1>n, <2>1
<1>5. ASSUME NEW t \in Tasks, NEW e \in Conns, Send(t, e) PROVE TopInv(c, l)'
  BY <1>5, SendTop
<1>6. ASSUME NEW e \in Conns, Connect(e) \/ BackfillRest(e) PROVE TopInv(c, l)'
  <2>1. cast' = cast /\ \E m \in Lists : view' = Backfill(e, m)
    BY <1>6 DEF Connect, BackfillRest, BackfillOrder, Lists
  <2> QED BY <1>f, <2>1
<1>7. ASSUME NEW e \in Conns, SocketBreaks(e) \/ Disconnect(e) PROVE TopInv(c, l)'
  BY <1>7, <1>n DEF SocketBreaks, Disconnect
<1>8. CASE Crash
  <2>1. view' = view /\ \A u \in Tasks : cast'[u] = NoCast
    BY <1>8 DEF Crash
  <2> QED BY <1>n, <2>1
<1>9. CASE Restart \/ Midnight \/ UNCHANGED vars
  BY <1>9, <1>n DEF Restart, Midnight, vars
<1> QED BY <1>1, <1>2, <1>3, <1>4, <1>5, <1>6, <1>7, <1>8, <1>9 DEF Next

(* What a tab is to list of the bridge's lists: everything, from the time  *)
(* its backfill has been sent.  What it lacks makes room for something     *)
(* newer, was cut off, or is on its way.                                   *)
ServedFor(c, l) == alive[c] /\ (stage[c] = "open" \/ (stage[c] = "backfill" /\ l = "trades"))

Carries(t, c, l, id) ==
    ListOf(cast[t].step) = l /\ cast[t].id = id /\ c \in cast[t].start \ cast[t].seen

Settled(c, l, id) ==
    \/ Covered(view[c][l], id, TabLimit(l))
    \/ <<l, id>> \in cut
    \/ \E t \in Tasks : Carries(t, c, l, id)

ReachInv(c, l) ==
    ServedFor(c, l) => \A i \in 1 .. Len(recent[l]) : Settled(c, l, recent[l][i])

(* The start of a broadcast reaches its first connection and will reach    *)
(* the others.                                                             *)
LEMMA StartSettles ==
    ASSUME TypeOK, NEW c \in Conns, NEW l \in Lists, TabLimit(l) >= 2, Shown(l), TopInv(c, l),
           NEW t \in Tasks, NEW step \in Steps, NEW live \in SUBSET Conns, NEW o \in Outcomes,
           Start(t, step, live, o), cut \subseteq cut',
           \A id : Carries(t, c, l, id) => <<l, id>> \in cut'
    PROVE  /\ \A id \in Nat : Settled(c, l, id) => Settled(c, l, id)'
           /\ \A id \in Nat : alive[c] /\ c \in live /\ l = ListOf(step) /\ id = NewId(step)
                                  => Settled(c, l, id)'
<1> DEFINE x == NewId(step)
<1>0. view[c][l] \in Seq(Nat) /\ made[l] \in Nat /\ x \in Nat /\ TabLimit(l) \in Nat
  <2>1. view \in Views
    BY DEF TypeOK
  <2>2. view[c][l] \in Seq(Nat)
    BY <2>1 DEF Views
  <2> QED BY <2>2, MadeTypes, LimitTypes
<1>1. /\ \A u \in Tasks : u # t => cast'[u] = cast[u]
      /\ cast'[t].step = step /\ cast'[t].id = x /\ cast'[t].start = live
      /\ \A d \in Conns, m \in Lists :
             \/ view'[d][m] = view[d][m]
             \/ /\ d \in cast'[t].seen /\ m = ListOf(step)
                /\ view'[d][m] = Trim(Append(view[d][m], x), TabLimit(m))
  BY StartCasts
<1>2. l = ListOf(step) => x = made[l] + 1
  BY DEF NewId, Lists
<1>3. c \in cast'[t].seen /\ alive[c] /\ l = ListOf(step) =>
          view'[c][l] = Trim(Append(view[c][l], x), TabLimit(l))
  <2>1. \A d \in cast'[t].seen : alive[d] /\ ListOf(step) # "none" =>
            view'[d][ListOf(step)] = Trim(Append(view[d][ListOf(step)], x), TabLimit(ListOf(step)))
    BY StartReaches
  <2> QED BY <2>1 DEF Lists
<1> DEFINE r == Trim(Append(view[c][l], x), TabLimit(l))
<1> HIDE DEF x
<1>4. ASSUME l = ListOf(step)
      PROVE  Covered(r, x, TabLimit(l)) /\ \A id \in Nat : Covered(view[c][l], id, TabLimit(l)) => Covered(r, id, TabLimit(l))
  <2>1. x >= made[l]
    BY <1>0, <1>2, <1>4
  <2>2. Room(view[c][l], x)
    BY <1>0, <2>1, TopIsRoom
  <2> QED BY <1>0, <2>2, AppendCovers
<1> HIDE DEF r
<1>5. ASSUME NEW id \in Nat, Settled(c, l, id) PROVE Settled(c, l, id)'
  <2>1. CASE Covered(view[c][l], id, TabLimit(l))
    <3>1. view'[c][l] = view[c][l] \/ (l = ListOf(step) /\ view'[c][l] = r)
      BY <1>1 DEF r
    <3>2. Covered(view'[c][l], id, TabLimit(l))
      BY <1>4, <2>1, <3>1
    <3> QED BY <3>2 DEF Settled, Covered
  <2>2. CASE <<l, id>> \in cut
    BY <2>2 DEF Settled
  <2>3. ASSUME NEW u \in Tasks, Carries(u, c, l, id) PROVE Settled(c, l, id)'
    <3>1. CASE u = t
      BY <2>3, <3>1 DEF Settled
    <3>2. CASE u # t
      <4>1. Carries(u, c, l, id)'
        BY <1>1, <2>3, <3>2 DEF Carries
      <4> QED BY <4>1 DEF Settled
    <3> QED BY <3>1, <3>2
  <2> QED BY <1>5, <2>1, <2>2, <2>3 DEF Settled
<1>6. ASSUME NEW id \in Nat, alive[c], c \in live, l = ListOf(step), id = x PROVE Settled(c, l, id)'
  <2>1. Covered(view'[c][l], id, TabLimit(l)) \/ \E u \in Tasks :
            ListOf(cast'[u].step) = l /\ cast'[u].id = id /\ c \in cast'[u].start \ cast'[u].seen
    <3>1. CASE c \in cast'[t].seen
      <4>1. view'[c][l] = r
        BY <1>3, <1>6, <3>1 DEF r
      <4> QED BY <1>4, <1>6, <4>1
    <3>2. CASE c \notin cast'[t].seen
      BY <1>1, <1>6, <3>2
    <3> QED BY <3>1, <3>2
  <2> QED BY <2>1 DEF Settled, Carries, Covered
<1> QED BY <1>5, <1>6 DEF x

(* So nothing of the bridge's lists is missed when a broadcast starts.     *)
LEMMA StartReach ==
    ASSUME TypeOK, NEW c \in Conns, NEW l \in Lists, TabLimit(l) >= 2, Shown(l), TopInv(c, l),
           ReachInv(c, l), ClientInv,
           NEW t \in Tasks, NEW step \in Steps, NEW live \in SUBSET Conns, NEW o \in Outcomes,
           Start(t, step, live, o), cut \subseteq cut', UNCHANGED <<stage, alive>>,
           \A id : Carries(t, c, l, id) => <<l, id>> \in cut',
           \A d \in clients : alive[d] => d \in live
    PROVE  ReachInv(c, l)'
<1> SUFFICES ASSUME ServedFor(c, l), NEW i \in 1 .. Len(recent'[l]), NEW id, id = recent'[l][i]
             PROVE  Settled(c, l, id)'
  <2>1. ServedFor(c, l)' => ServedFor(c, l)
    BY DEF ServedFor
  <2> QED BY <2>1 DEF ReachInv, Settled, Carries, Covered
<1>0. recent[l] \in Seq(Nat) /\ NewId(step) \in Nat /\ Limit(l) \in Nat \ {0}
  <2>1. recent[l] \in Seq(Nat)
    BY DEF TypeOK
  <2> QED BY <2>1, MadeTypes, LimitTypes
<1>1. alive[c] /\ c \in live
  BY DEF ServedFor, ClientInv, Registered
<1>2. /\ \A k \in Nat : Settled(c, l, k) => Settled(c, l, k)'
      /\ \A k \in Nat : alive[c] /\ c \in live /\ l = ListOf(step) /\ k = NewId(step) => Settled(c, l, k)'
  BY StartSettles
<1>3. \A j \in 1 .. Len(recent[l]) : recent[l][j] \in Nat /\ Settled(c, l, recent[l][j])
  BY <1>0, ElementOfSeq DEF ReachInv
<1>4. \/ \E j \in 1 .. Len(recent[l]) : id = recent[l][j]
      \/ l = ListOf(step) /\ id = NewId(step)
  <2>1. CASE l # ListOf(step)
    <3>1. recent'[l] = recent[l]
      BY <2>1, StartRecords
    <3> QED BY <3>1
  <2>2. CASE l = ListOf(step)
    <3> DEFINE r == Trim(Append(recent[l], NewId(step)), Limit(l))
    <3>1. recent'[l] = r
      BY <2>2, StartRecords DEF Lists
    <3>2. \A k \in 1 .. Len(r) : r[k] = NewId(step) \/ \E j \in 1 .. Len(recent[l]) : r[k] = recent[l][j]
      BY <1>0, AppendShows
    <3> HIDE DEF r
    <3> QED BY <2>2, <3>1, <3>2
  <2> QED BY <2>1, <2>2
<1>5. CASE \E j \in 1 .. Len(recent[l]) : id = recent[l][j]
  <2>1. id \in Nat /\ Settled(c, l, id)
    BY <1>3, <1>5
  <2> QED BY <1>2, <2>1
<1>6. CASE l = ListOf(step) /\ id = NewId(step)
  BY <1>0, <1>1, <1>2, <1>6
<1> QED BY <1>4, <1>5, <1>6

(* A further send reaches its connection.                                  *)
LEMMA SendReach ==
    ASSUME TypeOK, NEW c \in Conns, NEW l \in Lists, TabLimit(l) >= 2, Shown(l), TopInv(c, l),
           ReachInv(c, l), NEW t \in Tasks, NEW e \in Conns, Send(t, e)
    PROVE  ReachInv(c, l)'
<1> DEFINE x == cast[t].id
           r == Trim(Append(view[c][l], x), TabLimit(l))
<1>0. view[c][l] \in Seq(Nat) /\ recent[l] \in Seq(Nat) /\ TabLimit(l) \in Nat
  <2>1. view \in Views /\ recent[l] \in Seq(Nat)
    BY DEF TypeOK
  <2>2. view[c][l] \in Seq(Nat)
    BY <2>1 DEF Views
  <2> QED BY <2>1, <2>2, LimitTypes
<1>1. /\ x \in Nat /\ e \notin cast[t].seen /\ \A u \in Tasks : u # t => cast'[u] = cast[u]
      /\ cast'[t].step = cast[t].step /\ cast'[t].id = x /\ cast'[t].start = cast[t].start
      /\ cast'[t].seen = cast[t].seen \cup {e} /\ cut \subseteq cut'
      /\ UNCHANGED <<alive, stage, recent>>
      /\ \A d \in Conns, m \in Lists :
             \/ view'[d][m] = view[d][m]
             \/ /\ d = e /\ m = ListOf(cast[t].step)
                /\ view'[d][m] = Trim(Append(view[e][m], x), TabLimit(m))
  BY SendEffect
<1>2. alive[e] /\ ListOf(cast[t].step) = l => view'[e][l] = Trim(Append(view[e][l], x), TabLimit(l))
  <2>1. alive[e] /\ ListOf(cast[t].step) # "none" =>
            view'[e][ListOf(cast[t].step)] =
                Trim(Append(view[e][ListOf(cast[t].step)], x), TabLimit(ListOf(cast[t].step)))
    BY SendReaches
  <2> QED BY <2>1 DEF Lists
<1> SUFFICES ASSUME ServedFor(c, l), NEW i \in 1 .. Len(recent[l]), NEW id, id = recent[l][i]
             PROVE  Settled(c, l, id)'
  <2>1. ServedFor(c, l)' => ServedFor(c, l)
    BY <1>1 DEF ServedFor
  <2>2. recent' = recent
    BY <1>1
  <2> QED BY <2>1, <2>2 DEF ReachInv, Settled, Carries, Covered
<1>3. id \in Nat /\ Settled(c, l, id)
  BY <1>0, ElementOfSeq DEF ReachInv
<1>4. ASSUME c = e, l = ListOf(cast[t].step)
      PROVE  Covered(r, x, TabLimit(l)) /\ \A k \in Nat : Covered(view[c][l], k, TabLimit(l)) => Covered(r, k, TabLimit(l))
  <2>1. Owed(t, c, l)
    BY <1>1, <1>4 DEF Owed
  <2>2. Room(view[c][l], x)
    BY <1>1, <2>1, TopIsRoom
  <2>3. x \in Nat
    BY <1>1
  <2> HIDE DEF x
  <2> QED BY <1>0, <2>2, <2>3, AppendCovers
<1> HIDE DEF r
<1>5. CASE Covered(view[c][l], id, TabLimit(l))
  <2>1. view'[c][l] = view[c][l] \/ (c = e /\ l = ListOf(cast[t].step) /\ view'[c][l] = r)
    BY <1>1 DEF r
  <2>2. Covered(view'[c][l], id, TabLimit(l))
    BY <1>3, <1>4, <1>5, <2>1
  <2> QED BY <2>2 DEF Settled, Covered
<1>6. CASE <<l, id>> \in cut
  BY <1>1, <1>6 DEF Settled
<1>7. ASSUME NEW u \in Tasks, Carries(u, c, l, id) PROVE Settled(c, l, id)'
  <2>1. CASE u = t /\ c = e
    <3>1. alive[c] /\ l = ListOf(cast[t].step) /\ id = x
      BY <1>7, <2>1 DEF ServedFor, Carries
    <3>2. view'[c][l] = r
      BY <1>2, <2>1, <3>1 DEF r
    <3>3. Covered(view'[c][l], id, TabLimit(l))
      BY <1>4, <2>1, <3>1, <3>2
    <3> QED BY <3>3 DEF Settled, Covered
  <2>2. CASE u # t \/ c # e
    <3>1. Carries(u, c, l, id)'
      BY <1>1, <1>7, <2>2 DEF Carries
    <3> QED BY <3>1 DEF Settled
  <2> QED BY <2>1, <2>2
<1> QED BY <1>3, <1>5, <1>6, <1>7 DEF Settled

(* A backfill covers all of the bridge's list.                             *)
LEMMA BackfillReach ==
    ASSUME TypeOK, NEW c \in Conns, NEW l \in Lists, TabLimit(l) >= 2, RecordInv(l),
           alive[c], view' = Backfill(c, l), recent' = recent
    PROVE  ReachInv(c, l)'
<1> DEFINE new == Trim(recent[l], TabLimit(l))
<1>0. view \in Views /\ recent[l] \in Seq(Nat) /\ TabLimit(l) \in Nat
  BY LimitTypes DEF TypeOK
<1>1. CASE recent[l] = <<>>
  <2>1. 1 .. Len(recent'[l]) = {}
    BY <1>1
  <2> QED BY <2>1 DEF ReachInv
<1>2. CASE recent[l] # <<>>
  <2>1. view' = [view EXCEPT ![c][l] = new]
    BY <1>2 DEF Backfill
  <2>2. Rising(recent[l], made[l])
    BY DEF RecordInv
  <2>3. \A i \in 1 .. Len(recent[l]) : Covered(new, recent[l][i], TabLimit(l))
    BY <1>0, <2>2, BackfillCovers
  <2> HIDE DEF new
  <2>4. view'[c][l] = new
    BY <1>0, <2>1 DEF Views
  <2>5. \A i \in 1 .. Len(recent'[l]) : Covered(view'[c][l], recent'[l][i], TabLimit(l))
    BY <2>3, <2>4
  <2> QED BY <2>5 DEF ReachInv, Settled, Covered
<1> QED BY <1>1, <1>2

(* The end of a broadcast leaves nobody out, or records the line as cut.   *)
LEMMA EndsCut ==
    ASSUME TypeOK, NEW t \in Tasks, NEW c \in Conns, NEW l \in Lists, NEW id, Carries(t, c, l, id),
           BroadcastRaises(t) \/ \E o \in Outcomes : Return(t, o)
    PROVE  <<l, id>> \in cut'
<1>1. ListOf(cast[t].step) = l /\ cast[t].id = id /\ cast[t].seen # cast[t].start
  BY DEF Carries
<1>2. cut' = CutBy(cast[t])
  BY <1>1 DEF BroadcastRaises, Return
<1> QED BY <1>1, <1>2 DEF CutBy, Lists

(* Every step keeps to it.                                                 *)
LEMMA ReachKept ==
    ASSUME TypeOK, NEW c \in Conns, NEW l \in Lists, TabLimit(l) >= 2, RecordInv(l), Shown(l),
           ClientInv, TopInv(c, l), ReachInv(c, l), [Next]_vars
    PROVE  ReachInv(c, l)'
<1>0. /\ cast \in [Tasks -> Casts] /\ stage \in [Conns -> {"away", "backfill", "open", "gone"}]
      /\ alive \in [Conns -> BOOLEAN] /\ ListOf("idle") # l
  BY ListOfSteps DEF TypeOK, Lists
<1>a. ASSUME view'[c][l] = view[c][l], recent' = recent, ServedFor(c, l)' => ServedFor(c, l),
             cut \subseteq cut',
             \A t \in Tasks : \/ cast'[t] = cast[t]
                              \/ \A id : Carries(t, c, l, id) => <<l, id>> \in cut'
      PROVE  ReachInv(c, l)'
  <2> SUFFICES ASSUME ServedFor(c, l), NEW i \in 1 .. Len(recent[l]), NEW id, id = recent[l][i]
               PROVE  Settled(c, l, id)'
    BY <1>a DEF ReachInv, Settled, Carries, Covered
  <2>1. Settled(c, l, id)
    BY DEF ReachInv
  <2>2. CASE Covered(view[c][l], id, TabLimit(l)) \/ <<l, id>> \in cut
    BY <1>a, <2>2 DEF Settled, Covered
  <2>3. ASSUME NEW t \in Tasks, Carries(t, c, l, id) PROVE Settled(c, l, id)'
    <3>1. CASE cast'[t] = cast[t]
      <4>1. Carries(t, c, l, id)'
        BY <2>3, <3>1 DEF Carries
      <4> QED BY <4>1 DEF Settled
    <3>2. CASE <<l, id>> \in cut'
      BY <3>2 DEF Settled
    <3> QED BY <1>a, <2>3, <3>1, <3>2
  <2> QED BY <2>1, <2>2, <2>3 DEF Settled
<1>b. ASSUME ~ServedFor(c, l)' PROVE ReachInv(c, l)'
  BY <1>b DEF ReachInv
<1>1. ASSUME NEW q \in -MaxHeld .. MaxHeld \ {0}, NEW p \in Prices, OnExecutionEvent(q, p) PROVE ReachInv(c, l)'
  <2>1. q \in Int
    BY BridgeAssumption
  <2>2. /\ Start("bus", "order", clients, "ok") /\ "order" \in Steps /\ "ok" \in Outcomes
        /\ "bus" \in Tasks /\ clients \in SUBSET Conns
    BY <1>1, <2>1, ExecutionEffect
  <2>3. UNCHANGED <<stage, alive, cut>> /\ cast["bus"].step = "idle"
    BY <1>1 DEF OnExecutionEvent
  <2>4. \A id : ~Carries("bus", c, l, id)
    BY <1>0, <2>3 DEF Carries
  <2>5. cut \subseteq cut' /\ \A d \in clients : alive[d] => d \in clients
    BY <2>3
  <2> QED BY <2>2, <2>3, <2>4, <2>5, StartReach
<1>2. ASSUME NEW o \in DiskFaults \cup {"ok"}, NEW step \in {"note", "status"}, Other(step, o) PROVE ReachInv(c, l)'
  <2>1. o \in Outcomes
    BY BridgeAssumption DEF Outcomes
  <2>2. Start("other", step, clients, o) /\ step \in Steps /\ "other" \in Tasks /\ clients \in SUBSET Conns
    BY <1>2, <2>1, OtherEffect
  <2>3. UNCHANGED <<stage, alive, cut>> /\ cast["other"].step = "idle"
    BY <1>2 DEF Other
  <2>4. \A id : ~Carries("other", c, l, id)
    BY <1>0, <2>3 DEF Carries
  <2>5. cut \subseteq cut' /\ \A d \in clients : alive[d] => d \in clients
    BY <2>3
  <2> QED BY <2>1, <2>2, <2>3, <2>4, <2>5, StartReach
<1>3. ASSUME NEW o \in DiskFaults \cup {"ok"}, NEW t \in Tasks, Return(t, o) PROVE ReachInv(c, l)'
  <2>1. o \in Outcomes
    BY BridgeAssumption DEF Outcomes
  <2>2. /\ Then(t) \in Steps /\ Remaining(t) \in SUBSET clients /\ UNCHANGED <<stage, alive>>
        /\ cut \subseteq cut'
        /\ \/ cast' = [cast EXCEPT ![t] = NoCast] /\ UNCHANGED <<view, recent>>
           \/ Start(t, Then(t), Remaining(t), o)
    BY <1>3, <2>1, ReturnEffect
  <2>3. Remaining(t) \in SUBSET Conns /\ \A d \in clients : alive[d] => d \in Remaining(t)
    BY <2>2 DEF TypeOK, Remaining, ClientInv, DeadStay
  <2>4. \A id : Carries(t, c, l, id) => <<l, id>> \in cut'
    BY <1>3, <2>1, EndsCut
  <2>5. CASE cast' = [cast EXCEPT ![t] = NoCast] /\ UNCHANGED <<view, recent>>
    <3>1. \A u \in Tasks : u # t => cast'[u] = cast[u]
      BY <1>0, <2>5
    <3>2. ServedFor(c, l)' => ServedFor(c, l)
      BY <2>2 DEF ServedFor
    <3> QED BY <1>a, <2>2, <2>4, <2>5, <3>1, <3>2
  <2>6. CASE Start(t, Then(t), Remaining(t), o)
    BY <2>1, <2>2, <2>3, <2>4, <2>6, StartReach
  <2> QED BY <2>2, <2>5, <2>6
<1>4. ASSUME NEW t \in Tasks, BroadcastRaises(t) PROVE ReachInv(c, l)'
  <2>1. /\ UNCHANGED <<view, recent, stage, alive>> /\ cut \subseteq cut'
        /\ \A u \in Tasks : u # t => cast'[u] = cast[u]
    BY <1>4, RaiseEffect
  <2>2. \A id : Carries(t, c, l, id) => <<l, id>> \in cut'
    BY <1>4, EndsCut
  <2>3. ServedFor(c, l)' => ServedFor(c, l)
    BY <2>1 DEF ServedFor
  <2> QED BY <1>a, <2>1, <2>2, <2>3
<1>5. ASSUME NEW t \in Tasks, NEW e \in Conns, Send(t, e) PROVE ReachInv(c, l)'
  BY <1>5, SendReach
<1>6. ASSUME NEW e \in Conns, NEW m \in Lists,
             (Connect(e) /\ m = "trades") \/ (BackfillRest(e) /\ m = "audit")
      PROVE  ReachInv(c, l)'
  <2>1. view' = Backfill(e, m) /\ UNCHANGED <<recent, alive, cut, cast>>
    BY <1>6 DEF Connect, BackfillRest, BackfillOrder
  <2>2. CASE c = e /\ l = m /\ alive[c]
    BY <2>1, <2>2, BackfillReach
  <2>3. CASE ~alive[c]
    BY <1>b, <2>1, <2>3 DEF ServedFor
  <2>4. CASE c # e \/ l # m
    <3>1. view'[c][l] = view[c][l]
      BY <2>1, <2>4, Backfills
    <3>2. ServedFor(c, l)' => ServedFor(c, l)
      <4>1. CASE c # e
        <5>1. stage'[c] = stage[c]
          BY <1>0, <1>6, <4>1 DEF Connect, BackfillRest
        <5> QED BY <2>1, <5>1 DEF ServedFor
      <4>2. CASE c = e /\ Connect(e) /\ m = "trades"
        <5>1. stage'[c] = "backfill" /\ l # "trades"
          BY <1>0, <2>4, <4>2 DEF Connect
        <5> QED BY <5>1 DEF ServedFor
      <4>3. CASE c = e /\ BackfillRest(e) /\ m = "audit"
        <5>1. stage[c] = "backfill" /\ l = "trades"
          BY <2>4, <4>3 DEF BackfillRest, Lists
        <5> QED BY <2>1, <5>1 DEF ServedFor
      <4> QED BY <1>6, <4>1, <4>2, <4>3
    <3> QED BY <1>a, <2>1, <3>1, <3>2
  <2> QED BY <2>2, <2>3, <2>4
<1>7. ASSUME NEW e \in Conns, SocketBreaks(e) \/ Disconnect(e) PROVE ReachInv(c, l)'
  <2>1. UNCHANGED <<view, recent, cut, cast>>
    BY <1>7 DEF SocketBreaks, Disconnect
  <2>2. ServedFor(c, l)' => ServedFor(c, l)
    <3>1. CASE SocketBreaks(e)
      <4>1. stage' = stage /\ (alive'[c] => alive[c])
        BY <1>0, <3>1 DEF SocketBreaks
      <4> QED BY <4>1 DEF ServedFor
    <3>2. CASE Disconnect(e)
      <4>1. alive' = alive /\ stage' = [stage EXCEPT ![e] = "gone"]
        BY <3>2 DEF Disconnect
      <4>2. stage'[c] = stage[c] \/ stage'[c] = "gone"
        BY <1>0, <4>1
      <4> QED BY <4>1, <4>2 DEF ServedFor
    <3> QED BY <1>7, <3>1, <3>2
  <2> QED BY <1>a, <2>1, <2>2
<1>8. CASE Crash
  <2>1. stage'[c] \in {"away", "gone"}
    BY <1>8 DEF Crash
  <2> QED BY <1>b, <2>1 DEF ServedFor
<1>9. CASE Restart
  <2>1. ~up /\ UNCHANGED stage
    BY <1>9 DEF Restart
  <2>2. stage'[c] \in {"away", "gone"}
    BY <2>1 DEF ClientInv, Down
  <2> QED BY <1>b, <2>2 DEF ServedFor
<1>10. CASE Midnight \/ UNCHANGED vars
  <2>1. UNCHANGED <<view, recent, cut, cast, stage, alive>>
    BY <1>10 DEF Midnight, vars
  <2>2. ServedFor(c, l)' => ServedFor(c, l)
    BY <2>1 DEF ServedFor
  <2> QED BY <1>a, <2>1, <2>2
<1>11. ASSUME NEW e \in Conns, Connect(e) \/ BackfillRest(e) PROVE ReachInv(c, l)'
  <2>1. "trades" \in Lists /\ "audit" \in Lists
    BY DEF Lists
  <2>2. CASE Connect(e)
    <3>1. PICK m \in Lists : Connect(e) /\ m = "trades"
      BY <2>1, <2>2
    <3> QED BY <1>6, <3>1
  <2>3. CASE BackfillRest(e)
    <3>1. PICK m \in Lists : BackfillRest(e) /\ m = "audit"
      BY <2>1, <2>3
    <3> QED BY <1>6, <3>1
  <2> QED BY <1>11, <2>2, <2>3
<1> QED BY <1>1, <1>2, <1>3, <1>4, <1>5, <1>7, <1>8, <1>9, <1>10, <1>11 DEF Next

(* Each list has its lines in order, each tab its newest near the end, and *)
(* each tab that is served what the bridge lists.                          *)
MissInv ==
    /\ ClientInv
    /\ \A l \in Lists : OneBehind(l) /\ \A c \in Conns : TopInv(c, l) /\ ReachInv(c, l)

(* A connected tab shows every line and every trade of the bridge's lists, *)
(* but for what is on its way, was cut off when the set of clients changed *)
(* under the broadcast, or had to make room for something newer; if the    *)
(* tab keeps two of a kind at least (useTradingStore.ts:21-25 keeps 3000   *)
(* and 1500).                                                              *)
THEOREM NothingIsMissed ==
    TabAudit >= 2 /\ TabTrades >= 2 => (Spec => []NothingMissed)
<1> SUFFICES ASSUME TabAudit >= 2, TabTrades >= 2 PROVE Spec => []NothingMissed
  OBVIOUS
<1>0. \A l \in Lists : TabLimit(l) >= 2
  BY DEF TabLimit, Lists
<1>1. Init => MissInv
  <2> SUFFICES ASSUME Init PROVE MissInv
    OBVIOUS
  <2>1. /\ up /\ \A c \in Conns : stage[c] = "away"
        /\ \A t \in Tasks : cast[t] = NoCast
        /\ \A l \in Lists : \A c \in Conns : view[c][l] = <<>>
    BY DEF Init
  <2>2. ClientInv
    BY <2>1 DEF ClientInv, Down, Registered, DeadStay, NoCast
  <2>3. ASSUME NEW l \in Lists PROVE OneBehind(l)
    <3>1. ListOf(NoCast.step) # l
      BY ListOfSteps DEF NoCast, Lists
    <3> QED BY <2>1, <3>1 DEF OneBehind
  <2>4. ASSUME NEW l \in Lists, NEW c \in Conns PROVE TopInv(c, l) /\ ReachInv(c, l)
    <3>1. Len(view[c][l]) = 0
      BY <2>1
    <3> QED BY <2>1, <3>1 DEF TopInv, ReachInv, ServedFor
  <2> QED BY <2>2, <2>3, <2>4 DEF MissInv
<1>2. TypeOK /\ BookInv /\ MissInv /\ [Next]_vars => MissInv'
  <2> SUFFICES ASSUME TypeOK, BookInv, MissInv, [Next]_vars PROVE MissInv'
    OBVIOUS
  <2>1. ClientInv'
    BY ClientsKept DEF MissInv
  <2>2. ASSUME NEW l \in Lists PROVE OneBehind(l)'
    BY OneBehindKept DEF MissInv
  <2>3. ASSUME NEW l \in Lists, NEW c \in Conns PROVE TopInv(c, l)' /\ ReachInv(c, l)'
    <3>1. TabLimit(l) >= 2 /\ RecordInv(l) /\ Shown(l)
      BY <1>0 DEF BookInv
    <3>2. ClientInv /\ OneBehind(l) /\ TopInv(c, l) /\ ReachInv(c, l)
      BY DEF MissInv
    <3> QED BY <3>1, <3>2, TopKept, ReachKept
  <2> QED BY <2>1, <2>2, <2>3 DEF MissInv
<1>3. TypeOK /\ MissInv => NothingMissed
  <2> SUFFICES ASSUME TypeOK, MissInv, NEW c \in Conns, NEW l \in Lists,
                      alive[c], stage[c] = "open", NEW i \in DOMAIN recent[l]
               PROVE  \/ Holds(view[c][l], recent[l][i])
                      \/ <<l, recent[l][i]>> \in cut
                      \/ /\ Len(view[c][l]) = TabLimit(l)
                         /\ \E j \in DOMAIN view[c][l] : view[c][l][j] > recent[l][i]
                      \/ \E t \in Tasks : /\ ListOf(cast[t].step) = l /\ cast[t].id = recent[l][i]
                                          /\ c \in cast[t].start \ cast[t].seen
    BY DEF NothingMissed
  <2>1. view[c][l] \in Seq(Nat) /\ recent[l] \in Seq(Nat)
    <3>1. view \in Views /\ recent[l] \in Seq(Nat)
      BY DEF TypeOK
    <3> QED BY <3>1 DEF Views
  <2>2. DOMAIN view[c][l] = 1 .. Len(view[c][l]) /\ DOMAIN recent[l] = 1 .. Len(recent[l])
    BY <2>1, LenProperties
  <2>3. Settled(c, l, recent[l][i])
    BY <2>2 DEF MissInv, ReachInv, ServedFor
  <2> QED BY <2>2, <2>3 DEF Settled, Covered, Carries, Holds
<1> QED BY <1>1, <1>2, <1>3, TypeCorrect, BooksKept, PTL DEF Spec

-----------------------------------------------------------------------------
(* The trade tracker: its profits and quantities add up.                   *)

Fills == [q : {-2, -1, 1, 2}, price : {8, 16}]
TradeRecords == [held : Int, avg : Int, exited : Int, pnl : Int]
Accounts == [trade : TradeRecords, pnl : Int, lots : Int, pos : Int, sold : Int, cash : Int,
             legal : BOOLEAN]

(* The two arguments of Replay's fold.                                     *)
Unfilled == [trade |-> NoTrade, pnl |-> 0, lots |-> 0, pos |-> 0, sold |-> 0, cash |-> 0,
             legal |-> TRUE]
AfterFill(a, f) ==
    LET t == OnExecution(a.trade, f.q, f.price)
    IN  [trade |-> IF t.held = 0 THEN NoTrade ELSE t,
         pnl   |-> IF t.held = 0 THEN a.pnl + t.pnl ELSE a.pnl,
         lots  |-> IF t.held = 0 THEN a.lots + t.exited ELSE a.lots,
         pos   |-> a.pos + f.q,
         sold  |-> IF a.pos * f.q < 0 THEN a.sold + Size(f.q) ELSE a.sold,
         cash  |-> a.cash - f.q * f.price * Mult - Fee,
         legal |-> a.legal /\ Size(a.pos + f.q) <= 2
                   /\ (a.pos * f.q >= 0 \/ Size(f.q) <= Size(a.pos))]

(* What FillsAddUp says of an account.                                     *)
AddsUp(a) ==
    /\ a.trade.held = a.pos
    /\ a.pnl + a.trade.pnl = a.cash + a.pos * a.trade.avg * Mult
    /\ a.lots + a.trade.exited = a.sold

(* An account that adds up: a flat one has no trade, and the open trade's  *)
(* average is a multiple of d, which every further average may halve.      *)
Honest(a, d) ==
    /\ AddsUp(a)
    /\ a.pos \in -2 .. 2
    /\ a.trade.held = 0 => a.trade = NoTrade
    /\ \E m \in Int : a.trade.avg = d * m

(* Products stay integers.                                                 *)
LEMMA IntegerProducts == \A m, n \in Int : m * n \in Int
OBVIOUS

(* What a fill makes of a trade has a trade's type.                        *)
LEMMA ExecutionTypes ==
    ASSUME NEW t \in TradeRecords, NEW q \in Int, q # 0, NEW paid \in Int
    PROVE  OnExecution(t, q, paid) \in TradeRecords
<1>1. /\ t.held \in Int /\ t.avg \in Int /\ t.exited \in Int /\ t.pnl \in Int
      /\ t = [held |-> t.held, avg |-> t.avg, exited |-> t.exited, pnl |-> t.pnl]
      /\ Mult \in Int /\ Fee \in Int
  BY TrackerAssumption DEF TradeRecords
<1>2. /\ Size(t.held) \in Nat /\ Size(q) \in Nat \ {0} /\ Size(t.held + q) \in Nat
  BY <1>1 DEF Size
<1>3. CASE t.held = 0
  <2>1. OnExecution(t, q, paid) = [held |-> q, avg |-> paid, exited |-> 0, pnl |-> -Fee]
    BY <1>3 DEF OnExecution, OpenTrade
  <2> QED BY <1>1, <2>1 DEF TradeRecords
<1>4. CASE t.held # 0 /\ (q > 0 <=> t.held > 0)
  <2> DEFINE num == t.avg * Size(t.held) + paid * Size(q)
             e == num \div Size(t.held + q)
  <2>1. Size(t.held + q) \in Nat \ {0}
    BY <1>1, <1>4 DEF Size
  <2>2. num \in Int
    BY <1>1, <1>2, IntegerProducts
  <2> HIDE DEF num
  <2>3. e \in Int
    BY <2>1, <2>2
  <2>4. OnExecution(t, q, paid) = ScaleIn(t, q, paid)
    BY <1>4 DEF OnExecution
  <2>5. ScaleIn(t, q, paid) = [t EXCEPT !.held = @ + q, !.pnl = @ - Fee, !.avg = e]
    BY DEF ScaleIn, num
  <2> HIDE DEF e
  <2> DEFINE h == t.held + q
             w == t.pnl - Fee
  <2>6. [t EXCEPT !.held = @ + q, !.pnl = @ - Fee, !.avg = e] =
            [t EXCEPT !.held = h, !.pnl = w, !.avg = e]
    OBVIOUS
  <2>7. h \in Int /\ w \in Int
    BY <1>1
  <2> HIDE DEF h, w
  <2>8. [t EXCEPT !.held = h, !.pnl = w, !.avg = e] \in TradeRecords
    BY <2>3, <2>7 DEF TradeRecords
  <2> HIDE DEF num
  <2> QED BY <2>4, <2>5, <2>6, <2>8
<1>5. CASE t.held # 0 /\ ~(q > 0 <=> t.held > 0)
  <2> DEFINE closing == IF Size(q) <= Size(t.held) THEN Size(q) ELSE Size(t.held)
             side == IF t.held > 0 THEN 1 ELSE -1
             won == side * (paid - t.avg) * closing * Mult
  <2>1. closing \in Int /\ side \in {1, -1}
    BY <1>1, <1>2
  <2>2. OnExecution(t, q, paid) =
            [held |-> t.held - side * closing, avg |-> t.avg, exited |-> t.exited + closing,
             pnl |-> t.pnl + won - Fee]
    BY <1>5 DEF OnExecution, CloseSome
  <2> HIDE DEF closing, side
  <2>3. side * (paid - t.avg) \in Int /\ side * closing \in Int
    BY <1>1, <2>1
  <2>4. side * (paid - t.avg) * closing \in Int
    BY <2>1, <2>3, IntegerProducts
  <2>5. won \in Int
    BY <1>1, <2>4, IntegerProducts
  <2> HIDE DEF won
  <2> QED BY <1>1, <2>1, <2>2, <2>3, <2>5 DEF TradeRecords
<1> QED BY <1>3, <1>4, <1>5

(* The types of an account stay.                                           *)
LEMMA AccountTypes ==
    ASSUME NEW a \in Accounts, NEW f \in Fills
    PROVE  AfterFill(a, f) \in Accounts
<1> DEFINE t == OnExecution(a.trade, f.q, f.price)
           n == AfterFill(a, f)
<1>1. /\ f.q \in Int /\ f.q # 0 /\ f.price \in Int
      /\ a.trade \in TradeRecords /\ a.pnl \in Int /\ a.lots \in Int /\ a.pos \in Int
      /\ a.sold \in Int /\ a.cash \in Int /\ Mult \in Int /\ Fee \in Int
  BY TrackerAssumption DEF Fills, Accounts
<1>2. t \in TradeRecords
  BY <1>1, ExecutionTypes
<1>3. NoTrade \in TradeRecords
  BY DEF NoTrade, TradeRecords
<1>4. f.q * f.price * Mult \in Int
  <2>1. f.q * f.price \in Int
    BY <1>1, IntegerProducts
  <2> QED BY <1>1, <2>1, IntegerProducts
<1>5. Size(f.q) \in Int
  BY <1>1 DEF Size
<1>6. n = [trade |-> n.trade, pnl |-> n.pnl, lots |-> n.lots, pos |-> n.pos, sold |-> n.sold,
           cash |-> n.cash, legal |-> n.legal]
      /\ n.trade = (IF t.held = 0 THEN NoTrade ELSE t)
      /\ n.pnl = (IF t.held = 0 THEN a.pnl + t.pnl ELSE a.pnl)
      /\ n.lots = (IF t.held = 0 THEN a.lots + t.exited ELSE a.lots)
      /\ n.pos = a.pos + f.q
      /\ n.sold = (IF a.pos * f.q < 0 THEN a.sold + Size(f.q) ELSE a.sold)
      /\ n.cash = a.cash - f.q * f.price * Mult - Fee
  BY DEF AfterFill
<1>7. n.legal \in BOOLEAN
  BY DEF AfterFill
<1> HIDE DEF n, t
<1>8. /\ n.trade \in TradeRecords /\ n.pnl \in Int /\ n.lots \in Int /\ n.pos \in Int
      /\ n.sold \in Int /\ n.cash \in Int
  BY <1>1, <1>2, <1>3, <1>4, <1>5, <1>6 DEF TradeRecords
<1> QED BY <1>6, <1>7, <1>8, Zenon DEF Accounts, n

(* A legal fill keeps an account adding up: it opens a trade, adds to it   *)
(* at an average that is exact, or closes part of it or all.               *)
LEMMA FillAddsUp ==
    ASSUME NEW a \in Accounts, NEW d \in {1, 2, 4, 8}, Honest(a, 2 * d),
           d = 8 => a.pos = 0, NEW f \in Fills, AfterFill(a, f).legal
    PROVE  Honest(AfterFill(a, f), d)
<1> DEFINE u == a.trade
           q == f.q
           paid == f.price
           t == OnExecution(u, q, paid)
           n == AfterFill(a, f)
<1>1. /\ q \in {-2, -1, 1, 2} /\ paid \in {8, 16}
      /\ u \in TradeRecords /\ u.held \in Int /\ u.avg \in Int /\ u.exited \in Int
      /\ u.pnl \in Int /\ a.pnl \in Int /\ a.lots \in Int /\ a.pos \in Int
      /\ a.sold \in Int /\ a.cash \in Int /\ Mult \in Int /\ Fee \in Int
  BY TrackerAssumption DEF Fills, Accounts, TradeRecords
<1>2. /\ n.trade = (IF t.held = 0 THEN NoTrade ELSE t)
      /\ n.pnl = (IF t.held = 0 THEN a.pnl + t.pnl ELSE a.pnl)
      /\ n.lots = (IF t.held = 0 THEN a.lots + t.exited ELSE a.lots)
      /\ n.pos = a.pos + q
      /\ n.sold = (IF a.pos * q < 0 THEN a.sold + Size(q) ELSE a.sold)
      /\ n.cash = a.cash - q * paid * Mult - Fee
  BY DEF AfterFill
<1>3. Size(a.pos + q) <= 2 /\ (a.pos * q >= 0 \/ Size(q) <= Size(a.pos))
  BY DEF AfterFill
<1>4. /\ u.held = a.pos /\ a.pos \in {-2, -1, 0, 1, 2}
      /\ a.pnl + u.pnl = a.cash + a.pos * u.avg * Mult
      /\ a.lots + u.exited = a.sold
      /\ u.held = 0 => u = NoTrade
  BY <1>1 DEF Honest, AddsUp
<1>5. PICK m \in Int : u.avg = 2 * d * m
  BY DEF Honest
<1> HIDE DEF t, n, u, q, paid
<1>6. a.pos * u.avg * Mult \in Int /\ q * paid * Mult \in Int
  <2>1. a.pos * u.avg \in Int /\ q * paid \in Int
    BY <1>1, IntegerProducts
  <2> QED BY <1>1, <2>1, IntegerProducts
<1>7. CASE a.pos = 0
  <2>1. t = [held |-> q, avg |-> paid, exited |-> 0, pnl |-> -Fee]
    BY <1>4, <1>7 DEF t, OnExecution, OpenTrade
  <2>2. t.held = q /\ t.avg = paid /\ t.exited = 0 /\ t.pnl = -Fee /\ t.held # 0
    BY <1>1, <2>1
  <2>3. n.trade = t /\ n.pnl = a.pnl /\ n.lots = a.lots /\ n.pos = q /\ n.sold = a.sold
    BY <1>1, <1>2, <1>7, <2>2
  <2>4. u.pnl = 0 /\ u.exited = 0
    BY <1>4, <1>7 DEF NoTrade
  <2>5. a.pos * u.avg * Mult = 0
    BY <1>1, <1>7
  <2>6. AddsUp(n)
    <3>1. a.pnl + (-Fee) = (a.cash - q * paid * Mult - Fee) + q * paid * Mult
      BY <1>1, <1>4, <1>6, <2>4, <2>5
    <3> QED BY <1>2, <1>4, <2>2, <2>3, <2>4, <3>1 DEF AddsUp
  <2>7. \E k \in Int : paid = d * k
    <3>1. paid = d * (paid \div d) /\ paid \div d \in Int
      BY <1>1
    <3> QED BY <3>1
  <2>8. \E k \in Int : n.trade.avg = d * k
    BY <2>2, <2>3, <2>7
  <2>9. n.pos \in -2 .. 2 /\ n.trade.held # 0
    BY <1>1, <2>2, <2>3
  <2> QED BY <2>6, <2>8, <2>9 DEF Honest, n
<1>8. CASE a.pos # 0 /\ (q > 0 <=> a.pos > 0)
  <2>1. q \in {1, -1} /\ a.pos = q
    BY <1>1, <1>3, <1>4, <1>8 DEF Size
  <2> DEFINE e == (u.avg * Size(u.held) + paid * Size(q)) \div Size(u.held + q)
  <2>2. e = (u.avg + paid) \div 2
    <3>1. Size(u.held) = 1 /\ Size(q) = 1 /\ Size(u.held + q) = 2
      BY <1>4, <2>1 DEF Size
    <3> QED BY <1>1, <3>1
  <2>3. t = [u EXCEPT !.held = @ + q, !.pnl = @ - Fee, !.avg = e]
    BY <1>4, <1>8 DEF t, OnExecution, ScaleIn
  <2> HIDE DEF e
  <2>4. t.held = a.pos + q /\ t.pnl = u.pnl - Fee /\ t.avg = e /\ t.exited = u.exited
    BY <1>1, <1>4, <2>3 DEF TradeRecords
  <2>5. /\ \E k \in Int : e = d * k
        /\ 2 * e = u.avg + paid
    <3>1. d \in {1, 2, 4}
      BY <1>8
    <3>2. PICK j \in Int : paid = 2 * d * j
      <4>1. paid = 2 * d * (paid \div (2 * d)) /\ paid \div (2 * d) \in Int
        BY <1>1, <3>1
      <4> QED BY <4>1
    <3>3. u.avg + paid = 2 * (d * (m + j)) /\ d * (m + j) \in Int /\ m + j \in Int
      BY <1>5, <3>1, <3>2
    <3>4. e = d * (m + j)
      BY <2>2, <3>3
    <3> QED BY <3>3, <3>4
  <2>6. n.pos = a.pos + q /\ n.pos # 0 /\ n.sold = a.sold
    <3>1. ~(a.pos * q < 0)
      BY <1>1, <2>1
    <3> QED BY <1>1, <1>2, <2>1, <3>1
  <2>7. n.trade = t /\ n.pnl = a.pnl /\ n.lots = a.lots /\ t.held # 0
    <3>1. t.held # 0
      BY <1>1, <2>1, <2>4
    <3> QED BY <1>2, <3>1
  <2>8. a.pos * u.avg * Mult + q * paid * Mult = (a.pos + q) * e * Mult
    <3>1. a.pos * u.avg + q * paid = (a.pos + q) * e
      <4>1. (a.pos = 1 /\ q = 1) \/ (a.pos = -1 /\ q = -1)
        BY <2>1
      <4> QED BY <1>1, <2>5, <4>1
    <3>2. a.pos * u.avg * Mult + q * paid * Mult = (a.pos * u.avg + q * paid) * Mult
      BY <1>1
    <3> QED BY <3>1, <3>2
  <2>9. AddsUp(n)
    <3>1. (a.pos + q) * e * Mult \in Int
      BY <1>6, <2>8
    <3>2. a.pnl + (u.pnl - Fee) =
              (a.cash - q * paid * Mult - Fee) + (a.pos + q) * e * Mult
      BY <1>1, <1>4, <1>6, <2>8, <3>1
    <3> QED BY <1>1, <1>2, <1>4, <2>4, <2>6, <2>7, <3>2 DEF AddsUp
  <2>10. n.pos \in -2 .. 2
    BY <2>1, <2>6
  <2>11. \E k \in Int : n.trade.avg = d * k
    BY <2>4, <2>5, <2>7
  <2> QED BY <2>7, <2>9, <2>10, <2>11 DEF Honest, n
<1>9. CASE a.pos # 0 /\ ~(q > 0 <=> a.pos > 0)
  <2>1. Size(q) <= Size(u.held) /\ a.pos * q < 0
    <3>1. (a.pos > 0 /\ q < 0) \/ (a.pos < 0 /\ q > 0)
      BY <1>1, <1>4, <1>9
    <3>2. a.pos * q < 0
      BY <1>1, <1>4, <3>1
    <3> QED BY <1>1, <1>3, <1>4, <3>2
  <2> DEFINE side == IF u.held > 0 THEN 1 ELSE -1
             won == side * (paid - u.avg) * Size(q) * Mult
  <2>2. t = [held |-> u.held - side * Size(q), avg |-> u.avg,
             exited |-> u.exited + Size(q), pnl |-> u.pnl + won - Fee]
    BY <1>4, <1>9, <2>1 DEF t, OnExecution, CloseSome
  <2>3. side * Size(q) = -q /\ Size(q) \in Int
    BY <1>1, <1>4, <1>9 DEF Size
  <2>4. won = a.pos * 0 - q * (paid - u.avg) * Mult
    <3>1. side * (paid - u.avg) * Size(q) = (side * Size(q)) * (paid - u.avg)
      BY <1>1, <2>3
    <3>2. side * (paid - u.avg) * Size(q) = (-q) * (paid - u.avg)
      BY <2>3, <3>1
    <3>3. won = (-q) * (paid - u.avg) * Mult
      BY <3>2
    <3> HIDE DEF won, side
    <3> QED BY <1>1, <3>3
  <2> HIDE DEF won, side
  <2>5. won = q * u.avg * Mult - q * paid * Mult
    BY <1>1, <2>4
  <2>6. q * u.avg * Mult \in Int /\ won \in Int
    <3>1. q * u.avg \in Int
      BY <1>1, IntegerProducts
    <3>2. q * u.avg * Mult \in Int
      BY <1>1, <3>1, IntegerProducts
    <3> QED BY <1>6, <2>5, <3>2
  <2>7. /\ t.held = a.pos + q /\ t.avg = u.avg /\ t.exited = u.exited + Size(q)
        /\ t.pnl = u.pnl + won - Fee
    BY <1>1, <1>4, <2>2, <2>3
  <2>8. n.pos = a.pos + q /\ n.sold = a.sold + Size(q) /\ n.cash = a.cash - q * paid * Mult - Fee
    BY <1>2, <2>1
  <2>9. (a.pos + q) * u.avg * Mult = a.pos * u.avg * Mult + q * u.avg * Mult
    BY <1>1
  <2>10. a.pnl + t.pnl = n.cash + (a.pos + q) * u.avg * Mult
    <3> DEFINE x == a.pos * u.avg * Mult
               y == q * paid * Mult
               z == q * u.avg * Mult
               w == (a.pos + q) * u.avg * Mult
    <3>1. /\ x \in Int /\ y \in Int /\ z \in Int /\ w = x + z
          /\ a.pnl + u.pnl = a.cash + x /\ won = z - y /\ n.cash = a.cash - y - Fee
      BY <1>4, <1>6, <2>5, <2>6, <2>8, <2>9
    <3> HIDE DEF x, y, z, w
    <3>2. a.pnl + t.pnl = n.cash + w
      BY <1>1, <2>7, <3>1
    <3> QED BY <3>2 DEF w
  <2>11. n.pos \in -2 .. 2
    BY <1>1, <1>3, <1>4, <2>8 DEF Size
  <2>12. a.lots + t.exited = n.sold
    BY <1>1, <1>4, <2>3, <2>7, <2>8
  <2>13. CASE t.held = 0
    <3>1. n.trade = NoTrade /\ n.pnl = a.pnl + t.pnl /\ n.lots = a.lots + t.exited /\ n.pos = 0
      BY <1>2, <2>7, <2>8, <2>13
    <3>2. (a.pos + q) * u.avg * Mult = 0 /\ n.pos * 0 * Mult = 0
      BY <1>1, <2>7, <2>13, <3>1
    <3>3. a.pnl + t.pnl \in Int /\ n.cash \in Int /\ a.lots + t.exited \in Int
      BY <1>1, <1>6, <2>3, <2>6, <2>7, <2>8
    <3>4. n.trade.held = 0 /\ n.trade.avg = 0 /\ n.trade.pnl = 0 /\ n.trade.exited = 0
      BY <3>1 DEF NoTrade
    <3>5. AddsUp(n)
      BY <2>10, <2>12, <3>1, <3>2, <3>3, <3>4 DEF AddsUp
    <3>6. \E k \in Int : n.trade.avg = d * k
      <4>1. 0 = d * 0
        OBVIOUS
      <4> QED BY <3>4, <4>1
    <3> QED BY <2>11, <3>1, <3>5, <3>6 DEF Honest, n
  <2>14. CASE t.held # 0
    <3>1. n.trade = t /\ n.pnl = a.pnl /\ n.lots = a.lots
      BY <1>2, <2>14
    <3>2. AddsUp(n)
      BY <2>7, <2>8, <2>10, <2>12, <3>1 DEF AddsUp
    <3>3. \E k \in Int : n.trade.avg = d * k
      <4>1. u.avg = d * (2 * m) /\ 2 * m \in Int
        BY <1>5
      <4> QED BY <2>7, <3>1, <4>1
    <3> QED BY <2>11, <2>14, <3>1, <3>2, <3>3 DEF Honest, n
  <2> QED BY <2>13, <2>14
<1> QED BY <1>7, <1>8, <1>9 DEF n

(* Replay's fold is a function on sets of positions, the last position of  *)
(* a set being folded last.                                                *)
FoldOf(fills) == CHOOSE h : h = [S \in SUBSET (DOMAIN fills) |->
    IF S = {} THEN Unfilled ELSE AfterFill(h[S \ {Max(S)}], fills[Max(S)])]

(* Replay unfolded: the library's fold is that function's value.           *)
LEMMA ReplayIs ==
    ASSUME NEW fills
    PROVE  Replay(fills) = FoldOf(fills)[DOMAIN fills]
BY DEF Replay, FoldOf, FoldLeft, MapThenFoldSet, AfterFill, Unfilled

(* A set of up to four positions has a last one.                           *)
LEMMA LastPosition ==
    ASSUME NEW n \in 0 .. 4, NEW S \in SUBSET (1 .. n), S # {}
    PROVE  Max(S) \in S /\ \A y \in S : Max(S) >= y
<1>1. \E x \in S : \A y \in S : x >= y
  <2>1. S \subseteq {1, 2, 3, 4}
    OBVIOUS
  <2>2. CASE 4 \in S
    BY <2>1, <2>2
  <2>3. CASE 4 \notin S /\ 3 \in S
    BY <2>1, <2>3
  <2>4. CASE 4 \notin S /\ 3 \notin S /\ 2 \in S
    BY <2>1, <2>4
  <2>5. CASE 4 \notin S /\ 3 \notin S /\ 2 \notin S
    <3>1. S = {1}
      BY <2>1, <2>5
    <3> QED BY <3>1
  <2> QED BY <2>2, <2>3, <2>4, <2>5
<1> QED BY <1>1 DEF Max

(* There is such a function: it applies the fills of a set one by one.     *)
LEMMA FoldExists ==
    ASSUME NEW n \in 0 .. 4, NEW fills \in [1 .. n -> Fills]
    PROVE  FoldOf(fills) = [S \in SUBSET (1 .. n) |->
               IF S = {} THEN Unfilled
               ELSE AfterFill(FoldOf(fills)[S \ {Max(S)}], fills[Max(S)])]
<1> DEFINE A1(S) == IF 1 \in S THEN AfterFill(Unfilled, fills[1]) ELSE Unfilled
           A2(S) == IF 2 \in S THEN AfterFill(A1(S), fills[2]) ELSE A1(S)
           A3(S) == IF 3 \in S THEN AfterFill(A2(S), fills[3]) ELSE A2(S)
           A4(S) == IF 4 \in S THEN AfterFill(A3(S), fills[4]) ELSE A3(S)
           g == [S \in SUBSET (1 .. n) |-> A4(S)]
<1>1. ASSUME NEW S \in SUBSET (1 .. n)
      PROVE  A4(S) = IF S = {} THEN Unfilled ELSE AfterFill(g[S \ {Max(S)}], fills[Max(S)])
  <2>1. CASE S = {}
    BY <2>1
  <2>2. CASE S # {}
    <3> DEFINE x == Max(S)
               T == S \ {x}
    <3>1. x \in S /\ \A y \in S : x >= y
      BY <2>2, LastPosition
    <3> HIDE DEF x
    <3>2. x \in {1, 2, 3, 4} /\ T \in SUBSET (1 .. n) /\ x \notin T
      BY <3>1
    <3>3. \A y \in {1, 2, 3, 4} : y # x => (y \in T <=> y \in S)
      OBVIOUS
    <3>4. \A y \in {1, 2, 3, 4} : y > x => y \notin S
      BY <3>1
    <3>5. g[T] = A4(T)
      BY <3>2
    <3> HIDE DEF T, g
    <3>6. CASE x = 1
      <4>1. 1 \in S /\ 2 \notin S /\ 3 \notin S /\ 4 \notin S
        BY <3>1, <3>4, <3>6
      <4>2. 1 \notin T /\ 2 \notin T /\ 3 \notin T /\ 4 \notin T
        BY <3>2, <3>3, <3>6, <4>1
      <4> QED BY <2>2, <3>5, <3>6, <4>1, <4>2 DEF T, x
    <3>7. CASE x = 2
      <4>1. 2 \in S /\ 3 \notin S /\ 4 \notin S
        BY <3>1, <3>4, <3>7
      <4>2. (1 \in T <=> 1 \in S) /\ 2 \notin T /\ 3 \notin T /\ 4 \notin T
        BY <3>2, <3>3, <3>7, <4>1
      <4> QED BY <2>2, <3>5, <3>7, <4>1, <4>2 DEF T, x
    <3>8. CASE x = 3
      <4>1. 3 \in S /\ 4 \notin S
        BY <3>1, <3>4, <3>8
      <4>2. (1 \in T <=> 1 \in S) /\ (2 \in T <=> 2 \in S) /\ 3 \notin T /\ 4 \notin T
        BY <3>2, <3>3, <3>8, <4>1
      <4> QED BY <2>2, <3>5, <3>8, <4>1, <4>2 DEF T, x
    <3>9. CASE x = 4
      <4>1. /\ 4 \in S /\ 4 \notin T
            /\ (1 \in T <=> 1 \in S) /\ (2 \in T <=> 2 \in S) /\ (3 \in T <=> 3 \in S)
        BY <3>1, <3>2, <3>3, <3>9
      <4> QED BY <2>2, <3>5, <3>9, <4>1 DEF T, x
    <3> QED BY <3>2, <3>6, <3>7, <3>8, <3>9
  <2> QED BY <2>1, <2>2
<1>2. g = [S \in SUBSET (1 .. n) |->
              IF S = {} THEN Unfilled ELSE AfterFill(g[S \ {Max(S)}], fills[Max(S)])]
  <2>1. g = [S \in SUBSET (1 .. n) |-> A4(S)]
    OBVIOUS
  <2> HIDE DEF g, A4
  <2> QED BY <1>1, <2>1
<1>3. DOMAIN fills = 1 .. n
  OBVIOUS
<1> HIDE DEF g
<1> QED BY <1>2, <1>3 DEF FoldOf

(* One more fill.                                                          *)
LEMMA FoldSteps ==
    ASSUME NEW n \in 0 .. 4, NEW fills \in [1 .. n -> Fills]
    PROVE  /\ FoldOf(fills)[{}] = Unfilled
           /\ \A k \in 1 .. n : FoldOf(fills)[1 .. k] =
                                    AfterFill(FoldOf(fills)[1 .. k - 1], fills[k])
<1> DEFINE h == FoldOf(fills)
<1>1. h = [S \in SUBSET (1 .. n) |->
              IF S = {} THEN Unfilled ELSE AfterFill(h[S \ {Max(S)}], fills[Max(S)])]
  BY FoldExists
<1> HIDE DEF h
<1>2. h[{}] = Unfilled
  BY <1>1
<1>3. ASSUME NEW k \in 1 .. n PROVE h[1 .. k] = AfterFill(h[1 .. k - 1], fills[k])
  <2> DEFINE S == 1 .. k
  <2>1. S \in SUBSET (1 .. n) /\ S # {} /\ k \in S
    <3>1. k \in Nat /\ k >= 1 /\ k <= n
      OBVIOUS
    <3>2. k \in S /\ \A y \in S : y \in 1 .. n
      BY <3>1
    <3> HIDE DEF S
    <3> QED BY <3>2
  <2>2. Max(S) \in S /\ \A y \in S : Max(S) >= y
    <3> HIDE DEF S
    <3> QED BY <2>1, LastPosition
  <2>3. Max(S) = k
    BY <2>1, <2>2
  <2>4. S \ {k} = 1 .. k - 1
    OBVIOUS
  <2>5. h[S] = AfterFill(h[S \ {Max(S)}], fills[Max(S)])
    <3> HIDE DEF S
    <3> QED BY <1>1, <2>1
  <2> QED BY <2>3, <2>4, <2>5
<1> QED BY <1>2, <1>3 DEF h

(* For all sequences of up to four fills and all fees and lot sizes, the   *)
(* tracker's books add up.                                                 *)
LEMMA BooksAddUp == FillsAddUp
<1>1. ASSUME NEW n \in 0 .. 4, NEW fills \in [1 .. n -> Fills], Replay(fills).legal
      PROVE  AddsUp(Replay(fills))
  <2> DEFINE h(k) == FoldOf(fills)[1 .. k]
             Kept(k, d) == h(k) \in Accounts /\ (h(k).legal => Honest(h(k), d))
  <2>1. h(0) = Unfilled
    <3>1. 1 .. 0 = {}
      OBVIOUS
    <3> QED BY <3>1, FoldSteps
  <2>2. \A k \in 1 .. n : h(k) = AfterFill(h(k - 1), fills[k]) /\ fills[k] \in Fills
    BY FoldSteps
  <2>3. Replay(fills) = h(n)
    <3>1. DOMAIN fills = 1 .. n
      OBVIOUS
    <3> QED BY <3>1, ReplayIs
  <2> HIDE DEF h
  <2>4. Kept(0, 16) /\ h(0).pos = 0
    <3>1. Unfilled \in Accounts
      BY DEF Unfilled, NoTrade, Accounts, TradeRecords
    <3>2. AddsUp(Unfilled)
      BY TrackerAssumption DEF AddsUp, Unfilled, NoTrade
    <3>3. Unfilled.trade = NoTrade /\ Unfilled.pos = 0 /\ Unfilled.trade.avg = 16 * 0
      BY DEF Unfilled, NoTrade
    <3>4. Honest(Unfilled, 16)
      BY <3>2, <3>3 DEF Honest
    <3> QED BY <2>1, <3>1, <3>3, <3>4
  <2>5. ASSUME NEW k \in 1 .. n, NEW d \in {1, 2, 4, 8}, Kept(k - 1, 2 * d),
               d = 8 => h(k - 1).pos = 0
        PROVE  Kept(k, d)
    <3>1. h(k) = AfterFill(h(k - 1), fills[k]) /\ fills[k] \in Fills
      BY <2>2
    <3>2. h(k) \in Accounts
      BY <2>5, <3>1, AccountTypes
    <3>3. ASSUME h(k).legal PROVE Honest(h(k), d)
      <4>1. h(k - 1).legal
        <5>1. ASSUME NEW a, NEW f, AfterFill(a, f).legal PROVE a.legal
          BY <5>1 DEF AfterFill
        <5> QED BY <3>1, <3>3, <5>1
      <4> QED BY <2>5, <3>1, <3>3, <4>1, FillAddsUp
    <3> QED BY <3>2, <3>3
  <2> HIDE DEF Kept
  <2>6. n >= 1 => Kept(1, 8)
    BY <2>4, <2>5
  <2>7. n >= 2 => Kept(2, 4)
    BY <2>5, <2>6
  <2>8. n >= 3 => Kept(3, 2)
    BY <2>5, <2>7
  <2>9. n = 4 => Kept(4, 1)
    BY <2>5, <2>8
  <2>10. Honest(h(n), 16) \/ Honest(h(n), 8) \/ Honest(h(n), 4) \/ Honest(h(n), 2)
         \/ Honest(h(n), 1)
    <3>1. n = 0 \/ n = 1 \/ n = 2 \/ n = 3 \/ n = 4
      OBVIOUS
    <3> QED BY <1>1, <2>3, <2>4, <2>6, <2>7, <2>8, <2>9, <3>1 DEF Kept
  <2> QED BY <2>3, <2>10 DEF Honest
<1> QED BY <1>1 DEF FillsAddUp, Fills, AddsUp

(* Whatever fee and lot size: the tracker that fills reach is one whose    *)
(* records and open trade agree with the money paid and received and with  *)
(* every lot closed, for every sequence of up to four fills that scale in, *)
(* reduce and close (trade_tracker.py:6-11).                               *)
THEOREM TrackerBooksAddUp == Spec => TrackerAddsUp
<1>1. FillsAddUp
  BY BooksAddUp
<1> QED BY <1>1, PTL DEF TrackerAddsUp
=============================================================================
