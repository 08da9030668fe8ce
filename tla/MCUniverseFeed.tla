---------------------------- MODULE MCUniverseFeed ----------------------------
(* Rates that fall, and rise from below zero.                              *)
EXTENDS UniverseFeed
LOCAL INSTANCE SequencesExt

MCRates == {-2, -1}

(* The loop of backfill_one: every row goes through _append_trimmed.       *)
RowByRow(values, window, t) ==
    FoldLeft(LAMBDA h, i : LET r == Row(values, i, t)
                           IN  AppendTrimmed(h, r.ts, r.at, r.v, window),
             <<>>, [i \in 1 .. Len(values) |-> i])

(* Trimming once, by the last row's cutoff, leaves what trimming after     *)
(* every row leaves, for windows longer and shorter than the rows.         *)
ASSUME TrimmedOnce ==
    \A n \in 0 .. 4, w \in 1 .. 9, t \in FirstTime .. MaxNow :
        \A values \in [1 .. n -> Prices] : Seeded(values, w, t) = RowByRow(values, w, t)
=============================================================================
