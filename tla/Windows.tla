------------------------------ MODULE Windows ------------------------------
(***************************************************************************)
(* The rolling windows from which the strategies, the regime classifier    *)
(* and the governance compute their statistics, over integers.             *)
(***************************************************************************)
EXTENDS Integers, Sequences, SequencesExt

SumOf(w) == FoldLeft(LAMBDA s, x : s + x, 0, w)

\* n times the sum of squared distances from the mean, n the length of w: what
\* n * n times the variance is.
Spread(w) == Len(w) * FoldLeft(LAMBDA s, x : s + x * x, 0, w) - SumOf(w) * SumOf(w)

PushedBounded(w, x, n) == IF Len(w) < n THEN Append(w, x) ELSE Append(Tail(w), x)
=============================================================================
