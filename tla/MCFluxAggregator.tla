-------------------------- MODULE MCFluxAggregator --------------------------
(* Two oracles, one requester and two rounds. *)
EXTENDS FluxAggregator, TLC

\* The median of short lists, found by putting them in order.
MedianOfSorted(votes) ==
  LET sorted == SortSeq(votes, <)
      half   == Len(votes) \div 2
  IN  IF Len(votes) % 2 = 1 THEN sorted[half + 1]
      ELSE TruncDiv(sorted[half] + sorted[half + 1], 2)

ASSUME MedianAgrees ==
  \A n \in 1 .. 4 : \A votes \in [1 .. n -> -2 .. 2] : Median(votes) = MedianOfSorted(votes)
=============================================================================
