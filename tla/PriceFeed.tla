----------------------------- MODULE PriceFeed -----------------------------
(* What OracleAdapter relies on in a Chainlink aggregator: what its          *)
(* latestRoundData returns changes only together with the time it bears,     *)
(* which is the time of the change and never later than now.  Under a time   *)
(* that has not changed a reader finds the answer that has not changed;      *)
(* nothing is said of when that answer was computed.                         *)
EXTENDS Integers

VARIABLES price, updatedAt, now

Init ==
  /\ now \in Nat
  /\ price \in Int
  /\ updatedAt \in 0 .. now

Report ==
  /\ price' \in Int
  /\ updatedAt' = now
  /\ now' = now

Tick ==
  /\ now' \in Nat /\ now' > now
  /\ UNCHANGED <<price, updatedAt>>

Next == Report \/ Tick

Spec == Init /\ [][Next]_<<price, updatedAt, now>>
=============================================================================
