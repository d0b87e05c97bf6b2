------------------------ MODULE FluxAggregatorProofs ------------------------
(* Proofs about FluxAggregator for every set of oracles and requesters,      *)
(* every choice of payments, delays and time-outs, and any number of rounds. *)
EXTENDS FluxAggregator, SolidityMathLemmas

\* What is recorded of round r when the reported round is last: nothing of one
\* that has not begun, and no answer older than its round.
InOrder(R, D, last, r) ==
  /\ DOMAIN R[r] = {"answer", "startedAt", "updatedAt", "answeredInRound"}
  /\ R[r].startedAt \in Nat /\ R[r].updatedAt \in Nat
  /\ R[r].startedAt <= now
  /\ 0 < r /\ r <= last => 0 < R[r].startedAt
  /\ 0 < r /\ 0 < R[r].updatedAt => R[r].startedAt <= R[r].updatedAt
  /\ r > last => R[r].updatedAt = 0 /\ D[r].maxSubmissions = 0

AllInOrder(R, D, last) ==
  /\ DOMAIN R = Rounds /\ DOMAIN D = Rounds /\ last \in Rounds
  /\ \A r \in Rounds : InOrder(R, D, last, r)

RoundsInv ==
  /\ now \in Nat /\ 0 < now
  /\ AllInOrder(rounds, details, reportingRoundId)
  /\ \A r \in 1 .. reportingRoundId - 1 : 0 < rounds[r].updatedAt
  /\ latestRoundId \in Rounds /\ latestRoundId <= reportingRoundId
  /\ 0 < latestRoundId => 0 < rounds[latestRoundId].updatedAt

LEMMA RoundsAreNumbers == Rounds \subseteq Nat
  BY RoundsAssumption DEF Rounds

LEMMA NoneSkipped ==
  ASSUME RoundsInv
  PROVE  NoRoundSkipped
<1> SUFFICES ASSUME NEW r \in 1 .. reportingRoundId - 1
             PROVE  0 < rounds[r].startedAt /\ rounds[r].startedAt <= rounds[r].updatedAt
  BY DEF NoRoundSkipped
<1>1. r \in Rounds /\ 0 < r /\ r <= reportingRoundId
  BY RoundsAssumption DEF RoundsInv, AllInOrder, Rounds
<1> QED BY <1>1 DEF RoundsInv, AllInOrder, InOrder

LEMMA InitRounds ==
  ASSUME Init
  PROVE  RoundsInv
  BY RoundsAssumption, TimesAssumption
  DEF Init, RoundsInv, AllInOrder, InOrder, Rounds, NoDetails

\* Beginning the next round, once the one before is over, closes that one if
\* it has timed out and leaves the others alone.
LEMMA StartingKeepsOrder ==
  ASSUME RoundsInv, NEW r \in Rounds, r = reportingRoundId + 1,
         r = 1 \/ Supersedable(r - 1)
  PROVE  /\ AllInOrder(StartedRounds(r), StartedDetails(r), r)
         /\ \A q \in Rounds : q < r - 1 => StartedRounds(r)[q] = rounds[q]
         /\ r > 1 => 0 < StartedRounds(r)[r - 1].updatedAt
         /\ StartedRounds(r)[r].updatedAt = 0
         /\ 0 < latestRoundId => 0 < StartedRounds(r)[latestRoundId].updatedAt
<1> DEFINE p == r - 1
           R == ClosedRounds(p)
           D == ClosedDetails(p)
<1>1. /\ p \in Rounds /\ p = reportingRoundId /\ r \in Nat /\ p \in Nat /\ p # r
      /\ now \in Nat /\ 0 < now
      /\ DOMAIN rounds = Rounds /\ DOMAIN details = Rounds
  BY RoundsAreNumbers DEF RoundsInv, AllInOrder
<1>2. \A q \in Rounds : InOrder(rounds, details, p, q) /\ q \in Nat
  BY <1>1, RoundsAreNumbers DEF RoundsInv, AllInOrder
<1>3. DOMAIN R = Rounds /\ \A q \in Rounds : q # p => R[q] = rounds[q]
  BY <1>1 DEF ClosedRounds
<1>4. DOMAIN D = Rounds /\ \A q \in Rounds : q # p => D[q] = details[q]
  BY <1>1 DEF ClosedDetails
<1>5. /\ DOMAIN R[p] = DOMAIN rounds[p]
      /\ R[p].startedAt = rounds[p].startedAt
      /\ R[p].updatedAt = IF TimedOut(p) THEN now ELSE rounds[p].updatedAt
  BY <1>1, <1>2 DEF ClosedRounds, InOrder
<1>6. \A q \in Rounds : InOrder(R, D, p, q)
  <2> TAKE q \in Rounds
  <2>1. CASE q = p
    BY <2>1, <1>1, <1>2, <1>5 DEF InOrder
  <2>2. CASE q # p
    BY <2>2, <1>2, <1>3, <1>4 DEF InOrder
  <2> QED BY <2>1, <2>2
<1>7. p > 0 => 0 < R[p].updatedAt
  BY <1>1, <1>2, <1>5 DEF Supersedable, InOrder
<1>8. /\ DOMAIN StartedRounds(r) = Rounds /\ DOMAIN StartedDetails(r) = Rounds
      /\ \A q \in Rounds : q # r => /\ StartedRounds(r)[q] = R[q]
                                    /\ StartedDetails(r)[q] = D[q]
  BY <1>3, <1>4 DEF StartedRounds, StartedDetails
<1>9. /\ DOMAIN StartedRounds(r)[r] = DOMAIN R[r]
      /\ StartedRounds(r)[r].startedAt = now
      /\ StartedRounds(r)[r].updatedAt = R[r].updatedAt
  BY <1>1, <1>3, <1>6 DEF StartedRounds, InOrder
<1>10. R[r].updatedAt = 0
  BY <1>1, <1>6 DEF InOrder
<1>11. ASSUME NEW q \in Rounds PROVE InOrder(StartedRounds(r), StartedDetails(r), r, q)
  <2>1. CASE q = r
    BY <2>1, <1>1, <1>6, <1>9, <1>10 DEF InOrder
  <2>2. CASE q # r
    BY <2>2, <1>1, <1>2, <1>6, <1>8 DEF InOrder
  <2> QED BY <2>1, <2>2
<1>12. AllInOrder(StartedRounds(r), StartedDetails(r), r)
  BY <1>8, <1>11 DEF AllInOrder
<1>13. \A q \in Rounds : q < r - 1 => StartedRounds(r)[q] = rounds[q]
  BY <1>1, <1>2, <1>3, <1>8
<1>14. r > 1 => 0 < StartedRounds(r)[r - 1].updatedAt
  BY <1>1, <1>7, <1>8
<1>15. 0 < latestRoundId => 0 < StartedRounds(r)[latestRoundId].updatedAt
  <2>1. latestRoundId \in Rounds /\ latestRoundId \in Nat /\ latestRoundId <= p
    BY <1>1, RoundsAreNumbers DEF RoundsInv
  <2>2. CASE latestRoundId = p
    BY <2>1, <2>2, <1>1, <1>7, <1>8
  <2>3. CASE latestRoundId # p
    BY <2>1, <2>3, <1>1, <1>3, <1>8 DEF RoundsInv
  <2> QED BY <2>2, <2>3
<1> QED BY <1>9, <1>10, <1>12, <1>13, <1>14, <1>15

-----------------------------------------------------------------------------
\* What PastAnswersStay says of a step.
PastStays ==
  /\ latestRoundId' >= latestRoundId
  /\ \A r \in 0 .. latestRoundId - 1 : rounds'[r] = rounds[r]

\* The rounds as an oracle's submission to r finds them.
RoundsFor(o, r) == IF OracleStarts(o, r) THEN StartedRounds(r) ELSE rounds
DetailsFor(o, r) == IF OracleStarts(o, r) THEN StartedDetails(r) ELSE details
LastFor(o, r) == IF OracleStarts(o, r) THEN r ELSE reportingRoundId

LEMMA SubmissionFindsOrder ==
  ASSUME RoundsInv, NEW o \in Oracles, NEW r \in Rounds, ValidOracleRound(o, r),
         DetailsFor(o, r)[r].maxSubmissions # 0
  PROVE  /\ AllInOrder(RoundsFor(o, r), DetailsFor(o, r), LastFor(o, r))
         /\ 0 < r /\ r <= LastFor(o, r) /\ latestRoundId <= r
         /\ \A q \in Rounds : q < latestRoundId => RoundsFor(o, r)[q] = rounds[q]
         /\ \A q \in 1 .. LastFor(o, r) - 1 : 0 < RoundsFor(o, r)[q].updatedAt
         /\ 0 < latestRoundId => 0 < RoundsFor(o, r)[latestRoundId].updatedAt
<1>1. /\ r \in Nat /\ reportingRoundId \in Nat /\ latestRoundId \in Nat
      /\ reportingRoundId \in Rounds /\ latestRoundId \in Rounds
      /\ latestRoundId <= reportingRoundId
  BY RoundsAreNumbers DEF RoundsInv, AllInOrder
<1>2. /\ 0 < r
      /\ \/ r \in {reportingRoundId, reportingRoundId + 1}
         \/ r + 1 = reportingRoundId /\ rounds[reportingRoundId].updatedAt = 0
      /\ r = 1 \/ Supersedable(r - 1)
  BY <1>1 DEF ValidOracleRound, PreviousAndCurrentUnanswered
<1>3. CASE OracleStarts(o, r)
  <2>1. r = reportingRoundId + 1
    BY <1>3 DEF OracleStarts, NewRound
  <2>2. /\ AllInOrder(StartedRounds(r), StartedDetails(r), r)
        /\ \A q \in Rounds : q < r - 1 => StartedRounds(r)[q] = rounds[q]
        /\ r > 1 => 0 < StartedRounds(r)[r - 1].updatedAt
        /\ 0 < latestRoundId => 0 < StartedRounds(r)[latestRoundId].updatedAt
    BY <1>2, <2>1, StartingKeepsOrder
  <2>3. \A q \in 1 .. r - 1 : 0 < StartedRounds(r)[q].updatedAt
    <3> TAKE q \in 1 .. r - 1
    <3>1. CASE q = r - 1
      BY <3>1, <1>1, <2>2
    <3>2. CASE q # r - 1
      <4>1. q \in 1 .. reportingRoundId - 1 /\ q < r - 1 /\ q \in Rounds
        BY <3>2, <1>1, <2>1, RoundsAssumption DEF Rounds
      <4> QED BY <4>1, <2>2 DEF RoundsInv
    <3> QED BY <3>1, <3>2
  <2>4. \A q \in Rounds : q < latestRoundId => q < r - 1
    BY <1>1, <2>1, RoundsAreNumbers
  <2> QED BY <1>1, <1>2, <1>3, <2>1, <2>2, <2>3, <2>4 DEF RoundsFor, DetailsFor, LastFor
<1>4. CASE ~OracleStarts(o, r)
  <2>1. r <= reportingRoundId
    BY <1>1, <1>2, <1>4 DEF DetailsFor, RoundsInv, AllInOrder, InOrder
  <2>2. latestRoundId <= r
    BY <1>1, <1>2, <2>1 DEF RoundsInv
  <2> QED BY <1>2, <1>4, <2>1, <2>2 DEF RoundsFor, DetailsFor, LastFor, RoundsInv
<1> QED BY <1>3, <1>4

LEMMA SubmitKeepsRounds ==
  ASSUME RoundsInv, NEW o \in Oracles, NEW r \in Rounds, NEW value \in Answers,
         Submit(o, r, value)
  PROVE  RoundsInv' /\ PastStays
<1> DEFINE R == RoundsFor(o, r)
           D == DetailsFor(o, r)
           last == LastFor(o, r)
           votes == Append(D[r].submissions, value)
           answered == EnoughVotes(votes, D[r].minSubmissions)
<1>1. /\ ValidOracleRound(o, r)
      /\ D[r].maxSubmissions # 0
      /\ reportingRoundId' = last
      /\ rounds' = IF answered
                   THEN [R EXCEPT ![r].answer = Median(votes), ![r].updatedAt = now,
                                  ![r].answeredInRound = r]
                   ELSE R
      /\ latestRoundId' = IF answered THEN r ELSE latestRoundId
      /\ details' = [D EXCEPT ![r] = IF Len(votes) >= @.maxSubmissions THEN NoDetails
                                     ELSE [@ EXCEPT !.submissions = votes]]
      /\ now' = now
  BY DEF Submit, RoundsFor, DetailsFor, LastFor
<1> HIDE DEF R, D, last, votes, answered
<1>2. /\ AllInOrder(R, D, last)
      /\ 0 < r /\ r <= last /\ latestRoundId <= r
      /\ \A q \in Rounds : q < latestRoundId => R[q] = rounds[q]
      /\ \A q \in 1 .. last - 1 : 0 < R[q].updatedAt
      /\ 0 < latestRoundId => 0 < R[latestRoundId].updatedAt
  BY <1>1, SubmissionFindsOrder DEF R, D, last
<1>3. /\ now \in Nat /\ 0 < now /\ latestRoundId \in Rounds /\ latestRoundId \in Nat
      /\ r \in Nat /\ last \in Rounds /\ last \in Nat
      /\ DOMAIN R = Rounds /\ DOMAIN D = Rounds
      /\ \A q \in Rounds : InOrder(R, D, last, q) /\ q \in Nat
  BY <1>2, RoundsAreNumbers DEF RoundsInv, AllInOrder
<1>4. /\ DOMAIN rounds' = Rounds
      /\ \A q \in Rounds : q # r => rounds'[q] = R[q]
      /\ DOMAIN rounds'[r] = DOMAIN R[r]
      /\ rounds'[r].startedAt = R[r].startedAt
      /\ rounds'[r].updatedAt = IF answered THEN now ELSE R[r].updatedAt
  BY <1>1, <1>3 DEF InOrder
<1>5. /\ DOMAIN details' = Rounds
      /\ \A q \in Rounds : q # r => details'[q] = D[q]
  BY <1>1, <1>3
<1>6. ASSUME NEW q \in Rounds PROVE InOrder(rounds, details, reportingRoundId, q)'
  <2>1. CASE q = r
    BY <2>1, <1>1, <1>2, <1>3, <1>4 DEF InOrder
  <2>2. CASE q # r
    BY <2>2, <1>1, <1>3, <1>4, <1>5 DEF InOrder
  <2> QED BY <2>1, <2>2
<1>7. AllInOrder(rounds, details, reportingRoundId)'
  BY <1>1, <1>3, <1>4, <1>5, <1>6 DEF AllInOrder
<1>8. \A q \in 1 .. reportingRoundId' - 1 : 0 < rounds'[q].updatedAt
  <2> SUFFICES ASSUME NEW q \in 1 .. last - 1 PROVE 0 < rounds'[q].updatedAt
    BY <1>1
  <2>1. q \in Rounds
    BY <1>3, RoundsAssumption DEF Rounds
  <2> QED BY <2>1, <1>2, <1>3, <1>4
<1>9. 0 < latestRoundId' => 0 < rounds'[latestRoundId'].updatedAt
  BY <1>1, <1>2, <1>3, <1>4
<1>10. latestRoundId' \in Rounds /\ latestRoundId' <= reportingRoundId'
  BY <1>1, <1>2, <1>3
<1>11. PastStays
  <2>1. latestRoundId' >= latestRoundId
    BY <1>1, <1>2, <1>3
  <2>2. ASSUME NEW q \in 0 .. latestRoundId - 1 PROVE rounds'[q] = rounds[q]
    <3>1. q \in Rounds /\ q < latestRoundId /\ q # r
      BY <1>2, <1>3, RoundsAssumption DEF Rounds
    <3> QED BY <3>1, <1>2, <1>4
  <2> QED BY <2>1, <2>2 DEF PastStays
<1> QED BY <1>1, <1>3, <1>7, <1>8, <1>9, <1>10, <1>11 DEF RoundsInv

LEMMA RequestKeepsRounds ==
  ASSUME RoundsInv, NEW q \in Requesters, RequestNewRound(q)
  PROVE  RoundsInv' /\ PastStays
<1> DEFINE r == reportingRoundId + 1
<1>1. /\ Supersedable(reportingRoundId) /\ r \in Rounds
      /\ reportingRoundId' = r /\ rounds' = StartedRounds(r)
      /\ details' = StartedDetails(r)
      /\ now' = now /\ latestRoundId' = latestRoundId
  BY DEF RequestNewRound
<1>2. /\ reportingRoundId \in Nat /\ latestRoundId \in Nat /\ latestRoundId \in Rounds
      /\ latestRoundId <= reportingRoundId /\ now \in Nat /\ 0 < now
  BY RoundsAreNumbers DEF RoundsInv, AllInOrder
<1>3. /\ AllInOrder(StartedRounds(r), StartedDetails(r), r)
      /\ \A p \in Rounds : p < r - 1 => StartedRounds(r)[p] = rounds[p]
      /\ r > 1 => 0 < StartedRounds(r)[r - 1].updatedAt
      /\ 0 < latestRoundId => 0 < StartedRounds(r)[latestRoundId].updatedAt
  <2>1. Supersedable(r - 1)
    BY <1>1, <1>2
  <2> QED BY <2>1, <1>1, StartingKeepsOrder
<1> HIDE DEF r
<1>4. \A p \in 1 .. r - 1 : 0 < StartedRounds(r)[p].updatedAt
  <2> TAKE p \in 1 .. r - 1
  <2>1. CASE p = r - 1
    BY <2>1, <1>2, <1>3 DEF r
  <2>2. CASE p # r - 1
    <3>1. p \in 1 .. reportingRoundId - 1 /\ p < r - 1 /\ p \in Rounds
      BY <2>2, <1>1, <1>2, RoundsAssumption DEF Rounds, r
    <3> QED BY <3>1, <1>3 DEF RoundsInv
  <2> QED BY <2>1, <2>2
<1>5. \A p \in 0 .. latestRoundId - 1 : p \in Rounds /\ p < r - 1
  BY <1>2, RoundsAssumption DEF Rounds, r
<1>6. PastStays
  BY <1>1, <1>2, <1>3, <1>5 DEF PastStays
<1>7. AllInOrder(rounds, details, reportingRoundId)'
  BY <1>1, <1>3 DEF AllInOrder, InOrder
<1> QED BY <1>1, <1>2, <1>3, <1>4, <1>6, <1>7 DEF RoundsInv, r

\* Every other operation leaves the rounds alone.
LEMMA OthersKeepRounds ==
  ASSUME RoundsInv, UNCHANGED roundVars, now' = now \/ Tick
  PROVE  RoundsInv' /\ PastStays
<1>1. now' \in Nat /\ now <= now' /\ now \in Nat
  BY DEF Tick, RoundsInv
<1>2. \A r \in Rounds : InOrder(rounds, details, reportingRoundId, r)'
  BY <1>1, RoundsAreNumbers DEF roundVars, RoundsInv, AllInOrder, InOrder
<1>3. AllInOrder(rounds, details, reportingRoundId)'
  BY <1>2 DEF roundVars, RoundsInv, AllInOrder
<1>4. PastStays
  BY RoundsAreNumbers DEF roundVars, PastStays, RoundsInv
<1> QED BY <1>1, <1>3, <1>4 DEF roundVars, RoundsInv

LEMMA StepKeepsRounds ==
  ASSUME RoundsInv, [Next]_vars
  PROVE  RoundsInv' /\ PastStays
<1>1. ASSUME NEW o \in Oracles, NEW r \in Rounds, NEW value \in Answers, Submit(o, r, value)
      PROVE  RoundsInv' /\ PastStays
  BY <1>1, SubmitKeepsRounds
<1>2. ASSUME NEW q \in Requesters, RequestNewRound(q)
      PROVE  RoundsInv' /\ PastStays
  BY <1>2, RequestKeepsRounds
<1>3. CASE UNCHANGED roundVars /\ (now' = now \/ Tick)
  BY <1>3, OthersKeepRounds
<1>4. ASSUME NEW q \in Requesters, NEW authorized \in BOOLEAN, NEW delay \in RequesterDelays,
             SetRequesterPermissions(q, authorized, delay)
      PROVE  UNCHANGED roundVars /\ now' = now
  BY <1>4 DEF SetRequesterPermissions
<1>5. ASSUME NEW min \in Counts, NEW max \in Counts, NEW delay \in RestartDelays,
             \/ \E payment \in Payments, to \in Timeouts :
                  UpdateFutureRounds(payment, min, max, delay, to)
             \/ \E removed, added \in SUBSET Oracles :
                  ChangeOracles(removed, added, min, max, delay)
      PROVE  UNCHANGED roundVars /\ now' = now
  BY <1>5 DEF UpdateFutureRounds, ChangeOracles
<1>6. ASSUME \/ UpdateAvailableFunds
             \/ \E amount \in Moves : ReceiveLink(amount) \/ WithdrawFunds(amount)
             \/ \E o \in Oracles, amount \in Moves : WithdrawPayment(o, amount)
      PROVE  UNCHANGED roundVars /\ now' = now
  BY <1>6 DEF UpdateAvailableFunds, ReceiveLink, WithdrawFunds, WithdrawPayment
<1>7. CASE Tick
  BY <1>3, <1>7 DEF Tick
<1>8. CASE UNCHANGED vars
  BY <1>3, <1>8 DEF vars
<1> QED BY <1>1, <1>2, <1>3, <1>4, <1>5, <1>6, <1>7, <1>8 DEF Next

THEOREM RoundsStayInOrder == Spec => []RoundsInv
<1>1. Init => RoundsInv
  BY InitRounds
<1>2. RoundsInv /\ [Next]_vars => RoundsInv'
  BY StepKeepsRounds
<1> QED BY <1>1, <1>2, PTL DEF Spec

\* Rounds follow each other without a gap: whoever begins one, an oracle or a
\* requester, the one before has been answered or is closed as it begins.
THEOREM RoundsFollowEachOther == Spec => []NoRoundSkipped
<1>1. RoundsInv => NoRoundSkipped
  BY NoneSkipped
<1> QED BY <1>1, RoundsStayInOrder, PTL

\* A late submission, a time-out or a new round never touches a round before
\* the latest answered one, and the latest only moves forward.
THEOREM AnswersAreKept == Spec => PastAnswersStay
<1>1. RoundsInv /\ [Next]_vars =>
        [/\ latestRoundId' >= latestRoundId
         /\ \A r \in 0 .. latestRoundId - 1 : rounds'[r] = rounds[r]]_vars
  BY StepKeepsRounds DEF PastStays
<1> QED BY <1>1, RoundsStayInOrder, PTL DEF Spec, PastAnswersStay

-----------------------------------------------------------------------------
\* What is known of an oracle: its rounds are not ahead of the reported one.
OracleInStep(o) ==
  /\ DOMAIN oracles[o] = {"withdrawable", "startingRound", "endingRound",
                          "lastReportedRound", "lastStartedRound"}
  /\ oracles[o].startingRound \in Nat /\ oracles[o].startingRound <= reportingRoundId + 1
  /\ oracles[o].lastReportedRound \in Nat /\ oracles[o].lastReportedRound <= reportingRoundId
  /\ oracles[o].lastStartedRound \in Nat /\ oracles[o].lastStartedRound <= reportingRoundId

\* A round is begun by one oracle at most, and there are more oracles than
\* rounds that one of them has to wait.
StartersInv ==
  /\ RoundsInv
  /\ DOMAIN oracles = Oracles /\ \A o \in Oracles : OracleInStep(o)
  /\ \A o, p \in Oracles :
       o # p /\ oracles[o].lastStartedRound = oracles[p].lastStartedRound =>
         oracles[o].lastStartedRound = 0
  /\ oracleAddresses \subseteq Oracles /\ restartDelay \in Nat
  /\ oracleAddresses # {} => Cardinality(oracleAddresses) > restartDelay

\* As many oracles as there are to wait for cannot have begun the last rounds.
LEMMA NotAllWait ==
  ASSUME StartersInv, oracleAddresses # {}
  PROVE  \E o \in oracleAddresses : Delayed(o, reportingRoundId + 1)
<1> SUFFICES ASSUME \A o \in oracleAddresses : ~Delayed(o, reportingRoundId + 1)
             PROVE  FALSE
  OBVIOUS
<1> DEFINE recent == reportingRoundId + 1 - restartDelay .. reportingRoundId
           f == [o \in oracleAddresses |-> oracles[o].lastStartedRound]
<1>1. restartDelay \in Nat /\ reportingRoundId \in Nat /\ oracleAddresses \subseteq Oracles
  BY RoundsAreNumbers DEF StartersInv, RoundsInv, AllInOrder
<1>2. \A o \in oracleAddresses : oracles[o].lastStartedRound \in recent
                                  /\ oracles[o].lastStartedRound # 0
  BY <1>1 DEF Delayed, StartersInv, OracleInStep
<1>3. IsFiniteSet(oracleAddresses)
  BY <1>1, OraclesAssumption, FS_Subset
<1>4. IsFiniteSet(recent) /\ Cardinality(recent) = restartDelay
  <2>1. reportingRoundId + 1 - restartDelay \in Int /\ reportingRoundId \in Int
    BY <1>1
  <2>2. /\ IsFiniteSet(recent)
        /\ Cardinality(recent) = IF reportingRoundId + 1 - restartDelay > reportingRoundId THEN 0
                                 ELSE reportingRoundId - (reportingRoundId + 1 - restartDelay) + 1
    BY <2>1, FS_Interval
  <2> QED BY <1>1, <2>2
<1>5. Cardinality(recent) < Cardinality(oracleAddresses)
  BY <1>1, <1>3, <1>4, FS_CardinalityType DEF StartersInv
<1>6. f \in [oracleAddresses -> recent]
  BY <1>2
<1>7. PICK o, p \in oracleAddresses : o # p /\ f[o] = f[p]
  <2> HIDE DEF f, recent
  <2> QED BY <1>3, <1>4, <1>5, <1>6, FS_PigeonHole
<1> QED BY <1>1, <1>2, <1>7 DEF StartersInv

LEMMA SomeoneIsFree ==
  ASSUME StartersInv
  PROVE  SomeoneMayStart
  BY NotAllWait DEF SomeoneMayStart, StartersInv, OracleInStep

LEMMA InitStarters ==
  ASSUME Init
  PROVE  StartersInv
  BY InitRounds DEF Init, StartersInv, OracleInStep

LEMMA SubmitKeepsStarters ==
  ASSUME StartersInv, NEW o \in Oracles, NEW r \in Rounds, NEW value \in Answers,
         Submit(o, r, value)
  PROVE  StartersInv'
<1>1. RoundsInv'
  BY SubmitKeepsRounds DEF StartersInv
<1>2. /\ ValidOracleRound(o, r) /\ DetailsFor(o, r)[r].maxSubmissions # 0
      /\ reportingRoundId' = LastFor(o, r)
      /\ UNCHANGED <<parameters, oracleAddresses>>
  BY DEF Submit, DetailsFor, LastFor
<1>3. r \in Nat /\ r <= reportingRoundId'
  BY <1>2, SubmissionFindsOrder, RoundsAreNumbers DEF StartersInv
<1>4. /\ reportingRoundId \in Nat /\ reportingRoundId' \in Nat
      /\ OracleStarts(o, r) => r = reportingRoundId + 1
      /\ reportingRoundId' = IF OracleStarts(o, r) THEN r ELSE reportingRoundId
  BY <1>1, <1>2, RoundsAreNumbers
  DEF StartersInv, RoundsInv, AllInOrder, LastFor, OracleStarts, NewRound
<1>5. /\ DOMAIN oracles' = Oracles
      /\ \A p \in Oracles : p # o => oracles'[p] = oracles[p]
      /\ DOMAIN oracles'[o] = DOMAIN oracles[o]
      /\ oracles'[o].startingRound = oracles[o].startingRound
      /\ oracles'[o].lastReportedRound = r
      /\ oracles'[o].lastStartedRound =
           IF OracleStarts(o, r) THEN r ELSE oracles[o].lastStartedRound
  BY DEF Submit, StartersInv, OracleInStep
<1>6. \A p \in Oracles : OracleInStep(p)'
  BY <1>3, <1>4, <1>5 DEF StartersInv, OracleInStep
<1>7. \A p, q \in Oracles :
        p # q /\ oracles'[p].lastStartedRound = oracles'[q].lastStartedRound =>
          oracles'[p].lastStartedRound = 0
  BY <1>4, <1>5 DEF StartersInv, OracleInStep
<1> QED BY <1>1, <1>2, <1>5, <1>6, <1>7 DEF StartersInv, parameters

\* The delay that is set is below the number of oracles there are then.
LEMMA FittingDelay ==
  ASSUME NEW S \in SUBSET Oracles, NEW payment, NEW min, NEW max,
         NEW delay \in RestartDelays, ParametersFit(payment, min, max, delay, Cardinality(S))
  PROVE  delay \in Nat /\ (S # {} => Cardinality(S) > delay)
<1>1. IsFiniteSet(S)
  BY OraclesAssumption, FS_Subset
<1>2. S # {} => Cardinality(S) # 0
  BY <1>1, FS_EmptySet
<1> QED BY <1>2, AmountsAssumption DEF ParametersFit

LEMMA ChangeKeepsStarters ==
  ASSUME StartersInv, NEW removed \in SUBSET Oracles, NEW added \in SUBSET Oracles,
         NEW min, NEW max, NEW delay \in RestartDelays,
         ChangeOracles(removed, added, min, max, delay)
  PROVE  StartersInv'
<1> DEFINE S == (oracleAddresses \ removed) \cup added
<1>1. /\ S \in SUBSET Oracles /\ oracleAddresses' = S
      /\ ParametersFit(paymentAmount, min, max, delay, Cardinality(S)) /\ restartDelay' = delay
      /\ UNCHANGED <<now, roundVars>>
  BY DEF ChangeOracles, StartersInv
<1> HIDE DEF S
<1>2. restartDelay' \in Nat /\ (oracleAddresses' # {} => Cardinality(oracleAddresses') > restartDelay')
  BY <1>1, FittingDelay
<1>3. RoundsInv'
  BY <1>1, OthersKeepRounds DEF StartersInv
<1>4. reportingRoundId \in Nat /\ reportingRoundId' = reportingRoundId
  BY <1>1, RoundsAreNumbers DEF roundVars, StartersInv, RoundsInv, AllInOrder
<1>5. ASSUME NEW o \in Oracles
      PROVE  /\ oracles'[o].lastStartedRound = oracles[o].lastStartedRound
             /\ OracleInStep(o)'
  <2>1. oracles'[o] = ChangedOracle(o, removed, added)
    BY DEF ChangeOracles
  <2>2. /\ DOMAIN oracles'[o] = DOMAIN oracles[o]
        /\ oracles'[o].lastStartedRound = oracles[o].lastStartedRound
        /\ oracles'[o].lastReportedRound = oracles[o].lastReportedRound
        /\ \/ oracles'[o].startingRound = oracles[o].startingRound
           \/ oracles'[o].startingRound \in {reportingRoundId, reportingRoundId + 1}
    BY <2>1 DEF ChangedOracle, StartingRound, StartersInv, OracleInStep
  <2> QED BY <1>4, <2>2 DEF StartersInv, OracleInStep
<1>6. DOMAIN oracles' = Oracles
  BY DEF ChangeOracles
<1> QED BY <1>1, <1>2, <1>3, <1>5, <1>6 DEF StartersInv

LEMMA StepKeepsStarters ==
  ASSUME StartersInv, [Next]_vars
  PROVE  StartersInv'
<1>0. RoundsInv'
  BY StepKeepsRounds DEF StartersInv
<1>1. ASSUME NEW o \in Oracles, NEW r \in Rounds, NEW value \in Answers, Submit(o, r, value)
      PROVE  StartersInv'
  BY <1>1, SubmitKeepsStarters
<1>2. ASSUME NEW q \in Requesters, RequestNewRound(q)
      PROVE  StartersInv'
  <2>1. /\ reportingRoundId' = reportingRoundId + 1 /\ reportingRoundId \in Nat
        /\ UNCHANGED <<parameters, oracleAddresses, oracles>>
    BY <1>2, RoundsAreNumbers DEF RequestNewRound, StartersInv, RoundsInv, AllInOrder
  <2>2. \A o \in Oracles : OracleInStep(o)'
    BY <2>1 DEF StartersInv, OracleInStep
  <2> QED BY <1>0, <2>1, <2>2 DEF StartersInv, parameters
<1>3. ASSUME NEW min \in Counts, NEW max \in Counts, NEW delay \in RestartDelays,
             NEW payment \in Payments, NEW to \in Timeouts,
             UpdateFutureRounds(payment, min, max, delay, to)
      PROVE  StartersInv'
  <2>1. delay \in Nat /\ (oracleAddresses # {} => Cardinality(oracleAddresses) > delay)
    BY <1>3, FittingDelay DEF UpdateFutureRounds, StartersInv
  <2>2. UNCHANGED <<oracleAddresses, oracles, reportingRoundId>> /\ restartDelay' = delay
    BY <1>3 DEF UpdateFutureRounds, roundVars
  <2> QED BY <1>0, <2>1, <2>2 DEF StartersInv, OracleInStep
<1>4. ASSUME NEW min \in Counts, NEW max \in Counts, NEW delay \in RestartDelays,
             NEW removed \in SUBSET Oracles, NEW added \in SUBSET Oracles,
             ChangeOracles(removed, added, min, max, delay)
      PROVE  StartersInv'
  BY <1>4, ChangeKeepsStarters
<1>5. ASSUME NEW o \in Oracles, NEW amount \in Moves, WithdrawPayment(o, amount)
      PROVE  StartersInv'
  <2>1. /\ DOMAIN oracles' = Oracles
        /\ \A p \in Oracles :
             /\ DOMAIN oracles'[p] = DOMAIN oracles[p]
             /\ oracles'[p].startingRound = oracles[p].startingRound
             /\ oracles'[p].lastReportedRound = oracles[p].lastReportedRound
             /\ oracles'[p].lastStartedRound = oracles[p].lastStartedRound
        /\ UNCHANGED <<parameters, roundVars, oracleAddresses>>
    BY <1>5 DEF WithdrawPayment, StartersInv, OracleInStep
  <2>2. \A p \in Oracles : OracleInStep(p)'
    BY <2>1 DEF StartersInv, OracleInStep, roundVars
  <2> QED BY <1>0, <2>1, <2>2 DEF StartersInv, parameters, roundVars
<1>6. CASE UNCHANGED <<reportingRoundId, restartDelay, oracleAddresses, oracles>>
  BY <1>0, <1>6 DEF StartersInv, OracleInStep
<1>7. ASSUME \/ \E q \in Requesters, authorized \in BOOLEAN, delay \in RequesterDelays :
                  SetRequesterPermissions(q, authorized, delay)
             \/ UpdateAvailableFunds
             \/ \E amount \in Moves : ReceiveLink(amount) \/ WithdrawFunds(amount)
             \/ Tick
             \/ UNCHANGED vars
      PROVE  UNCHANGED <<reportingRoundId, restartDelay, oracleAddresses, oracles>>
  BY <1>7 DEF SetRequesterPermissions, UpdateAvailableFunds, ReceiveLink, WithdrawFunds, Tick,
              vars, parameters, roundVars
<1> QED BY <1>1, <1>2, <1>3, <1>4, <1>5, <1>6, <1>7 DEF Next

\* However oracles, requesters and the delay change, once a round is over some
\* enabled oracle may begin the next: restartDelay never bars them all.
THEOREM SomeoneCanAlwaysStart == Spec => []SomeoneMayStart
<1>1. Init => StartersInv
  BY InitStarters
<1>2. StartersInv /\ [Next]_vars => StartersInv'
  BY StepKeepsStarters
<1>3. StartersInv => SomeoneMayStart
  BY SomeoneIsFree
<1> QED BY <1>1, <1>2, <1>3, PTL DEF Spec

-----------------------------------------------------------------------------
Reported(r) == {o \in Oracles : oracles[o].lastReportedRound >= r}

\* Round r has no more submissions than there are oracles that have reported to
\* it, and its answer is not from a later round.
VotesInOrder(R, D, last, r) ==
  /\ DOMAIN D[r] = {"submissions", "maxSubmissions", "minSubmissions", "timeout",
                    "paymentAmount"}
  /\ D[r].submissions \in Seq(Answers) /\ D[r].minSubmissions \in Nat
  /\ R[r].answeredInRound \in Nat /\ R[r].answeredInRound <= r
  /\ r > last \/ r = 0 => R[r].startedAt = 0
  /\ Len(D[r].submissions) <= Cardinality(Reported(r))

VotesInv ==
  /\ StartersInv
  /\ minSubmissionCount \in Nat
  /\ \A r \in Rounds : VotesInOrder(rounds, details, reportingRoundId, r)

\* What AnswersNeedOracles says of a step.
AnswersBacked ==
  \A r \in 1 .. MaxRound :
    rounds[r].answeredInRound # r /\ rounds'[r].answeredInRound = r =>
      Cardinality({o \in Oracles : oracles'[o].lastReportedRound >= r}) >=
        (IF rounds[r].startedAt > 0 THEN details[r].minSubmissions ELSE minSubmissionCount)

LEMMA ReportedIsFinite ==
  ASSUME NEW r
  PROVE  IsFiniteSet(Reported(r)) /\ Cardinality(Reported(r)) \in Nat
  BY OraclesAssumption, FS_Subset, FS_CardinalityType DEF Reported

LEMMA StartingKeepsVotes ==
  ASSUME VotesInv, NEW r \in Rounds, r = reportingRoundId + 1
  PROVE  /\ \A q \in Rounds : VotesInOrder(StartedRounds(r), StartedDetails(r), r, q)
         /\ StartedDetails(r)[r].minSubmissions = minSubmissionCount
         /\ rounds[r].startedAt = 0
         /\ StartedRounds(r)[r].answeredInRound = rounds[r].answeredInRound
         /\ StartedRounds(r)[r - 1].answeredInRound = r - 1 =>
              rounds[r - 1].answeredInRound = r - 1
<1> DEFINE p == r - 1
           R == ClosedRounds(p)
           D == ClosedDetails(p)
<1>1. /\ p \in Rounds /\ p = reportingRoundId /\ r \in Nat /\ p \in Nat /\ p # r
      /\ now \in Nat /\ minSubmissionCount \in Nat
      /\ DOMAIN rounds = Rounds /\ DOMAIN details = Rounds
  BY RoundsAreNumbers DEF VotesInv, StartersInv, RoundsInv, AllInOrder
<1>2. \A q \in Rounds : /\ InOrder(rounds, details, p, q) /\ q \in Nat
                         /\ VotesInOrder(rounds, details, p, q)
                         /\ Cardinality(Reported(q)) \in Nat
  BY <1>1, RoundsAreNumbers, ReportedIsFinite DEF VotesInv, StartersInv, RoundsInv, AllInOrder
<1>3. DOMAIN R = Rounds /\ \A q \in Rounds : q # p => R[q] = rounds[q]
  BY <1>1 DEF ClosedRounds
<1>4. DOMAIN D = Rounds /\ \A q \in Rounds : q # p => D[q] = details[q]
  BY <1>1 DEF ClosedDetails
<1>5. /\ DOMAIN R[p] = DOMAIN rounds[p]
      /\ R[p].startedAt = rounds[p].startedAt
      /\ R[p].answeredInRound = IF TimedOut(p) THEN rounds[p - 1].answeredInRound
                                ELSE rounds[p].answeredInRound
  BY <1>1, <1>2 DEF ClosedRounds, InOrder
<1>6. D[p] = details[p] \/ D[p] = NoDetails
  BY <1>1 DEF ClosedDetails
<1> HIDE DEF R, D
<1>7. TimedOut(p) => p - 1 \in Rounds /\ p - 1 \in Nat
  <2>1. ASSUME p = 0 PROVE rounds[p].startedAt = 0
    <3>1. VotesInOrder(rounds, details, p, p)
      BY <1>1, <1>2
    <3> QED BY <2>1, <3>1 DEF VotesInOrder
  <2>2. p # 0 => p - 1 \in Rounds /\ p - 1 \in Nat
    BY <1>1, RoundsAssumption DEF Rounds
  <2>3. CASE p = 0
    BY <2>1, <2>3 DEF TimedOut
  <2> QED BY <2>2, <2>3
<1>8. /\ R[p].answeredInRound \in Nat /\ R[p].answeredInRound <= p
      /\ R[p].answeredInRound = p => rounds[p].answeredInRound = p
  <2>1. CASE TimedOut(p)
    BY <2>1, <1>1, <1>2, <1>5, <1>7 DEF VotesInOrder
  <2>2. CASE ~TimedOut(p)
    BY <2>2, <1>1, <1>2, <1>5 DEF VotesInOrder
  <2> QED BY <2>1, <2>2
<1>9. ASSUME NEW q \in Rounds PROVE VotesInOrder(R, D, p, q)
  <2>1. CASE q = p /\ D[p] = NoDetails
    <3>1. /\ DOMAIN D[p] = {"submissions", "maxSubmissions", "minSubmissions", "timeout",
                            "paymentAmount"}
          /\ D[p].submissions = <<>> /\ D[p].minSubmissions = 0
      BY <2>1 DEF NoDetails
    <3>2. Len(D[p].submissions) = 0 /\ D[p].submissions \in Seq(Answers)
      BY <3>1
    <3> QED BY <2>1, <3>1, <3>2, <1>1, <1>2, <1>5, <1>8 DEF VotesInOrder
  <2>2. CASE q = p /\ D[p] = details[p]
    BY <2>2, <1>1, <1>2, <1>5, <1>8 DEF VotesInOrder
  <2>3. CASE q # p
    BY <2>3, <1>2, <1>3, <1>4 DEF VotesInOrder
  <2> QED BY <2>1, <2>2, <2>3, <1>6
<1>10. /\ \A q \in Rounds : q # r => /\ StartedRounds(r)[q] = R[q]
                                     /\ StartedDetails(r)[q] = D[q]
       /\ StartedDetails(r)[r] = NewDetails
  BY <1>3, <1>4 DEF StartedRounds, StartedDetails, R, D
<1>11. /\ R[r] = rounds[r] /\ rounds[r].startedAt = 0
       /\ StartedRounds(r)[r].answeredInRound = rounds[r].answeredInRound
  BY <1>1, <1>2, <1>3 DEF StartedRounds, InOrder, VotesInOrder, R
<1>12. /\ DOMAIN NewDetails = {"submissions", "maxSubmissions", "minSubmissions", "timeout",
                               "paymentAmount"}
       /\ NewDetails.submissions = <<>> /\ NewDetails.minSubmissions = minSubmissionCount
  BY DEF NewDetails
<1>13. NewDetails.submissions \in Seq(Answers) /\ Len(NewDetails.submissions) = 0
  BY <1>12
<1>14. ASSUME NEW q \in Rounds PROVE VotesInOrder(StartedRounds(r), StartedDetails(r), r, q)
  <2>1. CASE q = r
    <3>1. VotesInOrder(rounds, details, p, r) /\ Cardinality(Reported(r)) \in Nat
      BY <1>2
    <3>2. /\ StartedRounds(r)[r].answeredInRound \in Nat
          /\ StartedRounds(r)[r].answeredInRound <= r
      BY <3>1, <1>11 DEF VotesInOrder
    <3>3. ~(r > r \/ r = 0)
      BY <1>1
    <3>4. Len(StartedDetails(r)[r].submissions) <= Cardinality(Reported(r))
      BY <3>1, <1>10, <1>13
    <3>5. /\ DOMAIN StartedDetails(r)[r] = {"submissions", "maxSubmissions", "minSubmissions",
                                            "timeout", "paymentAmount"}
          /\ StartedDetails(r)[r].submissions \in Seq(Answers)
          /\ StartedDetails(r)[r].minSubmissions \in Nat
      BY <1>1, <1>10, <1>12, <1>13
    <3>6. VotesInOrder(StartedRounds(r), StartedDetails(r), r, r)
      BY <3>2, <3>3, <3>4, <3>5 DEF VotesInOrder
    <3> QED BY <2>1, <3>6
  <2>2. CASE q # r
    <3>1. StartedRounds(r)[q] = R[q] /\ StartedDetails(r)[q] = D[q] /\ VotesInOrder(R, D, p, q)
      BY <2>2, <1>9, <1>10
    <3>2. q > r => q > p
      BY <1>1, <1>2
    <3> QED BY <3>1, <3>2 DEF VotesInOrder
  <2> QED BY <2>1, <2>2
<1> QED BY <1>1, <1>8, <1>10, <1>11, <1>12, <1>14

\* A submission adds the oracle to those that have reported to the round.
LEMMA SubmissionIsReported ==
  ASSUME StartersInv, NEW o \in Oracles, NEW r \in Rounds, NEW value \in Answers,
         Submit(o, r, value)
  PROVE  /\ \A q \in Rounds : Cardinality(Reported(q)) <= Cardinality(Reported(q)')
         /\ Cardinality(Reported(r)') = Cardinality(Reported(r)) + 1
<1>1. /\ oracles[o].lastReportedRound < r /\ r \in Nat
      /\ DOMAIN oracles = Oracles
      /\ \A p \in Oracles : oracles[p].lastReportedRound \in Nat
  BY RoundsAreNumbers DEF Submit, ValidOracleRound, StartersInv, OracleInStep
<1>2. /\ \A p \in Oracles : p # o => oracles'[p] = oracles[p]
      /\ oracles'[o].lastReportedRound = r
  BY DEF Submit, StartersInv, OracleInStep
<1>3. ASSUME NEW q \in Rounds PROVE Cardinality(Reported(q)) <= Cardinality(Reported(q)')
  <2>1. Reported(q) \subseteq Reported(q)'
    <3> SUFFICES ASSUME NEW p \in Oracles, oracles[p].lastReportedRound >= q
                 PROVE  oracles'[p].lastReportedRound >= q
      BY DEF Reported
    <3>1. q \in Nat
      BY RoundsAreNumbers
    <3> QED BY <3>1, <1>1, <1>2
  <2>2. IsFiniteSet(Reported(q)')
    BY OraclesAssumption, FS_Subset DEF Reported
  <2> QED BY <2>1, <2>2, FS_Subset
<1>4. Reported(r)' = Reported(r) \cup {o} /\ o \notin Reported(r)
  BY <1>1, <1>2 DEF Reported
<1>5. Cardinality(Reported(r)') = Cardinality(Reported(r)) + 1
  BY <1>4, ReportedIsFinite, FS_AddElement
<1> QED BY <1>3, <1>5

LEMMA SubmitKeepsVotes ==
  ASSUME VotesInv, NEW o \in Oracles, NEW r \in Rounds, NEW value \in Answers,
         Submit(o, r, value)
  PROVE  VotesInv' /\ AnswersBacked
<1> DEFINE R == RoundsFor(o, r)
           D == DetailsFor(o, r)
           last == LastFor(o, r)
           votes == Append(D[r].submissions, value)
           answered == EnoughVotes(votes, D[r].minSubmissions)
<1>1. /\ ValidOracleRound(o, r)
      /\ D[r].maxSubmissions # 0
      /\ reportingRoundId' = last
      /\ rounds' = IF answered
                   THEN [R EXCEPT ![r].answer = Median(votes), ![r].updatedAt = now,
                                  ![r].answeredInRound = r]
                   ELSE R
      /\ details' = [D EXCEPT ![r] = IF Len(votes) >= @.maxSubmissions THEN NoDetails
                                     ELSE [@ EXCEPT !.submissions = votes]]
      /\ UNCHANGED parameters
  BY DEF Submit, RoundsFor, DetailsFor, LastFor
<1>2. /\ AllInOrder(R, D, last) /\ 0 < r /\ r <= last
  BY <1>1, SubmissionFindsOrder DEF VotesInv, StartersInv
<1>3. /\ \A q \in Rounds : VotesInOrder(R, D, last, q)
      /\ D[r].minSubmissions = IF rounds[r].startedAt > 0 THEN details[r].minSubmissions
                               ELSE minSubmissionCount
      /\ \A q \in Rounds : R[q].answeredInRound = q => rounds[q].answeredInRound = q
  <2>1. CASE OracleStarts(o, r)
    <3>1. r = reportingRoundId + 1 /\ R = StartedRounds(r) /\ D = StartedDetails(r) /\ last = r
      BY <2>1 DEF OracleStarts, NewRound, RoundsFor, DetailsFor, LastFor
    <3>2. \A q \in Rounds : q # r /\ q # r - 1 => StartedRounds(r)[q] = rounds[q]
      <4>1. DOMAIN rounds = Rounds
        BY DEF VotesInv, StartersInv, RoundsInv, AllInOrder
      <4> QED BY <4>1 DEF StartedRounds, ClosedRounds
    <3> QED BY <3>1, <3>2, StartingKeepsVotes
  <2>2. CASE ~OracleStarts(o, r)
    <3>1. R = rounds /\ D = details /\ last = reportingRoundId
      BY <2>2 DEF RoundsFor, DetailsFor, LastFor
    <3>2. rounds[r].startedAt > 0
      BY <3>1, <1>2 DEF VotesInv, StartersInv, RoundsInv, AllInOrder, InOrder
    <3> QED BY <3>1, <3>2 DEF VotesInv
  <2> QED BY <2>1, <2>2
<1> HIDE DEF R, D, last, votes, answered
<1>4. StartersInv'
  BY SubmitKeepsStarters DEF VotesInv
<1>5. /\ \A q \in Rounds : q \in Nat /\ Cardinality(Reported(q)) \in Nat
                           /\ Cardinality(Reported(q)') \in Nat
      /\ \A q \in Rounds : Cardinality(Reported(q)) <= Cardinality(Reported(q)')
      /\ Cardinality(Reported(r)') = Cardinality(Reported(r)) + 1
  <2>1. ASSUME NEW q \in Rounds PROVE Cardinality(Reported(q)') \in Nat
    BY OraclesAssumption, FS_Subset, FS_CardinalityType DEF Reported
  <2> QED BY <2>1, RoundsAreNumbers, ReportedIsFinite, SubmissionIsReported DEF VotesInv
<1>6. /\ votes \in Seq(Answers) /\ Len(votes) \in Nat
      /\ Len(votes) = Len(D[r].submissions) + 1
      /\ Len(votes) <= Cardinality(Reported(r)')
  <2>1. votes \in Seq(Answers) /\ Len(votes) = Len(D[r].submissions) + 1 /\ Len(votes) \in Nat
    BY <1>3 DEF VotesInOrder, votes
  <2>2. Len(D[r].submissions) \in Nat /\ Len(D[r].submissions) <= Cardinality(Reported(r))
    BY <1>3 DEF VotesInOrder
  <2> QED BY <1>5, <2>1, <2>2
<1>7. /\ \A q \in Rounds : q # r => rounds'[q] = R[q] /\ details'[q] = D[q]
      /\ rounds'[r].startedAt = R[r].startedAt
      /\ rounds'[r].answeredInRound = IF answered THEN r ELSE R[r].answeredInRound
      /\ details'[r] = IF Len(votes) >= D[r].maxSubmissions THEN NoDetails
                       ELSE [D[r] EXCEPT !.submissions = votes]
  BY <1>1, <1>2 DEF AllInOrder, InOrder
<1>8. /\ DOMAIN details'[r] = {"submissions", "maxSubmissions", "minSubmissions", "timeout",
                               "paymentAmount"}
      /\ details'[r].submissions \in Seq(Answers) /\ details'[r].minSubmissions \in Nat
      /\ Len(details'[r].submissions) <= Cardinality(Reported(r)')
  <2>1. CASE Len(votes) >= D[r].maxSubmissions
    <3>1. /\ details'[r] = NoDetails /\ NoDetails.submissions = <<>>
          /\ NoDetails.minSubmissions = 0
          /\ DOMAIN NoDetails = {"submissions", "maxSubmissions", "minSubmissions", "timeout",
                                 "paymentAmount"}
      BY <2>1, <1>7 DEF NoDetails
    <3>2. Len(NoDetails.submissions) = 0 /\ NoDetails.submissions \in Seq(Answers)
      BY <3>1
    <3> QED BY <3>1, <3>2, <1>5
  <2>2. CASE ~(Len(votes) >= D[r].maxSubmissions)
    <3>1. details'[r] = [D[r] EXCEPT !.submissions = votes]
      BY <2>2, <1>7
    <3>2. /\ DOMAIN D[r] = {"submissions", "maxSubmissions", "minSubmissions", "timeout",
                            "paymentAmount"}
          /\ D[r].minSubmissions \in Nat
      BY <1>3 DEF VotesInOrder
    <3> QED BY <3>1, <3>2, <1>6
  <2> QED BY <2>1, <2>2
<1>9. ASSUME NEW q \in Rounds PROVE VotesInOrder(rounds, details, reportingRoundId, q)'
  <2>1. CASE q = r
    BY <2>1, <1>1, <1>2, <1>3, <1>5, <1>7, <1>8 DEF VotesInOrder
  <2>2. CASE q # r
    <3>1. /\ rounds'[q] = R[q] /\ details'[q] = D[q]
          /\ Len(D[q].submissions) \in Nat
          /\ Cardinality(Reported(q)) <= Cardinality(Reported(q)')
          /\ Cardinality(Reported(q)) \in Nat /\ Cardinality(Reported(q)') \in Nat
      BY <2>2, <1>3, <1>5, <1>7 DEF VotesInOrder
    <3> QED BY <3>1, <1>1, <1>3 DEF VotesInOrder
  <2> QED BY <2>1, <2>2
<1>10. AnswersBacked
  <2> SUFFICES ASSUME NEW q \in 1 .. MaxRound,
                      rounds[q].answeredInRound # q, rounds'[q].answeredInRound = q
               PROVE  Cardinality(Reported(q)') >=
                        (IF rounds[q].startedAt > 0 THEN details[q].minSubmissions
                         ELSE minSubmissionCount)
    BY DEF AnswersBacked, Reported
  <2>1. q \in Rounds
    BY RoundsAssumption DEF Rounds
  <2>2. q = r /\ answered
    BY <2>1, <1>3, <1>7
  <2>3. Len(votes) >= D[r].minSubmissions /\ D[r].minSubmissions \in Nat
    BY <2>2, <1>3 DEF answered, EnoughVotes, VotesInOrder
  <2> QED BY <2>2, <2>3, <1>3, <1>5, <1>6
<1> QED BY <1>1, <1>4, <1>9, <1>10 DEF VotesInv, parameters

LEMMA RequestKeepsVotes ==
  ASSUME VotesInv, StartersInv', NEW q \in Requesters, RequestNewRound(q)
  PROVE  VotesInv' /\ AnswersBacked
<1> DEFINE r == reportingRoundId + 1
<1>1. /\ r \in Rounds /\ reportingRoundId' = r /\ rounds' = StartedRounds(r)
      /\ details' = StartedDetails(r)
      /\ UNCHANGED <<parameters, oracles>>
  BY DEF RequestNewRound
<1>2. /\ \A p \in Rounds : VotesInOrder(StartedRounds(r), StartedDetails(r), r, p)
      /\ StartedRounds(r)[r].answeredInRound = rounds[r].answeredInRound
      /\ StartedRounds(r)[r - 1].answeredInRound = r - 1 => rounds[r - 1].answeredInRound = r - 1
  BY <1>1, StartingKeepsVotes
<1>3. \A p \in Rounds : VotesInOrder(rounds, details, reportingRoundId, p)'
  BY <1>1, <1>2 DEF VotesInOrder, Reported
<1>4. \A p \in Rounds : p # r /\ p # r - 1 => StartedRounds(r)[p] = rounds[p]
  BY DEF StartedRounds, ClosedRounds, VotesInv, StartersInv, RoundsInv, AllInOrder
<1>5. \A p \in 1 .. MaxRound : rounds'[p].answeredInRound = p => rounds[p].answeredInRound = p
  <2> SUFFICES ASSUME NEW p \in 1 .. MaxRound, rounds'[p].answeredInRound = p
               PROVE  rounds[p].answeredInRound = p
    OBVIOUS
  <2>1. p \in Rounds
    BY RoundsAssumption DEF Rounds
  <2> QED BY <2>1, <1>1, <1>2, <1>4
<1> QED BY <1>1, <1>3, <1>5 DEF VotesInv, AnswersBacked, parameters

LEMMA StepKeepsVotes ==
  ASSUME VotesInv, [Next]_vars
  PROVE  VotesInv' /\ AnswersBacked
<1>0. StartersInv'
  BY StepKeepsStarters DEF VotesInv
<1>1. ASSUME NEW o \in Oracles, NEW r \in Rounds, NEW value \in Answers, Submit(o, r, value)
      PROVE  VotesInv' /\ AnswersBacked
  BY <1>1, SubmitKeepsVotes
<1>2. ASSUME NEW q \in Requesters, RequestNewRound(q)
      PROVE  VotesInv' /\ AnswersBacked
  BY <1>0, <1>2, RequestKeepsVotes
<1>3. ASSUME UNCHANGED roundVars, minSubmissionCount' \in Nat,
             \A o \in Oracles : oracles'[o].lastReportedRound = oracles[o].lastReportedRound
      PROVE  VotesInv' /\ AnswersBacked
  <2>1. \A r \in Rounds : Reported(r)' = Reported(r)
    BY <1>3 DEF Reported
  <2>2. \A r \in Rounds : VotesInOrder(rounds, details, reportingRoundId, r)'
    BY <1>3, <2>1 DEF VotesInv, VotesInOrder, roundVars
  <2> QED BY <1>0, <1>3, <2>2 DEF VotesInv, AnswersBacked, roundVars
<1>4. ASSUME NEW min \in Counts, NEW max \in Counts, NEW delay \in RestartDelays,
             \/ \E payment \in Payments, to \in Timeouts :
                  UpdateFutureRounds(payment, min, max, delay, to)
             \/ \E removed, added \in SUBSET Oracles :
                  ChangeOracles(removed, added, min, max, delay)
      PROVE  VotesInv' /\ AnswersBacked
  <2>1. UNCHANGED roundVars /\ minSubmissionCount' = min
    BY <1>4 DEF UpdateFutureRounds, ChangeOracles
  <2> min \in Nat
    BY OraclesAssumption, FS_CardinalityType DEF Counts
  <2>2. ASSUME NEW o \in Oracles
        PROVE  oracles'[o].lastReportedRound = oracles[o].lastReportedRound
    <3>1. ASSUME NEW removed \in SUBSET Oracles, NEW added \in SUBSET Oracles,
                 ChangeOracles(removed, added, min, max, delay)
          PROVE  oracles'[o].lastReportedRound = oracles[o].lastReportedRound
      <4>1. oracles'[o] = ChangedOracle(o, removed, added)
        BY <3>1 DEF ChangeOracles
      <4> QED BY <4>1 DEF ChangedOracle, VotesInv, StartersInv, OracleInStep
    <3> QED BY <1>4, <3>1 DEF UpdateFutureRounds
  <2> QED BY <2>1, <2>2, <1>3
<1>5. ASSUME NEW o \in Oracles, NEW amount \in Moves, WithdrawPayment(o, amount)
      PROVE  VotesInv' /\ AnswersBacked
  BY <1>3, <1>5 DEF WithdrawPayment, VotesInv, StartersInv, OracleInStep, parameters
<1>6. ASSUME \/ \E q \in Requesters, authorized \in BOOLEAN, delay \in RequesterDelays :
                  SetRequesterPermissions(q, authorized, delay)
             \/ UpdateAvailableFunds
             \/ \E amount \in Moves : ReceiveLink(amount) \/ WithdrawFunds(amount)
             \/ Tick
             \/ UNCHANGED vars
      PROVE  VotesInv' /\ AnswersBacked
  <2>1. UNCHANGED <<roundVars, oracles, parameters>>
    BY <1>6 DEF SetRequesterPermissions, UpdateAvailableFunds, ReceiveLink, WithdrawFunds, Tick,
                vars
  <2> QED BY <1>3, <2>1 DEF VotesInv, parameters
<1> QED BY <1>1, <1>2, <1>4, <1>5, <1>6 DEF Next

LEMMA InitVotes ==
  ASSUME Init
  PROVE  VotesInv
<1>1. \A r \in Rounds : r \in Nat /\ Cardinality(Reported(r)) \in Nat
  BY RoundsAreNumbers, ReportedIsFinite
<1>2. /\ DOMAIN NoDetails = {"submissions", "maxSubmissions", "minSubmissions", "timeout",
                             "paymentAmount"}
      /\ NoDetails.submissions = <<>> /\ NoDetails.minSubmissions = 0
  BY DEF NoDetails
<1>3. Len(NoDetails.submissions) = 0 /\ NoDetails.submissions \in Seq(Answers)
  BY <1>2
<1>4. ASSUME NEW r \in Rounds PROVE VotesInOrder(rounds, details, reportingRoundId, r)
  <2>1. details[r] = NoDetails /\ rounds[r].startedAt = 0 /\ rounds[r].answeredInRound = 0
    BY DEF Init
  <2> QED BY <2>1, <1>1, <1>2, <1>3 DEF VotesInOrder
<1> QED BY <1>4, InitStarters DEF VotesInv, Init

\* An answer is backed by as many different oracles as were asked for when its
\* round began: no oracle counts twice, removed, added again or late.
THEOREM AnswersHaveOracles == Spec => AnswersNeedOracles
<1>1. Init => VotesInv
  BY InitVotes
<1>2. VotesInv /\ [Next]_vars =>
        VotesInv' /\
        [\A r \in 1 .. MaxRound :
           rounds[r].answeredInRound # r /\ rounds'[r].answeredInRound = r =>
             Cardinality({o \in Oracles : oracles'[o].lastReportedRound >= r}) >=
               (IF rounds[r].startedAt > 0 THEN details[r].minSubmissions
                ELSE minSubmissionCount)]_vars
  BY StepKeepsVotes DEF AnswersBacked
<1> QED BY <1>1, <1>2, PTL DEF Spec, AnswersNeedOracles

-----------------------------------------------------------------------------
(* Funds. *)

\* What each oracle can withdraw.
Owed == [o \in Oracles |-> oracles[o].withdrawable]

FundsInv ==
  /\ VotesInv
  /\ paymentAmount \in Nat /\ \A r \in Rounds : details[r].paymentAmount \in Nat
  /\ \A o \in Oracles : oracles[o].withdrawable \in Nat
  /\ available \in Nat /\ allocated \in Nat /\ link \in Nat
  /\ available + allocated <= link
  /\ allocated = SumFunctionOnSet(Owed, Oracles)

LEMMA FundsAreSolvent == FundsInv => Solvent
  BY DEF FundsInv, Solvent, Owed, SumFunctionOnSet

LEMMA InitFunds ==
  ASSUME Init
  PROVE  FundsInv
<1>1. VotesInv
  BY InitVotes
<1>2. /\ \A o \in Oracles : oracles[o].withdrawable = 0
      /\ \A r \in Rounds : details[r].paymentAmount = 0
      /\ paymentAmount \in Nat /\ available = 0 /\ allocated = 0 /\ link = 0
  BY AmountsAssumption DEF Init, NoDetails
<1>3. {} \in SUBSET Oracles /\ \A o \in Oracles : Owed[o] \in Int /\ Owed[o] = 0
  BY <1>2 DEF Owed
<1>4. SumFunctionOnSet(Owed, Oracles) = SumFunctionOnSet(Owed, {})
  BY <1>3, OraclesAssumption, SumSupport
<1>5. SumFunctionOnSet(Owed, {}) = 0
  BY FS_EmptySet, SumEquation
<1> QED BY <1>1, <1>2, <1>4, <1>5 DEF FundsInv

\* What the oracles are owed together changes by what one of them is.
LEMMA OwedChanges ==
  ASSUME FundsInv, NEW o \in Oracles, NEW d \in Int,
         oracles'[o].withdrawable = oracles[o].withdrawable + d,
         \A p \in Oracles : p # o => oracles'[p].withdrawable = oracles[p].withdrawable
  PROVE  SumFunctionOnSet(Owed', Oracles) = allocated + d
<1>1. Owed \in [Oracles -> Int]
  BY DEF FundsInv, Owed
<1>2. Owed' = [Owed EXCEPT ![o] = @ + d]
  BY DEF Owed
<1>3. SumFunctionOnSet([Owed EXCEPT ![o] = @ + d], Oracles)
        = SumFunctionOnSet(Owed, Oracles) + d
  BY <1>1, OraclesAssumption, SumUpdate
<1> QED BY <1>2, <1>3 DEF FundsInv

LEMMA OwedStays ==
  ASSUME FundsInv, \A o \in Oracles : oracles'[o].withdrawable = oracles[o].withdrawable
  PROVE  SumFunctionOnSet(Owed', Oracles) = allocated
<1>1. Owed' = Owed
  BY DEF Owed
<1> QED BY <1>1 DEF FundsInv

\* A round that is closed or begun promises a payment that is a number.
LEMMA StartedPayments ==
  ASSUME FundsInv, NEW r \in Rounds, NEW q \in Rounds
  PROVE  StartedDetails(r)[q].paymentAmount \in Nat
<1>1. DOMAIN details = Rounds /\ \A p \in Rounds : details[p].paymentAmount \in Nat
  BY DEF FundsInv, VotesInv, StartersInv, RoundsInv, AllInOrder
<1>2. NoDetails.paymentAmount = 0 /\ NewDetails.paymentAmount = paymentAmount
  BY DEF NoDetails, NewDetails
<1>3. /\ DOMAIN ClosedDetails(r - 1) = Rounds
      /\ ClosedDetails(r - 1)[q].paymentAmount \in Nat
  BY <1>1, <1>2 DEF ClosedDetails
<1> QED BY <1>2, <1>3 DEF StartedDetails, FundsInv

LEMMA SubmitKeepsFunds ==
  ASSUME FundsInv, NEW o \in Oracles, NEW r \in Rounds, NEW value \in Answers,
         Submit(o, r, value)
  PROVE  FundsInv'
<1> DEFINE D == DetailsFor(o, r)
           votes == Append(D[r].submissions, value)
           payment == D[r].paymentAmount
<1>0. VotesInv'
  BY SubmitKeepsVotes DEF FundsInv
<1>1. /\ details' = [D EXCEPT ![r] = IF Len(votes) >= @.maxSubmissions THEN NoDetails
                                     ELSE [@ EXCEPT !.submissions = votes]]
      /\ payment <= available
      /\ available' = available - payment /\ allocated' = allocated + payment
      /\ link' = link /\ paymentAmount' = paymentAmount
  BY DEF Submit, DetailsFor, parameters
<1>2. \A p \in Oracles :
        /\ DOMAIN oracles[p] = {"withdrawable", "startingRound", "endingRound",
                                "lastReportedRound", "lastStartedRound"}
        /\ oracles[p].withdrawable \in Nat
  BY DEF FundsInv, VotesInv, StartersInv, OracleInStep
<1>3. /\ oracles'[o].withdrawable = oracles[o].withdrawable + payment
      /\ \A p \in Oracles : p # o => oracles'[p].withdrawable = oracles[p].withdrawable
  <2>1. DOMAIN oracles = Oracles
    BY DEF FundsInv, VotesInv, StartersInv
  <2>2. oracles' = [oracles EXCEPT
                      ![o].withdrawable = @ + payment,
                      ![o].lastReportedRound = r,
                      ![o].lastStartedRound = IF OracleStarts(o, r) THEN r ELSE @]
    BY DEF Submit, DetailsFor
  <2> HIDE DEF payment
  <2> QED BY <1>2, <2>1, <2>2
<1>4. /\ DOMAIN details = Rounds /\ DOMAIN StartedDetails(r) = Rounds
      /\ \A q \in Rounds : details[q].paymentAmount \in Nat
  BY DEF FundsInv, VotesInv, StartersInv, RoundsInv, AllInOrder, StartedDetails, ClosedDetails
<1>5. DOMAIN D = Rounds /\ \A q \in Rounds : D[q].paymentAmount \in Nat
  BY <1>4, StartedPayments DEF DetailsFor
<1>6. DOMAIN D[r] = {"submissions", "maxSubmissions", "minSubmissions", "timeout",
                     "paymentAmount"}
  <2>1. CASE OracleStarts(o, r)
    <3>1. StartedDetails(r)[r] = NewDetails
      BY <1>4 DEF StartedDetails, ClosedDetails
    <3> QED BY <2>1, <3>1 DEF DetailsFor, NewDetails
  <2>2. CASE ~OracleStarts(o, r)
    BY <2>2 DEF DetailsFor, FundsInv, VotesInv, VotesInOrder
  <2> QED BY <2>1, <2>2
<1> HIDE DEF D, votes
<1>7. \A q \in Rounds : details'[q].paymentAmount \in Nat
  <2>1. NoDetails.paymentAmount = 0
    BY DEF NoDetails
  <2> QED BY <1>1, <1>5, <1>6, <2>1
<1>8. payment \in Nat /\ payment \in Int
  BY <1>5
<1> HIDE DEF payment
<1>9. SumFunctionOnSet(Owed', Oracles) = allocated + payment
  BY <1>3, <1>8, OwedChanges
<1>10. \A p \in Oracles : oracles'[p].withdrawable \in Nat
  BY <1>2, <1>3, <1>8
<1>11. /\ available' \in Nat /\ allocated' \in Nat /\ link' \in Nat
       /\ available' + allocated' <= link'
  BY <1>1, <1>8 DEF FundsInv
<1> QED BY <1>0, <1>1, <1>7, <1>9, <1>10, <1>11 DEF FundsInv

LEMMA PaymentKeepsFunds ==
  ASSUME FundsInv, NEW o \in Oracles, NEW amount \in Moves, WithdrawPayment(o, amount)
  PROVE  FundsInv'
<1>0. VotesInv'
  BY StepKeepsVotes DEF FundsInv, Next
<1>1. /\ amount \in Nat /\ -amount \in Int
      /\ amount <= oracles[o].withdrawable /\ oracles[o].withdrawable \in Nat
      /\ oracles' = [oracles EXCEPT ![o].withdrawable = @ - amount]
      /\ allocated' = allocated - amount
      /\ link >= amount /\ link' = link - amount
      /\ UNCHANGED <<paymentAmount, details, available>>
  BY AmountsAssumption DEF WithdrawPayment, FundsInv, parameters, roundVars
<1>2. DOMAIN oracles = Oracles /\ \A p \in Oracles : "withdrawable" \in DOMAIN oracles[p]
  BY DEF FundsInv, VotesInv, StartersInv, OracleInStep
<1>3. /\ oracles'[o].withdrawable = oracles[o].withdrawable + (-amount)
      /\ \A p \in Oracles : p # o => oracles'[p].withdrawable = oracles[p].withdrawable
  BY <1>1, <1>2
<1>4. SumFunctionOnSet(Owed', Oracles) = allocated + (-amount)
  BY <1>1, <1>3, OwedChanges
<1>5. oracles[o].withdrawable <= allocated
  <2>1. \A p \in Oracles : Owed[p] \in Nat
    BY DEF Owed, FundsInv
  <2>2. Owed[o] <= SumFunctionOnSet(Owed, Oracles)
    BY <2>1, OraclesAssumption, SumOfNaturals
  <2> QED BY <2>2 DEF Owed, FundsInv
<1>6. \A p \in Oracles : oracles'[p].withdrawable \in Nat
  <2>1. \A p \in Oracles : oracles[p].withdrawable \in Nat
    BY DEF FundsInv
  <2> QED BY <1>1, <1>3, <2>1
<1>7. /\ available' \in Nat /\ allocated' \in Nat /\ link' \in Nat
      /\ available' + allocated' <= link' /\ allocated' = allocated + (-amount)
  BY <1>1, <1>5 DEF FundsInv
<1> QED BY <1>0, <1>1, <1>4, <1>6, <1>7 DEF FundsInv

LEMMA StepKeepsFunds ==
  ASSUME FundsInv, [Next]_vars
  PROVE  FundsInv'
<1>0. VotesInv'
  BY StepKeepsVotes DEF FundsInv
<1>1. ASSUME NEW o \in Oracles, NEW r \in Rounds, NEW value \in Answers, Submit(o, r, value)
      PROVE  FundsInv'
  BY <1>1, SubmitKeepsFunds
<1>2. ASSUME NEW o \in Oracles, NEW amount \in Moves, WithdrawPayment(o, amount)
      PROVE  FundsInv'
  BY <1>2, PaymentKeepsFunds
\* The remaining steps leave what the oracles are owed alone.
<1>3. ASSUME \A o \in Oracles : oracles'[o].withdrawable = oracles[o].withdrawable,
             allocated' = allocated, paymentAmount' \in Nat,
             \A r \in Rounds : details'[r].paymentAmount \in Nat,
             available' \in Nat /\ link' \in Nat /\ available' + allocated <= link'
      PROVE  FundsInv'
  BY <1>0, <1>3, OwedStays DEF FundsInv
<1>4. ASSUME NEW q \in Requesters, RequestNewRound(q)
      PROVE  FundsInv'
  <2>1. reportingRoundId + 1 \in Rounds /\ details' = StartedDetails(reportingRoundId + 1)
        /\ UNCHANGED <<parameters, oracles, fundVars>>
    BY <1>4 DEF RequestNewRound
  <2>2. \A r \in Rounds : details'[r].paymentAmount \in Nat
    BY <2>1, StartedPayments
  <2> QED BY <1>3, <2>1, <2>2 DEF FundsInv, parameters, fundVars
<1>5. ASSUME NEW min \in Counts, NEW max \in Counts, NEW delay \in RestartDelays,
             NEW payment \in Payments, NEW to \in Timeouts,
             UpdateFutureRounds(payment, min, max, delay, to)
      PROVE  FundsInv'
  BY <1>3, <1>5, AmountsAssumption DEF UpdateFutureRounds, FundsInv, fundVars, roundVars
<1>6. ASSUME NEW min \in Counts, NEW max \in Counts, NEW delay \in RestartDelays,
             NEW removed \in SUBSET Oracles, NEW added \in SUBSET Oracles,
             ChangeOracles(removed, added, min, max, delay)
      PROVE  FundsInv'
  <2>1. ASSUME NEW o \in Oracles
        PROVE  oracles'[o].withdrawable = oracles[o].withdrawable
    <3>1. oracles'[o] = ChangedOracle(o, removed, added)
      BY <1>6 DEF ChangeOracles
    <3> QED BY <3>1 DEF ChangedOracle, FundsInv, VotesInv, StartersInv, OracleInStep
  <2> QED BY <1>3, <1>6, <2>1 DEF ChangeOracles, FundsInv, fundVars, roundVars
<1>7. ASSUME \/ UpdateAvailableFunds
             \/ \E amount \in Moves : ReceiveLink(amount) \/ WithdrawFunds(amount)
      PROVE  FundsInv'
  <2>1. /\ allocated' = allocated /\ UNCHANGED <<parameters, roundVars, oracles>>
        /\ available' \in Nat /\ link' \in Nat /\ available' + allocated <= link'
    BY <1>7, AmountsAssumption DEF UpdateAvailableFunds, ReceiveLink, WithdrawFunds, FundsInv
  <2> QED BY <1>3, <2>1 DEF FundsInv, parameters, roundVars
<1>8. ASSUME \/ \E q \in Requesters, authorized \in BOOLEAN, delay \in RequesterDelays :
                  SetRequesterPermissions(q, authorized, delay)
             \/ Tick
             \/ UNCHANGED vars
      PROVE  FundsInv'
  <2>1. UNCHANGED <<parameters, roundVars, oracles, fundVars>>
    BY <1>8 DEF SetRequesterPermissions, Tick, vars
  <2> QED BY <1>3, <2>1 DEF FundsInv, parameters, roundVars, fundVars
<1> QED BY <1>1, <1>2, <1>4, <1>5, <1>6, <1>7, <1>8 DEF Next

\* The funds recorded as available or owed are always there, and what is owed
\* in total is what the oracles can withdraw, one by one.
THEOREM AlwaysSolvent == Spec => []Solvent
<1>1. Init => FundsInv
  BY InitFunds
<1>2. FundsInv /\ [Next]_vars => FundsInv'
  BY StepKeepsFunds
<1> QED BY <1>1, <1>2, FundsAreSolvent, PTL DEF Spec

-----------------------------------------------------------------------------
(* The median.  Votes are ranked by how many are not above them. *)

Below(votes, x) == {i \in DOMAIN votes : votes[i] < x}
UpTo(votes, x) == {i \in DOMAIN votes : votes[i] <= x}

LEMMA VotesCounted ==
  ASSUME NEW n \in Nat, NEW S, S \subseteq 1 .. n, NEW T, T \subseteq S
  PROVE  /\ IsFiniteSet(T) /\ Cardinality(T) \in Nat /\ Cardinality(T) <= n
         /\ Cardinality(T) <= Cardinality(S) /\ Cardinality(S) \in Nat
         /\ \A i \in S : i \notin T => Cardinality(T) < Cardinality(S)
<1>1. IsFiniteSet(1 .. n) /\ Cardinality(1 .. n) = n
  BY FS_Interval
<1>2. IsFiniteSet(S) /\ Cardinality(S) <= n /\ Cardinality(S) \in Nat
  BY <1>1, FS_Subset, FS_CardinalityType
<1>3. IsFiniteSet(T) /\ Cardinality(T) \in Nat /\ Cardinality(T) <= Cardinality(S)
      /\ (Cardinality(S) = Cardinality(T) => S = T)
  BY <1>2, FS_Subset, FS_CardinalityType
<1> QED BY <1>2, <1>3

LEMMA RankedVote ==
  ASSUME NEW n \in Nat, NEW votes \in [1 .. n -> Int], NEW k \in 1 .. n
  PROVE  /\ Ranked(votes, k) \in Int
         /\ Cardinality(Below(votes, Ranked(votes, k))) < k
         /\ k <= Cardinality(UpTo(votes, Ranked(votes, k)))
<1> DEFINE S == 1 .. n
           count == [i \in S |-> Cardinality(UpTo(votes, votes[i]))]
           High == {i \in S : count[i] >= k}
<1>1. /\ DOMAIN votes = S /\ \A i \in S : votes[i] \in Int
      /\ \A x : Below(votes, x) \subseteq S /\ UpTo(votes, x) \subseteq S
  BY DEF Below, UpTo
<1>2. \A i \in S : count[i] = Cardinality(UpTo(votes, votes[i])) /\ count[i] \in 0 .. n
  <2>1. ASSUME NEW i \in S PROVE Cardinality(UpTo(votes, votes[i])) \in 0 .. n
    BY <1>1, VotesCounted
  <2> QED BY <2>1
<1> HIDE DEF count
\* A vote above another has more votes that are not above it.
<1>3. ASSUME NEW i \in S, NEW j \in S, votes[i] < votes[j] PROVE count[i] < count[j]
  <2>1. UpTo(votes, votes[i]) \subseteq UpTo(votes, votes[j])
    BY <1>1, <1>3 DEF UpTo
  <2>2. j \in UpTo(votes, votes[j]) /\ j \notin UpTo(votes, votes[i])
    BY <1>1, <1>3 DEF UpTo
  <2>3. UpTo(votes, votes[j]) \subseteq 1 .. n
    BY <1>1
  <2> QED BY <1>2, <2>1, <2>2, <2>3, VotesCounted
\* The greatest has all of them.
<1>4. \E i \in S : i \in High
  <2>1. PICK i \in S : \A j \in S : count[j] <= count[i]
    BY <1>2, GreatestExists
  <2>2. \A j \in S : votes[j] <= votes[i]
    BY <1>1, <1>2, <1>3, <2>1
  <2>3. UpTo(votes, votes[i]) = S
    BY <1>1, <2>2 DEF UpTo
  <2>4. count[i] = n
    BY <1>2, <2>3, FS_Interval
  <2> QED BY <2>4
<1>5. PICK i \in High : \A j \in High : count[i] <= count[j]
  <2>1. \A j \in High : count[j] \in 0 .. n
    BY <1>2
  <2> QED BY <1>4, <2>1, LeastExists
<1>6. i \in S /\ count[i] >= k /\ \A j \in S : count[j] >= k => count[i] <= count[j]
  BY <1>5
\* Were k of them below it, the greatest of these would have been ranked.
<1>7. Cardinality(Below(votes, votes[i])) < k
  <2> DEFINE B == Below(votes, votes[i])
  <2> SUFFICES ASSUME Cardinality(B) >= k PROVE FALSE
    <3>1. Cardinality(B) \in Nat
      BY <1>1, VotesCounted
    <3> QED BY <3>1
  <2>1. B \subseteq S /\ \A j \in S : j \in B <=> votes[j] < votes[i]
    BY <1>1 DEF Below
  <2>0. Cardinality(B) >= k
    OBVIOUS
  <2> HIDE DEF B
  <2>2. B # {}
    <3>1. Cardinality({}) = 0
      BY FS_EmptySet
    <3>2. ~(0 >= k)
      OBVIOUS
    <3> QED BY <2>0, <3>1, <3>2, Zenon
  <2>3. PICK j \in B : \A l \in B : count[l] <= count[j]
    <3>1. \A l \in B : count[l] \in 0 .. n
      BY <1>2, <2>1
    <3> QED BY <2>2, <3>1, GreatestExists
  <2>4. ASSUME NEW l \in B PROVE votes[l] <= votes[j]
    <3>1. l \in S /\ j \in S /\ count[l] <= count[j] /\ votes[l] \in Int /\ votes[j] \in Int
      BY <1>1, <2>1, <2>3
    <3>2. ~(count[j] < count[l])
      BY <1>2, <3>1
    <3>3. ~(votes[j] < votes[l])
      BY <1>3, <3>1, <3>2
    <3> QED BY <3>1, <3>3
  <2>5. B \subseteq UpTo(votes, votes[j]) /\ UpTo(votes, votes[j]) \subseteq 1 .. n
    BY <1>1, <2>1, <2>4 DEF UpTo
  <2>6. Cardinality(B) <= count[j] /\ Cardinality(B) \in Nat
    BY <1>2, <2>1, <2>5, VotesCounted
  <2>7. count[j] >= k /\ j \in S
    BY <1>2, <2>1, <2>6
  <2>8. count[j] < count[i]
    BY <1>3, <1>6, <2>1
  <2> QED BY <1>2, <1>6, <2>7, <2>8
<1> DEFINE IsRanked(x) == /\ Cardinality({j \in DOMAIN votes : votes[j] < x}) < k
                          /\ k <= Cardinality({j \in DOMAIN votes : votes[j] <= x})
<1>8. votes[i] \in Range(votes) /\ IsRanked(votes[i])
  <2>1. votes[i] \in Range(votes)
    BY <1>1, <1>6 DEF Range
  <2>2. k <= Cardinality(UpTo(votes, votes[i]))
    BY <1>2, <1>6
  <2> QED BY <1>7, <2>1, <2>2 DEF Below, UpTo
<1>9. Ranked(votes, k) = CHOOSE x \in Range(votes) : IsRanked(x)
  BY DEF Ranked
<1> HIDE DEF IsRanked
<1>10. Ranked(votes, k) \in Range(votes) /\ IsRanked(Ranked(votes, k))
  BY <1>8, <1>9
<1>11. Range(votes) \subseteq Int
  BY DEF Range
<1> QED BY <1>10, <1>11 DEF IsRanked, Below, UpTo

\* Votes outside an interval do not move the median out of it as long as they
\* are fewer than those within.
Within(votes, lo, hi) == {i \in DOMAIN votes : lo <= votes[i] /\ votes[i] <= hi}
IsMajority(S, votes) == 2 * Cardinality(S) > Len(votes)

LEMMA RankedByMajority ==
  ASSUME NEW n \in Nat, NEW votes \in [1 .. n -> Int], NEW k \in 1 .. n,
         NEW lo \in Int, NEW hi \in Int, NEW good \in Nat,
         good = Cardinality(Within(votes, lo, hi)), k <= good, n - good < k
  PROVE  lo <= Ranked(votes, k) /\ Ranked(votes, k) <= hi
<1> DEFINE x == Ranked(votes, k)
           G == Within(votes, lo, hi)
<1>1. x \in Int /\ Cardinality(Below(votes, x)) < k /\ k <= Cardinality(UpTo(votes, x))
  BY RankedVote
<1> SUFFICES lo <= x /\ x <= hi
  OBVIOUS
<1> HIDE DEF x
<1>2. /\ DOMAIN votes = 1 .. n /\ \A i \in 1 .. n : votes[i] \in Int
      /\ G \subseteq 1 .. n /\ Below(votes, x) \subseteq 1 .. n /\ UpTo(votes, x) \subseteq 1 .. n
  BY DEF Below, UpTo, Within
<1>3. CASE x < lo
  <2>1. UpTo(votes, x) \subseteq (1 .. n) \ G
    BY <1>1, <1>2, <1>3 DEF UpTo, Within
  <2>2. Cardinality((1 .. n) \ G) = n - good
    <3>1. IsFiniteSet(1 .. n) /\ Cardinality(1 .. n) = n
      BY FS_Interval
    <3>2. (1 .. n) \cap G = G
      BY <1>2
    <3>3. Cardinality((1 .. n) \ G) = Cardinality(1 .. n) - Cardinality((1 .. n) \cap G)
      BY <3>1, FS_Difference
    <3> QED BY <3>1, <3>2, <3>3
  <2>3. Cardinality(UpTo(votes, x)) <= n - good /\ Cardinality(UpTo(votes, x)) \in Nat
    <3>1. (1 .. n) \ G \subseteq 1 .. n
      OBVIOUS
    <3> QED BY <2>1, <2>2, <3>1, VotesCounted
  <2> QED BY <1>1, <2>3
<1>4. CASE x > hi
  <2>1. G \subseteq Below(votes, x)
    BY <1>1, <1>2, <1>4 DEF Below, Within
  <2>2. good <= Cardinality(Below(votes, x)) /\ Cardinality(Below(votes, x)) \in Nat
    BY <1>2, <2>1, VotesCounted
  <2> QED BY <1>1, <2>2
<1> QED BY <1>1, <1>3, <1>4

LEMMA MedianOfMajority ==
  ASSUME NEW n \in Nat \ {0}, NEW votes \in [1 .. n -> Int], Len(votes) = n
  PROVE  /\ Median(votes) \in Int
         /\ \A lo, hi \in Int : IsMajority(Within(votes, lo, hi), votes) =>
              lo <= Median(votes) /\ Median(votes) <= hi
<1> DEFINE half == n \div 2
           a == Ranked(votes, half)
           b == Ranked(votes, half + 1)
<1>1. votes \in [1 .. n -> Int] /\ DOMAIN votes = 1 .. n /\ n \in Nat
  OBVIOUS
<1>2. half \in Nat /\ (n = 2 * half \/ n = 2 * half + 1) /\ (n % 2 = 1 <=> n = 2 * half + 1)
  OBVIOUS
<1>3. Median(votes) = IF n % 2 = 1 THEN b ELSE TruncDiv(a + b, 2)
  BY DEF Median
<1> HIDE DEF half
<1>4. half + 1 \in 1 .. n /\ (n = 2 * half => half \in 1 .. n)
  BY <1>2
<1>5. b \in Int /\ (n = 2 * half => a \in Int)
  BY <1>1, <1>4, RankedVote
<1>6. ASSUME NEW lo \in Int, NEW hi \in Int, IsMajority(Within(votes, lo, hi), votes)
      PROVE  lo <= b /\ b <= hi /\ (n = 2 * half => lo <= a /\ a <= hi)
  <2> DEFINE good == Cardinality(Within(votes, lo, hi))
  <2>1. good \in Nat
    <3>1. Within(votes, lo, hi) \subseteq 1 .. n
      BY <1>1 DEF Within
    <3> QED BY <3>1, VotesCounted
  <2>2. 2 * good > n
    BY <1>6 DEF IsMajority
  <2> HIDE DEF good
  <2>3. half + 1 <= good /\ n - good < half + 1 /\ (n = 2 * half => half <= good /\ n - good < half)
    BY <1>2, <2>1, <2>2
  <2>4. good = Cardinality(Within(votes, lo, hi))
    BY DEF good
  <2>5. lo <= b /\ b <= hi
    BY <1>1, <1>4, <2>1, <2>3, <2>4, RankedByMajority
  <2>6. ASSUME n = 2 * half PROVE lo <= a /\ a <= hi
    BY <1>1, <1>4, <2>1, <2>3, <2>4, <2>6, RankedByMajority
  <2> QED BY <2>5, <2>6
<1> HIDE DEF a, b
<1>7. CASE n = 2 * half + 1
  <2>1. Median(votes) = b
    BY <1>2, <1>3, <1>7
  <2> QED BY <1>5, <1>6, <2>1
<1>8. CASE n = 2 * half
  <2>1. Median(votes) = TruncDiv(a + b, 2)
    BY <1>2, <1>3, <1>8
  <2>2. a \in Int /\ b \in Int /\ a + b \in Int
    BY <1>5, <1>8
  <2>3. Median(votes) \in Int
    BY <2>1, <2>2, TruncDivType
  <2>4. ASSUME NEW lo \in Int, NEW hi \in Int, lo <= a, a <= hi, lo <= b, b <= hi
        PROVE  lo <= TruncDiv(a + b, 2) /\ TruncDiv(a + b, 2) <= hi
    BY <2>2, <2>4, SMT DEF TruncDiv
  <2> QED BY <1>6, <1>8, <2>1, <2>3, <2>4
<1> QED BY <1>2, <1>7, <1>8

\* Whoever of the oracles fails or lies, and however late: an answer that a
\* submission gives a round lies in every interval that holds more than half
\* of the submissions to it (submit, updateRoundAnswer, Median).
Votes(o, r, value) == Append(DetailsFor(o, r)[r].submissions, value)

WithinMajorities ==
  \A o \in Oracles, r \in Rounds, value \in Answers, lo, hi \in Int :
    /\ Submit(o, r, value)
    /\ rounds'[r].answer # rounds[r].answer
    /\ IsMajority(Within(Votes(o, r, value), lo, hi), Votes(o, r, value))
    => lo <= rounds'[r].answer /\ rounds'[r].answer <= hi

\* What Submit makes of a round's answer, and of the votes.
LEMMA SubmittedAnswer ==
  ASSUME VotesInv, NEW o \in Oracles, NEW r \in Rounds, NEW value \in Answers,
         Submit(o, r, value)
  PROVE  /\ Votes(o, r, value) \in Seq(Answers) /\ Len(Votes(o, r, value)) \in Nat \ {0}
         /\ \/ rounds'[r].answer = Median(Votes(o, r, value))
            \/ rounds'[r].answer = rounds[r].answer
<1> DEFINE R == RoundsFor(o, r)
           D == DetailsFor(o, r)
           votes == Votes(o, r, value)
<1>1. rounds' = IF EnoughVotes(votes, D[r].minSubmissions)
                THEN [R EXCEPT ![r].answer = Median(votes), ![r].updatedAt = now,
                               ![r].answeredInRound = r]
                ELSE R
  BY DEF Submit, RoundsFor, DetailsFor, Votes
<1>2. /\ DOMAIN rounds = Rounds
      /\ \A q \in Rounds : DOMAIN rounds[q] = {"answer", "startedAt", "updatedAt", "answeredInRound"}
  BY DEF VotesInv, StartersInv, RoundsInv, AllInOrder, InOrder
<1>3. D[r].submissions \in Seq(Answers)
  <2>1. CASE OracleStarts(o, r)
    <3>1. DOMAIN details = Rounds
      BY DEF VotesInv, StartersInv, RoundsInv, AllInOrder
    <3>2. StartedDetails(r)[r] = NewDetails
      BY <3>1 DEF StartedDetails, ClosedDetails
    <3>3. NewDetails.submissions = <<>>
      BY DEF NewDetails
    <3>4. D[r].submissions = <<>>
      BY <2>1, <3>2, <3>3 DEF DetailsFor
    <3> HIDE DEF D
    <3> QED BY <3>4
  <2>2. CASE ~OracleStarts(o, r)
    BY <2>2 DEF DetailsFor, VotesInv, VotesInOrder
  <2> QED BY <2>1, <2>2
<1>4. votes \in Seq(Answers) /\ Len(votes) \in Nat \ {0}
  BY <1>3 DEF Votes
<1>5. /\ DOMAIN R = Rounds /\ R[r].answer = rounds[r].answer
      /\ DOMAIN R[r] = {"answer", "startedAt", "updatedAt", "answeredInRound"}
  <2>1. CASE OracleStarts(o, r)
    <3>1. R = StartedRounds(r) /\ r \in Int /\ r - 1 # r
      BY <2>1, RoundsAreNumbers DEF RoundsFor
    <3>2. DOMAIN ClosedRounds(r - 1) = Rounds /\ ClosedRounds(r - 1)[r] = rounds[r]
      BY <1>2, <3>1 DEF ClosedRounds
    <3>3. R = [ClosedRounds(r - 1) EXCEPT ![r].startedAt = now]
      BY <3>1 DEF StartedRounds
    <3> QED BY <1>2, <3>2, <3>3
  <2>2. CASE ~OracleStarts(o, r)
    BY <1>2, <2>2 DEF RoundsFor
  <2> QED BY <2>1, <2>2
<1> HIDE DEF R, D, votes
<1>6. rounds'[r].answer = Median(votes) \/ rounds'[r].answer = rounds[r].answer
  BY <1>1, <1>5
<1> QED BY <1>4, <1>6 DEF votes

THEOREM AnswersFollowMajority == Spec => [][WithinMajorities]_vars
<1>1. VotesInv => WithinMajorities
  <2> SUFFICES ASSUME VotesInv, NEW o \in Oracles, NEW r \in Rounds, NEW value \in Answers,
                      NEW lo \in Int, NEW hi \in Int, Submit(o, r, value),
                      rounds'[r].answer # rounds[r].answer,
                      IsMajority(Within(Votes(o, r, value), lo, hi), Votes(o, r, value))
               PROVE  lo <= rounds'[r].answer /\ rounds'[r].answer <= hi
    BY DEF WithinMajorities
  <2> DEFINE votes == Votes(o, r, value)
             n == Len(votes)
  <2>1. votes \in Seq(Answers) /\ n \in Nat \ {0} /\ rounds'[r].answer = Median(votes)
    BY SubmittedAnswer
  <2>2. votes \in [1 .. n -> Int]
    <3>1. Answers \subseteq Int
      BY AmountsAssumption
    <3> HIDE DEF votes
    <3>2. votes \in [1 .. n -> Answers]
      BY <2>1
    <3> QED BY <3>1, <3>2
  <2>3. IsMajority(Within(votes, lo, hi), votes)
    OBVIOUS
  <2> HIDE DEF votes
  <2>4. lo <= Median(votes) /\ Median(votes) <= hi
    BY <2>1, <2>2, <2>3, MedianOfMajority
  <2> QED BY <2>1, <2>4
<1>2. Init => VotesInv
  BY InitVotes
<1>3. VotesInv /\ [Next]_vars => VotesInv'
  BY StepKeepsVotes
<1> QED BY <1>1, <1>2, <1>3, PTL DEF Spec

-----------------------------------------------------------------------------
(* Types. *)

RoundType == [answer : Int, startedAt : Nat, updatedAt : Nat, answeredInRound : Rounds]
RoundDetailsTyped(d) ==
  /\ d.submissions \in Seq(Answers)
  /\ d.maxSubmissions \in Nat /\ d.minSubmissions \in Nat
  /\ d.timeout \in Nat /\ d.paymentAmount \in Nat
OracleType == [withdrawable : Nat, startingRound : Nat, endingRound : Nat,
               lastReportedRound : Rounds, lastStartedRound : Rounds]
RequesterType == [authorized : BOOLEAN, delay : Nat, lastStartedRound : Rounds]

\* The parts of TypeOK.
ParametersTyped ==
  /\ paymentAmount \in Payments /\ timeout \in Timeouts
  /\ restartDelay \in RestartDelays \cup {0}
  /\ minSubmissionCount \in Nat /\ maxSubmissionCount \in Nat
  /\ changes \in 0 .. MaxChanges
RoundsTyped == rounds \in [Rounds -> RoundType] /\ \A r \in Rounds : RoundDetailsTyped(details[r])
OraclesTyped == oracles \in [Oracles -> OracleType]
RequestersTyped == requesters \in [Requesters -> RequesterType]

TypesInv == FundsInv /\ ParametersTyped /\ RoundsTyped /\ OraclesTyped /\ RequestersTyped

LEMMA TypesInvIsTypeOK == TypesInv => TypeOK
<1> SUFFICES ASSUME TypesInv PROVE TypeOK
  OBVIOUS
<1>1. /\ now \in Nat /\ reportingRoundId \in Rounds /\ latestRoundId \in Rounds
      /\ oracleAddresses \subseteq Oracles
      /\ available \in Nat /\ allocated \in Nat /\ link \in Nat
  BY DEF TypesInv, FundsInv, VotesInv, StartersInv, RoundsInv, AllInOrder
<1>2. /\ ParametersTyped /\ rounds \in [Rounds -> RoundType]
      /\ \A r \in Rounds : RoundDetailsTyped(details[r])
      /\ oracles \in [Oracles -> OracleType] /\ requesters \in [Requesters -> RequesterType]
  BY DEF TypesInv, RoundsTyped, OraclesTyped, RequestersTyped
<1> QED BY <1>1, <1>2 DEF TypeOK, ParametersTyped, RoundType, RoundDetailsTyped, OracleType,
                         RequesterType

LEMMA InitTypes == Init => TypesInv
<1> SUFFICES ASSUME Init PROVE TypesInv
  OBVIOUS
<1>1. 0 \in Rounds /\ StartTime - timeout \in Nat /\ timeout \in Nat
  BY RoundsAssumption, TimesAssumption DEF Init, Rounds
<1>2. ParametersTyped
  BY AmountsAssumption DEF Init, ParametersTyped
<1>3. RoundsTyped
  <2>1. rounds \in [Rounds -> RoundType]
    BY <1>1 DEF Init, RoundType
  <2>2. RoundDetailsTyped(NoDetails)
    <3>1. <<>> \in Seq(Answers)
      OBVIOUS
    <3> QED BY <3>1 DEF RoundDetailsTyped, NoDetails
  <2>3. \A r \in Rounds : details[r] = NoDetails
    BY DEF Init
  <2> QED BY <2>1, <2>2, <2>3 DEF RoundsTyped
<1>4. OraclesTyped
  BY <1>1 DEF Init, OraclesTyped, OracleType
<1>5. RequestersTyped
  BY <1>1 DEF Init, RequestersTyped, RequesterType, NoRequester
<1> QED BY <1>2, <1>3, <1>4, <1>5, InitFunds DEF TypesInv

\* A round that is begun, and one that is closed for it.
LEMMA StartedTypes ==
  ASSUME TypesInv, NEW r \in Rounds, r = reportingRoundId + 1
  PROVE  /\ StartedRounds(r) \in [Rounds -> RoundType]
         /\ \A q \in Rounds : RoundDetailsTyped(StartedDetails(r)[q])
<1> DEFINE p == r - 1
<1>1. /\ p \in Rounds /\ p = reportingRoundId /\ p \in Nat /\ now \in Nat
      /\ DOMAIN details = Rounds /\ rounds \in [Rounds -> RoundType]
      /\ \A q \in Rounds : RoundDetailsTyped(details[q])
      /\ VotesInOrder(rounds, details, p, p)
  BY RoundsAreNumbers
     DEF TypesInv, FundsInv, VotesInv, StartersInv, RoundsInv, AllInOrder, RoundsTyped
<1>2. RoundDetailsTyped(NoDetails) /\ RoundDetailsTyped(NewDetails)
  <2>1. <<>> \in Seq(Answers)
    OBVIOUS
  <2>2. timeout \in Nat /\ paymentAmount \in Nat
    BY TimesAssumption, AmountsAssumption DEF TypesInv, ParametersTyped
  <2> QED BY <2>1, <2>2 DEF RoundDetailsTyped, NoDetails, NewDetails, TypesInv, ParametersTyped
<1> HIDE DEF p
<1>3. TimedOut(p) => p - 1 \in Rounds
  <2>1. p = 0 => ~TimedOut(p)
    BY <1>1 DEF VotesInOrder, TimedOut
  <2>2. p # 0 => p - 1 \in Rounds
    BY <1>1, RoundsAssumption DEF Rounds
  <2> QED BY <2>1, <2>2
<1>4. ClosedRounds(p) \in [Rounds -> RoundType]
  <2>1. CASE TimedOut(p)
    <3>1. rounds[p] \in RoundType /\ rounds[p - 1] \in RoundType
      BY <1>1, <1>3, <2>1
    <3> DEFINE closed == [rounds[p] EXCEPT !.answer = rounds[p - 1].answer,
                                           !.answeredInRound = rounds[p - 1].answeredInRound,
                                           !.updatedAt = now]
    <3>2. closed \in RoundType
      BY <1>1, <3>1 DEF RoundType
    <3>3. ClosedRounds(p) = [rounds EXCEPT ![p] = closed]
      BY <1>1, <2>1 DEF ClosedRounds
    <3> HIDE DEF closed
    <3> QED BY <1>1, <3>2, <3>3
  <2>2. CASE ~TimedOut(p)
    BY <1>1, <2>2 DEF ClosedRounds
  <2> QED BY <2>1, <2>2
<1>5. DOMAIN ClosedDetails(p) = Rounds /\ \A q \in Rounds : RoundDetailsTyped(ClosedDetails(p)[q])
  BY <1>1, <1>2 DEF ClosedDetails
<1>6. StartedRounds(r) = [ClosedRounds(p) EXCEPT ![r].startedAt = now]
      /\ StartedDetails(r) = [ClosedDetails(p) EXCEPT ![r] = NewDetails]
  BY DEF StartedRounds, StartedDetails, p
<1>7. StartedRounds(r) \in [Rounds -> RoundType]
  <2> DEFINE C == ClosedRounds(p)
             begun == [C[r] EXCEPT !.startedAt = now]
  <2>1. C \in [Rounds -> RoundType] /\ StartedRounds(r) = [C EXCEPT ![r] = begun]
    BY <1>4, <1>6
  <2> HIDE DEF C
  <2>2. begun \in RoundType
    BY <1>1, <2>1 DEF RoundType
  <2> HIDE DEF begun
  <2> QED BY <2>1, <2>2
<1>8. \A q \in Rounds : RoundDetailsTyped(StartedDetails(r)[q])
  BY <1>2, <1>5, <1>6
<1> QED BY <1>7, <1>8

LEMMA SubmitTypes ==
  ASSUME TypesInv, NEW o \in Oracles, NEW r \in Rounds, NEW value \in Answers,
         Submit(o, r, value), FundsInv'
  PROVE  TypesInv'
<1> DEFINE R == RoundsFor(o, r)
           D == DetailsFor(o, r)
           votes == Votes(o, r, value)
           answered == EnoughVotes(votes, D[r].minSubmissions)
<1>0. VotesInv /\ now \in Nat /\ DOMAIN details = Rounds
  BY DEF TypesInv, FundsInv, VotesInv, StartersInv, RoundsInv, AllInOrder
<1>1. /\ rounds' = IF answered
                   THEN [R EXCEPT ![r].answer = Median(votes), ![r].updatedAt = now,
                                  ![r].answeredInRound = r]
                   ELSE R
      /\ details' = [D EXCEPT ![r] = IF Len(votes) >= @.maxSubmissions THEN NoDetails
                                     ELSE [@ EXCEPT !.submissions = votes]]
      /\ oracles' = [oracles EXCEPT
                       ![o].withdrawable = @ + D[r].paymentAmount,
                       ![o].lastReportedRound = r,
                       ![o].lastStartedRound = IF OracleStarts(o, r) THEN r ELSE @]
      /\ UNCHANGED <<parameters, requesters, changes>>
  BY DEF Submit, RoundsFor, DetailsFor, Votes
<1>2. R \in [Rounds -> RoundType] /\ \A q \in Rounds : RoundDetailsTyped(D[q])
  <2>1. CASE OracleStarts(o, r)
    BY <2>1, StartedTypes DEF OracleStarts, NewRound, RoundsFor, DetailsFor
  <2>2. CASE ~OracleStarts(o, r)
    BY <2>2 DEF RoundsFor, DetailsFor, TypesInv, RoundsTyped
  <2> QED BY <2>1, <2>2
<1>3. votes \in Seq(Answers) /\ Len(votes) \in Nat \ {0} /\ Median(votes) \in Int
  <2> DEFINE n == Len(votes)
  <2>1. votes \in Seq(Answers) /\ n \in Nat \ {0}
    BY <1>0, SubmittedAnswer
  <2>2. votes \in [1 .. n -> Int]
    <3>1. Answers \subseteq Int
      BY AmountsAssumption
    <3> HIDE DEF votes
    <3>2. votes \in [1 .. n -> Answers]
      BY <2>1
    <3> QED BY <3>1, <3>2
  <2> HIDE DEF votes
  <2> QED BY <2>1, <2>2, MedianOfMajority
<1>4. DOMAIN D = Rounds
  BY <1>0 DEF DetailsFor, StartedDetails, ClosedDetails
<1>5. DOMAIN D[r] = {"submissions", "maxSubmissions", "minSubmissions", "timeout", "paymentAmount"}
  <2>1. CASE OracleStarts(o, r)
    <3>1. StartedDetails(r)[r] = NewDetails
      BY <1>0 DEF StartedDetails, ClosedDetails
    <3> QED BY <2>1, <3>1 DEF DetailsFor, NewDetails
  <2>2. CASE ~OracleStarts(o, r)
    BY <1>0, <2>2 DEF DetailsFor, VotesInv, VotesInOrder
  <2> QED BY <2>1, <2>2
<1>a. D[r].paymentAmount \in Nat
  BY <1>2 DEF RoundDetailsTyped
<1> HIDE DEF R, D, votes, answered
<1>6. rounds' \in [Rounds -> RoundType]
  <2>1. CASE answered
    <3>1. rounds' = [R EXCEPT ![r].answer = Median(votes), ![r].updatedAt = now,
                              ![r].answeredInRound = r]
      BY <1>1, <2>1
    <3> DEFINE m == Median(votes)
               answer == [R[r] EXCEPT !.answer = m, !.updatedAt = now, !.answeredInRound = r]
    <3>2. m \in Int
      BY <1>3
    <3>3. rounds' = [R EXCEPT ![r].answer = m, ![r].updatedAt = now, ![r].answeredInRound = r]
      BY <3>1
    <3> HIDE DEF m
    <3>4. answer \in RoundType
      <4> DEFINE x == R[r]
                 y == [x EXCEPT !.answer = m, !.updatedAt = now, !.answeredInRound = r]
      <4>1. x \in RoundType
        BY <1>2
      <4> HIDE DEF x
      <4>2. /\ DOMAIN x = {"answer", "startedAt", "updatedAt", "answeredInRound"}
            /\ x.startedAt \in Nat
        BY <4>1 DEF RoundType
      <4>3. /\ DOMAIN y = {"answer", "startedAt", "updatedAt", "answeredInRound"}
            /\ y.answer = m /\ y.startedAt = x.startedAt /\ y.updatedAt = now
            /\ y.answeredInRound = r
        BY <4>2
      <4>4. y = [f \in {"answer", "startedAt", "updatedAt", "answeredInRound"} |-> y[f]]
        BY <4>3
      <4> HIDE DEF y
      <4>5. y \in RoundType
        BY <1>0, <3>2, <4>2, <4>3, <4>4 DEF RoundType
      <4> QED BY <4>5 DEF x, y
    <3>5. rounds' = [R EXCEPT ![r] = answer]
      BY <1>2, <3>3
    <3> HIDE DEF answer
    <3> QED BY <1>2, <3>4, <3>5
  <2>2. CASE ~answered
    BY <1>1, <1>2, <2>2
  <2> QED BY <2>1, <2>2
<1>7. ASSUME NEW q \in Rounds PROVE RoundDetailsTyped(details'[q])
  <2>1. CASE q # r
    BY <1>1, <1>2, <1>4, <2>1
  <2>2. CASE q = r /\ Len(votes) >= D[r].maxSubmissions
    <3>1. details'[q] = NoDetails
      BY <1>1, <1>4, <2>2
    <3>2. <<>> \in Seq(Answers)
      OBVIOUS
    <3> QED BY <3>1, <3>2 DEF RoundDetailsTyped, NoDetails
  <2>3. CASE q = r /\ ~(Len(votes) >= D[r].maxSubmissions)
    <3>1. details'[q] = [D[r] EXCEPT !.submissions = votes]
      BY <1>1, <1>4, <2>3
    <3>2. RoundDetailsTyped(D[r])
      BY <1>2
    <3>3. /\ details'[q].submissions = votes /\ details'[q].timeout = D[r].timeout
          /\ details'[q].maxSubmissions = D[r].maxSubmissions
          /\ details'[q].minSubmissions = D[r].minSubmissions
          /\ details'[q].paymentAmount = D[r].paymentAmount
      BY <1>5, <3>1
    <3> QED BY <1>3, <3>2, <3>3 DEF RoundDetailsTyped
  <2> QED BY <2>1, <2>2, <2>3
<1>8. oracles' \in [Oracles -> OracleType]
  <2>1. oracles \in [Oracles -> OracleType]
    BY DEF TypesInv, OraclesTyped
  <2> DEFINE payment == D[r].paymentAmount
             last == IF OracleStarts(o, r) THEN r ELSE oracles[o].lastStartedRound
             paid == [oracles[o] EXCEPT !.withdrawable = @ + payment,
                                        !.lastReportedRound = r, !.lastStartedRound = last]
  <2>2. oracles[o] \in OracleType /\ payment \in Nat
    BY <1>a, <2>1
  <2>3. oracles' = [oracles EXCEPT
                      ![o].withdrawable = @ + payment,
                      ![o].lastReportedRound = r,
                      ![o].lastStartedRound = IF OracleStarts(o, r) THEN r ELSE @]
    BY <1>1
  <2> HIDE DEF payment
  <2>4. last \in Rounds
    BY <2>2 DEF OracleType
  <2>5. oracles' = [oracles EXCEPT ![o] = paid]
    BY <2>1, <2>3
  <2> HIDE DEF last
  <2>6. paid \in OracleType
    <3> DEFINE x == oracles[o]
               more == x.withdrawable + payment
               y == [x EXCEPT !.withdrawable = more, !.lastReportedRound = r,
                              !.lastStartedRound = last]
               Fields == {"withdrawable", "startingRound", "endingRound",
                          "lastReportedRound", "lastStartedRound"}
    <3>1. x \in OracleType /\ paid = y
      BY <2>2
    <3> HIDE DEF x, paid
    <3>2. /\ DOMAIN x = Fields /\ x.startingRound \in Nat /\ x.endingRound \in Nat
          /\ more \in Nat
      BY <2>2, <3>1 DEF OracleType
    <3> HIDE DEF more
    <3>3. /\ DOMAIN y = Fields /\ y.withdrawable = more /\ y.startingRound = x.startingRound
          /\ y.endingRound = x.endingRound /\ y.lastReportedRound = r
          /\ y.lastStartedRound = last
      BY <3>2
    <3>4. y = [f \in Fields |-> y[f]]
      BY <3>3
    <3> HIDE DEF y
    <3>5. y \in OracleType
      BY <2>4, <3>2, <3>3, <3>4 DEF OracleType
    <3> QED BY <3>1, <3>5
  <2> HIDE DEF paid
  <2> QED BY <2>1, <2>5, <2>6
<1>9. (ParametersTyped /\ RequestersTyped)'
  BY <1>1 DEF TypesInv, ParametersTyped, RequestersTyped, parameters
<1> QED BY <1>6, <1>7, <1>8, <1>9 DEF TypesInv, RoundsTyped, OraclesTyped

LEMMA StepTypes == TypesInv /\ [Next]_vars => TypesInv'
<1> SUFFICES ASSUME TypesInv, [Next]_vars PROVE TypesInv'
  OBVIOUS
<1>0. FundsInv'
  BY StepKeepsFunds DEF TypesInv
<1>1. /\ rounds \in [Rounds -> RoundType] /\ oracles \in [Oracles -> OracleType]
      /\ requesters \in [Requesters -> RequesterType] /\ reportingRoundId \in Rounds
      /\ \A o \in Oracles : oracles[o].startingRound \in Nat
  BY DEF TypesInv, RoundsTyped, OraclesTyped, RequestersTyped, FundsInv, VotesInv, StartersInv,
         RoundsInv, AllInOrder, OracleInStep
<1>2. Counts \subseteq Nat
  BY OraclesAssumption, FS_CardinalityType DEF Counts
<1>3. ASSUME NEW o \in Oracles, NEW r \in Rounds, NEW value \in Answers, Submit(o, r, value)
      PROVE  TypesInv'
  BY <1>0, <1>3, SubmitTypes
<1>4. ASSUME NEW q \in Requesters, RequestNewRound(q) PROVE TypesInv'
  <2> DEFINE r == reportingRoundId + 1
  <2>1. /\ r \in Rounds /\ rounds' = StartedRounds(r) /\ details' = StartedDetails(r)
        /\ requesters' = [requesters EXCEPT ![q].lastStartedRound = r]
        /\ UNCHANGED <<parameters, oracles, changes>>
    BY <1>4 DEF RequestNewRound
  <2>2. RoundsTyped'
    BY <2>1, StartedTypes DEF RoundsTyped
  <2> HIDE DEF r
  <2>3. RequestersTyped'
    BY <1>1, <2>1 DEF RequestersTyped, RequesterType
  <2> QED BY <1>0, <2>1, <2>2, <2>3 DEF TypesInv, ParametersTyped, OraclesTyped, parameters
<1>5. ASSUME NEW min \in Counts, NEW max \in Counts, NEW delay \in RestartDelays,
             NEW payment \in Payments, NEW to \in Timeouts,
             UpdateFutureRounds(payment, min, max, delay, to)
      PROVE  TypesInv'
  <2>1. UNCHANGED <<roundVars, oracles, requesters>>
    BY <1>5 DEF UpdateFutureRounds
  <2>2. ParametersTyped'
    <3>1. changes' \in 0 .. MaxChanges
      BY <1>5, AmountsAssumption DEF UpdateFutureRounds, TypesInv, ParametersTyped
    <3> QED BY <1>2, <1>5, <3>1 DEF UpdateFutureRounds, ParametersTyped
  <2> QED BY <1>0, <2>1, <2>2
          DEF TypesInv, RoundsTyped, OraclesTyped, RequestersTyped, roundVars
<1>6. ASSUME NEW min \in Counts, NEW max \in Counts, NEW delay \in RestartDelays,
             NEW removed \in SUBSET Oracles, NEW added \in SUBSET Oracles,
             ChangeOracles(removed, added, min, max, delay)
      PROVE  TypesInv'
  <2>1. /\ UNCHANGED <<roundVars, requesters, paymentAmount, timeout>>
        /\ oracles' = [o \in Oracles |-> ChangedOracle(o, removed, added)]
        /\ minSubmissionCount' = min /\ maxSubmissionCount' = max /\ restartDelay' = delay
        /\ changes < MaxChanges /\ changes' = changes + 1
    BY <1>6 DEF ChangeOracles
  <2>2. ParametersTyped'
    <3>1. changes' \in 0 .. MaxChanges
      BY <2>1, AmountsAssumption DEF TypesInv, ParametersTyped
    <3> QED BY <1>2, <2>1, <3>1 DEF TypesInv, ParametersTyped
  <2>3. reportingRoundId \in Nat /\ RoundMax \in Nat
    BY <1>1, RoundsAreNumbers, RoundsAssumption
  <2>4. \A o \in Oracles : ChangedOracle(o, removed, added) \in OracleType
    <3> TAKE o \in Oracles
    <3> DEFINE ending == IF o \in removed THEN reportingRoundId + 1 ELSE oracles[o].endingRound
    <3>1. oracles[o] \in OracleType
      BY <1>1
    <3>2. ending \in Nat /\ StartingRound(o, ending) \in Nat
      BY <2>3, <3>1 DEF StartingRound, OracleType
    <3>3. ChangedOracle(o, removed, added) =
            IF o \in added
            THEN [oracles[o] EXCEPT !.startingRound = StartingRound(o, ending),
                                    !.endingRound = RoundMax]
            ELSE [oracles[o] EXCEPT !.endingRound = ending]
      BY DEF ChangedOracle
    <3> HIDE DEF ending
    <3> QED BY <2>3, <3>1, <3>2, <3>3 DEF OracleType
  <2>5. OraclesTyped'
    BY <2>1, <2>4 DEF OraclesTyped
  <2> QED BY <1>0, <2>1, <2>2, <2>5 DEF TypesInv, RoundsTyped, RequestersTyped, roundVars
<1>7. ASSUME NEW q \in Requesters, NEW authorized \in BOOLEAN, NEW delay \in RequesterDelays,
             SetRequesterPermissions(q, authorized, delay)
      PROVE  TypesInv'
  <2>1. /\ UNCHANGED <<parameters, roundVars, oracles>>
        /\ requesters' = [requesters EXCEPT
             ![q] = IF authorized THEN [@ EXCEPT !.authorized = TRUE, !.delay = delay]
                    ELSE NoRequester]
        /\ changes < MaxChanges /\ changes' = changes + 1
    BY <1>7 DEF SetRequesterPermissions
  <2>2. changes' \in 0 .. MaxChanges
    BY <2>1, AmountsAssumption DEF TypesInv, ParametersTyped
  <2>3. delay \in Nat /\ 0 \in Rounds
    BY AmountsAssumption, RoundsAssumption DEF Rounds
  <2>4. RequestersTyped'
    <3>1. [requesters[q] EXCEPT !.authorized = TRUE, !.delay = delay] \in RequesterType
      BY <1>1, <2>3 DEF RequesterType
    <3>2. NoRequester \in RequesterType
      BY <2>3 DEF RequesterType, NoRequester
    <3> QED BY <1>1, <2>1, <3>1, <3>2 DEF RequestersTyped
  <2> QED BY <1>0, <2>1, <2>2, <2>4
          DEF TypesInv, ParametersTyped, RoundsTyped, OraclesTyped, parameters, roundVars
<1>8. ASSUME NEW o \in Oracles, NEW amount \in Moves, WithdrawPayment(o, amount)
      PROVE  TypesInv'
  <2>1. /\ UNCHANGED <<parameters, roundVars, requesters, changes>>
        /\ amount <= oracles[o].withdrawable
        /\ oracles' = [oracles EXCEPT ![o].withdrawable = @ - amount]
    BY <1>8 DEF WithdrawPayment
  <2>2. oracles[o] \in OracleType /\ amount \in Nat
    BY <1>1, AmountsAssumption
  <2>3. oracles[o].withdrawable - amount \in Nat
    BY <2>1, <2>2 DEF OracleType
  <2>4. OraclesTyped'
    BY <1>1, <2>1, <2>3 DEF OraclesTyped, OracleType
  <2> QED BY <1>0, <2>1, <2>4
          DEF TypesInv, ParametersTyped, RoundsTyped, RequestersTyped, parameters, roundVars
<1>9. ASSUME UNCHANGED <<parameters, roundVars, oracles, requesters, changes>> PROVE TypesInv'
  BY <1>0, <1>9 DEF TypesInv, ParametersTyped, RoundsTyped, OraclesTyped, RequestersTyped,
                    parameters, roundVars
<1>10. ASSUME \/ UpdateAvailableFunds
              \/ \E amount \in Moves : ReceiveLink(amount) \/ WithdrawFunds(amount)
              \/ Tick
              \/ UNCHANGED vars
       PROVE  TypesInv'
  BY <1>9, <1>10 DEF UpdateAvailableFunds, ReceiveLink, WithdrawFunds, Tick, vars
<1> QED BY <1>3, <1>4, <1>5, <1>6, <1>7, <1>8, <1>10 DEF Next

\* What the aggregator keeps stays well typed, a median of submissions is a
\* number, and neither funds nor what an oracle can withdraw fall below zero.
THEOREM FluxTypes == Spec => []TypeOK
BY InitTypes, StepTypes, TypesInvIsTypeOK, PTL DEF Spec

-----------------------------------------------------------------------------
(* The aggregator is a price feed.                                           *)

\* What a reader of the latest round finds in R: what it found before, or news
\* of this moment.
KeptOrFresh(R) ==
  \/ /\ R[latestRoundId].answer = rounds[latestRoundId].answer
     /\ R[latestRoundId].updatedAt = rounds[latestRoundId].updatedAt
  \/ R[latestRoundId].updatedAt = now

LEMMA StartingKeepsOrRefreshes ==
  ASSUME RoundsInv, NEW r \in Rounds, r = reportingRoundId + 1
  PROVE  KeptOrFresh(StartedRounds(r))
<1> DEFINE p == r - 1
           l == latestRoundId
<1>1. /\ p = reportingRoundId /\ p \in Rounds /\ l \in Rounds /\ l <= p
      /\ p \in Nat /\ l \in Nat /\ r \in Nat /\ l # r
      /\ DOMAIN rounds = Rounds
  BY RoundsAreNumbers DEF RoundsInv, AllInOrder
<1>2. "updatedAt" \in DOMAIN rounds[p]
  BY <1>1 DEF RoundsInv, AllInOrder, InOrder
<1>3. DOMAIN ClosedRounds(p) = Rounds
  BY <1>1 DEF ClosedRounds
<1>4. StartedRounds(r)[l] = ClosedRounds(p)[l]
  BY <1>1, <1>3 DEF StartedRounds
<1>5. CASE l = p /\ TimedOut(p)
  <2>1. ClosedRounds(p)[p].updatedAt = now
    BY <1>1, <1>2, <1>5 DEF ClosedRounds
  <2> QED BY <1>4, <1>5, <2>1 DEF KeptOrFresh
<1>6. CASE ~(l = p /\ TimedOut(p))
  <2>1. ClosedRounds(p)[l] = rounds[l]
    BY <1>1, <1>6 DEF ClosedRounds
  <2> QED BY <1>4, <2>1 DEF KeptOrFresh
<1> QED BY <1>5, <1>6

LEMMA FeedInit == Init => Feed!Init
<1> SUFFICES ASSUME Init PROVE Feed!Init
  OBVIOUS
<1>1. 0 \in Rounds /\ latestRoundId = 0 /\ now = StartTime /\ timeout \in Timeouts
  BY RoundsAssumption DEF Init, Rounds
<1>2. rounds[0].answer = 0 /\ rounds[0].updatedAt = StartTime - timeout
  BY <1>1 DEF Init
<1> QED BY <1>1, <1>2, TimesAssumption DEF Feed!Init

\* Whatever keeps or refreshes the latest round, or answers a later one.
LEMMA FeedReports ==
  ASSUME TypeOK', now' = now,
         \/ latestRoundId' = latestRoundId /\ KeptOrFresh(rounds')
         \/ rounds'[latestRoundId'].updatedAt = now
  PROVE  [Feed!Next]_(<<rounds[latestRoundId].answer, rounds[latestRoundId].updatedAt, now>>)
<1>1. rounds'[latestRoundId'].answer \in Int
  BY DEF TypeOK
<1>2. CASE rounds'[latestRoundId'].updatedAt = now
  BY <1>1, <1>2 DEF Feed!Next, Feed!Report
<1>3. CASE latestRoundId' = latestRoundId /\ KeptOrFresh(rounds')
           /\ rounds'[latestRoundId'].updatedAt # now
  BY <1>3 DEF KeptOrFresh
<1> QED BY <1>2, <1>3

LEMMA FeedStep ==
  ASSUME RoundsInv, TypeOK', [Next]_vars
  PROVE  [Feed!Next]_(<<rounds[latestRoundId].answer, rounds[latestRoundId].updatedAt, now>>)
<1>0. latestRoundId \in Rounds /\ DOMAIN rounds = Rounds
  BY DEF RoundsInv, AllInOrder
<1>1. ASSUME NEW o \in Oracles, NEW r \in Rounds, NEW value \in Answers, Submit(o, r, value)
      PROVE  /\ now' = now
             /\ \/ latestRoundId' = latestRoundId /\ KeptOrFresh(rounds')
                \/ rounds'[latestRoundId'].updatedAt = now
  <2> DEFINE R == RoundsFor(o, r)
             D == DetailsFor(o, r)
             votes == Append(D[r].submissions, value)
             answered == EnoughVotes(votes, D[r].minSubmissions)
  <2>1. /\ ValidOracleRound(o, r) /\ D[r].maxSubmissions # 0
        /\ rounds' = IF answered
                     THEN [R EXCEPT ![r].answer = Median(votes), ![r].updatedAt = now,
                                    ![r].answeredInRound = r]
                     ELSE R
        /\ latestRoundId' = IF answered THEN r ELSE latestRoundId
        /\ now' = now
    BY <1>1 DEF Submit, RoundsFor, DetailsFor
  <2> HIDE DEF D, votes, answered
  <2>2. KeptOrFresh(R)
    <3>1. CASE OracleStarts(o, r)
      BY <3>1, StartingKeepsOrRefreshes DEF RoundsFor, OracleStarts, NewRound
    <3>2. CASE ~OracleStarts(o, r)
      BY <3>2 DEF RoundsFor, KeptOrFresh
    <3> QED BY <3>1, <3>2
  <2>3. DOMAIN R = Rounds /\ "updatedAt" \in DOMAIN R[r]
    BY <2>1, SubmissionFindsOrder DEF D, AllInOrder, InOrder
  <2> HIDE DEF R
  <2>4. CASE answered
    <3>1. rounds'[r].updatedAt = now
      BY <2>1, <2>3, <2>4
    <3> QED BY <2>1, <2>4, <3>1
  <2>5. CASE ~answered
    BY <2>1, <2>2, <2>5
  <2> QED BY <2>4, <2>5
<1>2. ASSUME NEW q \in Requesters, RequestNewRound(q)
      PROVE  now' = now /\ latestRoundId' = latestRoundId /\ KeptOrFresh(rounds')
  BY <1>2, StartingKeepsOrRefreshes DEF RequestNewRound
<1>3. ASSUME NEW q \in Requesters, NEW authorized \in BOOLEAN, NEW delay \in RequesterDelays,
             SetRequesterPermissions(q, authorized, delay)
      PROVE  UNCHANGED <<rounds, latestRoundId, now>>
  BY <1>3 DEF SetRequesterPermissions, roundVars
<1>4. ASSUME NEW min \in Counts, NEW max \in Counts, NEW delay \in RestartDelays,
             \/ \E payment \in Payments, to \in Timeouts :
                  UpdateFutureRounds(payment, min, max, delay, to)
             \/ \E removed, added \in SUBSET Oracles :
                  ChangeOracles(removed, added, min, max, delay)
      PROVE  UNCHANGED <<rounds, latestRoundId, now>>
  BY <1>4 DEF UpdateFutureRounds, ChangeOracles, roundVars
<1>5. ASSUME \/ UpdateAvailableFunds
             \/ \E amount \in Moves : ReceiveLink(amount) \/ WithdrawFunds(amount)
             \/ \E o \in Oracles, amount \in Moves : WithdrawPayment(o, amount)
      PROVE  UNCHANGED <<rounds, latestRoundId, now>>
  BY <1>5 DEF UpdateAvailableFunds, ReceiveLink, WithdrawFunds, WithdrawPayment, roundVars
<1>6. CASE Tick
  <2>1. now' = now + 1 /\ now \in Nat /\ UNCHANGED <<rounds, latestRoundId>>
    BY <1>6 DEF Tick, roundVars, RoundsInv
  <2> QED BY <2>1 DEF Feed!Next, Feed!Tick
<1>7. CASE UNCHANGED vars
  BY <1>7 DEF vars, roundVars
<1> QED BY <1>1, <1>2, <1>3, <1>4, <1>5, <1>6, <1>7, FeedReports DEF Next

\* Whoever reads the latest round finds a price feed: rounds that time out,
\* late submissions, requested rounds and the owner's changes never change the
\* answer without giving it the time of the change, and never date it later.
THEOREM AggregatorIsAPriceFeed == Spec => ImplementsPriceFeed
<1>1. RoundsInv /\ TypeOK' /\ [Next]_vars =>
        [Feed!Next]_(<<rounds[latestRoundId].answer, rounds[latestRoundId].updatedAt, now>>)
  BY FeedStep
<1> QED BY <1>1, FeedInit, RoundsStayInOrder, FluxTypes, PTL
        DEF Spec, ImplementsPriceFeed, Feed!Spec
=============================================================================
