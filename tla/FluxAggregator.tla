--------------------------- MODULE FluxAggregator ---------------------------
(* Chainlink's FluxAggregator as the repository keeps it: oracles submit to  *)
(* numbered rounds, a round's answer is the median once enough have, a round *)
(* without an answer times out, and each submission is paid from funds that  *)
(* the owner deposits.                                                       *)
(*                                                                           *)
(* A submission outside the value bounds reverts and is no step; validators  *)
(* cannot affect a round.  The hand-over of oracles' admins is left out.     *)
EXTENDS Integers, Sequences, FiniteSets, Functions, SolidityMath

CONSTANTS
  Oracles, Requesters,
  Answers,           \* values oracles submit
  Payments,          \* amounts paid per submission
  RestartDelays, RequesterDelays, Timeouts, \* what the owner configures
  RoundMax,          \* ROUND_MAX, the largest uint32
  MaxOracleCount,    \* MAX_ORACLE_COUNT
  StartTime,         \* block.timestamp at deployment
  Moves,             \* amounts of LINK the owner and the oracles move
  MaxRound, MaxLink, \* bounds
  MaxChanges         \* bound on the owner's changes of oracles, parameters
                     \* and requesters

ASSUME RoundsAssumption == /\ MaxRound \in Nat \ {0} /\ RoundMax \in Nat
                           /\ RoundMax > MaxRound + 1
ASSUME TimesAssumption == /\ Timeouts \subseteq Nat /\ StartTime \in Nat
                          /\ \A t \in Timeouts : t < StartTime
ASSUME AmountsAssumption == /\ Payments \subseteq Nat /\ Answers \subseteq Int
                            /\ RestartDelays \subseteq Nat /\ RequesterDelays \subseteq Nat
                            /\ MaxLink \in Nat /\ MaxOracleCount \in Nat
                            /\ Moves \subseteq Nat \ {0} /\ MaxChanges \in Nat
ASSUME OraclesAssumption == IsFiniteSet(Oracles)

VARIABLES
  now,
  paymentAmount, maxSubmissionCount, minSubmissionCount, restartDelay, timeout,
  reportingRoundId, latestRoundId,
  rounds,            \* Round: answer, startedAt, updatedAt, answeredInRound
  details,           \* RoundDetails
  oracleAddresses,   \* the enabled oracles; their order affects nothing
  oracles,           \* OracleStatus
  requesters,
  available, allocated, \* recordedFunds
  link,              \* linkToken.balanceOf(this)
  changes            \* made by the owner so far

parameters == <<paymentAmount, maxSubmissionCount, minSubmissionCount, restartDelay, timeout>>
roundVars == <<reportingRoundId, latestRoundId, rounds, details>>
fundVars == <<available, allocated, link>>
vars == <<now, parameters, roundVars, oracleAddresses, oracles, requesters, fundVars, changes>>

NoDetails == [submissions |-> <<>>, maxSubmissions |-> 0, minSubmissions |-> 0,
              timeout |-> 0, paymentAmount |-> 0]
NoRequester == [authorized |-> FALSE, delay |-> 0, lastStartedRound |-> 0]

Rounds == 0 .. MaxRound

TypeOK ==
  /\ now \in Nat
  /\ paymentAmount \in Payments /\ timeout \in Timeouts
  /\ restartDelay \in RestartDelays \cup {0}
  /\ minSubmissionCount \in Nat /\ maxSubmissionCount \in Nat
  /\ reportingRoundId \in Rounds /\ latestRoundId \in Rounds
  /\ rounds \in [Rounds -> [answer : Int, startedAt : Nat, updatedAt : Nat,
                            answeredInRound : Rounds]]
  /\ \A r \in Rounds :
       /\ details[r].submissions \in Seq(Answers)
       /\ details[r].maxSubmissions \in Nat /\ details[r].minSubmissions \in Nat
       /\ details[r].timeout \in Nat /\ details[r].paymentAmount \in Nat
  /\ oracleAddresses \subseteq Oracles
  /\ oracles \in [Oracles -> [withdrawable : Nat, startingRound : Nat, endingRound : Nat,
                              lastReportedRound : Rounds, lastStartedRound : Rounds]]
  /\ requesters \in [Requesters -> [authorized : BOOLEAN, delay : Nat,
                                    lastStartedRound : Rounds]]
  /\ available \in Nat /\ allocated \in Nat /\ link \in Nat /\ changes \in 0 .. MaxChanges

\* constructor; round 0 counts as answered.
Init ==
  /\ now = StartTime
  /\ paymentAmount \in Payments /\ timeout \in Timeouts
  /\ maxSubmissionCount = 0 /\ minSubmissionCount = 0 /\ restartDelay = 0
  /\ reportingRoundId = 0 /\ latestRoundId = 0
  /\ rounds = [r \in Rounds |-> [answer |-> 0, startedAt |-> 0, answeredInRound |-> 0,
                                 updatedAt |-> IF r = 0 THEN StartTime - timeout ELSE 0]]
  /\ details = [r \in Rounds |-> NoDetails]
  /\ oracleAddresses = {}
  /\ oracles = [o \in Oracles |-> [withdrawable |-> 0, startingRound |-> 0, endingRound |-> 0,
                                   lastReportedRound |-> 0, lastStartedRound |-> 0]]
  /\ requesters = [q \in Requesters |-> NoRequester]
  /\ available = 0 /\ allocated = 0 /\ link = 0 /\ changes = 0

-----------------------------------------------------------------------------
(* Reading a round. *)

TimedOut(r) ==
  /\ rounds[r].startedAt > 0
  /\ details[r].timeout > 0
  /\ rounds[r].startedAt + details[r].timeout < now

Supersedable(r) == rounds[r].updatedAt > 0 \/ TimedOut(r)

NewRound(r) == r = reportingRoundId + 1

\* delayed, which despite its name says that o need not wait.
Delayed(o, r) ==
  oracles[o].lastStartedRound = 0 \/ r > oracles[o].lastStartedRound + restartDelay

\* Mutant: whoever is late may still report to the round before an answered one.
PreviousAnyTime(r, reporting) == r + 1 = reporting

PreviousAndCurrentUnanswered(r, reporting) ==
  r + 1 = reporting /\ rounds[reporting].updatedAt = 0

\* Mutant: an oracle may report twice to a round.
ValidTwice(o, r) ==
  /\ oracles[o].startingRound \in 1 .. r
  /\ r <= oracles[o].endingRound
  /\ oracles[o].lastReportedRound <= r
  /\ \/ r \in {reportingRoundId, reportingRoundId + 1}
     \/ PreviousAndCurrentUnanswered(r, reportingRoundId)
  /\ r = 1 \/ Supersedable(r - 1)

\* validateOracleRound finds no error.
ValidOracleRound(o, r) ==
  /\ oracles[o].startingRound \in 1 .. r
  /\ r <= oracles[o].endingRound
  /\ oracles[o].lastReportedRound < r
  /\ \/ r \in {reportingRoundId, reportingRoundId + 1}
     \/ PreviousAndCurrentUnanswered(r, reportingRoundId)
  /\ r = 1 \/ Supersedable(r - 1)

\* The k-th of the votes in order of size.
Ranked(votes, k) ==
  CHOOSE x \in Range(votes) :
    /\ Cardinality({i \in DOMAIN votes : votes[i] < x}) < k
    /\ k <= Cardinality({i \in DOMAIN votes : votes[i] <= x})

\* Median.calculateInplace.
Median(votes) ==
  LET half == Len(votes) \div 2
  IN  IF Len(votes) % 2 = 1 THEN Ranked(votes, half + 1)
      ELSE TruncDiv(Ranked(votes, half) + Ranked(votes, half + 1), 2)

-----------------------------------------------------------------------------
(* Rounds. *)

NewDetails ==
  [submissions |-> <<>>, maxSubmissions |-> maxSubmissionCount,
   minSubmissions |-> minSubmissionCount, timeout |-> timeout, paymentAmount |-> paymentAmount]

\* Mutant: a round that is closed keeps the time it had.
ClosedRoundsUndated(r) ==
  IF TimedOut(r)
  THEN [rounds EXCEPT ![r] = [@ EXCEPT !.answer = rounds[r - 1].answer,
                                       !.answeredInRound = rounds[r - 1].answeredInRound]]
  ELSE rounds

\* updateTimedOutRoundInfo: a round that timed out takes over the answer of
\* the round before, whether or not it had one of its own.
ClosedRounds(r) ==
  IF TimedOut(r)
  THEN [rounds EXCEPT ![r] = [@ EXCEPT !.answer = rounds[r - 1].answer,
                                       !.answeredInRound = rounds[r - 1].answeredInRound,
                                       !.updatedAt = now]]
  ELSE rounds
ClosedDetails(r) == IF TimedOut(r) THEN [details EXCEPT ![r] = NoDetails] ELSE details

\* initializeNewRound.
StartedRounds(r) == [ClosedRounds(r - 1) EXCEPT ![r].startedAt = now]
StartedDetails(r) == [ClosedDetails(r - 1) EXCEPT ![r] = NewDetails]

\* oracleInitializeNewRound starts the round; otherwise it must be open.
OracleStarts(o, r) == NewRound(r) /\ Delayed(o, r)

\* Mutant: one submission more than the minimum is waited for.
MoreThanEnough(votes, min) == Len(votes) > min
EnoughVotes(votes, min) == Len(votes) >= min

\* submit.
Submit(o, r, value) ==
  /\ ValidOracleRound(o, r)
  /\ LET starts   == OracleStarts(o, r)
         R        == IF starts THEN StartedRounds(r) ELSE rounds
         D        == IF starts THEN StartedDetails(r) ELSE details
         votes    == Append(D[r].submissions, value)
         answered == EnoughVotes(votes, D[r].minSubmissions)
         payment  == D[r].paymentAmount
     IN  /\ D[r].maxSubmissions # 0
         /\ reportingRoundId' = IF starts THEN r ELSE reportingRoundId
         /\ rounds' = IF answered
                      THEN [R EXCEPT ![r].answer = Median(votes), ![r].updatedAt = now,
                                     ![r].answeredInRound = r]
                      ELSE R
         /\ latestRoundId' = IF answered THEN r ELSE latestRoundId
         /\ details' = [D EXCEPT ![r] = IF Len(votes) >= @.maxSubmissions THEN NoDetails
                                        ELSE [@ EXCEPT !.submissions = votes]]
         /\ payment <= available
         /\ available' = available - payment
         /\ allocated' = allocated + payment
         /\ oracles' = [oracles EXCEPT
                          ![o].withdrawable = @ + payment,
                          ![o].lastReportedRound = r,
                          ![o].lastStartedRound = IF starts THEN r ELSE @]
  /\ UNCHANGED <<now, parameters, oracleAddresses, requesters, link, changes>>

\* Mutant: any round may be followed by a requested one.
RequestAnyTime(q) ==
  LET r == reportingRoundId + 1
  IN  /\ requesters[q].authorized
      /\ r > requesters[q].lastStartedRound + requesters[q].delay
      /\ r \in Rounds
      /\ reportingRoundId' = r
      /\ rounds' = StartedRounds(r)
      /\ details' = StartedDetails(r)
      /\ requesters' = [requesters EXCEPT ![q].lastStartedRound = r]
      /\ UNCHANGED <<now, parameters, latestRoundId, oracleAddresses, oracles, fundVars, changes>>

\* requestNewRound.
RequestNewRound(q) ==
  LET r == reportingRoundId + 1
  IN  /\ requesters[q].authorized
      /\ Supersedable(reportingRoundId)
      /\ \/ requesters[q].lastStartedRound = 0
         \/ r > requesters[q].lastStartedRound + requesters[q].delay
      /\ r \in Rounds
      /\ reportingRoundId' = r
      /\ rounds' = StartedRounds(r)
      /\ details' = StartedDetails(r)
      /\ requesters' = [requesters EXCEPT ![q].lastStartedRound = r]
      /\ UNCHANGED <<now, parameters, latestRoundId, oracleAddresses, oracles, fundVars, changes>>

-----------------------------------------------------------------------------
(* The owner. *)

RequiredReserve(payment, count) == 2 * payment * count

\* Mutant: the delay may be as large as the number of oracles.
ParametersFitLoosely(payment, min, max, delay, count) ==
  /\ min <= max /\ max <= count
  /\ count >= delay
  /\ available >= RequiredReserve(payment, count)
  /\ count > 0 => min > 0

\* The requirements of updateFutureRounds, for count oracles.
ParametersFit(payment, min, max, delay, count) ==
  /\ min <= max /\ max <= count
  /\ count = 0 \/ count > delay
  /\ available >= RequiredReserve(payment, count)
  /\ count > 0 => min > 0

UpdateFutureRounds(payment, min, max, delay, to) ==
  /\ ParametersFit(payment, min, max, delay, Cardinality(oracleAddresses))
  /\ paymentAmount' = payment /\ minSubmissionCount' = min /\ maxSubmissionCount' = max
  /\ restartDelay' = delay /\ timeout' = to
  /\ changes < MaxChanges /\ changes' = changes + 1
  /\ UNCHANGED <<now, roundVars, oracleAddresses, oracles, requesters, fundVars>>

StartingRound(o, endingRound) ==
  IF reportingRoundId # 0 /\ reportingRoundId = endingRound
  THEN reportingRoundId ELSE reportingRoundId + 1

\* removeOracle and addOracle; an oracle may be removed and added at once.
ChangedOracle(o, removed, added) ==
  LET ending == IF o \in removed THEN reportingRoundId + 1 ELSE oracles[o].endingRound
  IN  IF o \in added
      THEN [oracles[o] EXCEPT !.startingRound = StartingRound(o, ending),
                              !.endingRound = RoundMax]
      ELSE [oracles[o] EXCEPT !.endingRound = ending]

ChangeOracles(removed, added, min, max, delay) ==
  LET remaining == oracleAddresses \ removed
  IN  /\ removed \subseteq oracleAddresses
      /\ added \cap remaining = {}
      /\ Cardinality(remaining \cup added) <= MaxOracleCount
      /\ ParametersFit(paymentAmount, min, max, delay, Cardinality(remaining \cup added))
      /\ oracleAddresses' = remaining \cup added
      /\ oracles' = [o \in Oracles |-> ChangedOracle(o, removed, added)]
      /\ minSubmissionCount' = min /\ maxSubmissionCount' = max /\ restartDelay' = delay
      /\ changes < MaxChanges /\ changes' = changes + 1
      /\ UNCHANGED <<now, paymentAmount, timeout, roundVars, requesters, fundVars>>

SetRequesterPermissions(q, authorized, delay) ==
  /\ requesters[q].authorized # authorized
  /\ requesters' = [requesters EXCEPT
       ![q] = IF authorized THEN [@ EXCEPT !.authorized = TRUE, !.delay = delay]
              ELSE NoRequester]
  /\ changes < MaxChanges /\ changes' = changes + 1
  /\ UNCHANGED <<now, parameters, roundVars, oracleAddresses, oracles, fundVars>>

-----------------------------------------------------------------------------
(* LINK. *)

UpdateAvailableFunds ==
  /\ allocated <= link
  /\ available' = link - allocated
  /\ UNCHANGED <<now, parameters, roundVars, oracleAddresses, oracles, requesters,
                 allocated, link, changes>>

\* transferAndCall, with onTokenTransfer, or a plain transfer.
ReceiveLink(amount) ==
  /\ link + amount <= MaxLink
  /\ link' = link + amount
  /\ available' \in {available, link' - allocated}
  /\ UNCHANGED <<now, parameters, roundVars, oracleAddresses, oracles, requesters, allocated, changes>>

\* Mutant: the recorded funds are not updated after the transfer.
WithdrawFundsUnrecorded(amount) ==
  /\ available - RequiredReserve(paymentAmount, Cardinality(oracleAddresses)) >= amount
  /\ link >= amount
  /\ link' = link - amount
  /\ available' = available
  /\ UNCHANGED <<now, parameters, roundVars, oracleAddresses, oracles, requesters, allocated, changes>>

WithdrawFunds(amount) ==
  /\ available - RequiredReserve(paymentAmount, Cardinality(oracleAddresses)) >= amount
  /\ link >= amount
  /\ link' = link - amount
  /\ allocated <= link'
  /\ available' = link' - allocated
  /\ UNCHANGED <<now, parameters, roundVars, oracleAddresses, oracles, requesters, allocated, changes>>

\* Mutant: an oracle's balance is not looked at.
WithdrawPaymentUnchecked(o, amount) ==
  /\ oracles' = [oracles EXCEPT ![o].withdrawable = @ - amount]
  /\ allocated' = allocated - amount
  /\ link >= amount
  /\ link' = link - amount
  /\ UNCHANGED <<now, parameters, roundVars, oracleAddresses, requesters, available, changes>>

WithdrawPayment(o, amount) ==
  /\ amount <= oracles[o].withdrawable
  /\ oracles' = [oracles EXCEPT ![o].withdrawable = @ - amount]
  /\ allocated' = allocated - amount
  /\ link >= amount
  /\ link' = link - amount
  /\ UNCHANGED <<now, parameters, roundVars, oracleAddresses, requesters, available, changes>>

\* Time matters only while a round can still time out.
Tick ==
  /\ \E r \in Rounds : details[r].timeout > 0 /\ ~TimedOut(r)
  /\ now' = now + 1
  /\ UNCHANGED <<parameters, roundVars, oracleAddresses, oracles, requesters, fundVars, changes>>

-----------------------------------------------------------------------------
Counts == 0 .. Cardinality(Oracles)

Next ==
  \/ \E o \in Oracles, r \in Rounds, value \in Answers : Submit(o, r, value)
  \/ \E q \in Requesters :
       \/ RequestNewRound(q)
       \/ \E authorized \in BOOLEAN, delay \in RequesterDelays :
            SetRequesterPermissions(q, authorized, delay)
  \/ \E min, max \in Counts, delay \in RestartDelays :
       \/ \E payment \in Payments, to \in Timeouts :
            UpdateFutureRounds(payment, min, max, delay, to)
       \/ \E removed, added \in SUBSET Oracles : ChangeOracles(removed, added, min, max, delay)
  \/ UpdateAvailableFunds
  \/ \E amount \in Moves : ReceiveLink(amount) \/ WithdrawFunds(amount)
  \/ \E o \in Oracles, amount \in Moves : WithdrawPayment(o, amount)
  \/ Tick

\* Each oracle's node polls oracleRoundState, which sends it to the open round
\* it has not reported to; blocks are produced.
Fairness ==
  /\ \A o \in Oracles : WF_vars(\E value \in Answers : Submit(o, reportingRoundId, value))
  /\ WF_vars(Tick)

Spec == Init /\ [][Next]_vars /\ Fairness

-----------------------------------------------------------------------------
(* Properties. *)

\* The latest round only moves forward, and no late submission, time-out or
\* new round touches a round before it (submit, updateTimedOutRoundInfo).
PastAnswersStay ==
  [][/\ latestRoundId' >= latestRoundId
     /\ \A r \in 0 .. latestRoundId - 1 : rounds'[r] = rounds[r]]_vars

\* A round gets its answer only once as many different oracles have reported
\* to it as were asked for when it began, although oracles are removed, added
\* again and report late (validateOracleRound, updateRoundAnswer).
AnswersNeedOracles ==
  [][\A r \in 1 .. MaxRound :
       rounds[r].answeredInRound # r /\ rounds'[r].answeredInRound = r =>
         Cardinality({o \in Oracles : oracles'[o].lastReportedRound >= r}) >=
           (IF rounds[r].startedAt > 0 THEN details[r].minSubmissions
            ELSE minSubmissionCount)]_vars

\* What is recorded as available or owed to oracles is there, and what is owed
\* is what the oracles can withdraw (payOracle, withdrawPayment, withdrawFunds).
Solvent ==
  /\ available + allocated <= link
  /\ allocated = FoldFunctionOnSet(+, 0, [o \in Oracles |-> oracles[o].withdrawable], Oracles)

\* Once a round is over some enabled oracle may start the next, however the
\* oracles and the delay were changed before: restartDelay never bars them all
\* (updateFutureRounds, oracleInitializeNewRound).
SomeoneMayStart ==
  oracleAddresses # {} /\ Supersedable(reportingRoundId) =>
    \E o \in oracleAddresses :
      /\ Delayed(o, reportingRoundId + 1)
      /\ oracles[o].startingRound <= reportingRoundId + 1
      /\ oracles[o].lastReportedRound <= reportingRoundId

\* Rounds follow each other without a gap: every round before the reported one
\* was started, and got an answer or was closed (initializeNewRound).
NoRoundSkipped ==
  \A r \in 1 .. reportingRoundId - 1 :
    0 < rounds[r].startedAt /\ rounds[r].startedAt <= rounds[r].updatedAt

Open(r) == r = reportingRoundId /\ ~Supersedable(r)

\* Oracles that may still report to r, added or removed since or not.
StillToVote(r) ==
  {o \in Oracles : /\ oracles[o].startingRound \in 1 .. r
                   /\ r <= oracles[o].endingRound
                   /\ oracles[o].lastReportedRound < r}

\* Why a round without a time-out may stay open: funds are short, too few
\* oracles are left, or a requester began it while there were none.
Stranded(r) ==
  /\ details[r].timeout = 0
  /\ \/ available < details[r].paymentAmount
     \/ Len(details[r].submissions) + Cardinality(StillToVote(r)) < details[r].minSubmissions
     \/ details[r].maxSubmissions = 0 /\ \A o \in Oracles : oracles[o].lastReportedRound # r

\* A round that has begun is answered or times out, whatever the owner changes
\* meanwhile, unless it is stranded (submit, timedOut).
RoundsEnd == \A r \in Rounds : Open(r) ~> (~Open(r) \/ Stranded(r))

\* latestRoundData is a price feed: it may even return to the answer of an
\* earlier round, when the latest times out after it was answered, but never
\* without a new time (submit, updateTimedOutRoundInfo).
Feed == INSTANCE PriceFeed WITH price <- rounds[latestRoundId].answer,
                                updatedAt <- rounds[latestRoundId].updatedAt
ImplementsPriceFeed == Feed!Spec

\* FluxAggregator.sol:438: "updatedAt is the timestamp when the round last was
\* updated (i.e. answer was last computed)".
UpdatedWhenComputed ==
  [][rounds'[latestRoundId'].updatedAt # rounds[latestRoundId'].updatedAt =>
       rounds'[latestRoundId'].answeredInRound = latestRoundId']_vars
=============================================================================
