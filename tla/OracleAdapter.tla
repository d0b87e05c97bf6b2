---------------------------- MODULE OracleAdapter ----------------------------
(* OracleAdapter: the gateway every contract reads prices and the TVL        *)
(* through.  It holds a lock that makes every read revert, submitted values  *)
(* that override Chainlink for a period, and the Chainlink source of each    *)
(* value.  The TVL and the assets' prices have storage of their own in the   *)
(* contract but the same rules, so they are the members of one set of feeds. *)
(*                                                                           *)
(* The aggregators, the mAPT supply and the chain's clock are external.      *)
EXTENDS Integers

CONSTANTS
  Assets, Tvl,        \* the priced assets, and the deployed value
  Aggregators,        \* Chainlink aggregator contracts
  NoSource,           \* the zero address of an asset without a source
  Answers,            \* the answers an aggregator may give (int256)
  LockPeriods,        \* bounds: arguments of lockFor and setDefaultLockPeriod
  Submissions,        \* bounds: <<feed, value, period>> the Safe submits
  Rewirings,          \* bounds: the sources one call of the Safe sets
  StalePeriods,       \* bounds: arguments of setChainlinkStalePeriod
  BlockTimes,         \* seconds from one block to the next
  FirstBlock, MaxBlock, \* bounds on block.number
  MaxSupply           \* bound on the external mAPT supply

Feeds == Assets \cup {Tvl}

ASSUME FeedsAssumption == Tvl \notin Assets
ASSUME AnswersAssumption == Answers \subseteq Int
ASSUME PeriodsAssumption == /\ LockPeriods \subseteq Nat
                            /\ StalePeriods \subseteq Nat
                            /\ BlockTimes \subseteq Nat
ASSUME SubmissionsAssumption == Submissions \subseteq Feeds \X Nat \X Nat
ASSUME SourceAssumption == NoSource \notin Aggregators
ASSUME RewiringsAssumption ==
  \A r \in Rewirings : /\ DOMAIN r \subseteq Assets \/ DOMAIN r = {Tvl}
                       /\ r \in [DOMAIN r -> Aggregators]
ASSUME BlocksAssumption == /\ FirstBlock \in Nat \ {0}
                           /\ MaxBlock \in Nat /\ MaxSupply \in Nat

VARIABLES
  lockEnd, defaultLockPeriod, chainlinkStalePeriod,
  source,          \* tvlSource and assetSources
  submitted,       \* submittedTvlValue and submittedAssetValues
  answer,          \* latestRoundData of each aggregator
  blockNumber, timestamp,
  mAptSupply       \* IERC20(mApt).totalSupply()

lockVars == <<lockEnd, defaultLockPeriod>>
valueVars == <<chainlinkStalePeriod, source, submitted>>
chainVars == <<answer, blockNumber, timestamp, mAptSupply>>
vars == <<lockVars, valueVars, chainVars>>

TypeOK ==
  /\ lockEnd \in Nat /\ defaultLockPeriod \in Nat
  /\ chainlinkStalePeriod \in Nat \ {0}
  /\ source \in [Feeds -> Aggregators \cup {NoSource}]
  /\ source[Tvl] # NoSource
  /\ submitted \in [Feeds -> [value : Nat, periodEnd : Nat]]
  /\ answer \in [Aggregators -> [price : Int, updatedAt : Nat]]
  /\ blockNumber \in Nat \ {0} /\ timestamp \in Nat
  /\ mAptSupply \in Nat

Init ==
  /\ lockEnd = 0 /\ defaultLockPeriod \in LockPeriods
  /\ chainlinkStalePeriod \in StalePeriods \ {0}
  /\ source \in {s \in [Feeds -> Aggregators \cup {NoSource}] : s[Tvl] # NoSource}
  /\ submitted = [f \in Feeds |-> [value |-> 0, periodEnd |-> 0]]
  /\ answer \in [Aggregators -> [price : Answers, updatedAt : {0}]]
  /\ blockNumber = FirstBlock /\ timestamp = 0
  /\ mAptSupply = 0

-----------------------------------------------------------------------------
(* Reads. *)

IsLocked == blockNumber < lockEnd

\* Mutant: the override still holds in the block it ends in.
HasOverrideInclusive(f) == blockNumber <= submitted[f].periodEnd

\* hasTvlOverride, hasAssetOverride.
HasOverride(f) == blockNumber < submitted[f].periodEnd

\* Mutant: an answer never goes stale.
SourceAlwaysUsable(a) == a # NoSource /\ answer[a].price >= 0

\* _getPriceFromSource does not revert.
SourceIsUsable(a) ==
  /\ a # NoSource
  /\ answer[a].price >= 0
  /\ timestamp - answer[a].updatedAt <= chainlinkStalePeriod

\* A zero price is never taken from Chainlink; a zero TVL only with no mAPT.
ZeroIsValid(f) == f = Tvl /\ mAptSupply = 0

\* getTvl and getAssetPrice return a value, and which.
IsReadable(f) ==
  /\ ~IsLocked
  /\ \/ HasOverride(f)
     \/ /\ SourceIsUsable(source[f])
        /\ answer[source[f]].price > 0 \/ ZeroIsValid(f)
Reading(f) == IF HasOverride(f) THEN submitted[f].value ELSE answer[source[f]].price

-----------------------------------------------------------------------------
(* The lock. *)

\* lock, by a contract with CONTRACT_ROLE.  It does not look at the old end.
Lock ==
  /\ lockEnd' = blockNumber + defaultLockPeriod
  /\ UNCHANGED <<defaultLockPeriod, valueVars>>

\* Mutant: no require after the assignment.
LockForAnyway(period) ==
  /\ lockEnd' = blockNumber + period
  /\ UNCHANGED <<defaultLockPeriod, valueVars>>

\* lockFor reverts with CANNOT_SHORTEN_LOCK unless the end moves on.
LockFor(period) ==
  /\ lockEnd' = blockNumber + period
  /\ lockEnd' > lockEnd
  /\ UNCHANGED <<defaultLockPeriod, valueVars>>

EmergencyUnlock ==
  /\ lockEnd' = blockNumber
  /\ UNCHANGED <<defaultLockPeriod, valueVars>>

SetDefaultLockPeriod(period) ==
  /\ defaultLockPeriod' = period
  /\ UNCHANGED <<lockEnd, valueVars>>

-----------------------------------------------------------------------------
(* Submitted values and sources. *)

\* emergencySetTvl, emergencySetAssetValue: 0 is a value.
EmergencySetValue(f, value, period) ==
  /\ submitted' = [submitted EXCEPT ![f] =
                     [value |-> value, periodEnd |-> blockNumber + period]]
  /\ UNCHANGED <<lockVars, chainlinkStalePeriod, source>>

\* emergencyUnsetTvl, emergencyUnsetAssetValue: an expired value counts as set.
EmergencyUnsetValue(f) ==
  /\ submitted[f].periodEnd # 0
  /\ submitted' = [submitted EXCEPT ![f].periodEnd = blockNumber]
  /\ UNCHANGED <<lockVars, chainlinkStalePeriod, source>>

\* emergencySetTvlSource, emergencySetAssetSource(s): r maps the feeds of
\* the call to their new sources, which must be contracts.
EmergencySetSources(r) ==
  /\ source' = [f \in Feeds |-> IF f \in DOMAIN r THEN r[f] ELSE source[f]]
  /\ UNCHANGED <<lockVars, chainlinkStalePeriod, submitted>>

SetChainlinkStalePeriod(period) ==
  /\ period > 0
  /\ chainlinkStalePeriod' = period
  /\ UNCHANGED <<lockVars, source, submitted>>

AdminStep ==
  \/ EmergencyUnlock
  \/ \E period \in LockPeriods : SetDefaultLockPeriod(period)
  \/ \E s \in Submissions : EmergencySetValue(s[1], s[2], s[3])
  \/ \E f \in Feeds : EmergencyUnsetValue(f)
  \/ \E r \in Rewirings : EmergencySetSources(r)
  \/ \E period \in StalePeriods : SetChainlinkStalePeriod(period)

-----------------------------------------------------------------------------
(* Outside the contract. *)

\* An aggregator's next round.
Report(a, price) ==
  /\ answer' = [answer EXCEPT ![a] = [price |-> price, updatedAt |-> timestamp]]
  /\ UNCHANGED <<lockVars, valueVars, blockNumber, timestamp>>

NextBlock ==
  /\ blockNumber < MaxBlock
  /\ blockNumber' = blockNumber + 1
  /\ \E seconds \in BlockTimes : timestamp' = timestamp + seconds
  /\ UNCHANGED <<lockVars, valueVars, answer>>

\* mAPT mints and burns in the transaction that takes its lock.
LockAfterMinting ==
  /\ Lock
  /\ mAptSupply' \in 0 .. MaxSupply
  /\ UNCHANGED <<answer, blockNumber, timestamp>>

Next ==
  \/ LockAfterMinting
  \/ /\ (\E period \in LockPeriods : LockFor(period)) \/ AdminStep
     /\ UNCHANGED chainVars
  \/ /\ NextBlock \/ \E a \in Aggregators, n \in Answers : Report(a, n)
     /\ UNCHANGED mAptSupply
  \/ /\ mAptSupply' \in 0 .. MaxSupply
     /\ UNCHANGED <<lockVars, valueVars, answer, blockNumber, timestamp>>

Spec == Init /\ [][Next]_vars

-----------------------------------------------------------------------------
(* Correctness. *)

\* A lock is cut short only by emergencyUnlock, which ends it in the current
\* block, or by lock(), which replaces it by the default period; no lockFor,
\* override or change of settings does.
LockOnlyCutKnowingly ==
  [][lockEnd' < lockEnd => lockEnd' \in {blockNumber, blockNumber + defaultLockPeriod}]_vars

\* An override in force was in force before, with the same value and end, or
\* the Safe has just submitted it: neither the passing of blocks nor revoking
\* revives an expired one, and no other call alters one in force.
OverridesAreSubmitted ==
  [][\A f \in Feeds : HasOverride(f)' =>
       \/ HasOverride(f) /\ submitted'[f] = submitted[f]
       \/ \E s \in Submissions :
            /\ s[1] = f
            /\ submitted'[f] = [value |-> s[2], periodEnd |-> blockNumber + s[3]]]_vars

\* Whatever was submitted and configured, once every report is older than
\* every stale period and every submitted period has passed, no value is
\* readable: the contract never prices from silence.
SilenceIsNotReadable ==
  (\A a \in Aggregators, period \in StalePeriods : timestamp - answer[a].updatedAt > period)
    => \A f \in Feeds : submitted[f].periodEnd <= blockNumber => ~IsReadable(f)
=============================================================================
