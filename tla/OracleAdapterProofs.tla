------------------------- MODULE OracleAdapterProofs -------------------------
(* Proofs about OracleAdapter for every set of assets, aggregators, answers, *)
(* periods and block times; and, since who may lock it, submit values and    *)
(* point it elsewhere are roles it is given in its deployment, about those.  *)
EXTENDS OracleAdapter, FiniteSetTheorems, TLAPS

LEMMA TypeLockAndSettings ==
  ASSUME TypeOK,
         \/ \E period \in LockPeriods : LockFor(period)
         \/ AdminStep,
         UNCHANGED chainVars
  PROVE  TypeOK'
<1> USE PeriodsAssumption DEF TypeOK, lockVars, valueVars, chainVars
<1>1. ASSUME NEW period \in LockPeriods, LockFor(period) PROVE TypeOK'
  BY <1>1 DEF LockFor
<1>2. CASE EmergencyUnlock
  BY <1>2 DEF EmergencyUnlock
<1>3. ASSUME NEW period \in LockPeriods, SetDefaultLockPeriod(period) PROVE TypeOK'
  BY <1>3 DEF SetDefaultLockPeriod
<1>4. ASSUME NEW s \in Submissions, EmergencySetValue(s[1], s[2], s[3]) PROVE TypeOK'
  <2>1. s[1] \in Feeds /\ s[2] \in Nat /\ s[3] \in Nat
    BY SubmissionsAssumption
  <2>2. submitted' \in [Feeds -> [value : Nat, periodEnd : Nat]]
    BY <1>4, <2>1 DEF EmergencySetValue
  <2> QED BY <1>4, <2>2 DEF EmergencySetValue
<1>5. ASSUME NEW f \in Feeds, EmergencyUnsetValue(f) PROVE TypeOK'
  <2>1. submitted' \in [Feeds -> [value : Nat, periodEnd : Nat]]
    BY <1>5 DEF EmergencyUnsetValue
  <2> QED BY <1>5, <2>1 DEF EmergencyUnsetValue
<1>6. ASSUME NEW r \in Rewirings, EmergencySetSources(r) PROVE TypeOK'
  <2>1. \A f \in DOMAIN r : r[f] \in Aggregators
    BY RewiringsAssumption
  <2>2. /\ source' \in [Feeds -> Aggregators \cup {NoSource}]
        /\ source'[Tvl] # NoSource
    BY <1>6, <2>1, SourceAssumption DEF EmergencySetSources, Feeds
  <2> QED BY <1>6, <2>2 DEF EmergencySetSources
<1>7. ASSUME NEW period \in StalePeriods, SetChainlinkStalePeriod(period) PROVE TypeOK'
  BY <1>7 DEF SetChainlinkStalePeriod
<1> QED
  BY <1>1, <1>2, <1>3, <1>4, <1>5, <1>6, <1>7 DEF AdminStep

LEMMA TypeOutside ==
  ASSUME TypeOK,
         NextBlock \/ \E a \in Aggregators, n \in Answers : Report(a, n),
         UNCHANGED mAptSupply
  PROVE  TypeOK'
<1>1. CASE NextBlock
  BY <1>1, PeriodsAssumption DEF NextBlock, TypeOK, lockVars, valueVars
<1>2. ASSUME NEW a \in Aggregators, NEW n \in Answers, Report(a, n) PROVE TypeOK'
  <2>1. answer' \in [Aggregators -> [price : Int, updatedAt : Nat]]
    BY <1>2, AnswersAssumption DEF Report, TypeOK
  <2> QED BY <1>2, <2>1 DEF Report, TypeOK, lockVars, valueVars
<1> QED BY <1>1, <1>2

\* Type correctness: in particular the stale period is never 0 and the TVL
\* always has a source.
THEOREM TypeCorrect == Spec => []TypeOK
<1>1. Init => TypeOK
  <2> SUFFICES ASSUME Init PROVE TypeOK
    OBVIOUS
  <2>1. answer \in [Aggregators -> [price : Int, updatedAt : Nat]]
    <3>1. {0} \subseteq Nat /\ Answers \subseteq Int
      BY AnswersAssumption
    <3>2. [price : Answers, updatedAt : {0}] \subseteq [price : Int, updatedAt : Nat]
      BY <3>1, Zenon
    <3> QED BY <3>2 DEF Init
  <2> QED BY <2>1, PeriodsAssumption, BlocksAssumption DEF Init, TypeOK
<1>2. TypeOK /\ [Next]_vars => TypeOK'
  <2> SUFFICES ASSUME TypeOK, [Next]_vars PROVE TypeOK'
    OBVIOUS
  <2>0. CASE LockAfterMinting
    BY <2>0, PeriodsAssumption, BlocksAssumption DEF LockAfterMinting, Lock, TypeOK, valueVars
  <2>1. CASE /\ (\E period \in LockPeriods : LockFor(period)) \/ AdminStep
             /\ UNCHANGED chainVars
    BY <2>1, TypeLockAndSettings
  <2>2. CASE /\ NextBlock \/ \E a \in Aggregators, n \in Answers : Report(a, n)
             /\ UNCHANGED mAptSupply
    BY <2>2, TypeOutside
  <2>3. CASE /\ mAptSupply' \in 0 .. MaxSupply
             /\ UNCHANGED <<lockVars, valueVars, answer, blockNumber, timestamp>>
    BY <2>3, BlocksAssumption DEF TypeOK, lockVars, valueVars
  <2>4. CASE UNCHANGED vars
    BY <2>4 DEF vars, lockVars, valueVars, chainVars, TypeOK
  <2> QED BY <2>0, <2>1, <2>2, <2>3, <2>4 DEF Next
<1> QED BY <1>1, <1>2, PTL DEF Spec

\* Only emergencyUnlock and lock() may bring the end of a lock forward.
THEOREM LocksAreKept == Spec => LockOnlyCutKnowingly
<1>1. TypeOK /\ [Next]_vars =>
        [lockEnd' < lockEnd => lockEnd' \in {blockNumber, blockNumber + defaultLockPeriod}]_vars
  <2> SUFFICES ASSUME TypeOK, Next, lockEnd' < lockEnd
               PROVE  lockEnd' \in {blockNumber, blockNumber + defaultLockPeriod}
    OBVIOUS
  <2> USE DEF TypeOK, lockVars
  <2>1. CASE Lock \/ EmergencyUnlock
    BY <2>1 DEF Lock, EmergencyUnlock
  <2>2. ASSUME NEW period \in LockPeriods, LockFor(period) PROVE FALSE
    BY <2>2, PeriodsAssumption DEF LockFor
  <2>3. ASSUME UNCHANGED lockEnd PROVE FALSE
    BY <2>3
  <2> QED
    BY <2>1, <2>2, <2>3
       DEF Next, LockAfterMinting, AdminStep, SetDefaultLockPeriod, EmergencySetValue, EmergencyUnsetValue,
           EmergencySetSources, SetChainlinkStalePeriod, NextBlock, Report
<1> QED BY <1>1, TypeCorrect, PTL DEF Spec, LockOnlyCutKnowingly

\* An override in force is the one of the step before or was just submitted.
THEOREM OverridesComeFromTheSafe == Spec => OverridesAreSubmitted
<1> DEFINE Submitted(f) ==
             \E s \in Submissions :
               /\ s[1] = f
               /\ submitted'[f] = [value |-> s[2], periodEnd |-> blockNumber + s[3]]
           Kept(f) == HasOverride(f) /\ submitted'[f] = submitted[f]
<1>1. TypeOK /\ [Next]_vars
        => [\A f \in Feeds : HasOverride(f)' =>
              \/ HasOverride(f) /\ submitted'[f] = submitted[f]
              \/ \E s \in Submissions :
                   /\ s[1] = f
                   /\ submitted'[f] = [value |-> s[2], periodEnd |-> blockNumber + s[3]]]_vars
  <2> SUFFICES ASSUME TypeOK, Next, NEW f \in Feeds, HasOverride(f)'
               PROVE  Kept(f) \/ Submitted(f)
    OBVIOUS
  <2>1. ASSUME UNCHANGED <<submitted, blockNumber>> PROVE Kept(f)
    BY <2>1 DEF HasOverride
  <2>2. CASE NextBlock
    <3>1. submitted[f].periodEnd \in Nat
      BY DEF TypeOK
    <3> QED BY <2>2, <3>1, SMT DEF NextBlock, HasOverride, TypeOK, valueVars
  <2>3. ASSUME NEW s \in Submissions, EmergencySetValue(s[1], s[2], s[3]),
               UNCHANGED blockNumber
        PROVE  Kept(f) \/ Submitted(f)
    <3>1. CASE s[1] = f
      <4>1. submitted'[f] = [value |-> s[2], periodEnd |-> blockNumber + s[3]]
        BY <2>3, <3>1 DEF EmergencySetValue, TypeOK
      <4> QED BY <3>1, <4>1
    <3>2. CASE s[1] # f
      BY <2>3, <3>2 DEF EmergencySetValue, HasOverride, TypeOK
    <3> QED BY <3>1, <3>2
  <2>4. ASSUME NEW g \in Feeds, EmergencyUnsetValue(g), UNCHANGED blockNumber
        PROVE  Kept(f)
    <3>1. g # f
      <4>1. CASE g = f
        <5>1. submitted'[f].periodEnd = blockNumber
          BY <2>4, <4>1 DEF EmergencyUnsetValue, TypeOK
        <5>2. blockNumber' < submitted'[f].periodEnd
          BY DEF HasOverride
        <5> QED BY <2>4, <5>1, <5>2, SMT DEF TypeOK
      <4> QED BY <4>1
    <3>2. submitted'[f] = submitted[f]
      BY <2>4, <3>1 DEF EmergencyUnsetValue, TypeOK
    <3> QED BY <2>4, <3>2 DEF HasOverride
  <2> QED
    BY <2>1, <2>2, <2>3, <2>4
       DEF Next, LockAfterMinting, Lock, LockFor, AdminStep, EmergencyUnlock, SetDefaultLockPeriod,
           EmergencySetSources, SetChainlinkStalePeriod, Report, valueVars, chainVars
<1> QED BY <1>1, TypeCorrect, PTL DEF Spec, OverridesAreSubmitted

\* The stale period in force is one that was configured.
LEMMA StalePeriodConfigured == Spec => [](chainlinkStalePeriod \in StalePeriods)
<1>1. Init => chainlinkStalePeriod \in StalePeriods
  BY DEF Init
<1>2. chainlinkStalePeriod \in StalePeriods /\ [Next]_vars
        => (chainlinkStalePeriod \in StalePeriods)'
  BY DEF Next, LockAfterMinting, Lock, LockFor, AdminStep, EmergencyUnlock, SetDefaultLockPeriod,
         EmergencySetValue, EmergencyUnsetValue, EmergencySetSources,
         SetChainlinkStalePeriod, NextBlock, Report, valueVars, vars
<1> QED BY <1>1, <1>2, PTL DEF Spec

\* No value is read from silence, whatever the settings.
THEOREM NothingIsReadFromSilence == Spec => []SilenceIsNotReadable
<1>1. TypeOK /\ chainlinkStalePeriod \in StalePeriods => SilenceIsNotReadable
  <2> SUFFICES ASSUME TypeOK, chainlinkStalePeriod \in StalePeriods,
                      \A a \in Aggregators, period \in StalePeriods :
                        timestamp - answer[a].updatedAt > period,
                      NEW f \in Feeds, submitted[f].periodEnd <= blockNumber,
                      IsReadable(f)
               PROVE  FALSE
    BY DEF SilenceIsNotReadable
  <2>1. ~HasOverride(f)
    BY SMT DEF HasOverride, TypeOK
  <2>2. SourceIsUsable(source[f])
    BY <2>1 DEF IsReadable
  <2>3. source[f] \in Aggregators
    BY <2>2 DEF SourceIsUsable, TypeOK
  <2>4. /\ timestamp - answer[source[f]].updatedAt > chainlinkStalePeriod
        /\ timestamp - answer[source[f]].updatedAt <= chainlinkStalePeriod
    BY <2>2, <2>3 DEF SourceIsUsable
  <2>5. timestamp \in Nat /\ answer[source[f]].updatedAt \in Nat /\ chainlinkStalePeriod \in Nat
    BY <2>3 DEF TypeOK
  <2> QED BY <2>4, <2>5
<1> QED BY <1>1, TypeCorrect, StalePeriodConfigured, PTL

-----------------------------------------------------------------------------
(* The roles the deployment gives the adapter and the contracts it serves.   *)

CONSTANTS Zero, DemoPools, Other, MaxChanges

VARIABLES registry, registryOwner, step, deployed, roles, changes

Deployment == INSTANCE AlphaDeployment

\* A contract that is not the deployment's has no roles to compare.
RolesInv == deployed \subseteq Deployment!Contracts /\ Deployment!RolesFollowDeployment

LEMMA CapturesArePairs ==
  ASSUME NEW n \in Deployment!Contracts, NEW c \in Deployment!Captures(n)
  PROVE  c = <<c[1], c[2]>>
BY DEF Deployment!Captures, Deployment!Contracts, Deployment!SystemContracts

\* A step that checks every name its contracts look up, or the Safes, creates
\* them with the deployment's roles and leaves the others theirs.
LEMMA StepGivesRoles ==
  ASSUME RolesInv, NEW s, NEW contracts, Deployment!DeployStep(s, contracts),
         Deployment!Range(contracts) \subseteq Deployment!Contracts,
         \A n \in Deployment!Range(contracts) : \A c \in Deployment!Captures(n) :
           c[2] \in Deployment!Safes \/ n # "erc20Allocation" =>
             c[2] \in Deployment!Safes \cup Deployment!Dependencies(s)
  PROVE  RolesInv'
<1>1. /\ deployed' = deployed \cup Deployment!Range(contracts)
      /\ \A n \in Deployment!Safes \cup Deployment!Dependencies(s) : registry.idToAddress[n] = n
      /\ \A n \in Deployment!Contracts :
           roles'[n] = IF n \in Deployment!Range(contracts) THEN Deployment!RolesNow(n)
                       ELSE roles[n]
  BY DEF Deployment!DeployStep, Deployment!CanDeploy, Deployment!AddressesMatch
<1>2. ASSUME NEW n \in deployed', NEW c \in Deployment!Captures(n),
             c[2] \in Deployment!Safes \/ n # "erc20Allocation"
      PROVE  c \in roles'[n]
  <2>1. n \in Deployment!Contracts
    BY <1>1 DEF RolesInv
  <2>2. CASE n \in Deployment!Range(contracts)
    <3>1. registry.idToAddress[c[2]] = c[2]
      BY <1>1, <1>2, <2>2
    <3>2. c \in Deployment!RolesNow(n)
      BY <2>1, <3>1, CapturesArePairs DEF Deployment!RolesNow
    <3> QED BY <1>1, <2>1, <2>2, <3>2
  <2>3. CASE n \notin Deployment!Range(contracts)
    BY <1>1, <1>2, <2>1, <2>3 DEF RolesInv, Deployment!RolesFollowDeployment
  <2> QED BY <2>2, <2>3
<1> QED BY <1>1, <1>2 DEF RolesInv, Deployment!RolesFollowDeployment

\* The demo pools are listed one by one.
LEMMA DemoPoolsListed ==
  ASSUME Deployment!NamesAssumption
  PROVE  Deployment!Range(Deployment!SetToSeq(DemoPools)) \subseteq DemoPools
<1> DEFINE n == Cardinality(DemoPools)
<1>1. IsFiniteSet(DemoPools)
  BY DEF Deployment!NamesAssumption, Deployment!IsFiniteSet, IsFiniteSet
<1>2. Deployment!Cardinality(DemoPools) = n
  BY DEF Deployment!Cardinality, Cardinality
<1>3. ExistsBijection(1 .. n, DemoPools)
  BY <1>1, FS_CardinalityType
<1>4. PICK f \in [1 .. n -> DemoPools] : \A i, j \in 1 .. n : f[i] = f[j] => i = j
  BY <1>3 DEF ExistsBijection, Bijection, Injection, IsInjective
<1>5. Deployment!IsInjective(f)
  BY <1>4 DEF Deployment!IsInjective
<1>6. Deployment!SetToSeq(DemoPools) \in [1 .. n -> DemoPools]
  BY <1>2, <1>5 DEF Deployment!SetToSeq
<1> QED BY <1>6 DEF Deployment!Range

LEMMA DeployKeepsRoles ==
  ASSUME Deployment!NamesAssumption, RolesInv, Deployment!Deploy
  PROVE  RolesInv'
<1> USE DEF Deployment!Contracts, Deployment!SystemContracts, Deployment!Safes, Deployment!Captures,
            Deployment!Dependencies, Deployment!Range
<1>1. CASE Deployment!DeployAddressRegistryV2Upgrade
  BY <1>1, StepGivesRoles DEF Deployment!DeployAddressRegistryV2Upgrade
<1>2. CASE Deployment!DeployMetaPoolToken
  BY <1>2, StepGivesRoles DEF Deployment!DeployMetaPoolToken
<1>3. CASE Deployment!DeployTvlManager
  BY <1>3, StepGivesRoles DEF Deployment!DeployTvlManager
<1>4. CASE Deployment!DeployLpAccount
  BY <1>4, StepGivesRoles DEF Deployment!DeployLpAccount
<1>5. CASE Deployment!DeployOracleAdapter
  BY <1>5, StepGivesRoles DEF Deployment!DeployOracleAdapter
<1>6. CASE Deployment!DeployDemoPools
  BY <1>6, StepGivesRoles, DemoPoolsListed DEF Deployment!DeployDemoPools
<1> QED BY <1>1, <1>2, <1>3, <1>4, <1>5, <1>6 DEF Deployment!Deploy

LEMMA RolesNext ==
  ASSUME Deployment!NamesAssumption, RolesInv, [Deployment!Next]_(Deployment!vars)
  PROVE  RolesInv'
<1>1. ASSUME UNCHANGED <<deployed, roles>> PROVE RolesInv'
  BY <1>1 DEF RolesInv, Deployment!RolesFollowDeployment
<1>2. CASE Deployment!Deploy
  BY <1>2, DeployKeepsRoles
<1>3. CASE \E id \in Deployment!Ids :
             \/ \E address \in {id, Other} : Deployment!RegisterAddress(id, address)
             \/ Deployment!DeleteAddress(id)
  BY <1>1, <1>3 DEF Deployment!RegisterAddress, Deployment!DeleteAddress, Deployment!OwnerActs
<1>4. CASE \E address \in {"emergencySafe", Other} : Deployment!TransferOwnership(address)
  BY <1>1, <1>4 DEF Deployment!TransferOwnership, Deployment!OwnerActs
<1>5. CASE UNCHANGED Deployment!vars
  BY <1>1, <1>5 DEF Deployment!vars
<1> QED BY <1>2, <1>3, <1>4, <1>5 DEF Deployment!Next

\* However the registry's owner registers, deletes or hands it over between
\* the steps, no contract is created with the roles of another one's.
THEOREM RolesAreDeployed ==
  Deployment!NamesAssumption => (Deployment!Spec => []Deployment!RolesFollowDeployment)
<1> SUFFICES ASSUME Deployment!NamesAssumption
             PROVE  Deployment!Spec => []Deployment!RolesFollowDeployment
  OBVIOUS
<1>1. Deployment!Init => RolesInv
  BY DEF Deployment!Init, RolesInv, Deployment!RolesFollowDeployment
<1>2. RolesInv => Deployment!RolesFollowDeployment
  BY DEF RolesInv
<1>3. RolesInv /\ [Deployment!Next]_(Deployment!vars) => RolesInv'
  BY RolesNext
<1> QED BY <1>1, <1>2, <1>3, PTL DEF Deployment!Spec

-----------------------------------------------------------------------------
(* The next step's guards.  ENABLED is out of the provers' reach, so they    *)
(* are stated one by one: whatever they let through, the step's assignments  *)
(* can always be made.                                                       *)

\* A step of the deployment that nothing stops.
StepIsOpen ==
  \/ Deployment!CanDeploy(0, <<>>)
  \/ Deployment!CanDeploy(1, <<"mApt">>)
  \/ Deployment!CanDeploy(2, <<"tvlManager", "erc20Allocation">>)
  \/ Deployment!CanDeploy(3, <<"lpAccount">>)
  \/ Deployment!CanDeploy(4, <<"oracleAdapter">>) /\ Deployment!CanRegisterAllocation
  \/ Deployment!CanDeploy(5, Deployment!SetToSeq(DemoPools))

RegistryIsRight ==
  /\ Deployment!AddressesMatch(Deployment!Safes \cup deployed)
  /\ registryOwner = "emergencySafe"

\* What the steps so far have created.
Created ==
  /\ step \in 0 .. 6
  /\ step > 1 => "mApt" \in deployed
  /\ step > 2 => {"tvlManager", "erc20Allocation"} \subseteq deployed
  /\ step > 3 => "lpAccount" \in deployed

LEMMA CreatedNext ==
  ASSUME Created, [Deployment!Next]_(Deployment!vars)
  PROVE  Created'
<1>1. ASSUME UNCHANGED <<deployed, step>> PROVE Created'
  BY <1>1 DEF Created
<1>2. CASE Deployment!Deploy
  <2>1. ASSUME NEW s \in 0 .. 5, NEW contracts, Deployment!DeployStep(s, contracts)
        PROVE  /\ step = s /\ step' = s + 1
               /\ deployed' = deployed \cup Deployment!Range(contracts)
    BY <2>1 DEF Deployment!DeployStep, Deployment!CanDeploy
  <2>2. /\ Deployment!Range(<<"mApt">>) = {"mApt"}
        /\ Deployment!Range(<<"tvlManager", "erc20Allocation">>) = {"tvlManager", "erc20Allocation"}
        /\ Deployment!Range(<<"lpAccount">>) = {"lpAccount"}
    BY DEF Deployment!Range
  <2>3. CASE Deployment!DeployAddressRegistryV2Upgrade
    BY <2>1, <2>3 DEF Created, Deployment!DeployAddressRegistryV2Upgrade
  <2>4. CASE Deployment!DeployMetaPoolToken
    BY <2>1, <2>2, <2>4 DEF Created, Deployment!DeployMetaPoolToken
  <2>5. CASE Deployment!DeployTvlManager
    BY <2>1, <2>2, <2>5 DEF Created, Deployment!DeployTvlManager
  <2>6. CASE Deployment!DeployLpAccount
    BY <2>1, <2>2, <2>6 DEF Created, Deployment!DeployLpAccount
  <2>7. CASE Deployment!DeployOracleAdapter
    BY <2>1, <2>7 DEF Created, Deployment!DeployOracleAdapter
  <2>8. CASE Deployment!DeployDemoPools
    BY <2>1, <2>8 DEF Created, Deployment!DeployDemoPools
  <2> QED BY <1>2, <2>3, <2>4, <2>5, <2>6, <2>7, <2>8 DEF Deployment!Deploy
<1>3. CASE \E id \in Deployment!Ids :
             \/ \E address \in {id, Other} : Deployment!RegisterAddress(id, address)
             \/ Deployment!DeleteAddress(id)
  BY <1>1, <1>3 DEF Deployment!RegisterAddress, Deployment!DeleteAddress, Deployment!OwnerActs
<1>4. CASE \E address \in {"emergencySafe", Other} : Deployment!TransferOwnership(address)
  BY <1>1, <1>4 DEF Deployment!TransferOwnership, Deployment!OwnerActs
<1>5. CASE UNCHANGED Deployment!vars
  BY <1>1, <1>5 DEF Deployment!vars
<1> QED BY <1>2, <1>3, <1>4, <1>5 DEF Deployment!Next

\* A contract whose names are the Safes' or created ones' finds them all.
LEMMA RightRegistryCreates ==
  ASSUME Deployment!NamesAssumption, RegistryIsRight, deployed \subseteq Deployment!Contracts,
         NEW n, \A c \in Deployment!Captures(n) : c[2] \in Deployment!Safes \cup deployed
  PROVE  /\ Deployment!CanCreate(n)
         /\ \A c \in Deployment!Captures(n) : <<c[1], c[2]>> \in Deployment!RolesNow(n)
<1>1. \A m \in Deployment!Safes \cup deployed : registry.idToAddress[m] = m /\ m # Zero
  BY DEF RegistryIsRight, Deployment!AddressesMatch, Deployment!NamesAssumption,
         Deployment!Addresses, Deployment!Ids
<1> QED BY <1>1 DEF Deployment!CanCreate, Deployment!RolesNow

LEMMA RightRegistryOpens ==
  ASSUME Deployment!NamesAssumption, RolesInv, Created, step < 6, RegistryIsRight
  PROVE  StepIsOpen
<1>0. deployed \subseteq Deployment!Contracts /\ registryOwner = "emergencySafe"
  BY DEF RolesInv, RegistryIsRight
<1>1. \A n \in Deployment!Safes \cup deployed : registry.idToAddress[n] = n
  BY DEF RegistryIsRight, Deployment!AddressesMatch
<1>2. "mApt" \notin DemoPools /\ "tvlManager" \notin DemoPools /\ "erc20Allocation" \notin DemoPools
      /\ "lpAccount" \notin DemoPools /\ "oracleAdapter" \notin DemoPools
  BY DEF Deployment!NamesAssumption, Deployment!SystemContracts
<1>3. ASSUME NEW s, NEW contracts, step = s, Deployment!Dependencies(s) \subseteq deployed,
             \A n \in Deployment!Range(contracts) : \A c \in Deployment!Captures(n) :
               c[2] \in Deployment!Safes \cup deployed
      PROVE  Deployment!CanDeploy(s, contracts)
  <2>1. \A i \in DOMAIN contracts : Deployment!CanCreate(contracts[i])
    BY <1>0, <1>3, RightRegistryCreates DEF Deployment!Range
  <2> QED BY <1>0, <1>1, <1>3, <2>1 DEF Deployment!CanDeploy, Deployment!AddressesMatch
<1>4. CASE step = 0
  BY <1>3, <1>4 DEF StepIsOpen, Deployment!Dependencies, Deployment!Range
<1>5. CASE step = 1
  BY <1>2, <1>3, <1>5
     DEF StepIsOpen, Deployment!Dependencies, Deployment!Range, Deployment!Captures,
         Deployment!Safes
<1>6. CASE step = 2
  <2>1. "mApt" \in deployed
    BY <1>6 DEF Created
  <2> QED BY <1>2, <1>3, <1>6, <2>1
          DEF StepIsOpen, Deployment!Dependencies, Deployment!Range, Deployment!Captures,
              Deployment!Safes
<1>7. CASE step = 3
  <2>1. "mApt" \in deployed
    BY <1>7 DEF Created
  <2> QED BY <1>2, <1>3, <1>7, <2>1
          DEF StepIsOpen, Deployment!Dependencies, Deployment!Range, Deployment!Captures,
              Deployment!Safes
<1>8. CASE step = 4
  <2>1. {"mApt", "tvlManager", "erc20Allocation", "lpAccount"} \subseteq deployed
    BY <1>8 DEF Created
  <2>2. \A c \in Deployment!Captures("oracleAdapter") : c[2] \in Deployment!Safes \cup deployed
    BY <1>2, <2>1 DEF Deployment!Captures, Deployment!Safes
  <2>3. Deployment!CanDeploy(4, <<"oracleAdapter">>)
    BY <1>3, <1>8, <2>1, <2>2 DEF Deployment!Dependencies, Deployment!Range
  <2>4. <<"CONTRACT", "tvlManager">> \in Deployment!RolesNow("oracleAdapter")
    <3>1. <<"CONTRACT", "tvlManager">> \in Deployment!Captures("oracleAdapter")
      BY <1>2 DEF Deployment!Captures
    <3> QED BY <1>0, <2>2, <3>1, RightRegistryCreates
  <2>5. <<"ADMIN", "adminSafe">> \in roles["tvlManager"]
    <3>1. <<"ADMIN", "adminSafe">> \in Deployment!Captures("tvlManager")
      BY <1>2 DEF Deployment!Captures
    <3> QED BY <2>1, <3>1 DEF RolesInv, Deployment!RolesFollowDeployment, Deployment!Safes
  <2> QED BY <2>3, <2>4, <2>5 DEF StepIsOpen, Deployment!CanRegisterAllocation
<1>9. CASE step = 5
  <2>1. "mApt" \in deployed
    BY <1>9 DEF Created
  <2>2. \A n \in Deployment!Range(Deployment!SetToSeq(DemoPools)) : Deployment!Captures(n) = {}
    BY DemoPoolsListed DEF Deployment!Captures
  <2> QED BY <1>3, <1>9, <2>1, <2>2 DEF StepIsOpen, Deployment!Dependencies
<1> QED BY <1>4, <1>5, <1>6, <1>7, <1>8, <1>9 DEF Created

\* Whatever the registry said for a while, once it names the deployment again
\* and the deployer's Safe owns it, every check of the next step passes: the
\* names its contracts look up are there, and the roles that the Admin Safe
\* needs to register the allocation were not spoiled by what was registered
\* while they were given.
THEOREM NextStepPasses ==
  Deployment!NamesAssumption => (Deployment!Spec => [](step < 6 /\ RegistryIsRight => StepIsOpen))
<1> SUFFICES ASSUME Deployment!NamesAssumption
             PROVE  Deployment!Spec => [](step < 6 /\ RegistryIsRight => StepIsOpen)
  OBVIOUS
<1>1. Deployment!Init => RolesInv /\ Created
  BY DEF Deployment!Init, RolesInv, Deployment!RolesFollowDeployment, Created
<1>2. RolesInv /\ Created => (step < 6 /\ RegistryIsRight => StepIsOpen)
  BY RightRegistryOpens
<1>3. RolesInv /\ Created /\ [Deployment!Next]_(Deployment!vars) => (RolesInv /\ Created)'
  BY RolesNext, CreatedNext
<1> QED BY <1>1, <1>2, <1>3, PTL DEF Deployment!Spec
=============================================================================
