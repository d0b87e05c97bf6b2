-------------------------- MODULE AlphaDeployment --------------------------
(* AlphaDeployment: contracts are created in numbered steps, each a          *)
(* transaction, and entered in the address registry.  A contract takes its   *)
(* roles from the registry when it is created and keeps them.  Between the   *)
(* steps the registry's owner may change entries, or hand over the registry. *)
(*                                                                           *)
(* A contract is created at the address that bears its name; factories and   *)
(* the Safes' modules, without which a step reverts, are left out, as is the *)
(* proxy admin that the first step needs.                                    *)
EXTENDS AddressRegistry, FiniteSets

CONSTANTS
  DemoPools,
  Other,             \* an address that is none of the deployment's
  MaxChanges         \* bound on what the registry's owner changes

Safes == {"emergencySafe", "adminSafe", "lpSafe"}
SystemContracts == {"mApt", "tvlManager", "erc20Allocation", "lpAccount", "oracleAdapter"}
Contracts == SystemContracts \cup DemoPools
Ids == Safes \cup Contracts
Addresses == Ids \cup {Other}

ASSUME NamesAssumption == /\ Zero \notin Addresses /\ Other \notin Ids
                          /\ MaxChanges \in Nat /\ IsFiniteSet(DemoPools)
                          /\ DemoPools \cap (Safes \cup SystemContracts) = {}

VARIABLES
  registry, registryOwner,
  step,
  deployed,          \* contracts created so far
  roles,             \* of each contract: pairs of a role and who has it
  changes            \* made by the registry's owner so far

vars == <<registry, registryOwner, step, deployed, roles, changes>>

\* Mutant: TvlManager's roles as the comment at the head of the file has them.
CapturesAsDocumented(n) ==
  IF n \in DemoPools THEN {} ELSE
  {<<"EMERGENCY", "emergencySafe">>} \cup
    CASE n \in {"mApt", "tvlManager"} -> {<<"LP", "lpSafe">>}
      [] n = "erc20Allocation" -> {<<"ADMIN", "adminSafe">>, <<"CONTRACT", "mApt">>}
      [] n = "lpAccount" -> {<<"ADMIN", "adminSafe">>, <<"LP", "lpSafe">>, <<"CONTRACT", "mApt">>}
      [] n = "oracleAdapter" ->
           {<<"ADMIN", "adminSafe">>} \cup
             {"CONTRACT"} \X {"mApt", "tvlManager", "lpAccount", "erc20Allocation"}
      [] OTHER -> {}

\* The constructors and initializers: a role and the name that is looked up.
Captures(n) ==
  IF n \in DemoPools THEN {} ELSE
  {<<"EMERGENCY", "emergencySafe">>} \cup
    CASE n = "mApt" -> {<<"LP", "lpSafe">>}
      [] n = "tvlManager" -> {<<"ADMIN", "adminSafe">>}
      [] n = "erc20Allocation" -> {<<"ADMIN", "adminSafe">>, <<"CONTRACT", "mApt">>}
      [] n = "lpAccount" -> {<<"ADMIN", "adminSafe">>, <<"LP", "lpSafe">>, <<"CONTRACT", "mApt">>}
      [] n = "oracleAdapter" ->
           {<<"ADMIN", "adminSafe">>} \cup
             {"CONTRACT"} \X {"mApt", "tvlManager", "lpAccount", "erc20Allocation"}

\* Mutant: deploy_4 does not look whether the LP Account is still registered.
DependenciesWithoutLpAccount(s) ==
  CASE s \in {3, 5} -> {"mApt"}
    [] s = 4 -> {"mApt", "tvlManager", "erc20Allocation"}
    [] OTHER -> {}

\* What a step checks with checkRegisteredDependencies.
Dependencies(s) ==
  CASE s \in {3, 5} -> {"mApt"}
    [] s = 4 -> {"mApt", "lpAccount", "tvlManager", "erc20Allocation"}
    [] OTHER -> {}

AddressesMatch(S) == \A n \in S : registry.idToAddress[n] = n

\* getAddress reverts for a name that is not registered.
CanCreate(n) == \A c \in Captures(n) : registry.idToAddress[c[2]] # Zero
RolesNow(n) == {<<c[1], registry.idToAddress[c[2]]>> : c \in Captures(n)}

Init ==
  /\ registry = RegisteredAll(NewRegistry(Ids),
                  << <<"emergencySafe", "emergencySafe">>, <<"adminSafe", "adminSafe">>,
                     <<"lpSafe", "lpSafe">> >>)
  /\ registryOwner = "emergencySafe"
  /\ step = 0 /\ deployed = {} /\ changes = 0
  /\ roles = [n \in Contracts |-> {}]

\* The modifiers of the steps, and that no constructor reverts.
CanDeploy(s, contracts) ==
  /\ step = s
  /\ AddressesMatch(Safes)
  /\ AddressesMatch(Dependencies(s))
  /\ registryOwner = "emergencySafe"
  /\ \A i \in DOMAIN contracts : CanCreate(contracts[i])

\* The body common to the steps: the contracts are created and registered in
\* order, none looked up by one created in the same step.
DeployStep(s, contracts) ==
  /\ CanDeploy(s, contracts)
  /\ step' = s + 1
  /\ registry' = RegisteredAll(registry, [i \in DOMAIN contracts |-> <<contracts[i], contracts[i]>>])
  /\ deployed' = deployed \cup Range(contracts)
  /\ roles' = [n \in Contracts |-> IF n \in Range(contracts) THEN RolesNow(n) ELSE roles[n]]
  /\ UNCHANGED <<registryOwner, changes>>

DeployAddressRegistryV2Upgrade == DeployStep(0, <<>>)
DeployMetaPoolToken == DeployStep(1, <<"mApt">>)
DeployTvlManager == DeployStep(2, <<"tvlManager", "erc20Allocation">>)
DeployLpAccount == DeployStep(3, <<"lpAccount">>)

\* The Admin Safe then registers the allocation with the TVL manager, which
\* locks the new adapter: it must be allowed the one and the other.
CanRegisterAllocation ==
  /\ <<"ADMIN", "adminSafe">> \in roles["tvlManager"]
  /\ <<"CONTRACT", "tvlManager">> \in RolesNow("oracleAdapter")

DeployOracleAdapter == DeployStep(4, <<"oracleAdapter">>) /\ CanRegisterAllocation

DeployDemoPools == DeployStep(5, SetToSeq(DemoPools))

Deploy ==
  \/ DeployAddressRegistryV2Upgrade
  \/ DeployMetaPoolToken
  \/ DeployTvlManager
  \/ DeployLpAccount
  \/ DeployOracleAdapter
  \/ DeployDemoPools

-----------------------------------------------------------------------------
(* The registry's owner. *)

OwnerActs ==
  /\ changes < MaxChanges /\ changes' = changes + 1
  /\ UNCHANGED <<step, deployed, roles>>

RegisterAddress(id, address) ==
  /\ OwnerActs
  /\ registry' = Registered(registry, id, address)
  /\ UNCHANGED registryOwner

\* The first version of the registry has no deleteAddress.
DeleteAddress(id) ==
  /\ step > 0
  /\ OwnerActs
  /\ registry' = Deleted(registry, id)
  /\ UNCHANGED registryOwner

TransferOwnership(address) ==
  /\ OwnerActs
  /\ registryOwner' = address
  /\ UNCHANGED registry

Next ==
  \/ Deploy
  \/ \E id \in Ids :
       \/ \E address \in {id, Other} : RegisterAddress(id, address)
       \/ DeleteAddress(id)
  \/ \E address \in {"emergencySafe", Other} : TransferOwnership(address)

Spec == Init /\ [][Next]_vars

-----------------------------------------------------------------------------
(* Properties. *)

\* Every contract trusts the Safes and contracts of the deployment, whatever
\* was registered in between; except that deploy_2 does not check which mAPT
\* the ERC20 allocation is to trust (checkSafeRegistrations,
\* checkRegisteredDependencies, the constructors).
RolesFollowDeployment ==
  \A n \in deployed : \A c \in Captures(n) :
    c[2] \in Safes \/ n # "erc20Allocation" => c \in roles[n]

\* Whatever the registry said for a while, once it names the deployment again
\* the next step goes through: no step leaves behind roles that stop another.
NextStepIsOpen ==
  /\ step < 6
  /\ AddressesMatch(Safes \cup deployed)
  /\ registryOwner = "emergencySafe"
  => ENABLED Deploy
=============================================================================
