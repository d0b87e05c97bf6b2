------------------------------ MODULE LpAccount ------------------------------
(* LpAccountV2 with the registries it asks: the capital the LP Account holds, *)
(* the zaps and swaps that turn one token into another, and TvlManager and   *)
(* Erc20Allocation, which list what the Chainlink nodes count.  A position   *)
(* in a strategy is a balance too, of the token that stands for it: a gauge  *)
(* token, an aToken, a stake at Convex.  Capital that is not listed has no   *)
(* value to the system, and a change of a listed amount makes the last       *)
(* report wrong.                                                             *)
(*                                                                           *)
(* What a zap or an exchange gives for what it takes is up to the market.    *)
(* The lock is kept as a flag; OracleAdapter and CapitalCycle have its       *)
(* length.                                                                   *)
EXTENDS Integers, EnumerableSet

CONSTANTS
  Tokens,             \* what the LP Account may hold
  Staked,             \* those balances that are no ERC20 token
  Underlyers,         \* tokens of the reserve pools
  ThreePoolCoins,     \* those the Curve 3pool exchanges
  Names, Empty, NameOf, Null, \* see NamedAddressSet
  ZapContracts, SwapContracts, AllocationContracts,
  MigrationZaps,      \* zaps that only unwind (ConvexMigrationZap)
  Erc20Allocation, Erc20Name, \* the allocation that counts tokens, its NAME
  Counted,            \* the tokens that each other allocation counts
  AssetAllocations, Erc20s,   \* what each zap and swap says it needs
  Coins, Receipt,     \* what a zap deploys, and the token it gets for it
  Unwinds,            \* pairs of what a zap unwinds and what it gets for it
  Rewards,            \* what a zap claims
  SwapFrom, SwapTo,
  FeeDenominator, RewardFees,
  Listable, FeeTokens,        \* tokens the Admin Safe may list, set a fee on
  MaxHeld, MaxTreasury, MaxClaim \* bounds

ASSUME NamesAssumption ==
  /\ Empty \notin Names
  /\ \A c \in ZapContracts \cup SwapContracts \cup AllocationContracts :
       NameOf[c] \in Names \cup {Empty} /\ c # Null
  /\ Erc20Name \in Names /\ Erc20Allocation \in AllocationContracts
  /\ NameOf[Erc20Allocation] = Erc20Name
\* Nothing is assumed of what a zap or a swap lists.
ASSUME TokensAssumption ==
  /\ Tokens # {} /\ Underlyers \cup ThreePoolCoins \cup Listable \cup FeeTokens \subseteq Tokens
  /\ \A z \in ZapContracts : AssetAllocations[z] \subseteq Names /\ Unwinds[z] \subseteq Tokens \X Tokens
  /\ \A z \in ZapContracts \ MigrationZaps : Coins[z] \subseteq Tokens /\ Receipt[z] \in Tokens
  /\ \A s \in SwapContracts : SwapFrom[s] \in Tokens /\ SwapTo[s] \in Tokens
  /\ \A c \in ZapContracts \cup SwapContracts : Erc20s[c] \subseteq Tokens
  /\ \A a \in AllocationContracts \ {Erc20Allocation} : Counted[a] \in Seq(Tokens)
\* registerRewardFee takes any fee but 0, also more than the whole.
ASSUME FeesAssumption == FeeDenominator \in Nat \ {0} /\ RewardFees \subseteq Nat \ {0}
ASSUME BoundsAssumption == MaxHeld \in [Tokens -> Nat] /\ {MaxTreasury, MaxClaim} \subseteq Nat

VARIABLES
  zaps, zapLookup, swaps, swapLookup, \* LpAccountV2
  allocations, allocationLookup,      \* TvlManager
  tokens,                             \* Erc20Allocation
  held,                               \* the LP Account's capital
  rewardTokens, rewardFee, treasury,
  locked,                             \* the oracle adapter
  everListed                          \* history: tokens ever counted

zapVars == <<zaps, zapLookup>>
swapVars == <<swaps, swapLookup>>
allocationVars == <<allocations, allocationLookup>>
registryVars == <<zapVars, swapVars, allocationVars, tokens, everListed>>
feeVars == <<rewardTokens, rewardFee>>
vars == <<registryVars, held, feeVars, treasury, locked>>

Zaps == INSTANCE NamedAddressSet
          WITH addresses <- zaps, lookup <- zapLookup, Contracts <- ZapContracts
Swaps == INSTANCE NamedAddressSet
          WITH addresses <- swaps, lookup <- swapLookup, Contracts <- SwapContracts
Allocations == INSTANCE NamedAddressSet
          WITH addresses <- allocations, lookup <- allocationLookup,
               Contracts <- AllocationContracts

TypeOK ==
  /\ Range(zaps) \subseteq ZapContracts /\ Range(swaps) \subseteq SwapContracts
  /\ Range(allocations) \subseteq AllocationContracts
  /\ Range(tokens) \subseteq Tokens
  /\ held \in [Tokens -> Nat]
  /\ rewardTokens \subseteq FeeTokens
  /\ rewardFee \in [Tokens -> Nat]
  /\ treasury \in [Tokens -> Nat]
  /\ locked \in BOOLEAN
  /\ everListed \subseteq Tokens

\* The deployment registers Erc20Allocation with TvlManager.
Init ==
  /\ Zaps!Init /\ Swaps!Init
  /\ allocations = <<Erc20Allocation>>
  /\ allocationLookup = [n \in Names |-> IF n = Erc20Name THEN Erc20Allocation ELSE Null]
  /\ tokens = <<>>
  /\ everListed = {}
  /\ held = [t \in Tokens |-> 0]
  /\ rewardTokens = {} /\ rewardFee = [t \in Tokens |-> 0]
  /\ treasury = [t \in Tokens |-> 0]
  /\ locked = FALSE

-----------------------------------------------------------------------------
(* What is counted. *)

IsErc20TokenRegistered(t) == IsMember(tokens, t)
IsAssetAllocationRegistered(n) == allocationLookup[n] # Null

\* numberOfTokens; a strategy's allocation has a token for each coin of the
\* pool, and counts each by the share of the pool that is held.
TokensOf(a) == IF a = Erc20Allocation THEN tokens ELSE Counted[a]
NumberOfTokens(a) == Len(TokensOf(a))

\* TvlManager.symbolOf and balanceOf, for the id of a token of an allocation;
\* an id that is not valid (any more) makes both revert.
ReadOf(a, index) ==
  IF ~IsMember(allocations, a) \/ index > NumberOfTokens(a) THEN <<>>
  ELSE <<TokensOf(a)[index], held[TokensOf(a)[index]]>>

LockOracle == locked' = TRUE

\* _checkAllocationRegistrations.
AllocationsRegistered(z) == \A n \in AssetAllocations[z] : IsAssetAllocationRegistered(n)

\* Mutant: one registered token is enough.
SomeErc20Registered(c) ==
  /\ IsAssetAllocationRegistered(Erc20Name)
  /\ \E t \in Erc20s[c] : IsErc20TokenRegistered(t)

\* _checkErc20Registrations, which calls whatever contract TvlManager knows
\* by Erc20Allocation's name.
Erc20sRegistered(c) ==
  /\ IsAssetAllocationRegistered(Erc20Name)
  /\ \A t \in Erc20s[c] : IsErc20TokenRegistered(t)

-----------------------------------------------------------------------------
(* Registrations, by the Admin Safe. *)

RegisterZap(z) == Zaps!Add(z) /\ UNCHANGED swapVars
RemoveZap(n) == Zaps!Remove(n) /\ UNCHANGED swapVars
RegisterSwap(s) == Swaps!Add(s) /\ UNCHANGED zapVars
RemoveSwap(n) == Swaps!Remove(n) /\ UNCHANGED zapVars

RegisterZapOrSwap ==
  /\ \/ (\E z \in ZapContracts : RegisterZap(z)) \/ (\E n \in Names : RemoveZap(n))
     \/ (\E s \in SwapContracts : RegisterSwap(s)) \/ (\E n \in Names : RemoveSwap(n))
  /\ UNCHANGED <<allocationVars, tokens, everListed, held, feeVars, treasury, locked>>

\* TvlManager.registerAssetAllocation.
RegisterAssetAllocation(a) ==
  /\ Allocations!Add(a)
  /\ everListed' = everListed \cup Range(TokensOf(a))
  /\ LockOracle
  /\ UNCHANGED <<zapVars, swapVars, tokens, held, feeVars, treasury>>

\* Mutant: any allocation may go.
RemoveAnyAllocation(n) ==
  /\ Allocations!Remove(n)
  /\ LockOracle
  /\ UNCHANGED <<zapVars, swapVars, tokens, everListed, held, feeVars, treasury>>

\* TvlManager.removeAssetAllocation: CANNOT_REMOVE_ALLOCATION.
RemoveAssetAllocation(n) ==
  /\ n # Erc20Name
  /\ Allocations!Remove(n)
  /\ LockOracle
  /\ UNCHANGED <<zapVars, swapVars, tokens, everListed, held, feeVars, treasury>>

ListToken(t) ==
  /\ tokens' = Include(tokens, t)
  /\ everListed' = everListed \cup {t}

\* Erc20Allocation._registerErc20Token.
RegisterErc20Token(t) ==
  /\ ListToken(t)
  /\ LockOracle
  /\ UNCHANGED <<zapVars, swapVars, allocationVars, held, feeVars, treasury>>

\* Mutant: removal takes no lock.
RemoveErc20TokenUnlocked(t) ==
  /\ tokens' = Exclude(tokens, t)
  /\ UNCHANGED <<zapVars, swapVars, allocationVars, everListed, held, feeVars,
                 treasury, locked>>

\* Erc20Allocation.removeErc20Token: the last token takes the index of the
\* removed one, and so the id the nodes may know that one by.
RemoveErc20Token(t) ==
  /\ tokens' = Exclude(tokens, t)
  /\ LockOracle
  /\ UNCHANGED <<zapVars, swapVars, allocationVars, everListed, held, feeVars, treasury>>

\* _registerRewardFee, _removeRewardFee.
RegisterRewardFee(t, fee) ==
  /\ rewardTokens' = rewardTokens \cup {t}
  /\ rewardFee' = [rewardFee EXCEPT ![t] = fee]
RemoveRewardFee(t) ==
  /\ rewardTokens' = rewardTokens \ {t}
  /\ rewardFee' = [rewardFee EXCEPT ![t] = 0]

SetRewardFees ==
  /\ \E t \in FeeTokens :
       (\E fee \in RewardFees : RegisterRewardFee(t, fee)) \/ RemoveRewardFee(t)
  /\ UNCHANGED <<registryVars, held, treasury, locked>>

-----------------------------------------------------------------------------
(* Operations of the LP Safe, and of mAPT's. *)

\* The balances after a trade: every amount is found, none exceeds the bound.
Balances(change) ==
  /\ \A t \in Tokens : held[t] + change[t] \in 0 .. MaxHeld[t]
  /\ held' = [t \in Tokens |-> held[t] + change[t]]

Change(t, amount) == [u \in Tokens |-> IF u = t THEN amount ELSE 0]

\* deployStrategy: some of each coin for some of the zap's token.
DeployStrategy(n) ==
  LET z == zapLookup[n]
  IN  /\ z # Null /\ z \notin MigrationZaps
      /\ AllocationsRegistered(z) /\ Erc20sRegistered(z)
      /\ \E amounts \in [Coins[z] -> UNION {0 .. MaxHeld[t] : t \in Coins[z]}],
            minted \in 0 .. MaxHeld[Receipt[z]] :
           /\ \E t \in Coins[z] : amounts[t] > 0
           /\ Balances([t \in Tokens |-> (IF t = Receipt[z] THEN minted ELSE 0)
                                          - (IF t \in Coins[z] THEN amounts[t] ELSE 0)])
      /\ LockOracle
      /\ UNCHANGED <<registryVars, feeVars, treasury>>

\* An exchange of some of one token for some of another.
Exchange(from, to) ==
  /\ from # to
  /\ \E amount \in 1 .. MaxHeld[from], received \in 0 .. MaxHeld[to] :
       Balances([Change(from, -amount) EXCEPT ![to] = received])
  /\ LockOracle
  /\ UNCHANGED <<registryVars, feeVars, treasury>>

\* unwindStrategy, which checks nothing of the registries.  StakedAaveZap may
\* only start the cooldown of what it shall unwind.
UnwindStrategy(n, from, to) ==
  /\ zapLookup[n] # Null
  /\ <<from, to>> \in Unwinds[zapLookup[n]]
  /\ \/ Exchange(from, to)
     \/ LockOracle /\ UNCHANGED <<registryVars, held, feeVars, treasury>>

\* swap.
Swap(n) ==
  /\ swapLookup[n] # Null
  /\ Erc20sRegistered(swapLookup[n])
  /\ Exchange(SwapFrom[swapLookup[n]], SwapTo[swapLookup[n]])

\* swapWith3Pool checks no registration.
SwapWith3Pool(from, to) == Exchange(from, to)

\* Mutant: the fee is taken from the whole balance after the claim.
RewardFeeOnBalance(t, claimed) == ((held[t] + claimed) * rewardFee[t]) \div FeeDenominator

\* _calculateRewardsFees: the fee on what the claim brought in.  rewardFee is
\* 0 for a token that is not a reward token.
RewardFee(t, claimed) == (claimed * rewardFee[t]) \div FeeDenominator

\* claim, for the zaps named N: rewards of all of them, then the fees of each
\* reward token once.
Claim(N) ==
  /\ \A n \in N : /\ zapLookup[n] # Null /\ zapLookup[n] \notin MigrationZaps
                   /\ Erc20sRegistered(zapLookup[n])
  /\ \E claimed \in [UNION {Rewards[zapLookup[n]] : n \in N} -> 0 .. MaxClaim] :
       LET gain(t) == IF t \in DOMAIN claimed THEN claimed[t] ELSE 0
       IN  /\ Balances([t \in Tokens |-> gain(t) - RewardFee(t, gain(t))])
           /\ treasury' = [t \in Tokens |-> treasury[t] + RewardFee(t, gain(t))]
  /\ \A t \in Tokens : treasury'[t] <= MaxTreasury
  /\ LockOracle
  /\ UNCHANGED <<registryVars, feeVars>>

\* emergencyExit: the whole balance of a token, be it a position, goes to the
\* Emergency Safe, without a lock.
EmergencyExit(t) ==
  /\ t \notin Staked
  /\ held' = [held EXCEPT ![t] = 0]
  /\ UNCHANGED <<registryVars, feeVars, treasury, locked>>

\* mAPT's fundLpAccount: an underlyer arrives and is listed.
ReceiveFromPool(t) ==
  /\ \E amount \in 1 .. MaxHeld[t] : Balances(Change(t, amount))
  /\ ListToken(t)
  /\ LockOracle
  /\ UNCHANGED <<zapVars, swapVars, allocationVars, feeVars, treasury>>

\* transferToPool, within mAPT's withdrawFromLpAccount.
TransferToPool(t) ==
  /\ \E amount \in 1 .. MaxHeld[t] : Balances(Change(t, -amount))
  /\ ListToken(t)
  /\ LockOracle
  /\ UNCHANGED <<zapVars, swapVars, allocationVars, feeVars, treasury>>

\* The lock ends.
Unlock ==
  /\ locked' = FALSE
  /\ UNCHANGED <<registryVars, held, feeVars, treasury>>

Next ==
  \/ RegisterZapOrSwap
  \/ \E a \in AllocationContracts : RegisterAssetAllocation(a)
  \/ \E n \in Names : RemoveAssetAllocation(n) \/ Swap(n)
  \/ SetRewardFees
  \/ \E t \in Listable : RegisterErc20Token(t)
  \/ \E t \in Tokens : RemoveErc20Token(t) \/ EmergencyExit(t)
  \/ \E n \in Names : DeployStrategy(n) \/ \E from, to \in Tokens : UnwindStrategy(n, from, to)
  \/ \E t \in Underlyers : ReceiveFromPool(t) \/ TransferToPool(t)
  \/ \E from, to \in ThreePoolCoins : SwapWith3Pool(from, to)
  \/ \E N \in SUBSET Names : Claim(N)
  \/ Unlock

Spec == Init /\ [][Next]_vars

-----------------------------------------------------------------------------
(* Correctness. *)

\* What is counted whenever z deploys: the tokens it lists, and those counted
\* by every contract that can be registered under a name it lists.
CheckedBy(z) ==
  {x \in Tokens :
     \/ x \in Erc20s[z]
     \/ \E n \in AssetAllocations[z] \ {Erc20Name} :
          \A a \in AllocationContracts \ {Erc20Allocation} :
            NameOf[a] = n => x \in Range(Counted[a])}

\* x is listed before the LP Account gets any of the tokens H: underlyers are
\* when they arrive, the checks of every other way see to it, or the way starts
\* from a token in H.
ListedBefore(x, H) ==
  /\ H \cap Underlyers \subseteq {x} /\ H \cap ThreePoolCoins = {}
  /\ \A z \in ZapContracts \ MigrationZaps :
       /\ Receipt[z] \in H => x \in CheckedBy(z)
       /\ Rewards[z] \cap H # {} => x \in Erc20s[z]
  /\ \A z \in ZapContracts : \A pair \in Unwinds[z] : pair[2] \in H => pair[1] \in H
  /\ \A c \in SwapContracts : SwapTo[c] \in H => x \in Erc20s[c]

Accounted == {x \in Tokens : \E H \in SUBSET Tokens : x \in H /\ ListedBefore(x, H)}

\* What the LP Account holds of an accounted token is counted, or was until the
\* Admin Safe removed it from the lists: nothing is checked when a strategy is
\* unwound, and yet the checks of its deployment cover what it returns.  With
\* the zaps as they are this leaves out the coins bought in the 3pool, rewards
\* that are not listed (stkAAVE, Convex's CVX), the stake of StakedAaveZap, and
\* the stake ConvexMigrationZap turns a gauge token into, which nothing checks.
CapitalIsListed == \A x \in Accounted : held[x] > 0 => x \in everListed

\* Erc20Allocation can neither be removed nor replaced: were it gone, every
\* check of a token would revert, and with it deployments, swaps and claims.
Erc20AllocationStays ==
  /\ allocationLookup[Erc20Name] = Erc20Allocation
  /\ IsMember(allocations, Erc20Allocation)

\* No id changes its meaning, its amount or its validity while the oracle
\* stays readable, so nodes that enumerate the ids first and read the amounts
\* later report nothing wrong that anyone acts on.  emergencyExit goes without
\* the lock: amounts of one token may drop to nothing, and only to that.
ReadsChangeUnderLock ==
  [][\/ locked'
     \/ \E t \in Tokens :
          \A a \in AllocationContracts : \A index \in 1 .. NumberOfTokens(a) + 1 :
            \/ ReadOf(a, index)' = ReadOf(a, index)
            \/ ReadOf(a, index) = <<t, held[t]>> /\ ReadOf(a, index)' = <<t, 0>>]_vars

\* Fees are paid by claims only, at the rate registered for the token on what
\* the claim brings in, rounded in favour of the LP Account.  Up to a rate of
\* the whole no fee lowers a balance; a higher one, which registerRewardFee
\* takes too, is paid from what was held before.
FeesComeFromClaims ==
  [][\A t \in Tokens : treasury'[t] # treasury[t] =>
       LET fee   == treasury'[t] - treasury[t]
           gross == held'[t] + fee - held[t]
       IN  /\ t \in rewardTokens /\ gross > 0
           /\ fee * FeeDenominator <= gross * rewardFee[t]
           /\ gross * rewardFee[t] < (fee + 1) * FeeDenominator
           /\ rewardFee[t] <= FeeDenominator => held'[t] >= held[t]]_vars
=============================================================================
