-------------------------- MODULE GovernanceToken --------------------------
(* GovernanceTokenV2: the APY token, part of whose balances lockers may lock *)
(* until lockEnd.  Allowances, the proxy admin and ownership are left out.   *)
EXTENDS Integers, FiniteSets, SolidityMath

CONSTANTS
  Users,
  VotingEscrow,      \* the escrow's account
  Lockers,           \* contracts the owner may let lock balances
  Amounts,           \* moved or locked at a time
  LockEnds,          \* times the owner sets
  Minted,            \* what each account starts with
  StartTime, MaxTime, \* bounds on block.timestamp
  MaxChanges         \* bound on what the owner changes

Accounts == Users \cup {VotingEscrow}

ASSUME UsersAssumption == IsFiniteSet(Users)
ASSUME TokenAssumption ==
  /\ VotingEscrow \notin Users
  /\ Amounts \subseteq Nat \ {0} /\ LockEnds \subseteq Nat
  /\ MaxChanges \in Nat /\ StartTime \in Nat /\ MaxTime \in Nat /\ StartTime <= MaxTime
  /\ Minted \in [Accounts -> Nat] /\ Minted[VotingEscrow] = 0

VARIABLES
  now,
  balance,
  lockEnd,
  lockers,           \* _lockers
  lockedAmount,      \* _lockedAmount
  changes            \* made by the owner so far

lockVars == <<lockEnd, lockers, lockedAmount>>
tokenVars == <<now, balance, lockVars, changes>>

TokenTypeOK ==
  /\ now \in StartTime .. MaxTime
  /\ balance \in [Accounts -> Nat]
  /\ lockEnd \in LockEnds \cup {0} /\ lockers \subseteq Lockers
  /\ lockedAmount \in [Users -> Nat] /\ changes \in 0 .. MaxChanges

TokenInit ==
  /\ now = StartTime
  /\ balance = Minted
  /\ lockEnd = 0 /\ lockers = {}
  /\ lockedAmount = [u \in Users |-> 0] /\ changes = 0

IsLockPeriodActive == now <= lockEnd

\* Only users' balances are locked.
LockedFor(a) == IF a \in Users THEN lockedAmount[a] ELSE 0

\* amount <= unlockedBalance(a); its subtraction reverts when more is locked
\* than a holds.
Unlocked(a, amount) ==
  IF IsLockPeriodActive
  THEN LockedFor(a) <= balance[a] /\ amount <= balance[a] - LockedFor(a)
  ELSE amount <= balance[a]

\* _transfer with _beforeTokenTransfer.
CanTransfer(from, amount) == amount <= balance[from] /\ Unlocked(from, amount)
Moved(from, to, amount) ==
  [a \in Accounts |-> balance[a] - (IF a = from THEN amount ELSE 0)
                                 + (IF a = to THEN amount ELSE 0)]

Transfer(from, to, amount) ==
  /\ CanTransfer(from, amount)
  /\ balance' = Moved(from, to, amount)
  /\ UNCHANGED <<now, lockVars, changes>>

\* The owner changes something.
OwnerActs == changes < MaxChanges /\ changes' = changes + 1

SetLockEnd(t) ==
  /\ OwnerActs
  /\ lockEnd' = t
  /\ UNCHANGED <<now, balance, lockers, lockedAmount>>

AddLocker(a) ==
  /\ OwnerActs
  /\ lockers' = lockers \cup {a}
  /\ UNCHANGED <<now, balance, lockEnd, lockedAmount>>
RemoveLocker(a) ==
  /\ OwnerActs
  /\ lockers' = lockers \ {a}
  /\ UNCHANGED <<now, balance, lockEnd, lockedAmount>>

\* Mutant: what is locked already may be locked again.
LockHeldAmount(a, u, amount) ==
  /\ a \in lockers
  /\ IsLockPeriodActive
  /\ amount <= balance[u]
  /\ lockedAmount' = [lockedAmount EXCEPT ![u] = @ + amount]
  /\ UNCHANGED <<now, balance, lockEnd, lockers, changes>>

LockAmount(a, u, amount) ==
  /\ a \in lockers
  /\ IsLockPeriodActive
  /\ Unlocked(u, amount)
  /\ lockedAmount' = [lockedAmount EXCEPT ![u] = @ + amount]
  /\ UNCHANGED <<now, balance, lockEnd, lockers, changes>>

Tick ==
  /\ now < MaxTime
  /\ now' = now + 1
  /\ UNCHANGED <<balance, lockVars, changes>>

TokenNext ==
  \/ \E u \in Users, to \in Accounts, amount \in Amounts : Transfer(u, to, amount)
  \/ \E t \in LockEnds : SetLockEnd(t)
  \/ \E a \in Lockers : AddLocker(a) \/ RemoveLocker(a)
  \/ \E a \in Lockers, u \in Users, amount \in Amounts : LockAmount(a, u, amount)
  \/ Tick
=============================================================================
