--------------------------- MODULE GovernanceProofs ---------------------------
(* Proofs about the APY token and the escrow, for every set of users, every  *)
(* amount and every length of weeks and locks: deposits are backed, what     *)
(* lockers locked is not moved away, the votes add up to their total, and    *)
(* a shutdown leaves them to fall as they would have.                        *)
EXTENDS Governance, SolidityMathLemmas

\* What the arguments need of the types.
LedgerTypes ==
  /\ now \in Nat
  /\ balance \in [Accounts -> Nat]
  /\ lockedAmount \in [Users -> Nat]
  /\ locked \in [Users -> [amount : Nat, end : Nat]]

LedgerInv == LedgerTypes /\ LocksAreBacked

-----------------------------------------------------------------------------
(* The token. *)

\* A transfer that is allowed is covered, and moves an amount from one
\* account to another.
LEMMA MovedBalances ==
  ASSUME LedgerTypes, NEW from \in Accounts, NEW to \in Accounts, NEW amount \in Nat,
         amount <= balance[from]
  PROVE  /\ Moved(from, to, amount) \in [Accounts -> Nat]
         /\ \A a \in Accounts :
              /\ a # from => Moved(from, to, amount)[a] >= balance[a]
              /\ Moved(from, to, amount)[a] >= balance[a] - amount
         /\ from # to => /\ Moved(from, to, amount)[to] = balance[to] + amount
                         /\ Moved(from, to, amount)[from] = balance[from] - amount
BY DEF Moved, LedgerTypes

\* Nothing moves that is locked, while the period lasts.
LEMMA UnlockedAmount ==
  ASSUME LedgerTypes, NEW u \in Users, NEW amount \in Nat, CanTransfer(u, amount),
         IsLockPeriodActive
  PROVE  lockedAmount[u] <= balance[u] - amount
BY DEF CanTransfer, Unlocked, LockedFor, LedgerTypes, Accounts

\* A transfer by a user, of what is unlocked, leaves what is locked.
LEMMA TransferHolds ==
  ASSUME LedgerTypes, NEW u \in Users, NEW to \in Accounts, NEW amount \in Nat,
         CanTransfer(u, amount), IsLockPeriodActive, balance' = Moved(u, to, amount),
         lockedAmount' = lockedAmount, NEW v \in Users, lockedAmount[v] <= balance[v]
  PROVE  lockedAmount'[v] <= balance'[v]
<1>1. /\ u \in Accounts /\ v \in Accounts /\ lockedAmount[v] \in Nat
      /\ balance[v] \in Nat /\ balance[u] \in Nat /\ amount <= balance[u]
  BY DEF Accounts, LedgerTypes, CanTransfer
<1>2. balance' \in [Accounts -> Nat]
  BY <1>1, MovedBalances
<1>3. balance'[v] \in Nat
  BY <1>1, <1>2
<1>4. CASE v = u
  <2>1. balance'[v] >= balance[v] - amount
    BY <1>1, MovedBalances
  <2>2. lockedAmount[v] <= balance[v] - amount
    BY <1>4, UnlockedAmount
  <2> QED BY <1>1, <1>3, <2>1, <2>2
<1>5. CASE v # u
  <2>1. balance'[v] >= balance[v]
    BY <1>1, <1>5, MovedBalances
  <2> QED BY <1>1, <1>3, <2>1
<1> QED BY <1>4, <1>5

-----------------------------------------------------------------------------
(* The escrow's deposits. *)

Deposited == SumFunctionOnSet([u \in Users |-> locked[u].amount], Users)

LEMMA BackedBySum == LocksAreBacked <=> supply = Deposited /\ supply <= balance[VotingEscrow]
BY DEF LocksAreBacked, Deposited, SumFunction

\* When one user's lock changes, the deposits change by as much.
LEMMA DepositedChange ==
  ASSUME LedgerTypes, NEW u \in Users, NEW lock \in [amount : Nat, end : Nat],
         locked' = [locked EXCEPT ![u] = lock]
  PROVE  /\ Deposited' = Deposited + lock.amount - locked[u].amount
         /\ locked[u].amount \in Nat /\ locked[u].amount <= Deposited
         /\ Deposited \in Nat
         /\ locked' \in [Users -> [amount : Nat, end : Nat]]
<1> DEFINE f == [v \in Users |-> locked[v].amount]
           g == [v \in Users |-> locked'[v].amount]
<1>1. /\ \A v \in Users : f[v] \in Nat /\ f[v] \in Int /\ g[v] \in Int
      /\ \A v \in Users : v # u => g[v] = f[v]
      /\ g[u] = lock.amount /\ f[u] = locked[u].amount
      /\ locked' \in [Users -> [amount : Nat, end : Nat]]
  BY DEF LedgerTypes
<1>2. Deposited = SumFunctionOnSet(f, Users) /\ Deposited' = SumFunctionOnSet(g, Users)
  BY DEF Deposited
<1> HIDE DEF f, g
<1>3. SumFunctionOnSet(g, Users) = SumFunctionOnSet(f, Users) + g[u] - f[u]
  <2>1. \A v \in Users : f[v] \in Int /\ g[v] \in Int
    BY <1>1
  <2>2. \A v \in Users : v # u => g[v] = f[v]
    BY <1>1
  <2> QED BY <2>1, <2>2, UsersAssumption, SumChange
<1>4. SumFunctionOnSet(f, Users) \in Nat /\ f[u] <= SumFunctionOnSet(f, Users)
  BY <1>1, UsersAssumption, SumOfNaturals
<1> QED BY <1>1, <1>2, <1>3, <1>4

\* _deposit_for: the escrow receives what the lock grows by.
LEMMA DepositKeepsInv ==
  ASSUME LedgerInv, NEW u \in Users, NEW value \in Nat,
         NEW lock \in [amount : Nat, end : Nat], lock.amount = locked[u].amount + value,
         Deposit(u, value, lock)
  PROVE  LedgerInv'
<1>1. /\ LedgerTypes /\ supply = Deposited /\ supply <= balance[VotingEscrow]
      /\ u \in Accounts /\ VotingEscrow \in Accounts /\ u # VotingEscrow
  BY BackedBySum, TokenAssumption DEF LedgerInv, Accounts
<1>2. /\ supply' = supply + value /\ locked' = [locked EXCEPT ![u] = lock]
      /\ balance' = Moved(u, VotingEscrow, value)
      /\ now' = now /\ lockedAmount' = lockedAmount
      /\ value <= balance[u]
  <2>1. value = 0 => value <= balance[u]
    BY <1>1 DEF LedgerTypes
  <2> QED BY <2>1 DEF Deposit, CanTransfer, lockVars
<1>3. /\ balance' \in [Accounts -> Nat]
      /\ balance'[VotingEscrow] = balance[VotingEscrow] + value
  BY <1>1, <1>2, MovedBalances
<1>4. Deposited' = Deposited + value /\ Deposited \in Nat
      /\ locked' \in [Users -> [amount : Nat, end : Nat]]
  <2>1. /\ Deposited' = Deposited + lock.amount - locked[u].amount /\ Deposited \in Nat
        /\ locked' \in [Users -> [amount : Nat, end : Nat]]
        /\ locked[u].amount \in Nat
    BY <1>1, <1>2, DepositedChange
  <2> QED BY <2>1
<1>5. LedgerTypes'
  BY <1>1, <1>2, <1>3, <1>4 DEF LedgerTypes
<1>6. supply' = Deposited' /\ supply' <= balance'[VotingEscrow]
  <2>1. balance[VotingEscrow] \in Nat
    BY <1>1 DEF LedgerTypes
  <2> QED BY <1>1, <1>2, <1>3, <1>4, <2>1
<1>7. LocksAreBacked'
  BY <1>6 DEF LocksAreBacked, Deposited, SumFunction
<1> QED BY <1>5, <1>7 DEF LedgerInv

\* A transfer to or between accounts leaves the escrow what it had.
LEMMA TransferKeepsInv ==
  ASSUME LedgerInv, NEW u \in Users, NEW to \in Accounts, NEW amount \in Nat,
         CanTransfer(u, amount), balance' = Moved(u, to, amount),
         UNCHANGED <<now, lockedAmount, locked, supply>>
  PROVE  LedgerInv'
<1>1. /\ LedgerTypes /\ supply = Deposited /\ supply <= balance[VotingEscrow]
      /\ u \in Accounts /\ VotingEscrow \in Accounts /\ u # VotingEscrow
      /\ amount <= balance[u]
  BY BackedBySum, TokenAssumption DEF LedgerInv, Accounts, CanTransfer
<1>2. balance' \in [Accounts -> Nat] /\ balance'[VotingEscrow] >= balance[VotingEscrow]
  BY <1>1, MovedBalances
<1>3. LedgerTypes'
  BY <1>1, <1>2 DEF LedgerTypes
<1>4. Deposited' = Deposited
  BY DEF Deposited
<1>5. supply' <= balance'[VotingEscrow]
  <2>1. balance[VotingEscrow] \in Nat /\ balance'[VotingEscrow] \in Nat
    BY <1>1, <1>2 DEF LedgerTypes
  <2>2. Deposited \in Nat
    <3> DEFINE f == [v \in Users |-> locked[v].amount]
    <3>1. \A v \in Users : f[v] \in Nat
      BY <1>1 DEF LedgerTypes
    <3>2. SumFunctionOnSet(f, Users) \in Nat
      <4> HIDE DEF f
      <4> QED BY <3>1, UsersAssumption, SumOfNaturals
    <3> QED BY <3>2 DEF Deposited
  <2> QED BY <1>1, <1>2, <2>1, <2>2
<1>6. LocksAreBacked'
  BY <1>1, <1>4, <1>5 DEF LocksAreBacked, Deposited, SumFunction
<1> QED BY <1>3, <1>6 DEF LedgerInv

LEMMA WithdrawKeepsInv ==
  ASSUME LedgerInv, NEW u \in Users, Withdraw(u)
  PROVE  LedgerInv'
<1> DEFINE amount == locked[u].amount
<1>1. /\ LedgerTypes /\ supply = Deposited /\ supply <= balance[VotingEscrow]
      /\ u \in Accounts /\ VotingEscrow \in Accounts /\ u # VotingEscrow
  BY BackedBySum, TokenAssumption DEF LedgerInv, Accounts
<1>2. /\ locked' = [locked EXCEPT ![u] = NoLock] /\ supply' = supply - amount
      /\ balance' = Moved(VotingEscrow, u, amount) /\ amount <= balance[VotingEscrow]
      /\ now' = now /\ lockedAmount' = lockedAmount
  BY DEF Withdraw, CanTransfer, lockVars
<1>3. NoLock \in [amount : Nat, end : Nat] /\ NoLock.amount = 0
  BY DEF NoLock
<1>4. /\ Deposited' = Deposited - amount /\ amount \in Nat /\ amount <= Deposited
      /\ Deposited \in Nat /\ locked' \in [Users -> [amount : Nat, end : Nat]]
  <2>1. /\ Deposited' = Deposited + NoLock.amount - amount
        /\ amount \in Nat /\ amount <= Deposited
        /\ Deposited \in Nat /\ locked' \in [Users -> [amount : Nat, end : Nat]]
    BY <1>1, <1>2, <1>3, DepositedChange
  <2> HIDE DEF amount
  <2> QED BY <1>3, <2>1
<1> HIDE DEF amount
<1>5. /\ balance' \in [Accounts -> Nat]
      /\ balance'[VotingEscrow] = balance[VotingEscrow] - amount
  BY <1>1, <1>2, <1>4, MovedBalances
<1>6. LedgerTypes'
  BY <1>1, <1>2, <1>4, <1>5 DEF LedgerTypes
<1>7. supply' = Deposited' /\ supply' <= balance'[VotingEscrow]
  <2>1. balance[VotingEscrow] \in Nat
    BY <1>1 DEF LedgerTypes
  <2> QED BY <1>1, <1>2, <1>4, <1>5, <2>1
<1>8. LocksAreBacked'
  BY <1>7 DEF LocksAreBacked, Deposited, SumFunction
<1> QED BY <1>6, <1>8 DEF LedgerInv

\* Steps that move no tokens.
LEMMA LedgerKept ==
  ASSUME LedgerInv, UNCHANGED <<balance, locked, supply>>, now' \in Nat,
         lockedAmount' \in [Users -> Nat]
  PROVE  LedgerInv'
BY DEF LedgerInv, LedgerTypes, LocksAreBacked

LEMMA WholeWeeksType ==
  ASSUME NEW t \in Times
  PROVE  WholeWeeks(t) \in Nat
<1>1. t \in Nat /\ WEEK \in Nat \ {0}
  BY WeekAssumption, TokenAssumption DEF Times
<1>2. t \div WEEK \in Nat
  BY <1>1, DivBounds
<1> QED BY <1>1, <1>2, ProductType DEF WholeWeeks

\* The deposits of create_lock, increase_amount and increase_unlock_time.
LEMMA DepositsOf ==
  ASSUME LedgerTypes, NEW u \in Users,
         \/ \E value \in Amounts, t \in Times : CreateLock(u, value, t)
         \/ \E value \in Amounts : IncreaseAmount(u, value)
         \/ \E t \in Times : IncreaseUnlockTime(u, t)
  PROVE  \E value \in Nat, lock \in [amount : Nat, end : Nat] :
           lock.amount = locked[u].amount + value /\ Deposit(u, value, lock)
<1>0. /\ Amounts \subseteq Nat
      /\ locked[u] \in [amount : Nat, end : Nat]
  BY TokenAssumption DEF LedgerTypes
<1>1. ASSUME NEW value \in Amounts, NEW t \in Times, CreateLock(u, value, t)
      PROVE  \E val \in Nat, lock \in [amount : Nat, end : Nat] :
               lock.amount = locked[u].amount + val /\ Deposit(u, val, lock)
  <2> DEFINE new == [amount |-> value, end |-> WholeWeeks(t)]
  <2>1. new \in [amount : Nat, end : Nat] /\ new.amount = value /\ value \in Nat
    BY <1>0, WholeWeeksType
  <2>2. locked[u].amount = 0 /\ Deposit(u, value, new)
    BY <1>1 DEF CreateLock
  <2>3. new.amount = locked[u].amount + value
    BY <2>1, <2>2
  <2> HIDE DEF new
  <2> QED BY <2>1, <2>2, <2>3
<1>2. ASSUME NEW value \in Amounts, IncreaseAmount(u, value)
      PROVE  \E val \in Nat, lock \in [amount : Nat, end : Nat] :
               lock.amount = locked[u].amount + val /\ Deposit(u, val, lock)
  <2> DEFINE new == [locked[u] EXCEPT !.amount = @ + value]
  <2>1. value \in Nat /\ new \in [amount : Nat, end : Nat]
        /\ new.amount = locked[u].amount + value
    BY <1>0
  <2>2. Deposit(u, value, new)
    BY <1>2 DEF IncreaseAmount
  <2> HIDE DEF new
  <2> QED BY <2>1, <2>2
<1>3. ASSUME NEW t \in Times, IncreaseUnlockTime(u, t)
      PROVE  \E val \in Nat, lock \in [amount : Nat, end : Nat] :
               lock.amount = locked[u].amount + val /\ Deposit(u, val, lock)
  <2> DEFINE new == [locked[u] EXCEPT !.end = WholeWeeks(t)]
  <2>1. new \in [amount : Nat, end : Nat] /\ new.amount = locked[u].amount + 0
    BY <1>0, WholeWeeksType
  <2>2. Deposit(u, 0, new)
    BY <1>3 DEF IncreaseUnlockTime
  <2> HIDE DEF new
  <2> QED BY <2>1, <2>2
<1> QED BY <1>1, <1>2, <1>3

LEMMA LedgerInit == Init => LedgerInv
<1> SUFFICES ASSUME Init PROVE LedgerInv
  OBVIOUS
<1>1. LedgerTypes
  BY TokenAssumption DEF Init, TokenInit, EscrowInit, LedgerTypes, NoLock
<1>2. Deposited = 0
  <2> DEFINE f == [u \in Users |-> locked[u].amount]
  <2>1. \A u \in Users : f[u] = 0
    BY DEF Init, EscrowInit, NoLock
  <2> HIDE DEF f
  <2>2. SumFunctionOnSet(f, Users) = 0
    BY <2>1, UsersAssumption, SumOfZeros
  <2> QED BY <2>2 DEF Deposited, f
<1>3. supply = 0 /\ balance[VotingEscrow] = 0
  BY TokenAssumption DEF Init, TokenInit, EscrowInit
<1> QED BY <1>1, <1>2, <1>3, BackedBySum DEF LedgerInv

LEMMA LedgerNext == LedgerInv /\ [Next]_vars => LedgerInv'
<1> SUFFICES ASSUME LedgerInv, [Next]_vars PROVE LedgerInv'
  OBVIOUS
<1>0. LedgerTypes /\ Amounts \subseteq Nat /\ now \in Nat /\ lockedAmount \in [Users -> Nat]
  BY TokenAssumption DEF LedgerInv, LedgerTypes
<1>1. CASE TokenNext /\ UNCHANGED escrowVars
  <2>1. UNCHANGED <<locked, supply>>
    BY <1>1 DEF escrowVars
  <2>2. ASSUME NEW u \in Users, NEW to \in Accounts, NEW amount \in Amounts,
               Transfer(u, to, amount)
        PROVE  LedgerInv'
    BY <1>0, <2>1, <2>2, TransferKeepsInv DEF Transfer, lockVars
  <2>3. ASSUME NEW a \in Lockers, NEW u \in Users, NEW amount \in Amounts,
               LockAmount(a, u, amount)
        PROVE  LedgerInv'
    <3>1. lockedAmount' \in [Users -> Nat]
      BY <1>0, <2>3 DEF LockAmount
    <3> QED BY <1>0, <2>1, <2>3, <3>1, LedgerKept DEF LockAmount
  <2>4. ASSUME \/ \E t \in LockEnds : SetLockEnd(t)
               \/ \E a \in Lockers : AddLocker(a) \/ RemoveLocker(a)
        PROVE  LedgerInv'
    BY <1>0, <2>1, <2>4, LedgerKept DEF SetLockEnd, AddLocker, RemoveLocker
  <2>5. CASE Tick
    BY <1>0, <2>1, <2>5, LedgerKept DEF Tick, lockVars
  <2> QED BY <1>1, <2>2, <2>3, <2>4, <2>5 DEF TokenNext
<1>2. CASE EscrowNext
  <2>1. ASSUME NEW u \in Users,
               \/ \E value \in Amounts, t \in Times : CreateLock(u, value, t)
               \/ \E value \in Amounts : IncreaseAmount(u, value)
               \/ \E t \in Times : IncreaseUnlockTime(u, t)
        PROVE  LedgerInv'
    <3>1. PICK value \in Nat, lock \in [amount : Nat, end : Nat] :
            lock.amount = locked[u].amount + value /\ Deposit(u, value, lock)
      BY <1>0, <2>1, DepositsOf
    <3> QED BY <3>1, DepositKeepsInv
  <2>2. ASSUME Checkpoint \/ Shutdown PROVE LedgerInv'
    BY <1>0, <2>2, LedgerKept DEF Checkpoint, Shutdown, tokenVars, lockVars
  <2> QED BY <1>2, <2>1, <2>2, WithdrawKeepsInv DEF EscrowNext
<1>3. CASE UNCHANGED vars
  BY <1>0, <1>3, LedgerKept DEF vars, tokenVars, lockVars, escrowVars
<1> QED BY <1>1, <1>2, <1>3 DEF Next

LEMMA LedgerAlways == Spec => []LedgerInv
BY LedgerInit, LedgerNext, PTL DEF Spec

\* Users can always be paid back: what they locked is what the escrow counts,
\* and it holds at least that, with any number of users and any interleaving of
\* deposits, transfers to the escrow, withdrawals and a shutdown.
THEOREM DepositsAreBacked == Spec => []LocksAreBacked
<1>1. LedgerInv => LocksAreBacked
  BY DEF LedgerInv
<1> QED BY <1>1, LedgerAlways, PTL

\* While a period lasts, what lockers locked of a balance is not spent, neither
\* in transfers nor in deposits nor by locking more than is there.
THEOREM LockedStaysHeld == Spec => LockedIsHeld
<1> DEFINE Held == \A u \in Users : lockedAmount[u] <= balance[u] => lockedAmount'[u] <= balance'[u]
<1>1. LedgerInv /\ [Next]_vars =>
        [IsLockPeriodActive /\ IsLockPeriodActive' => Held]_vars
  <2> SUFFICES ASSUME LedgerInv, Next, IsLockPeriodActive, NEW v \in Users,
                      lockedAmount[v] <= balance[v]
               PROVE  lockedAmount'[v] <= balance'[v]
    OBVIOUS
  <2>0. /\ LedgerTypes /\ Amounts \subseteq Nat /\ VotingEscrow \in Accounts
        /\ v \in Accounts /\ v # VotingEscrow
    BY TokenAssumption DEF LedgerInv, Accounts
  <2>1. ASSUME NEW u \in Users, NEW to \in Accounts, NEW amount \in Amounts,
               Transfer(u, to, amount)
        PROVE  lockedAmount'[v] <= balance'[v]
    BY <2>0, <2>1, TransferHolds DEF Transfer, lockVars
  <2>2. ASSUME NEW a \in Lockers, NEW u \in Users, NEW amount \in Amounts,
               LockAmount(a, u, amount)
        PROVE  lockedAmount'[v] <= balance'[v]
    <3>1. /\ balance' = balance /\ lockedAmount' = [lockedAmount EXCEPT ![u] = @ + amount]
          /\ amount <= balance[u] - lockedAmount[u]
      BY <2>2 DEF LockAmount, Unlocked, LockedFor
    <3>2. balance[u] \in Nat /\ lockedAmount[u] \in Nat /\ amount \in Nat
      BY <2>0 DEF LedgerTypes, Accounts
    <3>3. v = u => lockedAmount'[v] = lockedAmount[u] + amount
      BY <2>0, <3>1 DEF LedgerTypes
    <3>4. v # u => lockedAmount'[v] = lockedAmount[v]
      BY <2>0, <3>1 DEF LedgerTypes
    <3> QED BY <3>1, <3>2, <3>3, <3>4
  <2>3. ASSUME NEW u \in Users,
               \/ \E value \in Amounts, t \in Times : CreateLock(u, value, t)
               \/ \E value \in Amounts : IncreaseAmount(u, value)
               \/ \E t \in Times : IncreaseUnlockTime(u, t)
        PROVE  lockedAmount'[v] <= balance'[v]
    <3>1. PICK value \in Nat, lock \in [amount : Nat, end : Nat] : Deposit(u, value, lock)
      BY <2>0, <2>3, DepositsOf
    <3>2. balance' = Moved(u, VotingEscrow, value) /\ lockedAmount' = lockedAmount
      BY <3>1 DEF Deposit, lockVars
    <3>3. CASE value # 0
      BY <2>0, <3>1, <3>2, <3>3, TransferHolds DEF Deposit
    <3>4. CASE value = 0
      BY <2>0, <3>2, <3>4 DEF Moved, LedgerTypes
    <3> QED BY <3>3, <3>4
  <2>4. ASSUME NEW u \in Users, Withdraw(u) PROVE lockedAmount'[v] <= balance'[v]
    <3>1. /\ balance' = Moved(VotingEscrow, u, locked[u].amount)
          /\ locked[u].amount <= balance[VotingEscrow]
          /\ lockedAmount' = lockedAmount
      BY <2>4 DEF Withdraw, CanTransfer, lockVars
    <3>2. locked[u].amount \in Nat /\ u \in Accounts
      BY <2>0 DEF LedgerTypes, Accounts
    <3>3. balance'[v] >= balance[v] /\ balance' \in [Accounts -> Nat]
      BY <2>0, <3>1, <3>2, MovedBalances
    <3>4. lockedAmount[v] \in Nat /\ balance[v] \in Nat /\ balance'[v] \in Nat
      BY <2>0, <3>3 DEF LedgerTypes
    <3> QED BY <3>1, <3>3, <3>4
  <2>5. ASSUME UNCHANGED <<balance, lockedAmount>> PROVE lockedAmount'[v] <= balance'[v]
    BY <2>5
  <2> QED BY <2>1, <2>2, <2>3, <2>4, <2>5
          DEF Next, TokenNext, EscrowNext, SetLockEnd, AddLocker, RemoveLocker, Tick,
              Checkpoint, Shutdown, tokenVars, lockVars
<1> QED BY <1>1, LedgerAlways, PTL DEF Spec, LockedIsHeld

-----------------------------------------------------------------------------
(* The lines of votes. User u's votes have the slope sl[u] and are zero from *)
(* the week e[u] on; the total is a line with kinks at these weeks.          *)

ValuesAt(sl, e, x) == [u \in Users |-> sl[u] * Greater(e[u] - x, 0)]
SlopesAt(sl, e, x) == [u \in Users |-> IF e[u] > x THEN sl[u] ELSE 0]
SlopesEnding(sl, e, x) == [u \in Users |-> IF e[u] = x THEN sl[u] ELSE 0]

Value(sl, e, x) == SumFunctionOnSet(ValuesAt(sl, e, x), Users)
Slope(sl, e, x) == SumFunctionOnSet(SlopesAt(sl, e, x), Users)
Ending(sl, e, x) == SumFunctionOnSet(SlopesEnding(sl, e, x), Users)

TotalAt(sl, e, x) == [bias |-> Value(sl, e, x), slope |-> Slope(sl, e, x), ts |-> x]

LEMMA GreaterType ==
  ASSUME NEW a \in Int
  PROVE  Greater(a, 0) \in Nat /\ (a >= 0 => Greater(a, 0) = a) /\ (a <= 0 => Greater(a, 0) = 0)
BY DEF Greater

LEMMA LinesType ==
  ASSUME NEW sl \in [Users -> Nat], NEW e \in [Users -> Nat], NEW x \in Nat
  PROVE  /\ \A u \in Users : /\ ValuesAt(sl, e, x)[u] \in Nat
                             /\ SlopesAt(sl, e, x)[u] \in Nat
                             /\ SlopesEnding(sl, e, x)[u] \in Nat
         /\ Value(sl, e, x) \in Nat /\ Slope(sl, e, x) \in Nat /\ Ending(sl, e, x) \in Nat
<1>1. ASSUME NEW u \in Users PROVE ValuesAt(sl, e, x)[u] \in Nat
  <2>1. e[u] - x \in Int /\ sl[u] \in Nat
    OBVIOUS
  <2>2. Greater(e[u] - x, 0) \in Nat
    BY <2>1, GreaterType
  <2>3. sl[u] * Greater(e[u] - x, 0) \in Nat
    BY <2>1, <2>2, ProductType
  <2> QED BY <2>3 DEF ValuesAt
<1>2. ASSUME NEW u \in Users
      PROVE  SlopesAt(sl, e, x)[u] \in Nat /\ SlopesEnding(sl, e, x)[u] \in Nat
  BY DEF SlopesAt, SlopesEnding
<1>3. Value(sl, e, x) \in Nat
  BY <1>1, UsersAssumption, SumOfNaturals DEF Value
<1>4. Slope(sl, e, x) \in Nat
  BY <1>2, UsersAssumption, SumOfNaturals DEF Slope
<1>5. Ending(sl, e, x) \in Nat
  BY <1>2, UsersAssumption, SumOfNaturals DEF Ending
<1> QED BY <1>1, <1>2, <1>3, <1>4, <1>5

\* Where no lock ends the total is a straight line, and where some do it
\* loses their slopes.
LEMMA TotalAdvances ==
  ASSUME NEW sl \in [Users -> Nat], NEW e \in [Users -> Nat],
         NEW x \in Nat, NEW y \in Nat, x <= y,
         \A u \in Users : e[u] <= x \/ e[u] >= y
  PROVE  /\ Value(sl, e, y) = Value(sl, e, x) - Slope(sl, e, x) * (y - x)
         /\ x < y => Slope(sl, e, y) = Slope(sl, e, x) - Ending(sl, e, y)
<1> DEFINE d == y - x
           fall == [u \in Users |-> d * SlopesAt(sl, e, x)[u]]
<1>0. d \in Nat /\ d \in Int
  OBVIOUS
<1>1. /\ \A u \in Users : ValuesAt(sl, e, x)[u] \in Int /\ ValuesAt(sl, e, y)[u] \in Int
      /\ \A u \in Users : SlopesAt(sl, e, x)[u] \in Int /\ SlopesAt(sl, e, y)[u] \in Int
      /\ \A u \in Users : SlopesEnding(sl, e, y)[u] \in Int
      /\ Value(sl, e, x) \in Int /\ Value(sl, e, y) \in Int
      /\ Slope(sl, e, x) \in Int /\ Slope(sl, e, y) \in Int /\ Ending(sl, e, y) \in Int
  <2> DEFINE Types(z) == /\ \A u \in Users : /\ ValuesAt(sl, e, z)[u] \in Nat
                                              /\ SlopesAt(sl, e, z)[u] \in Nat
                                              /\ SlopesEnding(sl, e, z)[u] \in Nat
                         /\ Value(sl, e, z) \in Nat /\ Slope(sl, e, z) \in Nat
                         /\ Ending(sl, e, z) \in Nat
  <2>1. \A z \in Nat : Types(z)
    BY LinesType
  <2>2. Types(x) /\ Types(y)
    <3> HIDE DEF Types
    <3> QED BY <2>1
  <2> QED BY <2>2
<1>2. ASSUME NEW u \in Users
      PROVE  fall[u] \in Int /\ ValuesAt(sl, e, x)[u] = ValuesAt(sl, e, y)[u] + fall[u]
  <2>1. fall[u] \in Int /\ sl[u] \in Nat /\ e[u] \in Nat
    BY <1>1
  <2>2. CASE e[u] <= x
    <3>1. Greater(e[u] - x, 0) = 0 /\ Greater(e[u] - y, 0) = 0
      BY <2>1, <2>2, GreaterType
    <3>2. SlopesAt(sl, e, x)[u] = 0
      BY <2>1, <2>2 DEF SlopesAt
    <3>3. ValuesAt(sl, e, x)[u] = 0 /\ ValuesAt(sl, e, y)[u] = 0
      BY <2>1, <3>1 DEF ValuesAt
    <3>4. fall[u] = 0
      BY <1>0, <3>2
    <3> QED BY <3>3, <3>4
  <2>3. CASE e[u] >= y /\ e[u] > x
    <3>1. Greater(e[u] - x, 0) = e[u] - x /\ Greater(e[u] - y, 0) = e[u] - y
      BY <2>1, <2>3, GreaterType
    <3>2. SlopesAt(sl, e, x)[u] = sl[u]
      BY <2>1, <2>3 DEF SlopesAt
    <3>3. ValuesAt(sl, e, x)[u] = sl[u] * (e[u] - x)
      BY <3>1 DEF ValuesAt
    <3>4. ValuesAt(sl, e, y)[u] = sl[u] * (e[u] - y)
      BY <3>1 DEF ValuesAt
    <3>5. fall[u] = (y - x) * sl[u]
      BY <3>2
    <3>6. sl[u] * (e[u] - x) = sl[u] * (e[u] - y) + (y - x) * sl[u]
      BY <2>1, SMT
    <3> HIDE DEF fall
    <3> QED BY <3>3, <3>4, <3>5, <3>6
  <2> QED BY <2>1, <2>2, <2>3
<1>3. SumFunctionOnSet(fall, Users) = d * Slope(sl, e, x)
  <2>1. \A u \in Users : SlopesAt(sl, e, x)[u] \in Int /\ fall[u] = d * SlopesAt(sl, e, x)[u]
    BY <1>1
  <2> HIDE DEF fall, d
  <2> QED BY <1>0, <2>1, UsersAssumption, SumScale DEF Slope
<1>4. Value(sl, e, x) = Value(sl, e, y) + SumFunctionOnSet(fall, Users)
  <2>1. \A u \in Users : /\ ValuesAt(sl, e, y)[u] \in Int /\ fall[u] \in Int
                         /\ ValuesAt(sl, e, x)[u] = ValuesAt(sl, e, y)[u] + fall[u]
    BY <1>1, <1>2
  <2> HIDE DEF fall
  <2> QED BY <2>1, UsersAssumption, SumAdd DEF Value
<1>5. x < y => Slope(sl, e, x) = Slope(sl, e, y) + Ending(sl, e, y)
  <2> SUFFICES ASSUME x < y PROVE Slope(sl, e, x) = Slope(sl, e, y) + Ending(sl, e, y)
    OBVIOUS
  <2>1. \A u \in Users : /\ SlopesAt(sl, e, y)[u] \in Int /\ SlopesEnding(sl, e, y)[u] \in Int
                         /\ SlopesAt(sl, e, x)[u] =
                              SlopesAt(sl, e, y)[u] + SlopesEnding(sl, e, y)[u]
    BY DEF SlopesAt, SlopesEnding
  <2> QED BY <2>1, UsersAssumption, SumAdd DEF Slope, Ending
<1>6. Slope(sl, e, x) * (y - x) = d * Slope(sl, e, x)
  BY <1>1, SMT
<1>7. Value(sl, e, y) = Value(sl, e, x) - Slope(sl, e, x) * (y - x)
  <2> DEFINE k == Slope(sl, e, x) * (y - x)
  <2>1. k \in Int /\ Value(sl, e, x) = Value(sl, e, y) + k
    BY <1>0, <1>1, <1>3, <1>4, <1>6
  <2> HIDE DEF k
  <2>2. Value(sl, e, y) = Value(sl, e, x) - k
    BY <1>1, <2>1
  <2> QED BY <2>2 DEF k
<1> QED BY <1>1, <1>5, <1>7

\* Weeks begin at the multiples of WEEK, and locks end there only.
LEMMA WeekOf ==
  ASSUME NEW x \in Nat
  PROVE  /\ WholeWeeks(x) \in Nat /\ WholeWeeks(x) <= x /\ x < WholeWeeks(x) + WEEK
         /\ WholeWeeks(x) % WEEK = 0 /\ (WholeWeeks(x) + WEEK) % WEEK = 0
         /\ \A w \in UnlockTimes : w <= x \/ w >= WholeWeeks(x) + WEEK
<1> DEFINE k == x \div WEEK
<1>0. WEEK \in Nat \ {0}
  BY WeekAssumption
<1>1. k \in Nat /\ k * WEEK <= x /\ x < (k + 1) * WEEK
  BY <1>0, DivBounds
<1>2. WholeWeeks(x) = k * WEEK
  BY DEF WholeWeeks
<1> HIDE DEF k
<1>3. k * WEEK \in Nat /\ (k + 1) * WEEK = k * WEEK + WEEK
  BY <1>0, <1>1, SMT
<1>4. (k * WEEK) % WEEK = 0
  BY <1>0, <1>1, MultipleOf
<1>5. ((k + 1) * WEEK) % WEEK = 0
  <2>1. k + 1 \in Nat
    BY <1>1
  <2> QED BY <1>0, <2>1, MultipleOf
<1>6. ASSUME NEW w \in UnlockTimes, w > x PROVE w >= (k + 1) * WEEK
  <2>1. w \in Nat /\ w % WEEK = 0
    BY DEF UnlockTimes, Times
  <2> DEFINE j == w \div WEEK
  <2>2. j \in Nat /\ w = j * WEEK
    BY <1>0, <2>1, DivBounds, Multiple
  <2> HIDE DEF j
  <2>3. k * WEEK < j * WEEK
    BY <1>1, <1>3, <1>6, <2>1, <2>2
  <2>4. k < j
    BY <1>0, <1>1, <2>2, <2>3, CancelStrict
  <2>5. k + 1 \in Int /\ j \in Int /\ k + 1 <= j /\ WEEK \in Nat
    BY <1>0, <1>1, <2>2, <2>4
  <2>6. (k + 1) * WEEK <= j * WEEK
    BY <2>5, ProductMonotone
  <2> QED BY <2>2, <2>6
<1>7. \A w \in UnlockTimes : w \in Nat
  BY DEF UnlockTimes, Times
<1> QED BY <1>0, <1>1, <1>2, <1>3, <1>4, <1>5, <1>6, <1>7

LEMMA WholeWeeksMonotone ==
  ASSUME NEW x \in Nat, NEW y \in Nat, x <= y
  PROVE  WholeWeeks(x) <= WholeWeeks(y)
<1> DEFINE j == x \div WEEK
           k == y \div WEEK
<1>0. WEEK \in Nat \ {0}
  BY WeekAssumption
<1>1. j \in Nat /\ j * WEEK <= x /\ k \in Nat /\ y < (k + 1) * WEEK
  BY <1>0, DivBounds
<1>2. WholeWeeks(x) = j * WEEK /\ WholeWeeks(y) = k * WEEK
  BY DEF WholeWeeks
<1> HIDE DEF j, k
<1>3. j * WEEK < (k + 1) * WEEK
  <2>1. j * WEEK \in Int /\ (k + 1) * WEEK \in Int
    BY <1>0, <1>1, SMT
  <2> QED BY <1>1, <2>1
<1>4. j < k + 1
  BY <1>0, <1>1, <1>3, CancelStrict
<1>5. j \in Int /\ k \in Int /\ j <= k /\ WEEK \in Nat
  BY <1>0, <1>1, <1>4
<1> QED BY <1>2, <1>5, ProductMonotone

\* The loop gets at least to the end of the week it starts in.
LEMMA LoopPasses ==
  ASSUME NEW x \in Nat
  PROVE  /\ Weeks * WEEK \in Nat
         /\ WholeWeeks(x) + Weeks * WEEK \in Nat
         /\ x <= WholeWeeks(x) + Weeks * WEEK
<1>0. WEEK \in Nat /\ Weeks \in Nat /\ 1 <= Weeks
  BY WeekAssumption
<1>1. Weeks * WEEK \in Nat /\ 1 * WEEK <= Weeks * WEEK
  BY <1>0, ProductType, ProductMonotone
<1> DEFINE all == Weeks * WEEK
<1>2. all \in Nat /\ WEEK <= all
  BY <1>0, <1>1
<1> HIDE DEF all
<1>3. WholeWeeks(x) \in Nat /\ x < WholeWeeks(x) + WEEK
  BY WeekOf
<1> QED BY <1>0, <1>2, <1>3 DEF all

Slopes == [u \in Users |-> userPoint[u].slope]

\* The votes are the lines of locks that end at e: each user's, the total's
\* at the last checkpoint, which the loop carries to the present, and the
\* scheduled changes after it.
Lines(e) ==
  /\ userPoint \in [Users -> [bias : Nat, slope : Nat, ts : Nat]]
  /\ \A u \in Users : /\ userPoint[u].bias = userPoint[u].slope * (e[u] - userPoint[u].ts)
                      /\ userPoint[u].ts <= now
  /\ point.ts \in Nat /\ point.ts <= now /\ Checkpointed
  /\ point = TotalAt(Slopes, e, point.ts)
  /\ slopeChanges \in [UnlockTimes -> Int]
  /\ \A w \in UnlockTimes : w > point.ts => slopeChanges[w] = -Ending(Slopes, e, w)

\* Until a shutdown these are the locks users have.
LinesOfLocks(e) ==
  \A u \in Users : e[u] = locked[u].end /\ userPoint[u].slope = locked[u].amount \div MAXTIME

LockTypes ==
  /\ now \in StartTime .. MaxTime
  /\ locked \in [Users -> [amount : Nat, end : UnlockTimes]]
  /\ \A u \in Users : locked[u].amount = 0 => locked[u].end = 0
  /\ isShutdown \in BOOLEAN

\* VotesAddUp is not inductive: it says nothing of the schedule, nor of which
\* line of the total each user's is a part.
VotesInv ==
  /\ LedgerInv /\ LockTypes
  /\ \E e \in [Users -> UnlockTimes] : Lines(e) /\ (~isShutdown => LinesOfLocks(e))

-----------------------------------------------------------------------------
(* The loop over the weeks. *)

LEMMA UnlockTimesType == UnlockTimes \subseteq Nat
BY DEF UnlockTimes, Times

\* slopeChanges holds the slopes of the lines sl, e that end after x.
Scheduled(sl, e, x) ==
  /\ slopeChanges \in [UnlockTimes -> Int]
  /\ \A w \in UnlockTimes : w > x => slopeChanges[w] = -Ending(sl, e, w)

\* One turn brings the total on by a week, or to t.
LEMMA WeekStep ==
  ASSUME NEW sl \in [Users -> Nat], NEW e \in [Users -> UnlockTimes],
         NEW x \in Nat, NEW t \in Nat, x <= t, t <= MaxTime + MAXTIME, Scheduled(sl, e, x)
  PROVE  /\ Lesser(WholeWeeks(x) + WEEK, t) \in Nat
         /\ x <= Lesser(WholeWeeks(x) + WEEK, t) /\ Lesser(WholeWeeks(x) + WEEK, t) <= t
         /\ NextWeek(TotalAt(sl, e, x), t) = TotalAt(sl, e, Lesser(WholeWeeks(x) + WEEK, t))
<1> DEFINE week == WholeWeeks(x) + WEEK
           to == Lesser(week, t)
<1>1. /\ WEEK \in Nat \ {0} /\ week \in Nat /\ x < week /\ week % WEEK = 0
      /\ \A w \in UnlockTimes : w \in Nat /\ (w <= x \/ w >= week)
  <2>1. WEEK \in Nat \ {0}
    BY WeekAssumption
  <2>2. /\ WholeWeeks(x) \in Nat /\ x < WholeWeeks(x) + WEEK
        /\ (WholeWeeks(x) + WEEK) % WEEK = 0
        /\ \A w \in UnlockTimes : w <= x \/ w >= WholeWeeks(x) + WEEK
    BY WeekOf
  <2> QED BY <2>1, <2>2, UnlockTimesType
<1> HIDE DEF week
<1>2. to \in Nat /\ x <= to /\ to <= t /\ to <= week /\ (week <= t => to = week)
      /\ (~(week <= t) => to = t)
  BY <1>1 DEF Lesser
<1> HIDE DEF to
<1>3. e \in [Users -> Nat] /\ \A u \in Users : e[u] <= x \/ e[u] >= to
  <2>1. \A u \in Users : e[u] \in Nat /\ (e[u] <= x \/ e[u] >= week)
    BY <1>1
  <2> QED BY <1>1, <1>2, <2>1
<1>4. /\ Value(sl, e, to) = Value(sl, e, x) - Slope(sl, e, x) * (to - x)
      /\ x < to => Slope(sl, e, to) = Slope(sl, e, x) - Ending(sl, e, to)
  BY <1>2, <1>3, TotalAdvances
<1>5. Slope(sl, e, x) \in Nat /\ Ending(sl, e, to) \in Nat /\ Ending(sl, e, week) \in Nat
  <2>1. \A z \in Nat : Slope(sl, e, z) \in Nat /\ Ending(sl, e, z) \in Nat
    BY <1>3, LinesType
  <2> QED BY <1>1, <1>2, <2>1
<1>6. Slope(sl, e, to) = Slope(sl, e, x) + (IF week <= t THEN slopeChanges[week] ELSE 0)
  <2>1. CASE week <= t
    <3>1. week \in UnlockTimes
      BY <1>1, <2>1, TokenAssumption, WeekAssumption DEF UnlockTimes, Times
    <3>2. slopeChanges[week] = -Ending(sl, e, week) /\ to = week
      BY <1>1, <1>2, <2>1, <3>1 DEF Scheduled
    <3> QED BY <1>1, <1>4, <1>5, <2>1, <3>2
  <2>2. CASE ~(week <= t)
    <3>1. to = t /\ t < week
      BY <1>1, <1>2, <2>2
    <3>2. CASE x = to
      BY <1>5, <2>2, <3>2
    <3>3. CASE x < to
      <4>1. \A u \in Users : SlopesEnding(sl, e, to)[u] = 0
        <5>1. \A u \in Users : e[u] \in Nat /\ (e[u] <= x \/ e[u] >= week)
          BY <1>1
        <5> QED BY <1>1, <1>2, <3>1, <3>3, <5>1 DEF SlopesEnding
      <4>2. Ending(sl, e, to) = 0
        BY <4>1, UsersAssumption, SumOfZeros DEF Ending
      <4> QED BY <1>4, <1>5, <2>2, <3>3, <4>2
    <3> QED BY <1>2, <3>2, <3>3
  <2> QED BY <2>1, <2>2
<1>7. NextWeek(TotalAt(sl, e, x), t) =
        [bias |-> Value(sl, e, x) - Slope(sl, e, x) * (to - x),
         slope |-> Slope(sl, e, x) + (IF week <= t THEN slopeChanges[week] ELSE 0),
         ts |-> to]
  BY DEF NextWeek, TotalAt, to, week
<1>8. NextWeek(TotalAt(sl, e, x), t) = TotalAt(sl, e, to)
  BY <1>4, <1>6, <1>7 DEF TotalAt
<1> QED BY <1>2, <1>8 DEF to, week

LEMMA TotalIsKept ==
  ASSUME NEW sl \in [Users -> Nat], NEW e \in [Users -> Nat], NEW x \in Nat
  PROVE  /\ NotNegative(TotalAt(sl, e, x)) = TotalAt(sl, e, x)
         /\ TotalAt(sl, e, x) \in [bias : Nat, slope : Nat, ts : Nat]
         /\ TotalAt(sl, e, x) \in [bias : Int, slope : Int, ts : Nat]
<1>1. Value(sl, e, x) \in Nat /\ Slope(sl, e, x) \in Nat
  BY LinesType
<1>2. Greater(Value(sl, e, x), 0) = Value(sl, e, x) /\ Greater(Slope(sl, e, x), 0) = Slope(sl, e, x)
  BY <1>1, GreaterType
<1> DEFINE p == TotalAt(sl, e, x)
<1>3. /\ p = [bias |-> Value(sl, e, x), slope |-> Slope(sl, e, x), ts |-> x]
      /\ p.bias = Value(sl, e, x) /\ p.slope = Slope(sl, e, x)
  BY DEF TotalAt
<1> HIDE DEF p
<1>4. NotNegative(p) = p
  BY <1>2, <1>3 DEF NotNegative
<1>5. p \in [bias : Nat, slope : Nat, ts : Nat] /\ p \in [bias : Int, slope : Int, ts : Nat]
  BY <1>1, <1>3
<1> QED BY <1>4, <1>5 DEF p

\* Weeks turns are enough to reach t.
LEMMA WeeksReach ==
  ASSUME NEW sl \in [Users -> Nat], NEW e \in [Users -> UnlockTimes],
         NEW x \in Nat, NEW t \in Nat, x <= t, t <= MaxTime + MAXTIME, Scheduled(sl, e, x),
         t <= WholeWeeks(x) + Weeks * WEEK, NEW kept \in BOOLEAN
  PROVE  WeeksFrom(TotalAt(sl, e, x), t, kept) = TotalAt(sl, e, t)
<1> DEFINE p == TotalAt(sl, e, x)
           Points == [bias : Int, slope : Int, ts : Nat]
           step == [q \in Points |-> IF kept THEN NotNegative(NextWeek(q, t)) ELSE NextWeek(q, t)]
           after[i \in 0 .. Weeks] == IF i = 0 THEN p ELSE step[after[i - 1]]
           first == WholeWeeks(x)
           time(i) == IF i = 0 THEN x ELSE Lesser(first + i * WEEK, t)
           total == [i \in 0 .. Weeks |-> TotalAt(sl, e, time(i))]
<1>0. /\ e \in [Users -> Nat] /\ WEEK \in Nat \ {0} /\ Weeks \in Nat
      /\ MaxTime \in Nat /\ MAXTIME \in Nat
      /\ first \in Nat /\ first <= x /\ first % WEEK = 0
  BY UnlockTimesType, WeekOf, WeekAssumption, TokenAssumption
<1>1. WeeksFrom(p, t, kept) = after[Weeks]
  BY DEF WeeksFrom
<1> HIDE DEF first
<1>2. ASSUME NEW i \in 0 .. Weeks, i # 0
      PROVE  /\ i * WEEK \in Nat /\ WEEK <= i * WEEK /\ i \in Nat
             /\ (first + i * WEEK) % WEEK = 0 /\ x < first + i * WEEK
             /\ first + i * WEEK \in Nat
  <2>1. i \in Nat /\ i \in Int /\ 1 <= i /\ WEEK \in Nat
    BY <1>0, <1>2
  <2>2. i * WEEK \in Nat /\ 1 * WEEK <= i * WEEK
    <3>1. i * WEEK \in Nat
      BY <2>1, ProductType
    <3>2. 1 * WEEK <= i * WEEK
      BY <2>1, ProductMonotone
    <3> QED BY <3>1, <3>2
  <2>3. x < first + WEEK
    BY WeekOf DEF first
  <2>4. (first + i * WEEK) % WEEK = 0
    <3> DEFINE k == first \div WEEK
    <3>1. k \in Nat /\ first = k * WEEK
      BY <1>0, DivBounds, Multiple
    <3> HIDE DEF k
    <3>2. (k + i) * WEEK = k * WEEK + i * WEEK
      BY <1>0, <2>1, <3>1, SMT
    <3>3. k + i \in Nat
      BY <2>1, <3>1
    <3>4. ((k + i) * WEEK) % WEEK = 0
      BY <1>0, <3>3, MultipleOf
    <3> QED BY <3>1, <3>2, <3>4
  <2>5. 1 * WEEK = WEEK
    BY <1>0
  <2>6. x < first + i * WEEK /\ first + i * WEEK \in Nat
    <3> DEFINE iw == i * WEEK
    <3>1. iw \in Nat /\ WEEK <= iw
      BY <2>2, <2>5
    <3> HIDE DEF iw
    <3>2. x < first + iw /\ first + iw \in Nat
      BY <1>0, <2>3, <3>1
    <3> QED BY <3>2 DEF iw
  <2> QED BY <2>1, <2>2, <2>4, <2>5, <2>6
<1>3. ASSUME NEW i \in 0 .. Weeks
      PROVE  time(i) \in Nat /\ x <= time(i) /\ time(i) <= t
  <2>1. CASE i = 0
    BY <2>1
  <2>2. CASE i # 0
    <3> DEFINE at == first + i * WEEK
    <3>1. at \in Nat /\ x < at
      BY <1>0, <1>2, <2>2
    <3>2. time(i) = Lesser(at, t)
      BY <2>2
    <3> HIDE DEF at
    <3> QED BY <3>1, <3>2 DEF Lesser
  <2> QED BY <2>1, <2>2
<1>4. ASSUME NEW i \in 0 .. Weeks, i # Weeks
      PROVE  time(i + 1) = Lesser(WholeWeeks(time(i)) + WEEK, t)
  <2>1. i + 1 # 0 /\ i \in Nat
    BY <1>0
  <2>2. time(i + 1) = Lesser(first + (i + 1) * WEEK, t)
    BY <2>1
  <2>3. (i + 1) * WEEK = i * WEEK + WEEK
    BY <1>0, <2>1, SMT
  <2>4. CASE i = 0
    <3>1. time(i) = x /\ (i + 1) * WEEK = WEEK
      BY <1>0, <2>3, <2>4
    <3> QED BY <2>2, <3>1 DEF first
  <2>5. CASE i # 0
    <3> DEFINE at == first + i * WEEK
    <3>1. at \in Nat /\ at % WEEK = 0
      BY <1>2, <2>5
    <3>2. time(i) = Lesser(at, t)
      BY <2>5
    <3>3. first + (i + 1) * WEEK = at + WEEK
      <4> DEFINE iw == i * WEEK
      <4>1. iw \in Nat /\ (i + 1) * WEEK = iw + WEEK
        BY <1>2, <2>3, <2>5
      <4> HIDE DEF iw
      <4>2. first + (i + 1) * WEEK = (first + iw) + WEEK
        BY <1>0, <4>1
      <4> QED BY <4>2 DEF iw
    <3> HIDE DEF at
    <3>4. CASE at <= t
      <4>1. time(i) = at
        BY <3>1, <3>2, <3>4 DEF Lesser
      <4>2. WholeWeeks(at) = at
        BY <1>0, <3>1, Multiple DEF WholeWeeks
      <4> QED BY <2>2, <3>3, <4>1, <4>2
    <3>5. CASE ~(at <= t)
      <4>1. time(i) = t
        BY <3>1, <3>2, <3>5 DEF Lesser
      <4>2. time(i + 1) = t
        BY <1>0, <2>2, <3>1, <3>3, <3>5 DEF Lesser
      <4>3. WholeWeeks(t) \in Nat /\ t < WholeWeeks(t) + WEEK
        BY WeekOf
      <4>4. Lesser(WholeWeeks(t) + WEEK, t) = t
        BY <1>0, <4>3 DEF Lesser
      <4> QED BY <4>1, <4>2, <4>4
    <3> QED BY <3>4, <3>5
  <2> QED BY <2>4, <2>5
<1>5. time(Weeks) = t
  <2>2. Weeks # 0
    BY WeekAssumption
  <2>3. Weeks * WEEK \in Nat /\ Weeks \in 0 .. Weeks
    BY <1>0, <1>2, <2>2
  <2> DEFINE all == Weeks * WEEK
  <2>4. time(Weeks) = Lesser(first + all, t)
    BY <2>2
  <2>5. all \in Nat /\ t <= first + all
    BY <2>3 DEF first
  <2> HIDE DEF all
  <2>6. Lesser(first + all, t) = t
    BY <1>0, <2>5 DEF Lesser
  <2> QED BY <2>4, <2>6
<1> HIDE DEF time
<1>6. ASSUME NEW i \in 0 .. Weeks, i # Weeks
      PROVE  step[TotalAt(sl, e, time(i))] = TotalAt(sl, e, time(i + 1))
  <2>1. time(i) \in Nat /\ x <= time(i) /\ time(i) <= t
    BY <1>3
  <2>2. Scheduled(sl, e, time(i))
    <3>1. \A w \in UnlockTimes : w > time(i) => w > x
      BY <2>1, UnlockTimesType
    <3> QED BY <3>1 DEF Scheduled
  <2>3. NextWeek(TotalAt(sl, e, time(i)), t) = TotalAt(sl, e, time(i + 1))
    <3>1. NextWeek(TotalAt(sl, e, time(i)), t) =
            TotalAt(sl, e, Lesser(WholeWeeks(time(i)) + WEEK, t))
      BY <2>1, <2>2, WeekStep
    <3>2. time(i + 1) = Lesser(WholeWeeks(time(i)) + WEEK, t)
      BY <1>4, <1>6
    <3> QED BY <3>1, <3>2
  <2>4. i + 1 \in 0 .. Weeks
    BY <1>0, <1>6
  <2>5. NotNegative(TotalAt(sl, e, time(i + 1))) = TotalAt(sl, e, time(i + 1))
    BY <1>0, <1>3, <2>4, TotalIsKept
  <2>6. TotalAt(sl, e, time(i)) \in Points
    BY <1>0, <2>1, TotalIsKept
  <2> HIDE DEF Points
  <2> QED BY <2>3, <2>5, <2>6
<1>7. total = [i \in 0 .. Weeks |-> IF i = 0 THEN p ELSE step[total[i - 1]]]
  <2> HIDE DEF step
  <2>1. ASSUME NEW i \in 0 .. Weeks
        PROVE  total[i] = IF i = 0 THEN p ELSE step[total[i - 1]]
    <3>1. CASE i = 0
      BY <3>1 DEF time
    <3>2. CASE i # 0
      <4>1. i - 1 \in 0 .. Weeks /\ i - 1 # Weeks /\ (i - 1) + 1 = i
        BY <1>0, <3>2
      <4>2. step[TotalAt(sl, e, time(i - 1))] = TotalAt(sl, e, time(i))
        BY <1>6, <4>1
      <4> HIDE DEF p
      <4> QED BY <3>2, <4>1, <4>2
    <3> QED BY <3>1, <3>2
  <2> QED BY <2>1
<1>8. after = [i \in 0 .. Weeks |-> IF i = 0 THEN p ELSE step[after[i - 1]]]
  <2> HIDE DEF step, total, p
  <2> QED BY <1>7
<1>9. total[Weeks] = TotalAt(sl, e, t)
  BY <1>0, <1>5
<1> HIDE DEF after, step, p, total
<1>10. \A i \in Nat : i \in {j \in Nat : j <= Weeks => after[j] = total[j]}
  <2> DEFINE G == {j \in Nat : j <= Weeks => after[j] = total[j]}
  <2>1. 0 \in G
    BY <1>0, <1>7, <1>8
  <2>2. ASSUME NEW k \in Nat, k \in G PROVE k + 1 \in G
    <3> SUFFICES ASSUME k + 1 <= Weeks PROVE after[k + 1] = total[k + 1]
      OBVIOUS
    <3>1. k + 1 \in 0 .. Weeks /\ k + 1 # 0 /\ (k + 1) - 1 = k /\ k <= Weeks
      BY <1>0
    <3>2. after[k] = total[k]
      BY <2>2, <3>1
    <3>3. after[k + 1] = IF k + 1 = 0 THEN p ELSE step[after[(k + 1) - 1]]
      BY <1>8, <3>1
    <3>4. total[k + 1] = IF k + 1 = 0 THEN p ELSE step[total[(k + 1) - 1]]
      BY <1>7, <3>1
    <3> QED BY <3>1, <3>2, <3>3, <3>4
  <2> HIDE DEF G
  <2>3. \A i \in Nat : i \in G
    BY <2>1, <2>2, NumberInduction
  <2> QED BY <2>3 DEF G
<1>11. after[Weeks] = total[Weeks]
  BY <1>0, <1>10
<1> QED BY <1>1, <1>9, <1>11 DEF p

-----------------------------------------------------------------------------
(* What is read of the lines, and how operations change them. *)

LEMMA LinesTypes ==
  ASSUME LockTypes, NEW e \in [Users -> UnlockTimes], Lines(e)
  PROVE  /\ Slopes \in [Users -> Nat] /\ e \in [Users -> Nat]
         /\ now \in Nat /\ now <= MaxTime /\ MaxTime \in Nat /\ MAXTIME \in Nat \ {0}
         /\ point = TotalAt(Slopes, e, point.ts) /\ point.ts \in Nat /\ point.ts <= now
         /\ now <= Reached
         /\ Scheduled(Slopes, e, point.ts) /\ Scheduled(Slopes, e, now)
<1>1. now \in Nat /\ now <= MaxTime /\ MaxTime \in Nat /\ MAXTIME \in Nat \ {0}
  BY TokenAssumption, WeekAssumption DEF LockTypes
<1>2. Slopes \in [Users -> Nat]
  BY DEF Slopes, Lines
<1>3. e \in [Users -> Nat]
  BY UnlockTimesType
<1>4. /\ point = TotalAt(Slopes, e, point.ts) /\ point.ts \in Nat /\ point.ts <= now
      /\ now <= Reached
  BY DEF Lines, Checkpointed
<1>5. Scheduled(Slopes, e, point.ts)
  BY DEF Lines, Scheduled
<1>6. Scheduled(Slopes, e, now)
  <2>1. \A w \in UnlockTimes : w > now => w > point.ts
    BY <1>1, <1>4, UnlockTimesType
  <2> QED BY <1>5, <2>1 DEF Scheduled
<1> QED BY <1>1, <1>2, <1>3, <1>4, <1>5, <1>6

\* The loop carries the last point to any later time it gets to.
LEMMA TotalReached ==
  ASSUME LockTypes, NEW e \in [Users -> UnlockTimes], Lines(e),
         NEW t \in Nat, now <= t, t <= MaxTime + MAXTIME, t <= Reached, NEW kept \in BOOLEAN
  PROVE  WeeksFrom(point, t, kept) = TotalAt(Slopes, e, t)
<1>1. /\ Slopes \in [Users -> Nat] /\ now \in Nat
      /\ point = TotalAt(Slopes, e, point.ts) /\ point.ts \in Nat /\ point.ts <= now
      /\ Scheduled(Slopes, e, point.ts)
  BY LinesTypes
<1>2. point.ts <= t /\ t <= WholeWeeks(point.ts) + Weeks * WEEK
  BY <1>1 DEF Reached
<1> DEFINE sl == Slopes
           x == point.ts
<1> HIDE DEF sl, x
<1>3. WeeksFrom(TotalAt(sl, e, x), t, kept) = TotalAt(sl, e, t)
  BY <1>1, <1>2, WeeksReach DEF sl, x
<1> QED BY <1>1, <1>3 DEF sl, x

LEMMA CaughtUpIsTotal ==
  ASSUME LockTypes, NEW e \in [Users -> UnlockTimes], Lines(e)
  PROVE  CaughtUp = TotalAt(Slopes, e, now)
<1>1. now \in Nat /\ now <= now /\ now <= MaxTime + MAXTIME /\ now <= Reached
  BY LinesTypes
<1> QED BY <1>1, TotalReached DEF CaughtUp

\* What a user's balance is at t.
LEMMA BalanceOnLine ==
  ASSUME LockTypes, NEW e \in [Users -> UnlockTimes], Lines(e), NEW t \in Nat, NEW u \in Users
  PROVE  BalanceOf(u, t) = ValuesAt(Slopes, e, t)[u]
<1> DEFINE s == userPoint[u].slope
           ts == userPoint[u].ts
<1>1. s \in Nat /\ ts \in Nat /\ e[u] \in Nat /\ userPoint[u].bias = s * (e[u] - ts)
  BY UnlockTimesType DEF Lines
<1>2. /\ BalanceOf(u, t) = Greater(0, s * (e[u] - ts) - s * (t - ts))
      /\ ValuesAt(Slopes, e, t)[u] = s * Greater(e[u] - t, 0)
  BY <1>1 DEF BalanceOf, ValuesAt, Slopes
<1> HIDE DEF s, ts
<1>3. s * (e[u] - ts) - s * (t - ts) = s * (e[u] - t)
  BY <1>1, SMT
<1>4. CASE e[u] >= t
  <2>1. s * (e[u] - t) \in Nat
    <3>1. e[u] - t \in Nat
      BY <1>1, <1>4
    <3> QED BY <1>1, <3>1, ProductType
  <2>2. Greater(e[u] - t, 0) = e[u] - t
    BY <1>1, <1>4, GreaterType
  <2> DEFINE v == s * (e[u] - t)
  <2>3. v \in Nat /\ BalanceOf(u, t) = Greater(0, v) /\ ValuesAt(Slopes, e, t)[u] = v
    BY <1>2, <1>3, <2>1, <2>2
  <2> HIDE DEF v
  <2> QED BY <2>3 DEF Greater
<1>5. CASE e[u] < t
  <2>1. s * (t - e[u]) \in Nat
    <3>1. t - e[u] \in Nat
      BY <1>1, <1>5
    <3> QED BY <1>1, <3>1, ProductType
  <2>2. Greater(e[u] - t, 0) = 0
    BY <1>1, <1>5, GreaterType
  <2>3. s * (e[u] - t) = -(s * (t - e[u]))
    BY <1>1, SMT
  <2> DEFINE v == s * (t - e[u])
  <2>4. v \in Nat /\ BalanceOf(u, t) = Greater(0, -v) /\ ValuesAt(Slopes, e, t)[u] = s * 0
    BY <1>2, <1>3, <2>1, <2>2, <2>3
  <2> HIDE DEF v
  <2>5. Greater(0, -v) = 0
    BY <2>4 DEF Greater
  <2> QED BY <1>1, <2>4, <2>5
<1> QED BY <1>1, <1>4, <1>5

\* The votes as they are read.
VotesRead(e) ==
  \A t \in Nat : now <= t /\ t <= MaxTime + MAXTIME =>
    /\ t <= Reached => TotalSupply(t) = Value(Slopes, e, t)
    /\ \A u \in Users : BalanceOf(u, t) = ValuesAt(Slopes, e, t)[u]

AllLinesAreRead == \A e \in [Users -> UnlockTimes] : LockTypes /\ Lines(e) => VotesRead(e)

LEMMA LinesAreRead == AllLinesAreRead
<1> SUFFICES ASSUME NEW e \in [Users -> UnlockTimes], LockTypes, Lines(e),
                    NEW t \in Nat, now <= t, t <= MaxTime + MAXTIME
             PROVE  /\ t <= Reached => TotalSupply(t) = Value(Slopes, e, t)
                    /\ \A u \in Users : BalanceOf(u, t) = ValuesAt(Slopes, e, t)[u]
  BY DEF AllLinesAreRead, VotesRead
<1>1. t <= Reached => WeeksFrom(point, t, FALSE) = TotalAt(Slopes, e, t)
  BY TotalReached
<1>2. Slopes \in [Users -> Nat] /\ e \in [Users -> Nat]
  BY LinesTypes
<1>3. Value(Slopes, e, t) \in Nat
  BY <1>2, LinesType
<1>4. t <= Reached => TotalSupply(t) = Greater(0, Value(Slopes, e, t))
  <2>1. TotalSupply(t) = Greater(0, WeeksFrom(point, t, FALSE).bias)
    BY DEF TotalSupply
  <2>2. TotalAt(Slopes, e, t).bias = Value(Slopes, e, t)
    BY DEF TotalAt
  <2> QED BY <1>1, <2>1, <2>2
<1>5. t <= Reached => TotalSupply(t) = Value(Slopes, e, t)
  BY <1>3, <1>4 DEF Greater
<1> QED BY <1>5, BalanceOnLine

LEMMA VotesAddUpOnLines == VotesInv => VotesAddUp
<1> SUFFICES ASSUME VotesInv, NEW t \in now .. now + MAXTIME, t <= Reached
             PROVE  TotalSupply(t) = SumFunction([u \in Users |-> BalanceOf(u, t)])
  BY DEF VotesAddUp
<1>1. PICK e \in [Users -> UnlockTimes] : Lines(e)
  BY DEF VotesInv
<1>2. LockTypes
  BY DEF VotesInv
<1>3. t \in Nat /\ now <= t /\ t <= MaxTime + MAXTIME
  BY <1>1, <1>2, LinesTypes
<1>4. VotesRead(e)
  BY <1>1, <1>2, LinesAreRead DEF AllLinesAreRead
<1>5. /\ TotalSupply(t) = Value(Slopes, e, t)
      /\ \A u \in Users : BalanceOf(u, t) = ValuesAt(Slopes, e, t)[u]
  BY <1>3, <1>4 DEF VotesRead
<1>6. [u \in Users |-> BalanceOf(u, t)] = ValuesAt(Slopes, e, t)
  BY <1>5 DEF ValuesAt
<1>7. DOMAIN ValuesAt(Slopes, e, t) = Users
  BY DEF ValuesAt
<1> QED BY <1>5, <1>6, <1>7 DEF SumFunction, Value

\* The line of a lock from now on.
LEMMA LineOfLock ==
  ASSUME now \in Nat, NEW lock \in [amount : Nat, end : UnlockTimes]
  PROVE  LET n == lock.amount \div MAXTIME
             p == LinePoint(lock)
         IN  /\ n \in Nat /\ lock.end \in Nat
             /\ p.slope = IF lock.end > now THEN n ELSE 0
             /\ p.bias = n * Greater(lock.end - now, 0)
             /\ p.bias = p.slope * (lock.end - now) /\ p.ts = now
             /\ p \in [bias : Nat, slope : Nat, ts : Nat]
<1> DEFINE n == lock.amount \div MAXTIME
           d == lock.end - now
           s == IF lock.end > now THEN n ELSE 0
           p == LinePoint(lock)
<1>1. n \in Nat /\ lock.end \in Nat
  <2>1. MAXTIME \in Nat \ {0} /\ lock.amount \in Nat
    BY WeekAssumption
  <2> QED BY <2>1, DivBounds, UnlockTimesType
<1>2. p = [bias |-> s * d, slope |-> s, ts |-> now]
  BY DEF LinePoint
<1> HIDE DEF p, n
<1>3. s * d = n * Greater(d, 0) /\ s * d \in Nat /\ s \in Nat
  <2>1. CASE lock.end > now
    <3>1. d \in Nat /\ Greater(d, 0) = d /\ s = n
      BY <1>1, <2>1, GreaterType
    <3> HIDE DEF d, s
    <3> QED BY <1>1, <3>1, ProductType
  <2>2. CASE ~(lock.end > now)
    <3>1. d \in Int /\ Greater(d, 0) = 0 /\ s = 0
      BY <1>1, <2>2, GreaterType
    <3> HIDE DEF d, s
    <3>2. 0 * d = 0 /\ n * 0 = 0
      BY <1>1, <3>1
    <3> QED BY <3>1, <3>2
  <2> QED BY <2>1, <2>2
<1>4. p.bias = s * d /\ p.slope = s /\ p.ts = now
  BY <1>2
<1>5. p \in [bias : Nat, slope : Nat, ts : Nat]
  <2> DEFINE b == s * d
  <2>1. b \in Nat /\ s \in Nat /\ p = [bias |-> b, slope |-> s, ts |-> now]
    BY <1>2, <1>3
  <2> HIDE DEF b, s
  <2> QED BY <2>1
<1> HIDE DEF s
<1>6. p.slope = IF lock.end > now THEN n ELSE 0
  BY <1>4 DEF s
<1> QED BY <1>1, <1>3, <1>4, <1>5, <1>6 DEF n, p

\* Only u's line is another.
Exchanged(sl, e, sl2, e2, u) ==
  /\ u \in Users
  /\ sl \in [Users -> Nat] /\ e \in [Users -> Nat]
  /\ sl2 \in [Users -> Nat] /\ e2 \in [Users -> Nat]
  /\ \A v \in Users : v # u => sl2[v] = sl[v] /\ e2[v] = e[v]

\* The total changes by the difference.
LEMMA TotalChanges ==
  ASSUME NEW sl, NEW e, NEW sl2, NEW e2, NEW u, Exchanged(sl, e, sl2, e2, u), NEW x \in Nat
  PROVE  /\ Value(sl2, e2, x) = Value(sl, e, x) + sl2[u] * Greater(e2[u] - x, 0)
                                                - sl[u] * Greater(e[u] - x, 0)
         /\ Slope(sl2, e2, x) = Slope(sl, e, x) + (IF e2[u] > x THEN sl2[u] ELSE 0)
                                                - (IF e[u] > x THEN sl[u] ELSE 0)
         /\ Ending(sl2, e2, x) = Ending(sl, e, x) + (IF e2[u] = x THEN sl2[u] ELSE 0)
                                                  - (IF e[u] = x THEN sl[u] ELSE 0)
<1> DEFINE v1 == ValuesAt(sl, e, x)
           v2 == ValuesAt(sl2, e2, x)
           s1 == SlopesAt(sl, e, x)
           s2 == SlopesAt(sl2, e2, x)
           d1 == SlopesEnding(sl, e, x)
           d2 == SlopesEnding(sl2, e2, x)
<1>0. u \in Users
  BY DEF Exchanged
<1>1. /\ u \in Users
      /\ sl \in [Users -> Nat] /\ e \in [Users -> Nat]
      /\ sl2 \in [Users -> Nat] /\ e2 \in [Users -> Nat]
      /\ \A v \in Users : v # u => sl2[v] = sl[v] /\ e2[v] = e[v]
  BY DEF Exchanged
<1>2. \A v \in Users : v # u => v2[v] = v1[v] /\ s2[v] = s1[v] /\ d2[v] = d1[v]
  BY <1>1 DEF ValuesAt, SlopesAt, SlopesEnding
<1>3. /\ v1[u] = sl[u] * Greater(e[u] - x, 0) /\ v2[u] = sl2[u] * Greater(e2[u] - x, 0)
      /\ s1[u] = (IF e[u] > x THEN sl[u] ELSE 0) /\ s2[u] = (IF e2[u] > x THEN sl2[u] ELSE 0)
      /\ d1[u] = (IF e[u] = x THEN sl[u] ELSE 0) /\ d2[u] = (IF e2[u] = x THEN sl2[u] ELSE 0)
  BY <1>1 DEF ValuesAt, SlopesAt, SlopesEnding
<1>4. \A v \in Users : v1[v] \in Nat /\ s1[v] \in Nat /\ d1[v] \in Nat
  BY <1>1, LinesType
<1>5. \A v \in Users : v2[v] \in Nat /\ s2[v] \in Nat /\ d2[v] \in Nat
  BY <1>1, LinesType
<1>6. /\ Value(sl, e, x) = SumFunctionOnSet(v1, Users)
      /\ Value(sl2, e2, x) = SumFunctionOnSet(v2, Users)
      /\ Slope(sl, e, x) = SumFunctionOnSet(s1, Users)
      /\ Slope(sl2, e2, x) = SumFunctionOnSet(s2, Users)
      /\ Ending(sl, e, x) = SumFunctionOnSet(d1, Users)
      /\ Ending(sl2, e2, x) = SumFunctionOnSet(d2, Users)
  BY DEF Value, Slope, Ending
<1> HIDE DEF v1, v2, s1, s2, d1, d2
<1>7. SumFunctionOnSet(v2, Users) = SumFunctionOnSet(v1, Users) + v2[u] - v1[u]
  <2>1. \A v \in Users : v1[v] \in Int /\ v2[v] \in Int
    BY <1>4, <1>5
  <2>2. \A v \in Users : v # u => v2[v] = v1[v]
    BY <1>2
  <2> QED BY <1>0, <2>1, <2>2, UsersAssumption, SumChange
<1>8. SumFunctionOnSet(s2, Users) = SumFunctionOnSet(s1, Users) + s2[u] - s1[u]
  <2>1. \A v \in Users : s1[v] \in Int /\ s2[v] \in Int
    BY <1>4, <1>5
  <2>2. \A v \in Users : v # u => s2[v] = s1[v]
    BY <1>2
  <2> QED BY <1>0, <2>1, <2>2, UsersAssumption, SumChange
<1>9. SumFunctionOnSet(d2, Users) = SumFunctionOnSet(d1, Users) + d2[u] - d1[u]
  <2>1. \A v \in Users : d1[v] \in Int /\ d2[v] \in Int
    BY <1>4, <1>5
  <2>2. \A v \in Users : v # u => d2[v] = d1[v]
    BY <1>2
  <2> QED BY <1>0, <2>1, <2>2, UsersAssumption, SumChange
<1>10. /\ Value(sl2, e2, x) = Value(sl, e, x) + v2[u] - v1[u]
       /\ Slope(sl2, e2, x) = Slope(sl, e, x) + s2[u] - s1[u]
       /\ Ending(sl2, e2, x) = Ending(sl, e, x) + d2[u] - d1[u]
  BY <1>6, <1>7, <1>8, <1>9, Zenon
<1> QED BY <1>3, <1>10, Zenon

\* The schedule follows as well, if the lock is not shortened or is over.
LEMMA ScheduleChanges ==
  ASSUME LockTypes, NEW sl \in [Users -> Nat], NEW e \in [Users -> UnlockTimes], NEW u \in Users,
         Scheduled(sl, e, now),
         NEW old \in [amount : Nat, end : UnlockTimes], NEW new \in [amount : Nat, end : UnlockTimes],
         new.end >= old.end \/ old.end <= now,
         NEW sl2, NEW e2, Exchanged(sl, e, sl2, e2, u),
         e[u] = old.end, e2[u] = new.end,
         NEW o \in Nat, o = IF old.end > now THEN sl[u] ELSE 0,
         NEW k \in Nat, k = IF new.end > now THEN sl2[u] ELSE 0,
         NEW w \in UnlockTimes
  PROVE  /\ SlopeChanges(old, new, o, k) \in [UnlockTimes -> Int]
         /\ w > now => SlopeChanges(old, new, o, k)[w] = -Ending(sl2, e2, w)
<1> DEFINE s == sl[u]
           n == sl2[u]
           changed == SlopeChanges(old, new, o, k)
<1>0. /\ now \in Nat /\ s \in Nat /\ n \in Nat /\ e \in [Users -> Nat] /\ w \in Nat
      /\ old.end \in UnlockTimes /\ new.end \in UnlockTimes
      /\ old.end \in Nat /\ new.end \in Nat
      /\ slopeChanges \in [UnlockTimes -> Int]
  <2>1. now \in Nat
    BY TokenAssumption DEF LockTypes
  <2>2. n \in Nat
    BY DEF Exchanged
  <2> QED BY <2>1, <2>2, UnlockTimesType DEF Scheduled
<1> HIDE DEF s, n
<1>1. o \in Nat /\ k \in Nat /\ o \in Int /\ k \in Int
  BY <1>0
<1>2. changed \in [UnlockTimes -> Int]
  BY <1>0, <1>1 DEF SlopeChanges
<1>3. ASSUME w > now
      PROVE  changed[w] = slopeChanges[w] + (IF old.end = w THEN s ELSE 0)
                                          - (IF new.end = w THEN n ELSE 0)
  <2>0. /\ o = IF old.end > now THEN s ELSE 0
        /\ k = IF new.end > now THEN n ELSE 0
    BY DEF s, n
  <2>1. /\ old.end = w => o = s /\ old.end > now
        /\ new.end = w => k = n /\ new.end > now
        /\ slopeChanges[w] \in Int
    BY <1>0, <1>3, <2>0
  <2>2. CASE old.end = w /\ new.end = w
    <3>1. changed = [slopeChanges EXCEPT ![old.end] = @ + o - k]
      BY <1>0, <2>1, <2>2 DEF SlopeChanges
    <3>2. changed[w] = slopeChanges[w] + o - k
      BY <1>0, <2>2, <3>1
    <3> QED BY <2>1, <2>2, <3>2
  <2>3. CASE old.end = w /\ new.end # w
    <3> DEFINE cancelled == [slopeChanges EXCEPT ![old.end] = @ + o - 0]
    <3>1. changed = IF new.end > now /\ new.end > old.end
                    THEN [cancelled EXCEPT ![new.end] = @ - k] ELSE cancelled
      BY <2>1, <2>3 DEF SlopeChanges
    <3>2. cancelled[w] = slopeChanges[w] + o - 0
      BY <1>0, <2>3
    <3>3. changed[w] = cancelled[w]
      <4>1. DOMAIN cancelled = UnlockTimes
        BY <1>0
      <4> HIDE DEF cancelled
      <4> QED BY <1>0, <2>3, <3>1, <4>1
    <3> HIDE DEF cancelled, changed
    <3> QED BY <1>0, <1>1, <2>1, <2>3, <3>2, <3>3
  <2>4. CASE old.end # w /\ new.end = w
    <3> DEFINE cancelled == IF old.end > now
                            THEN [slopeChanges EXCEPT ![old.end] = @ + o - (IF new.end = old.end THEN k ELSE 0)]
                            ELSE slopeChanges
    <3>1. new.end > now /\ new.end > old.end
      BY <1>0, <1>3, <2>4
    <3>2. changed = [cancelled EXCEPT ![new.end] = @ - k]
      BY <3>1 DEF SlopeChanges
    <3>3. cancelled[w] = slopeChanges[w] /\ DOMAIN cancelled = UnlockTimes
      BY <1>0, <2>4
    <3> HIDE DEF cancelled, changed
    <3>4. changed[w] = slopeChanges[w] - k
      BY <1>0, <2>4, <3>2, <3>3
    <3> QED BY <1>0, <1>1, <2>1, <2>4, <3>4
  <2>5. CASE old.end # w /\ new.end # w
    <3> DEFINE cancelled == IF old.end > now
                            THEN [slopeChanges EXCEPT ![old.end] = @ + o - (IF new.end = old.end THEN k ELSE 0)]
                            ELSE slopeChanges
    <3>2. changed = IF new.end > now /\ new.end > old.end
                    THEN [cancelled EXCEPT ![new.end] = @ - k] ELSE cancelled
      BY DEF SlopeChanges
    <3>3. cancelled[w] = slopeChanges[w] /\ DOMAIN cancelled = UnlockTimes
      BY <1>0, <2>5
    <3> HIDE DEF cancelled, changed
    <3>4. changed[w] = slopeChanges[w]
      BY <1>0, <2>5, <3>2, <3>3
    <3> QED BY <1>0, <1>1, <2>1, <2>5, <3>4
  <2> QED BY <2>2, <2>3, <2>4, <2>5
<1>4. ASSUME w > now PROVE changed[w] = -Ending(sl2, e2, w)
  <2>1. slopeChanges[w] = -Ending(sl, e, w) /\ Ending(sl, e, w) \in Nat
    BY <1>0, <1>4, LinesType DEF Scheduled
  <2>2. Ending(sl2, e2, w) = Ending(sl, e, w) + (IF e2[u] = w THEN sl2[u] ELSE 0)
                                              - (IF e[u] = w THEN sl[u] ELSE 0)
    <3>1. w \in Nat
      BY <1>0
    <3> QED BY <3>1, TotalChanges
  <2>3. Ending(sl2, e2, w) = Ending(sl, e, w) + (IF new.end = w THEN n ELSE 0)
                                              - (IF old.end = w THEN s ELSE 0)
    BY <2>2 DEF s, n
  <2> HIDE DEF changed
  <2> QED BY <1>0, <1>3, <1>4, <2>1, <2>3
<1> QED BY <1>2, <1>4

\* A deposit or a withdrawal exchanges one user's line.
LEMMA UserKeepsLines ==
  ASSUME LockTypes, NEW e \in [Users -> UnlockTimes], Lines(e), LinesOfLocks(e),
         NEW u \in Users, NEW lock \in [amount : Nat, end : UnlockTimes],
         CheckpointUser(u, locked[u], lock),
         lock.end > now \/ lock.amount = 0,
         lock.end >= locked[u].end \/ locked[u].end <= now,
         locked' = [locked EXCEPT ![u] = lock], now' = now
  PROVE  \E e2 \in [Users -> UnlockTimes] : Lines(e2)' /\ LinesOfLocks(e2)'
<1> DEFINE sl == Slopes
           old == locked[u]
           n == lock.amount \div MAXTIME
           sl2 == [sl EXCEPT ![u] = n]
           end == lock.end
           e2 == [e EXCEPT ![u] = end]
           uOld == LinePoint(old)
           uNew == LinePoint(lock)
<1>1. /\ sl \in [Users -> Nat] /\ e \in [Users -> Nat] /\ now \in Nat
      /\ Scheduled(sl, e, now) /\ CaughtUp = TotalAt(sl, e, now)
  BY LinesTypes, CaughtUpIsTotal
<1>2. /\ old \in [amount : Nat, end : UnlockTimes]
      /\ e[u] = old.end /\ sl[u] = old.amount \div MAXTIME
      /\ end \in UnlockTimes /\ end \in Nat /\ old.end \in Nat
  BY UnlockTimesType DEF LockTypes, LinesOfLocks, Slopes
<1>3. /\ n \in Nat
      /\ uNew.slope = IF end > now THEN n ELSE 0
      /\ uNew.bias = n * Greater(end - now, 0)
      /\ uNew.bias = uNew.slope * (end - now) /\ uNew.ts = now
      /\ uNew \in [bias : Nat, slope : Nat, ts : Nat]
  BY <1>1, LineOfLock
<1>4. /\ uOld.slope = IF e[u] > now THEN sl[u] ELSE 0
      /\ uOld.bias = sl[u] * Greater(e[u] - now, 0)
      /\ uOld \in [bias : Nat, slope : Nat, ts : Nat]
  <2>1. \A l \in [amount : Nat, end : UnlockTimes] :
          /\ LinePoint(l).slope = IF l.end > now THEN l.amount \div MAXTIME ELSE 0
          /\ LinePoint(l).bias = (l.amount \div MAXTIME) * Greater(l.end - now, 0)
          /\ LinePoint(l) \in [bias : Nat, slope : Nat, ts : Nat]
    BY <1>1, LineOfLock
  <2> QED BY <1>2, <2>1
<1>5. uNew.slope = n
  <2>1. lock.amount = 0 => n = 0
    <3>1. MAXTIME \in Nat \ {0}
      BY WeekAssumption
    <3> QED BY <3>1
  <2> QED BY <1>1, <1>2, <1>3, <2>1
<1>6. /\ point' = NotNegative([CaughtUp EXCEPT !.slope = @ + uNew.slope - uOld.slope,
                                               !.bias = @ + uNew.bias - uOld.bias])
      /\ slopeChanges' = SlopeChanges(old, lock, uOld.slope, uNew.slope)
      /\ userPoint' = [userPoint EXCEPT ![u] = uNew]
  BY DEF CheckpointUser
<1> HIDE DEF n, uOld, uNew, old, sl, end
<1>7. sl2 \in [Users -> Nat] /\ e2 \in [Users -> Nat] /\ e2 \in [Users -> UnlockTimes]
  BY <1>1, <1>2, <1>3
<1>a. Exchanged(sl, e, sl2, e2, u) /\ sl2[u] = n /\ e2[u] = end
  BY <1>1, <1>2, <1>3, <1>7 DEF Exchanged
<1> HIDE DEF sl2, e2
<1>8. /\ Value(sl2, e2, now) = Value(sl, e, now) + uNew.bias - uOld.bias
      /\ Slope(sl2, e2, now) = Slope(sl, e, now) + uNew.slope - uOld.slope
  <2>1. /\ Value(sl2, e2, now) = Value(sl, e, now) + sl2[u] * Greater(e2[u] - now, 0)
                                   - sl[u] * Greater(e[u] - now, 0)
        /\ Slope(sl2, e2, now) = Slope(sl, e, now) + (IF e2[u] > now THEN sl2[u] ELSE 0)
                                   - (IF e[u] > now THEN sl[u] ELSE 0)
    BY <1>1, <1>a, TotalChanges
  <2> QED BY <1>3, <1>4, <1>a, <2>1, Zenon
<1>9. point' = TotalAt(sl2, e2, now)
  <2>1. [CaughtUp EXCEPT !.slope = @ + uNew.slope - uOld.slope,
                         !.bias = @ + uNew.bias - uOld.bias] = TotalAt(sl2, e2, now)
    <3>1. CaughtUp = [bias |-> Value(sl, e, now), slope |-> Slope(sl, e, now), ts |-> now]
      BY <1>1 DEF TotalAt
    <3>2. TotalAt(sl2, e2, now) =
            [bias |-> Value(sl, e, now) + uNew.bias - uOld.bias,
             slope |-> Slope(sl, e, now) + uNew.slope - uOld.slope, ts |-> now]
      BY <1>8 DEF TotalAt
    <3> DEFINE c == CaughtUp
    <3> HIDE DEF c
    <3>3. c = [bias |-> Value(sl, e, now), slope |-> Slope(sl, e, now), ts |-> now]
      BY <3>1 DEF c
    <3>4. ASSUME NEW a, NEW b
          PROVE  [c EXCEPT !.slope = a, !.bias = b] = [bias |-> b, slope |-> a, ts |-> now]
      <4>1. DOMAIN c = {"bias", "slope", "ts"} /\ c.ts = now
        BY <3>3
      <4> DEFINE d == [c EXCEPT !.slope = a, !.bias = b]
      <4>2. DOMAIN d = {"bias", "slope", "ts"} /\ d.bias = b /\ d.slope = a /\ d.ts = now
        BY <4>1
      <4>3. d = [x \in {"bias", "slope", "ts"} |-> d[x]]
        BY <4>2
      <4> HIDE DEF d
      <4>4. d = [bias |-> b, slope |-> a, ts |-> now]
        BY <4>2, <4>3
      <4> QED BY <4>4 DEF d
    <3>5. c.slope = Slope(sl, e, now) /\ c.bias = Value(sl, e, now)
      BY <3>3
    <3>6. [c EXCEPT !.slope = @ + uNew.slope - uOld.slope, !.bias = @ + uNew.bias - uOld.bias] =
            [bias |-> c.bias + uNew.bias - uOld.bias,
             slope |-> c.slope + uNew.slope - uOld.slope, ts |-> now]
      BY <3>4, Zenon
    <3> QED BY <3>2, <3>5, <3>6, Zenon DEF c
  <2>2. NotNegative(TotalAt(sl2, e2, now)) = TotalAt(sl2, e2, now)
    BY <1>1, <1>7, TotalIsKept
  <2> QED BY <1>6, <2>1, <2>2
<1>10. Slopes' = sl2
  <2>1. \A v \in Users : userPoint'[v].slope = sl2[v]
    BY <1>1, <1>5, <1>6 DEF Lines, sl, sl2, Slopes
  <2>2. sl2 = [v \in Users |-> sl2[v]]
    BY <1>7
  <2> QED BY <2>1, <2>2 DEF Slopes
<1>11. /\ slopeChanges' \in [UnlockTimes -> Int]
       /\ \A w \in UnlockTimes : w > now => slopeChanges'[w] = -Ending(sl2, e2, w)
  <2> DEFINE changed == SlopeChanges(old, lock, uOld.slope, uNew.slope)
  <2>1. /\ slopeChanges' = changed
        /\ uOld.slope = IF old.end > now THEN sl[u] ELSE 0
        /\ uNew.slope = IF lock.end > now THEN sl2[u] ELSE 0
        /\ e[u] = old.end /\ e2[u] = lock.end
        /\ uOld.slope \in Nat /\ uNew.slope \in Nat
    BY <1>2, <1>3, <1>4, <1>6, <1>a DEF end
  <2>2. ASSUME NEW w \in UnlockTimes
        PROVE  changed \in [UnlockTimes -> Int] /\ (w > now => changed[w] = -Ending(sl2, e2, w))
    <3>1. lock.end >= old.end \/ old.end <= now
      BY DEF old
    <3>2. Scheduled(sl, e, now) /\ Exchanged(sl, e, sl2, e2, u) /\ sl \in [Users -> Nat]
          /\ old \in [amount : Nat, end : UnlockTimes]
      BY <1>1, <1>2, <1>a
    <3> QED BY <2>1, <3>1, <3>2, ScheduleChanges
  <2>3. changed \in [UnlockTimes -> Int]
    BY <1>2, <2>2
  <2> HIDE DEF changed
  <2> QED BY <2>1, <2>2, <2>3
<1>12. /\ userPoint' \in [Users -> [bias : Nat, slope : Nat, ts : Nat]]
       /\ \A v \in Users :
            /\ userPoint'[v].bias = userPoint'[v].slope * (e2[v] - userPoint'[v].ts)
            /\ userPoint'[v].ts <= now
  <2>1. userPoint \in [Users -> [bias : Nat, slope : Nat, ts : Nat]]
    BY DEF Lines
  <2>2. userPoint' \in [Users -> [bias : Nat, slope : Nat, ts : Nat]]
    BY <1>3, <1>6, <2>1
  <2>3. ASSUME NEW v \in Users
        PROVE  /\ userPoint'[v].bias = userPoint'[v].slope * (e2[v] - userPoint'[v].ts)
               /\ userPoint'[v].ts <= now
    <3>1. CASE v = u
      <4>1. userPoint'[v] = uNew /\ e2[v] = end
        BY <1>1, <1>6, <2>1, <3>1 DEF e2
      <4> QED BY <1>1, <1>3, <4>1
    <3>2. CASE v # u
      <4>1. userPoint'[v] = userPoint[v] /\ e2[v] = e[v]
        BY <1>1, <1>6, <2>1, <3>2 DEF e2
      <4> QED BY <4>1 DEF Lines
    <3> QED BY <3>1, <3>2
  <2> QED BY <2>2, <2>3
<1>13. \A v \in Users : /\ e2[v] = locked'[v].end
                        /\ userPoint'[v].slope = locked'[v].amount \div MAXTIME
  <2>1. /\ userPoint \in [Users -> [bias : Nat, slope : Nat, ts : Nat]]
        /\ locked \in [Users -> [amount : Nat, end : UnlockTimes]]
    BY DEF Lines, LockTypes
  <2>2. ASSUME NEW v \in Users, v = u
        PROVE  e2[v] = locked'[v].end /\ userPoint'[v].slope = locked'[v].amount \div MAXTIME
    <3>1. userPoint'[v] = uNew /\ e2[v] = end /\ locked'[v] = lock
      BY <1>1, <1>6, <2>1, <2>2 DEF e2
    <3> QED BY <1>5, <3>1 DEF end, n
  <2>3. ASSUME NEW v \in Users, v # u
        PROVE  e2[v] = locked'[v].end /\ userPoint'[v].slope = locked'[v].amount \div MAXTIME
    <3>1. userPoint'[v] = userPoint[v] /\ e2[v] = e[v] /\ locked'[v] = locked[v]
      BY <1>1, <1>6, <2>1, <2>3 DEF e2
    <3> QED BY <3>1 DEF LinesOfLocks
  <2> QED BY <2>2, <2>3
<1>14. point'.ts = now /\ Checkpointed'
  <2>1. point'.ts = now
    BY <1>9 DEF TotalAt
  <2> QED BY <1>1, <2>1, LoopPasses DEF Checkpointed, Reached
<1>15. Lines(e2)'
  BY <1>1, <1>9, <1>10, <1>11, <1>12, <1>14 DEF Lines
<1>16. LinesOfLocks(e2)'
  BY <1>13 DEF LinesOfLocks
<1> QED BY <1>7, <1>15, <1>16

\* A checkpoint moves the last point on to now.
LEMMA CheckpointKeepsLines ==
  ASSUME LockTypes, NEW e \in [Users -> UnlockTimes], Lines(e), Checkpoint
  PROVE  Lines(e)'
<1>1. /\ point' = TotalAt(Slopes, e, now)
      /\ UNCHANGED <<userPoint, slopeChanges, now>>
  BY CaughtUpIsTotal DEF Checkpoint, tokenVars
<1>2. Scheduled(Slopes, e, now) /\ now \in Nat
  BY LinesTypes
<1>3. Slopes' = Slopes /\ point'.ts = now
  BY <1>1 DEF Slopes, TotalAt
<1>4. \A w \in UnlockTimes : w > now => slopeChanges'[w] = -Ending(Slopes, e, w)
  BY <1>1, <1>2 DEF Scheduled
<1>5. /\ userPoint' \in [Users -> [bias : Nat, slope : Nat, ts : Nat]]
      /\ \A u \in Users : /\ userPoint'[u].bias = userPoint'[u].slope * (e[u] - userPoint'[u].ts)
                          /\ userPoint'[u].ts <= now'
      /\ slopeChanges' \in [UnlockTimes -> Int]
  BY <1>1 DEF Lines
<1>6. point'.ts \in Nat /\ point'.ts <= now' /\ Checkpointed'
  BY <1>1, <1>2, <1>3, LoopPasses DEF Checkpointed, Reached
<1> QED BY <1>1, <1>3, <1>4, <1>5, <1>6 DEF Lines

\* Nothing about them changes but the time.
LEMMA LinesKept ==
  ASSUME LockTypes, NEW e \in [Users -> UnlockTimes], Lines(e),
         UNCHANGED votes, now' \in Nat, now <= now', Checkpointed'
  PROVE  Lines(e)'
<1>1. now \in Nat
  BY TokenAssumption DEF LockTypes
<1>2. UNCHANGED <<point, userPoint, slopeChanges>> /\ Slopes' = Slopes
  BY DEF votes, Slopes
<1>3. \A u \in Users : userPoint[u].ts \in Nat /\ userPoint[u].ts <= now'
  BY <1>1 DEF Lines
<1>4. point.ts \in Nat /\ point.ts <= now'
  BY <1>1 DEF Lines
<1> QED BY <1>2, <1>3, <1>4 DEF Lines

LEMMA WholeWeeksIsUnlockTime ==
  ASSUME NEW t \in Times
  PROVE  WholeWeeks(t) \in UnlockTimes
<1>1. MaxTime \in Nat /\ MAXTIME \in Nat /\ t \in Nat /\ t <= MaxTime + MAXTIME
  BY TokenAssumption, WeekAssumption DEF Times
<1>2. WholeWeeks(t) \in Nat /\ WholeWeeks(t) <= t /\ WholeWeeks(t) % WEEK = 0
  BY <1>1, WeekOf
<1> QED BY <1>1, <1>2 DEF UnlockTimes, Times

\* What the deposits make of a lock.
LEMMA DepositLocks ==
  ASSUME LedgerTypes, LockTypes, NEW u \in Users,
         \/ \E value \in Amounts, t \in Times : CreateLock(u, value, t)
         \/ \E value \in Amounts : IncreaseAmount(u, value)
         \/ \E t \in Times : IncreaseUnlockTime(u, t)
  PROVE  /\ ~isShutdown
         /\ \E value \in Nat, lock \in [amount : Nat, end : UnlockTimes] :
              /\ lock.amount > 0 /\ lock.end > now /\ lock.end >= locked[u].end
              /\ Deposit(u, value, lock)
<1>0. /\ Amounts \subseteq Nat /\ now \in Nat
      /\ locked[u] \in [amount : Nat, end : UnlockTimes]
      /\ locked[u].end \in UnlockTimes /\ locked[u].end \in Nat
      /\ locked[u].amount \in Nat
      /\ (locked[u].amount = 0 => locked[u].end = 0)
  <2>1. Amounts \subseteq Nat /\ StartTime \in Nat /\ now \in StartTime .. MaxTime /\ MaxTime \in Nat
    BY TokenAssumption DEF LockTypes
  <2>2. now \in Nat
    BY <2>1
  <2>3. locked \in [Users -> [amount : Nat, end : UnlockTimes]]
    BY DEF LockTypes
  <2>4. locked[u] \in [amount : Nat, end : UnlockTimes]
    BY <2>3
  <2>5. locked[u].amount \in Nat /\ locked[u].end \in UnlockTimes
    BY <2>4
  <2>6. locked[u].end \in Nat
    BY <2>5, UnlockTimesType
  <2>7. locked[u].amount = 0 => locked[u].end = 0
    BY DEF LockTypes
  <2> QED BY <2>1, <2>2, <2>4, <2>5, <2>6, <2>7
<1>1. ASSUME NEW value \in Amounts, NEW t \in Times, CreateLock(u, value, t)
      PROVE  /\ ~isShutdown
             /\ \E val \in Nat, lock \in [amount : Nat, end : UnlockTimes] :
                  /\ lock.amount > 0 /\ lock.end > now /\ lock.end >= locked[u].end
                  /\ Deposit(u, val, lock)
  <2> DEFINE new == [amount |-> value, end |-> WholeWeeks(t)]
  <2>1. /\ new \in [amount : Nat, end : UnlockTimes] /\ new.amount = value
        /\ new.end = WholeWeeks(t) /\ WholeWeeks(t) \in UnlockTimes /\ value \in Nat
    BY <1>0, WholeWeeksIsUnlockTime
  <2>2. /\ ~isShutdown /\ value > 0 /\ locked[u].amount = 0 /\ now < WholeWeeks(t)
        /\ Deposit(u, value, new)
    BY <1>1 DEF CreateLock
  <2>a. WholeWeeks(t) \in Nat
    BY <2>1, UnlockTimesType
  <2> HIDE DEF new
  <2>3. new.amount > 0 /\ new.end > now /\ new.end >= locked[u].end
    BY <1>0, <2>1, <2>2, <2>a
  <2> QED BY <2>1, <2>2, <2>3
<1>2. ASSUME NEW value \in Amounts, IncreaseAmount(u, value)
      PROVE  /\ ~isShutdown
             /\ \E val \in Nat, lock \in [amount : Nat, end : UnlockTimes] :
                  /\ lock.amount > 0 /\ lock.end > now /\ lock.end >= locked[u].end
                  /\ Deposit(u, val, lock)
  <2> DEFINE new == [locked[u] EXCEPT !.amount = @ + value]
  <2>1. /\ value \in Nat /\ new \in [amount : Nat, end : UnlockTimes]
        /\ new.amount = locked[u].amount + value /\ new.end = locked[u].end
    BY <1>0
  <2>2. /\ ~isShutdown /\ value > 0 /\ locked[u].amount > 0 /\ locked[u].end > now
        /\ Deposit(u, value, new)
    BY <1>2 DEF IncreaseAmount
  <2> HIDE DEF new
  <2>3. new.amount > 0 /\ new.end > now /\ new.end >= locked[u].end
    BY <1>0, <2>1, <2>2
  <2> QED BY <2>1, <2>2, <2>3
<1>3. ASSUME NEW t \in Times, IncreaseUnlockTime(u, t)
      PROVE  /\ ~isShutdown
             /\ \E val \in Nat, lock \in [amount : Nat, end : UnlockTimes] :
                  /\ lock.amount > 0 /\ lock.end > now /\ lock.end >= locked[u].end
                  /\ Deposit(u, val, lock)
  <2> DEFINE new == [locked[u] EXCEPT !.end = WholeWeeks(t)]
  <2>1. /\ new \in [amount : Nat, end : UnlockTimes] /\ new.amount = locked[u].amount
        /\ new.end = WholeWeeks(t) /\ WholeWeeks(t) \in UnlockTimes
    BY <1>0, WholeWeeksIsUnlockTime
  <2>2. /\ ~isShutdown /\ locked[u].amount > 0 /\ locked[u].end > now
        /\ locked[u].end < WholeWeeks(t) /\ Deposit(u, 0, new)
    BY <1>3 DEF IncreaseUnlockTime
  <2>a. WholeWeeks(t) \in Nat
    BY <2>1, UnlockTimesType
  <2> HIDE DEF new
  <2>3. new.amount > 0 /\ new.end > now /\ new.end >= locked[u].end
    BY <1>0, <2>1, <2>2, <2>a
  <2> QED BY <2>1, <2>2, <2>3
<1> QED BY <1>1, <1>2, <1>3

LEMMA LockTypesChange ==
  ASSUME LockTypes, NEW u \in Users, NEW lock \in [amount : Nat, end : UnlockTimes],
         lock.amount = 0 => lock.end = 0,
         locked' = [locked EXCEPT ![u] = lock], now' = now, isShutdown' = isShutdown
  PROVE  LockTypes'
<1>1. locked \in [Users -> [amount : Nat, end : UnlockTimes]]
  BY DEF LockTypes
<1>2. locked' \in [Users -> [amount : Nat, end : UnlockTimes]]
  BY <1>1
<1>3. ASSUME NEW v \in Users PROVE locked'[v].amount = 0 => locked'[v].end = 0
  <2>1. CASE v = u
    <3>1. locked'[v] = lock
      BY <1>1, <2>1
    <3> QED BY <3>1
  <2>2. CASE v # u
    <3>1. locked'[v] = locked[v]
      BY <1>1, <2>2
    <3>2. locked[v].amount = 0 => locked[v].end = 0
      BY DEF LockTypes
    <3> QED BY <3>1, <3>2
  <2> QED BY <2>1, <2>2
<1>4. now' \in StartTime .. MaxTime /\ isShutdown' \in BOOLEAN
  BY DEF LockTypes
<1> QED BY <1>2, <1>3, <1>4 DEF LockTypes

-----------------------------------------------------------------------------
(* The invariant of the votes. *)

LEMMA VotesInit == Init => VotesInv
<1> SUFFICES ASSUME Init PROVE VotesInv
  OBVIOUS
<1>0. /\ StartTime \in Nat /\ MaxTime \in Nat /\ StartTime <= MaxTime
      /\ WEEK \in Nat \ {0} /\ MAXTIME \in Nat \ {0}
  BY TokenAssumption, WeekAssumption
<1>1. 0 \in UnlockTimes
  <2>1. (0 * WEEK) % WEEK = 0
    BY <1>0, MultipleOf
  <2>2. 0 * WEEK = 0
    BY <1>0
  <2> QED BY <1>0, <2>1, <2>2 DEF UnlockTimes, Times
<1>2. /\ now = StartTime /\ locked = [u \in Users |-> NoLock] /\ isShutdown = FALSE
      /\ point = [bias |-> 0, slope |-> 0, ts |-> StartTime]
      /\ userPoint = [u \in Users |-> [bias |-> 0, slope |-> 0, ts |-> 0]]
      /\ slopeChanges = [t \in UnlockTimes |-> 0]
  BY DEF Init, TokenInit, EscrowInit, NoPoint
<1>3. LockTypes
  <2>1. NoLock \in [amount : Nat, end : UnlockTimes] /\ NoLock.end = 0
    BY <1>1 DEF NoLock
  <2>2. locked \in [Users -> [amount : Nat, end : UnlockTimes]]
        /\ \A u \in Users : locked[u] = NoLock
    BY <1>2, <2>1
  <2>3. now \in StartTime .. MaxTime
    BY <1>0, <1>2
  <2>4. isShutdown \in BOOLEAN
    BY <1>2, Zenon
  <2> QED BY <2>1, <2>2, <2>3, <2>4 DEF LockTypes
<1> DEFINE e == [u \in Users |-> 0]
<1>4. e \in [Users -> UnlockTimes] /\ \A u \in Users : e[u] = 0
  BY <1>1
<1> HIDE DEF e
<1>5. \A u \in Users : Slopes[u] = 0
  BY <1>2 DEF Slopes
<1>6. /\ Value(Slopes, e, StartTime) = 0 /\ Slope(Slopes, e, StartTime) = 0
      /\ \A w \in Nat : Ending(Slopes, e, w) = 0
  <2>1. \A u \in Users : ValuesAt(Slopes, e, StartTime)[u] = 0
    <3>1. \A u \in Users : Greater(e[u] - StartTime, 0) = 0
      BY <1>0, <1>4, GreaterType
    <3> QED BY <1>5, <3>1 DEF ValuesAt
  <2>2. \A u \in Users : SlopesAt(Slopes, e, StartTime)[u] = 0
    BY <1>5 DEF SlopesAt
  <2>3. ASSUME NEW w \in Nat, NEW u \in Users PROVE SlopesEnding(Slopes, e, w)[u] = 0
    BY <1>5 DEF SlopesEnding
  <2>4. Value(Slopes, e, StartTime) = 0
    BY <2>1, UsersAssumption, SumOfZeros DEF Value
  <2>5. Slope(Slopes, e, StartTime) = 0
    BY <2>2, UsersAssumption, SumOfZeros DEF Slope
  <2>6. \A w \in Nat : Ending(Slopes, e, w) = 0
    BY <2>3, UsersAssumption, SumOfZeros DEF Ending
  <2> QED BY <2>4, <2>5, <2>6
<1>7. point = TotalAt(Slopes, e, point.ts) /\ point.ts = StartTime
  BY <1>2, <1>6 DEF TotalAt
<1>8. /\ slopeChanges \in [UnlockTimes -> Int]
      /\ \A w \in UnlockTimes : slopeChanges[w] = -Ending(Slopes, e, w)
  BY <1>2, <1>6, UnlockTimesType
<1>9. /\ userPoint \in [Users -> [bias : Nat, slope : Nat, ts : Nat]]
      /\ \A u \in Users : /\ userPoint[u].bias = userPoint[u].slope * (e[u] - userPoint[u].ts)
                          /\ userPoint[u].ts <= now
  BY <1>0, <1>2, <1>4
<1>10. Lines(e)
  <2>1. Checkpointed
    BY <1>0, <1>2, <1>7, LoopPasses DEF Checkpointed, Reached
  <2> QED BY <1>0, <1>2, <1>7, <1>8, <1>9, <2>1 DEF Lines
<1>11. LinesOfLocks(e)
  <2>1. 0 \div MAXTIME = 0
    BY <1>0
  <2> QED BY <1>2, <1>4, <2>1 DEF LinesOfLocks, NoLock
<1> QED BY <1>3, <1>4, <1>10, <1>11, LedgerInit DEF VotesInv

LEMMA VotesNext == VotesInv /\ [Next]_vars => VotesInv'
<1> SUFFICES ASSUME VotesInv, [Next]_vars PROVE VotesInv'
  OBVIOUS
<1>0. LedgerInv' /\ LedgerInv /\ LedgerTypes /\ LockTypes
  BY LedgerNext DEF VotesInv, LedgerInv
<1>1. PICK e \in [Users -> UnlockTimes] : Lines(e) /\ (~isShutdown => LinesOfLocks(e))
  BY DEF VotesInv
<1>2. ASSUME UNCHANGED <<votes, locked, isShutdown>>, now' \in StartTime .. MaxTime, now <= now',
             Checkpointed'
      PROVE  VotesInv'
  <2>1. LockTypes'
    BY <1>0, <1>2 DEF LockTypes
  <2>2. now' \in Nat
    BY <1>2, TokenAssumption
  <2>3. Lines(e)'
    BY <1>0, <1>1, <1>2, <2>2, LinesKept
  <2>4. (~isShutdown => LinesOfLocks(e))'
    BY <1>1, <1>2 DEF LinesOfLocks, votes
  <2> QED BY <1>0, <2>1, <2>3, <2>4 DEF VotesInv
<1>3. /\ now \in StartTime .. MaxTime /\ now <= now /\ now \in Nat
      /\ UNCHANGED <<votes, now>> => Checkpointed'
  BY <1>0, <1>1, TokenAssumption DEF LockTypes, Lines, Checkpointed, Reached, votes
<1>4. CASE TokenNext /\ UNCHANGED escrowVars /\ Checkpointed'
  <2>1. UNCHANGED <<votes, locked, isShutdown>>
    BY <1>4 DEF escrowVars
  <2>2. now' \in StartTime .. MaxTime /\ now <= now'
    <3>1. CASE Tick
      BY <1>3, <3>1, TokenAssumption DEF Tick
    <3>2. CASE now' = now
      BY <1>3, <3>2
    <3> QED BY <1>4, <3>1, <3>2 DEF TokenNext, Transfer, SetLockEnd, AddLocker, RemoveLocker, LockAmount
  <2> QED BY <1>2, <1>4, <2>1, <2>2
<1>5. ASSUME NEW u \in Users,
             \/ \E value \in Amounts, t \in Times : CreateLock(u, value, t)
             \/ \E value \in Amounts : IncreaseAmount(u, value)
             \/ \E t \in Times : IncreaseUnlockTime(u, t)
      PROVE  VotesInv'
  <2>1. PICK value \in Nat, lock \in [amount : Nat, end : UnlockTimes] :
          /\ lock.amount > 0 /\ lock.end > now /\ lock.end >= locked[u].end
          /\ Deposit(u, value, lock)
    BY <1>0, <1>5, DepositLocks
  <2>2. ~isShutdown
    BY <1>0, <1>5, DepositLocks
  <2>3. /\ CheckpointUser(u, locked[u], lock) /\ locked' = [locked EXCEPT ![u] = lock]
        /\ now' = now /\ isShutdown' = isShutdown
    BY <2>1 DEF Deposit
  <2>a. lock.amount > 0 /\ lock.amount \in Nat
    BY <2>1
  <2>b. lock.amount = 0 => lock.end = 0
    BY <2>a
  <2>4. LockTypes'
    <3>1. /\ locked' = [locked EXCEPT ![u] = lock]
          /\ now' = now /\ isShutdown' = isShutdown
      BY <2>3
    <3> QED BY <1>0, <2>b, <3>1, LockTypesChange
  <2>5. \E e2 \in [Users -> UnlockTimes] : Lines(e2)' /\ LinesOfLocks(e2)'
    BY <1>0, <1>1, <2>1, <2>2, <2>3, UserKeepsLines
  <2> QED BY <1>0, <2>4, <2>5 DEF VotesInv
<1>6. ASSUME NEW u \in Users, Withdraw(u) PROVE VotesInv'
  <2>1. /\ locked' = [locked EXCEPT ![u] = NoLock] /\ now' = now /\ isShutdown' = isShutdown
        /\ now >= locked[u].end \/ isShutdown
        /\ IF isShutdown THEN UNCHANGED votes ELSE CheckpointUser(u, locked[u], NoLock)
    BY <1>6 DEF Withdraw
  <2>2. NoLock \in [amount : Nat, end : UnlockTimes] /\ NoLock.amount = 0 /\ NoLock.end = 0
    <3>1. (0 * WEEK) % WEEK = 0 /\ 0 * WEEK = 0
      BY WeekAssumption, MultipleOf
    <3>2. 0 \in UnlockTimes
      BY <3>1, TokenAssumption, WeekAssumption DEF UnlockTimes, Times
    <3> QED BY <3>2 DEF NoLock
  <2>3. LockTypes'
    BY <1>0, <2>1, <2>2, LockTypesChange
  <2>4. CASE isShutdown
    <3>1. Lines(e)'
      BY <1>0, <1>1, <1>3, <2>1, <2>4, LinesKept
    <3> QED BY <1>0, <2>1, <2>3, <2>4, <3>1 DEF VotesInv
  <2>5. CASE ~isShutdown
    <3>1. locked[u].end \in Nat /\ locked[u].end <= now
      BY <1>0, <1>3, <2>1, <2>5, UnlockTimesType DEF LockTypes
    <3>2. \E e2 \in [Users -> UnlockTimes] : Lines(e2)' /\ LinesOfLocks(e2)'
      BY <1>0, <1>1, <2>1, <2>2, <2>5, <3>1, UserKeepsLines
    <3> QED BY <1>0, <2>3, <3>2 DEF VotesInv
  <2> QED BY <2>4, <2>5
<1>7. CASE Checkpoint
  <2>1. Lines(e)'
    BY <1>0, <1>1, <1>7, CheckpointKeepsLines
  <2>2. UNCHANGED <<now, locked, isShutdown, userPoint>>
    BY <1>7 DEF Checkpoint, tokenVars
  <2>3. LockTypes'
    BY <1>0, <2>2 DEF LockTypes
  <2>4. (~isShutdown => LinesOfLocks(e))'
    BY <1>1, <2>2 DEF LinesOfLocks
  <2> QED BY <1>0, <2>1, <2>3, <2>4 DEF VotesInv
<1>8. CASE Shutdown
  <2>1. UNCHANGED <<now, locked, votes>> /\ isShutdown' = TRUE
    BY <1>8 DEF Shutdown, tokenVars
  <2>2. LockTypes'
    BY <1>0, <2>1 DEF LockTypes
  <2>3. Lines(e)'
    BY <1>0, <1>1, <1>3, <2>1, LinesKept
  <2> QED BY <1>0, <2>1, <2>2, <2>3 DEF VotesInv
<1>9. CASE UNCHANGED vars
  BY <1>2, <1>3, <1>9 DEF vars, tokenVars, escrowVars
<1> QED BY <1>4, <1>5, <1>6, <1>7, <1>8, <1>9 DEF Next, EscrowNext

LEMMA VotesAlways == Spec => []VotesInv
BY VotesInit, VotesNext, PTL DEF Spec

\* The total of the votes, kept apart as one line with scheduled changes, is at
\* every time to come that the loop over the weeks gets to what the users'
\* votes add up to: for any users, over any time, and any deposits, extensions,
\* withdrawals and checkpoints, as long as the loop always gets from the last
\* of these to the present (Checkpointed).
THEOREM VotesAlwaysAddUp == Spec => []VotesAddUp
BY VotesAlways, VotesAddUpOnLines, PTL

\* Under a shutdown a checkpoint only carries the total on: what is read of it
\* for any time to come stays, and so does each user's line.
LEMMA CheckpointIsRead ==
  ASSUME VotesInv, VotesInv', Checkpoint, NEW t \in now' .. now' + MAXTIME, t <= Reached
  PROVE  TotalSupply(t)' = TotalSupply(t)
<1>1. PICK e \in [Users -> UnlockTimes] : Lines(e)
  BY DEF VotesInv
<1>2. LockTypes /\ LockTypes'
  BY DEF VotesInv
<1>3. Lines(e)'
  BY <1>1, <1>2, CheckpointKeepsLines
<1>4. VotesRead(e)
  BY <1>1, <1>2, LinesAreRead DEF AllLinesAreRead
<1>5. VotesRead(e)'
  <2>1. AllLinesAreRead'
    BY LinesAreRead, PTL
  <2> QED BY <1>2, <1>3, <2>1 DEF AllLinesAreRead
<1>6. now' = now /\ UNCHANGED userPoint
  BY DEF Checkpoint, tokenVars
<1>7. Slopes' = Slopes
  BY <1>6 DEF Slopes
<1>8. t \in Nat /\ now <= t /\ t <= MaxTime + MAXTIME
  BY <1>1, <1>2, <1>6, LinesTypes
<1>9. TotalSupply(t) = Value(Slopes, e, t)
  BY <1>4, <1>8 DEF VotesRead
<1>11. t <= Reached'
  <2>1. point'.ts = now /\ point.ts \in Nat /\ now \in Nat /\ point.ts <= now
    BY <1>1, <1>2, LinesTypes, CaughtUpIsTotal DEF Checkpoint, TotalAt
  <2>2. WholeWeeks(point.ts) <= WholeWeeks(now)
    BY <2>1, WholeWeeksMonotone
  <2>3. /\ WholeWeeks(point.ts) \in Nat /\ WholeWeeks(now) \in Nat
        /\ Weeks * WEEK \in Nat
    BY <2>1, WeekOf, LoopPasses
  <2> DEFINE all == Weeks * WEEK
  <2>4. all \in Nat /\ t <= WholeWeeks(point.ts) + all
    BY <2>3 DEF Reached
  <2> HIDE DEF all
  <2>5. t <= WholeWeeks(now) + all
    BY <1>8, <2>2, <2>3, <2>4
  <2> QED BY <2>1, <2>5 DEF Reached, all
<1>10. TotalSupply(t)' = Value(Slopes', e, t)
  <2>1. \A s \in Nat : now' <= s /\ s <= MaxTime + MAXTIME =>
          (s <= Reached' => TotalSupply(s)' = Value(Slopes, e, s)')
    BY <1>5 DEF VotesRead
  <2>2. TotalSupply(t)' = Value(Slopes, e, t)'
    BY <1>6, <1>8, <1>11, <2>1
  <2> QED BY <2>2 DEF Value, ValuesAt
<1> QED BY <1>7, <1>9, <1>10

\* After a shutdown no operation changes the votes anybody has, now or at any
\* time to come, nor the total of them at any the loop got to before.
THEOREM ShutdownKeepsVotes == Spec => ShutdownFreezesVotes
<1> DEFINE Total == \A t \in now' .. now' + MAXTIME :
                     t <= Reached => TotalSupply(t)' = TotalSupply(t)
           Each == \A u \in Users :
                     \/ UNCHANGED userPoint[u]
                     \/ \A t \in now' .. now' + MAXTIME : BalanceOf(u, t)' = BalanceOf(u, t)
           Frozen == isShutdown => (UNCHANGED <<point, slopeChanges>> \/ Total) /\ Each
<1>1. VotesInv /\ VotesInv' /\ [Next]_vars => [Frozen]_vars
  <2> SUFFICES ASSUME VotesInv, VotesInv', Next, isShutdown
               PROVE  (UNCHANGED <<point, slopeChanges>> \/ Total) /\ Each
    OBVIOUS
  <2>1. CASE UNCHANGED votes
    BY <2>1 DEF votes
  <2>2. CASE Checkpoint
    <3>1. Total
      BY <2>2, CheckpointIsRead
    <3>2. Each
      BY <2>2 DEF Checkpoint
    <3> QED BY <3>1, <3>2
  <2>3. UNCHANGED votes \/ Checkpoint
    BY DEF Next, EscrowNext, escrowVars, CreateLock, IncreaseAmount, IncreaseUnlockTime,
           Withdraw, Shutdown
  <2> QED BY <2>1, <2>2, <2>3
<1> QED BY <1>1, VotesAlways, PTL DEF Spec, ShutdownFreezesVotes

-----------------------------------------------------------------------------
(* Types. *)

\* What only the owner changes.
OwnerTypes ==
  /\ lockEnd \in LockEnds \cup {0} /\ lockers \subseteq Lockers
  /\ changes \in 0 .. MaxChanges

LEMMA OwnerInit == Init => OwnerTypes
BY TokenAssumption DEF Init, TokenInit, OwnerTypes

LEMMA OwnerNext == OwnerTypes /\ [Next]_vars => OwnerTypes'
<1> SUFFICES ASSUME OwnerTypes, [Next]_vars PROVE OwnerTypes'
  OBVIOUS
<1>1. CASE UNCHANGED <<lockEnd, lockers, changes>>
  BY <1>1 DEF OwnerTypes
<1>2. ASSUME OwnerActs PROVE changes' \in 0 .. MaxChanges
  BY <1>2, TokenAssumption DEF OwnerActs, OwnerTypes
<1>3. CASE \E t \in LockEnds : SetLockEnd(t)
  BY <1>2, <1>3 DEF OwnerTypes, SetLockEnd
<1>4. CASE \E a \in Lockers : AddLocker(a) \/ RemoveLocker(a)
  BY <1>2, <1>4 DEF OwnerTypes, AddLocker, RemoveLocker
<1>5. \/ UNCHANGED <<lockEnd, lockers, changes>>
      \/ \E t \in LockEnds : SetLockEnd(t)
      \/ \E a \in Lockers : AddLocker(a) \/ RemoveLocker(a)
  BY DEF Next, TokenNext, EscrowNext, Transfer, LockAmount, Tick, CreateLock, IncreaseAmount,
         IncreaseUnlockTime, Deposit, Withdraw, Checkpoint, Shutdown, vars, tokenVars, lockVars
<1> QED BY <1>1, <1>3, <1>4, <1>5

LEMMA TypesOfInv == VotesInv /\ OwnerTypes => TypeOK
<1> SUFFICES ASSUME VotesInv, OwnerTypes PROVE TypeOK
  OBVIOUS
<1>1. LedgerTypes /\ LockTypes /\ supply = Deposited
  BY BackedBySum DEF VotesInv, LedgerInv
<1>2. TokenTypeOK
  BY <1>1 DEF TokenTypeOK, OwnerTypes, LedgerTypes, LockTypes
<1>3. supply \in Nat
  <2> DEFINE f == [u \in Users |-> locked[u].amount]
  <2>1. \A u \in Users : f[u] \in Nat
    BY <1>1 DEF LedgerTypes
  <2>2. SumFunctionOnSet(f, Users) \in Nat
    <3> HIDE DEF f
    <3> QED BY <2>1, UsersAssumption, SumOfNaturals
  <2> QED BY <1>1, <2>2 DEF Deposited
<1>4. PICK e \in [Users -> UnlockTimes] : Lines(e)
  BY DEF VotesInv
<1>5. point \in [bias : Nat, slope : Nat, ts : Nat]
  <2>1. /\ Slopes \in [Users -> Nat] /\ e \in [Users -> Nat]
        /\ point = TotalAt(Slopes, e, point.ts) /\ point.ts \in Nat
    BY <1>1, <1>4, LinesTypes
  <2> DEFINE x == point.ts
             b == Value(Slopes, e, x)
             s == Slope(Slopes, e, x)
  <2>2. b \in Nat /\ s \in Nat /\ x \in Nat
    <3> HIDE DEF x
    <3>1. x \in Nat
      BY <2>1 DEF x
    <3> QED BY <2>1, <3>1, LinesType
  <2>3. point = [bias |-> b, slope |-> s, ts |-> x]
    BY <2>1 DEF TotalAt
  <2> HIDE DEF b, s, x
  <2> QED BY <2>2, <2>3
<1>6. /\ userPoint \in [Users -> [bias : Nat, slope : Nat, ts : Nat]]
      /\ slopeChanges \in [UnlockTimes -> Int]
  BY <1>4 DEF Lines
<1>7. EscrowTypeOK
  BY <1>1, <1>3, <1>5, <1>6 DEF EscrowTypeOK, LockTypes
<1> QED BY <1>2, <1>7 DEF TypeOK

\* Balances, locks and the last points of the lines are never below zero, and
\* locks end at whole weeks, the only times at which a slope change is kept:
\* in Solidity each of them would otherwise wrap or revert.
THEOREM GovernanceTypes == Spec => []TypeOK
BY VotesAlways, OwnerInit, OwnerNext, TypesOfInv, PTL DEF Spec

-----------------------------------------------------------------------------
(* Votes are within what is locked for them.                                 *)

\* No lock ends later than a new one could.
LocksEnd == \A u \in Users : locked[u].end <= now + MAXTIME

LEMMA LocksEndInit == Init => LocksEnd
<1> SUFFICES ASSUME Init PROVE LocksEnd
  OBVIOUS
<1>1. \A u \in Users : locked[u].end = 0
  BY DEF Init, EscrowInit, NoLock
<1>2. now \in Nat /\ MAXTIME \in Nat
  BY TokenAssumption, WeekAssumption DEF Init, TokenInit
<1> QED BY <1>1, <1>2 DEF LocksEnd

LEMMA LocksEndNext ==
  ASSUME VotesInv, LocksEnd, [Next]_vars
  PROVE  LocksEnd'
<1>0. /\ LockTypes /\ now \in Nat /\ MAXTIME \in Nat
      /\ locked \in [Users -> [amount : Nat, end : UnlockTimes]]
      /\ \A u \in Users : locked[u].end \in Nat
  <2>1. LockTypes
    BY DEF VotesInv
  <2>2. now \in Nat /\ MAXTIME \in Nat
    BY <2>1, TokenAssumption, WeekAssumption DEF LockTypes
  <2>3. locked \in [Users -> [amount : Nat, end : UnlockTimes]]
    BY <2>1 DEF LockTypes
  <2>4. ASSUME NEW u \in Users PROVE locked[u].end \in Nat
    <3>1. locked[u].end \in UnlockTimes
      BY <2>3
    <3> QED BY <3>1, UnlockTimesType
  <2> QED BY <2>1, <2>2, <2>3, <2>4
<1>1. ASSUME UNCHANGED locked, now' \in Nat, now <= now' PROVE LocksEnd'
  BY <1>0, <1>1 DEF LocksEnd
<1>2. ASSUME NEW u \in Users, NEW lock, locked' = [locked EXCEPT ![u] = lock],
             lock.end <= now + MAXTIME, now' = now
      PROVE  LocksEnd'
  <2> SUFFICES ASSUME NEW v \in Users PROVE locked'[v].end <= now + MAXTIME
    BY <1>2 DEF LocksEnd
  <2>1. locked'[v] = IF v = u THEN lock ELSE locked[v]
    BY <1>0, <1>2
  <2> QED BY <1>2, <2>1 DEF LocksEnd
<1>3. CASE TokenNext /\ UNCHANGED escrowVars
  <2>1. UNCHANGED locked
    BY <1>3 DEF escrowVars
  <2>2. now' \in Nat /\ now <= now'
    <3>1. CASE Tick
      BY <1>0, <3>1 DEF Tick
    <3>2. CASE ~Tick
      <4>1. now' = now
        BY <1>3, <3>2 DEF TokenNext, Transfer, LockAmount, SetLockEnd, AddLocker, RemoveLocker
      <4> QED BY <1>0, <4>1
    <3> QED BY <3>1, <3>2
  <2> QED BY <1>1, <2>1, <2>2
<1>4. ASSUME NEW u \in Users, NEW value \in Amounts, NEW t \in Times, CreateLock(u, value, t)
      PROVE  LocksEnd'
  <2> DEFINE lock == [amount |-> value, end |-> WholeWeeks(t)]
  <2>1. lock.end <= now + MAXTIME /\ locked' = [locked EXCEPT ![u] = lock] /\ now' = now
    BY <1>4 DEF CreateLock, Deposit
  <2> HIDE DEF lock
  <2> QED BY <1>2, <2>1
<1>5. ASSUME NEW u \in Users, NEW value \in Amounts, IncreaseAmount(u, value)
      PROVE  LocksEnd'
  <2> DEFINE lock == [locked[u] EXCEPT !.amount = @ + value]
  <2>1. lock.end = locked[u].end /\ locked' = [locked EXCEPT ![u] = lock] /\ now' = now
    BY <1>0, <1>5 DEF IncreaseAmount, Deposit
  <2> HIDE DEF lock
  <2> QED BY <1>2, <2>1 DEF LocksEnd
<1>6. ASSUME NEW u \in Users, NEW t \in Times, IncreaseUnlockTime(u, t)
      PROVE  LocksEnd'
  <2> DEFINE lock == [locked[u] EXCEPT !.end = WholeWeeks(t)]
  <2>1. locked[u] \in [amount : Nat, end : UnlockTimes]
    BY <1>0
  <2>2. lock.end = WholeWeeks(t)
    BY <2>1
  <2>3. /\ WholeWeeks(t) <= now + MAXTIME
        /\ locked' = [locked EXCEPT ![u] = lock] /\ now' = now
    BY <1>6 DEF IncreaseUnlockTime, Deposit
  <2> HIDE DEF lock
  <2> QED BY <1>2, <2>2, <2>3
<1>7. ASSUME NEW u \in Users, Withdraw(u) PROVE LocksEnd'
  <2>1. NoLock.end <= now + MAXTIME /\ locked' = [locked EXCEPT ![u] = NoLock] /\ now' = now
    BY <1>0, <1>7 DEF Withdraw, NoLock
  <2> QED BY <1>2, <2>1
<1>8. CASE Checkpoint \/ Shutdown \/ UNCHANGED vars
  <2>1. UNCHANGED <<locked, now>>
    BY <1>8 DEF Checkpoint, Shutdown, vars, tokenVars, escrowVars
  <2> QED BY <1>0, <1>1, <2>1
<1> QED BY <1>3, <1>4, <1>5, <1>6, <1>7, <1>8 DEF Next, EscrowNext

\* The slope is rounded down, so a line stays below its lock's.
LEMMA LineWithinLock ==
  ASSUME NEW amount \in Nat, NEW left \in Nat
  PROVE  /\ (amount \div MAXTIME) * left \in Nat
         /\ ((amount \div MAXTIME) * left) * MAXTIME <= amount * left
         /\ left <= MAXTIME => (amount \div MAXTIME) * left <= amount
<1> DEFINE s == amount \div MAXTIME
<1>1. MAXTIME \in Nat \ {0} /\ s \in Nat /\ s * MAXTIME <= amount
  BY WeekAssumption, DivBounds
<1> HIDE DEF s
<1>2. s * left \in Nat
  BY <1>1, ProductType
<1>3. (s * left) * MAXTIME <= amount * left
  <2>1. s * MAXTIME \in Nat
    BY <1>1, ProductType
  <2>2. (s * MAXTIME) * left <= amount * left
    BY <1>1, <2>1, ProductMonotone
  <2>3. (s * MAXTIME) * left = (s * left) * MAXTIME
    BY <1>1, SMT
  <2> QED BY <2>2, <2>3
<1>4. ASSUME left <= MAXTIME PROVE s * left <= amount
  <2>1. left * s <= MAXTIME * s
    BY <1>1, <1>4, ProductMonotone
  <2>2. left * s = s * left /\ MAXTIME * s = s * MAXTIME
    BY <1>1
  <2>3. s * MAXTIME \in Nat
    BY <1>1, ProductType
  <2> QED BY <1>1, <1>2, <2>1, <2>2, <2>3
<1> QED BY <1>2, <1>3, <1>4 DEF s

LEMMA VotesOfLocks == VotesInv /\ LocksEnd => VotesWithinLocks
<1> SUFFICES ASSUME VotesInv, LocksEnd, ~isShutdown, NEW t \in now .. now + MAXTIME
             PROVE  /\ \A u \in Users :
                         BalanceOf(u, t) * MAXTIME <= locked[u].amount * Greater(locked[u].end - t, 0)
                    /\ t <= Reached => TotalSupply(t) <= supply
  BY DEF VotesWithinLocks
<1>1. PICK e \in [Users -> UnlockTimes] : Lines(e) /\ LinesOfLocks(e)
  BY DEF VotesInv
<1>2. LockTypes /\ LedgerInv
  BY DEF VotesInv
<1>3. t \in Nat /\ now \in Nat /\ now <= t /\ t <= MaxTime + MAXTIME /\ MAXTIME \in Nat
  BY <1>1, <1>2, LinesTypes
<1>4. VotesRead(e)
  BY <1>1, <1>2, LinesAreRead DEF AllLinesAreRead
<1>5. /\ t <= Reached => TotalSupply(t) = Value(Slopes, e, t)
      /\ \A u \in Users : BalanceOf(u, t) = ValuesAt(Slopes, e, t)[u]
  BY <1>3, <1>4 DEF VotesRead
<1> DEFINE left(u) == Greater(locked[u].end - t, 0)
           deposits == [u \in Users |-> locked[u].amount]
<1>6. ASSUME NEW u \in Users
      PROVE  /\ locked[u].amount \in Nat
             /\ left(u) \in Nat /\ left(u) <= MAXTIME
             /\ ValuesAt(Slopes, e, t)[u] = (locked[u].amount \div MAXTIME) * left(u)
  <2>1. locked[u].amount \in Nat /\ locked[u].end \in Nat
    BY <1>2, UnlockTimesType DEF LockTypes
  <2>2. locked[u].end <= now + MAXTIME
    BY DEF LocksEnd
  <2>3. left(u) \in Nat /\ left(u) <= MAXTIME
    BY <1>3, <2>1, <2>2 DEF Greater
  <2>4. e[u] = locked[u].end /\ Slopes[u] = locked[u].amount \div MAXTIME
    BY <1>1 DEF LinesOfLocks, Slopes
  <2> QED BY <2>1, <2>3, <2>4 DEF ValuesAt
<1> HIDE DEF left
<1>7. ASSUME NEW u \in Users
      PROVE  BalanceOf(u, t) * MAXTIME <= locked[u].amount * left(u)
  BY <1>5, <1>6, LineWithinLock
<1>8. Value(Slopes, e, t) <= Deposited
  <2> DEFINE values == ValuesAt(Slopes, e, t)
  <2>1. ASSUME NEW u \in Users
        PROVE  values[u] \in Int /\ deposits[u] \in Int /\ values[u] <= deposits[u]
    <3> DEFINE line == (locked[u].amount \div MAXTIME) * left(u)
    <3>1. values[u] = line /\ deposits[u] = locked[u].amount
      BY <1>6
    <3> HIDE DEF values, deposits
    <3>2. line \in Nat /\ line <= locked[u].amount
      BY <1>6, LineWithinLock
    <3> HIDE DEF line
    <3> QED BY <1>6, <3>1, <3>2
  <2> HIDE DEF values, deposits
  <2>2. SumFunctionOnSet(values, Users) <= SumFunctionOnSet(deposits, Users)
    BY <2>1, UsersAssumption, SumMonotone
  <2> QED BY <2>2 DEF values, deposits, Value, Deposited
<1>9. supply = Deposited
  BY <1>2, BackedBySum DEF LedgerInv
<1> QED BY <1>5, <1>7, <1>8, <1>9 DEF left

\* Nobody buys votes with an extension, a raise or a delay: for any users and
\* any order of deposits, extensions, withdrawals and checkpoints, a user's
\* votes at any time to come are within the lock's share of the time left, and
\* all votes, as far as the loop gets, are within all deposits.
THEOREM VotesAreWithinLocks == Spec => []VotesWithinLocks
<1>1. LocksEnd /\ VotesInv /\ [Next]_vars => LocksEnd'
  BY LocksEndNext
<1>2. Spec => []LocksEnd
  BY <1>1, LocksEndInit, VotesAlways, PTL DEF Spec
<1> QED BY <1>2, VotesAlways, VotesOfLocks, PTL
=============================================================================
