---------------------------- MODULE VotingEscrow ----------------------------
(* VotingEscrow: APY deposited until a week in the future gives votes that   *)
(* fall linearly to zero at that week.  The total is kept as one line of its *)
(* own, whose slope changes at the weeks in which locks end.                 *)
(*                                                                           *)
(* Past points, read by block number, are left out and so is the epoch that  *)
(* counts them; also the check of smart wallets and the change of admin.     *)
EXTENDS GovernanceToken

CONSTANTS
  WEEK, MAXTIME,
  Weeks              \* the turns of the loops over the weeks, 255 in the code

ASSUME WeekAssumption == {WEEK, MAXTIME, Weeks} \subseteq Nat \ {0}

VARIABLES
  locked, supply,
  point, userPoint,  \* the last of point_history and of each user_point_history
  slopeChanges, isShutdown

votes == <<point, userPoint, slopeChanges>>
escrowVars == <<locked, supply, votes, isShutdown>>

Times == 0 .. MaxTime + MAXTIME
UnlockTimes == {t \in Times : t % WEEK = 0}

NoLock == [amount |-> 0, end |-> 0]
NoPoint == [bias |-> 0, slope |-> 0, ts |-> 0]

EscrowTypeOK ==
  /\ locked \in [Users -> [amount : Nat, end : UnlockTimes]] /\ supply \in Nat
  /\ point \in [bias : Nat, slope : Nat, ts : Nat]
  /\ userPoint \in [Users -> [bias : Nat, slope : Nat, ts : Nat]]
  /\ slopeChanges \in [UnlockTimes -> Int] /\ isShutdown \in BOOLEAN

EscrowInit ==
  /\ locked = [u \in Users |-> NoLock] /\ supply = 0
  /\ point = [NoPoint EXCEPT !.ts = StartTime]
  /\ userPoint = [u \in Users |-> NoPoint]
  /\ slopeChanges = [t \in UnlockTimes |-> 0] /\ isShutdown = FALSE

\* Mutant: locks end when the user says.
AnyTime(t) == t
WholeWeeks(t) == (t \div WEEK) * WEEK

\* The line of a lock from now on.
LinePoint(lock) ==
  LET slope == IF lock.end > now THEN lock.amount \div MAXTIME ELSE 0
  IN  [bias |-> slope * (lock.end - now), slope |-> slope, ts |-> now]

\* One turn of the loops over the weeks: on to the next week, or to t.
NextWeek(p, t) ==
  LET week == WholeWeeks(p.ts) + WEEK
      to   == Lesser(week, t)
  IN  [bias |-> p.bias - p.slope * (to - p.ts),
       slope |-> p.slope + (IF week <= t THEN slopeChanges[week] ELSE 0),
       ts |-> to]
NotNegative(p) == [p EXCEPT !.bias = Greater(@, 0), !.slope = Greater(@, 0)]

\* How far the loops get from the last point: in the code 255 weeks, when the
\* longest lock ends after 208.
Reached == WholeWeeks(point.ts) + Weeks * WEEK

\* The loop up to t; turns after t is reached change nothing.  _checkpoint
\* keeps bias and slope from falling below 0 in each turn, supply_at does not.
WeeksFrom(p, t, kept) ==
  LET step == [q \in [bias : Int, slope : Int, ts : Nat] |->
                 IF kept THEN NotNegative(NextWeek(q, t)) ELSE NextWeek(q, t)]
      after[i \in 0 .. Weeks] == IF i = 0 THEN p ELSE step[after[i - 1]]
  IN  after[Weeks]

CaughtUp == WeeksFrom(point, now, TRUE)

\* Mutant: the end of a lock that is extended still lowers the slope.
SlopeChangesKept(old, new, oldSlope, newSlope) ==
  LET cancelled == IF old.end > now /\ new.end = old.end
                   THEN [slopeChanges EXCEPT ![old.end] = @ + oldSlope - newSlope]
                   ELSE slopeChanges
  IN  IF new.end > now /\ new.end > old.end
      THEN [cancelled EXCEPT ![new.end] = @ - newSlope] ELSE cancelled

SlopeChanges(old, new, oldSlope, newSlope) ==
  LET cancelled == IF old.end > now
                   THEN [slopeChanges EXCEPT
                           ![old.end] = @ + oldSlope - (IF new.end = old.end THEN newSlope ELSE 0)]
                   ELSE slopeChanges
  IN  IF new.end > now /\ new.end > old.end
      THEN [cancelled EXCEPT ![new.end] = @ - newSlope] ELSE cancelled

\* _checkpoint for a user.
CheckpointUser(u, old, new) ==
  LET uOld == LinePoint(old)
      uNew == LinePoint(new)
  IN  /\ point' = NotNegative([CaughtUp EXCEPT !.slope = @ + uNew.slope - uOld.slope,
                                               !.bias = @ + uNew.bias - uOld.bias])
      /\ slopeChanges' = SlopeChanges(old, new, uOld.slope, uNew.slope)
      /\ userPoint' = [userPoint EXCEPT ![u] = uNew]

\* checkpoint.
Checkpoint ==
  /\ point' = CaughtUp
  /\ UNCHANGED <<tokenVars, locked, supply, userPoint, slopeChanges, isShutdown>>

\* _deposit_for.
Deposit(u, value, new) ==
  /\ supply' = supply + value
  /\ locked' = [locked EXCEPT ![u] = new]
  /\ CheckpointUser(u, locked[u], new)
  /\ value # 0 => CanTransfer(u, value)
  /\ balance' = Moved(u, VotingEscrow, value)
  /\ UNCHANGED <<now, lockVars, changes, isShutdown>>

CreateLock(u, value, unlockTime) ==
  LET end == WholeWeeks(unlockTime)
  IN  /\ ~isShutdown
      /\ value > 0 /\ locked[u].amount = 0
      /\ now < end /\ end <= now + MAXTIME
      /\ Deposit(u, value, [amount |-> value, end |-> end])

\* increase_amount, and deposit_for, which takes the tokens of the same user.
IncreaseAmount(u, value) ==
  /\ ~isShutdown
  /\ value > 0 /\ locked[u].amount > 0
  /\ locked[u].end > now
  /\ Deposit(u, value, [locked[u] EXCEPT !.amount = @ + value])

\* Mutant: an extension may end later than a new lock.
IncreaseUnlockTimeFreely(u, unlockTime) ==
  LET end == WholeWeeks(unlockTime)
  IN  /\ ~isShutdown
      /\ locked[u].end > now /\ locked[u].amount > 0
      /\ locked[u].end < end
      /\ Deposit(u, 0, [locked[u] EXCEPT !.end = end])

IncreaseUnlockTime(u, unlockTime) ==
  LET end == WholeWeeks(unlockTime)
  IN  /\ ~isShutdown
      /\ locked[u].end > now /\ locked[u].amount > 0
      /\ locked[u].end < end /\ end <= now + MAXTIME
      /\ Deposit(u, 0, [locked[u] EXCEPT !.end = end])

\* Mutant: the votes of a lock that a shutdown released are taken back.
WithdrawWithVotes(u) ==
  /\ now >= locked[u].end \/ isShutdown
  /\ locked' = [locked EXCEPT ![u] = NoLock]
  /\ supply' = supply - locked[u].amount
  /\ CheckpointUser(u, locked[u], NoLock)
  /\ CanTransfer(VotingEscrow, locked[u].amount)
  /\ balance' = Moved(VotingEscrow, u, locked[u].amount)
  /\ UNCHANGED <<now, lockVars, changes, isShutdown>>

\* Mutant: the lock is ended and its amount stays.
WithdrawLeavingAmount(u) ==
  /\ now >= locked[u].end \/ isShutdown
  /\ locked' = [locked EXCEPT ![u].end = 0]
  /\ supply' = supply - locked[u].amount
  /\ supply' >= 0
  /\ IF isShutdown THEN UNCHANGED votes ELSE CheckpointUser(u, locked[u], NoLock)
  /\ CanTransfer(VotingEscrow, locked[u].amount)
  /\ balance' = Moved(VotingEscrow, u, locked[u].amount)
  /\ UNCHANGED <<now, lockVars, changes, isShutdown>>

Withdraw(u) ==
  /\ now >= locked[u].end \/ isShutdown
  /\ locked' = [locked EXCEPT ![u] = NoLock]
  /\ supply' = supply - locked[u].amount
  /\ IF isShutdown THEN UNCHANGED votes ELSE CheckpointUser(u, locked[u], NoLock)
  /\ CanTransfer(VotingEscrow, locked[u].amount)
  /\ balance' = Moved(VotingEscrow, u, locked[u].amount)
  /\ UNCHANGED <<now, lockVars, changes, isShutdown>>

Shutdown ==
  /\ isShutdown' = TRUE
  /\ UNCHANGED <<tokenVars, locked, supply, votes>>

\* balanceOf and totalSupply, at a time not before the last point.
BalanceOf(u, t) == Greater(0, userPoint[u].bias - userPoint[u].slope * (t - userPoint[u].ts))
TotalSupply(t) == Greater(0, WeeksFrom(point, t, FALSE).bias)

EscrowNext ==
  \/ \E u \in Users :
       \/ \E value \in Amounts, t \in Times : CreateLock(u, value, t)
       \/ \E value \in Amounts : IncreaseAmount(u, value)
       \/ \E t \in Times : IncreaseUnlockTime(u, t)
       \/ Withdraw(u)
  \/ Checkpoint
  \/ Shutdown
=============================================================================
