SPECIFICATION Spec
CONSTANTS
  alice = alice
  bob = bob
  Users = {alice, bob}
  VotingEscrow = VotingEscrow
  Lockers = {locker}
  Amounts = {6}
  LockEnds = {0, 3}
  Minted <- MCMinted
  StartTime = 1
  MaxChanges = 2
  MaxTime = 5
  WEEK = 2
  MAXTIME = 4
  Weeks = 2
INVARIANTS TypeOK VotesAddUp LocksAreBacked VotesWithinLocks
PROPERTIES LockedIsHeld ShutdownFreezesVotes
CHECK_DEADLOCK FALSE
