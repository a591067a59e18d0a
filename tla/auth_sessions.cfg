\* A user with a legacy alias, one worker, two logins, two jobs, one restart.
CONSTANTS
  Candidates <- UserAndAlias
  Workers = {w1}
  Loop = loop
  TTL = 1
  MaxRequests = 2
  MaxClock = 1
  MaxJobs = 2
  MaxRestarts = 1
  MaxFaults = 1
  None = None
  Garbled = Garbled
SPECIFICATION Spec
INVARIANTS
  TypeOK
  SignedOutIsOut
  SuppressedIsOut
  ProfileIsKept
  SessionIsNewest
PROPERTIES
  CallbackIsFresh
CONSTRAINT BeforeCrossed
CHECK_DEADLOCK FALSE
