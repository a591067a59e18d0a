\* Two calls in progress at a time, two commands, two changes of the login.
CONSTANTS
  Flows = {f1, f2}
  MaxPolls = 2
  MaxCommands = 2
  MaxChanges = 2
  Nothing = Nothing
  Failure = Failure
SPECIFICATION FairSpec
INVARIANTS
  TypeOK
PROPERTIES
  AuthNeverGoesBack
  PendingEnds
  LoginIsShown
  SnapshotEnds
CHECK_DEADLOCK FALSE
