SPECIFICATION Spec
CONSTANTS
  Notebooks = {a, b}
  Docs <- MCDocs
  Entries <- MCEntries
  Worlds <- MCWorlds
  Preferences <- MCPreferences
  MaxSteps = 2
  MaxChanges = 1
  MaxPreviews = 2
  Failed = Failed
  None = None
INVARIANT TypeOK
INVARIANT TypedIsSaved
INVARIANT ReviewIsCurrent
INVARIANT SavedAsAnnounced
SYMMETRY Symmetry
CONSTRAINT OneSnapshot
VIEW WhatMatters
CHECK_DEADLOCK FALSE
