SPECIFICATION Spec
CONSTANTS
  Notebooks = {a, b}
  Docs <- MCDocs
  Entries <- MCEntries
  Worlds <- MCWorlds
  Preferences <- MCPreferences
  MaxSteps = 2
  MaxChanges = 1
  MaxPreviews = 2
  Failed = Failed
  None = None
SYMMETRY Symmetry
CONSTRAINT OneSnapshot
VIEW WhatMatters
INVARIANT DirectivesStay
CHECK_DEADLOCK FALSE
