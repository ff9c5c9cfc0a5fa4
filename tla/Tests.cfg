\* Two cases, any of the ten; keys copied to a device whose power may fail.
SPECIFICATION TestsSpec
CONSTANTS
  Selected = {"shared", "nonostree", "manual", "device", "hsm", "resource", "nonsystemd", "ptest", "secondaryFirst", "primaryFirst"}
  Images <- MCImages
  Runs = 2
  Polls = 2
  MaxFaults = 2
INVARIANTS CleanedUp PassIsTrue AlreadyInitialized
PROPERTIES TestsEnd KeysKept Provides
