\* Three good disks, one of them with a different watchdog timeout.
CONSTANTS
  NumDisks = 3
  Triples <- MCTriples
  Default <- MCDefault
  MaxLateFail = 0
SPECIFICATION Spec
INVARIANT HeaderConsistency
