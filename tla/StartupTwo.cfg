\* Two disks with either header, either health, one disk failing late:
\* the quorum and timeout-consistency checks of Phase A.
CONSTANTS
  NumDisks = 2
  Triples <- MCTriples
  Default <- MCDefault
  MaxLateFail = 1
SPECIFICATION Spec
INVARIANT TypeOK
INVARIANT StartupQuorum
INVARIANT HeaderConsistency
