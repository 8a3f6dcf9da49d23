CONSTANTS
  pkgP = pkgP  pkgQ = pkgQ  nameA = nameA  nameB = nameB
  Prefixes = {1, 2}
  Packages = {pkgP, pkgQ}
  Names = {nameA, nameB}
  Disks <- MCDisks
SPECIFICATION Spec
INVARIANTS LastPrefixWins OncePerType NoReentry Complete FailsForCause
CHECK_DEADLOCK FALSE
