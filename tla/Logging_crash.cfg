\* Rotations, and a program that may stop in the middle of them.
SPECIFICATION Spec
CONSTANTS
  max_files = 3
  max_size = 1
  MaxCrashes = 3
  MaxLines = 20
  MaxTurns = 3
INVARIANTS TypeOK NewestKept EnoughKept
CHECK_DEADLOCK FALSE
