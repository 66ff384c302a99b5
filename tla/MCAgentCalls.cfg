SPECIFICATION FairSpec
CONSTANTS
  Timeout = 7
  Interval = 2
  ExecTimeout = 3
  MaxCall = 5
INVARIANTS
  TypeOK ReturnWitnessed BoundedOvershoot StableIsSeen
PROPERTIES
  ExecCallEnds OnlyHangsInAgent
\* The call has ended, or its question is never answered.
CHECK_DEADLOCK FALSE
