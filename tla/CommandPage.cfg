CONSTANTS
  s1 = s1
  s2 = s2
  h1 = h1
  h2 = h2
  h3 = h3
  Procs = {s1, s2}
  Callers = {h1, h2, h3}
  Home <- MCHome
  Commands = {imu, compass}
  Nothing = none
  MaxSpins = 2
  None = nobody
  Lost = lost
SPECIFICATION Spec
INVARIANTS
  MutualExclusion
  LockedIffHeld
  UnlockCannotFail
  PublishesOwnCommand
PROPERTIES
  DeadPageIsFrozen
  ImplementsMailbox
  CallsReturn
