SPECIFICATION Spec
CONSTANTS
  c1 = c1
  c2 = c2
  Calls = {c1, c2}
  Ops = {"poll", "write", "reboot", "reconnect", "netmode", "read_back", "modes", "login", "logout", "sweep"}
  Probes = 3
  NoCall = NoCall
  m1 = m1
  m2 = m2
  Modes = {m1, m2}
  StartMode = m1
INVARIANTS
  TypeOK
  LockSound
  AtMostOnce
  OkMeansApplied
  WedgedClientDropped
  PremiseIsCurrent
PROPERTIES
  SweepOnCurrentClient
  WedgedWorkerFreesLock
  EveryWaitEnds
CHECK_DEADLOCK FALSE
