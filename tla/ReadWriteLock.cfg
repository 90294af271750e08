CONSTANTS
  Readers = {r1, r2, r3}
  Writers = {w1, w2}
  NoProc = NoProc
  Commands = 2
SPECIFICATION FairSpec
INVARIANTS
  TypeOK
  MutualExclusion
  NoLostWakeup
PROPERTIES
  WriterPreference
  EverybodyServed
  AbstractSpec
