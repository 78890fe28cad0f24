CONSTANTS
  r1 = r1
  a = a
  b = b
  Readers <- OneReader
  Part <- TwoParts
  SeqModulus = 6
  Failed = Failed
SPECIFICATION FairSpec
INVARIANTS
  SeqLockInv
PROPERTIES
  LoadsCurrent
  ImplementsRegister
  LoadTerminates
