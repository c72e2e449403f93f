CONSTANTS
  Thread = {t1, t2, t3}
  NoThread = NoThread
  MaxWrites = 1
SPECIFICATION Spec
INVARIANT MutualExclusion
