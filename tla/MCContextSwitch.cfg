SPECIFICATION Spec
CONSTANTS
  Threads = {t1, t2, t3}
  System = system
  NoFrame = noframe
  NoContext = nocontext
  MaxMask = 2
INVARIANTS
  ResumesOwnContext
  StackDiscipline
  MaskedSectionsAreMasked
SYMMETRY Perms
