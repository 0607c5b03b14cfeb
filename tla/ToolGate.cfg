\* Every grant over two spaces, with and without the education tools.
CONSTANTS
  SpaceIds = {s1, s2}
  Absent = Absent
SYMMETRY Symmetry
SPECIFICATION Spec
INVARIANTS
  NothingHidden
  ListedIsCallable
  ChangesNeedWrite
  DirectoryNeedsInstanceAdmin
  InsideConsent
