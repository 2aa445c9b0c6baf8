SPECIFICATION Spec
CONSTANTS
  Dlls = {release, older}
  Release = release
INVARIANTS
  FetchedIsWhole
