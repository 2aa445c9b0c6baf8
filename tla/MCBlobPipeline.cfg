SPECIFICATION Spec
CONSTANTS
  Dlls = {release, older}
  Release = release
INVARIANTS
  TypeOK
  FetchedIsRelease
  InstallSettles
  MixedOnlyWhileTorn
  UninstalledIsGone
