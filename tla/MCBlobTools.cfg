SPECIFICATION ToolSpec
CONSTANTS
  Elfs <- MCElfs
  Raws <- MCRaws
INVARIANTS
  BytesAreTheSymbol
  RefusesOnlyUnsound
  PublishedWhole
  SidecarIsTheLoadedImage
  RefusesOnlyUnloadable
