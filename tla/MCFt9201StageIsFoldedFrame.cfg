SPECIFICATION Spec
CONSTANTS
  InfoReplies <- MCInfoReplies
  OddReplies = {2}
  ShimTable = 128
  ShimCount = 88
  Templates = {"p1", "p2"}
  VerifyPrints <- MCVerifyPrints
  Galleries <- MCGalleries
  NrStages = 3
INVARIANTS
  StageIsFoldedFrame
