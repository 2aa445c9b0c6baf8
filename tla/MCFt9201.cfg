SPECIFICATION FairSpec
CONSTANTS
  InfoReplies <- MCInfoReplies
  OddReplies = {}
  ShimTable = 128
  ShimCount = 88
  Templates = {"p1", "p2"}
  VerifyPrints <- MCVerifyPrints
  Galleries <- MCGalleries
  NrStages = 3
INVARIANTS
  TypeOK
  BusyIffRunning
  NoEngineMisuse
  VerifyAnswersRequest
  IdentifyAnswersGallery
  EnrolledFromThisOp
PROPERTIES
  CancelIsAnswered
  OpenIsAnswered
  LiftNoticed
  ImplementsContract
  KeepsSensorSpec
