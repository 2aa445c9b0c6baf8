SPECIFICATION FairSensorSpec
CONSTANTS
  InfoReplies <- MCInfoReplies
  OddReplies = {2}
INVARIANTS
  SensorTypeOK
  ReplyInStep
  FreshFrame
  BufferHoldsFrame
PROPERTIES
  OneSamplePerTouch
  CancelEnds
