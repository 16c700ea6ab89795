\* Class bodies and subclasses of four objects altogether, and SparkForge documents.
SPECIFICATION AdaptedSpec
CONSTANTS
  Names <- MCNames
  Sources <- MCSources
  Sinks <- MCSinks
  Transforms <- MCTransforms
  Child <- MCChild
  Published <- MCPublished
  HandWritten <- MCHandWritten
  MaxMade <- MCMade
  MaxObjects = 4
  MaxTwists = 1
  Documents <- MCDocuments
  Payloads <- MCPayloads
  Mentions <- MCMentions
INVARIANTS
  AcceptedCanRun
  WiredAsSpecified
  LoadsAndReportsAsWritten
CHECK_DEADLOCK FALSE
