CONSTANTS
  Chunk <- FailoverChunk
  Hold = 1
  HoldThinking = 1
  Keep = 1
  MaxAccount = 2
  Endpoints = 2
  MaxFrame = 1
  FirstBeats = 2
  IdleBeats = 1
SPECIFICATION Spec
INVARIANTS OneAuthor FallbackIsClean CallsAreBounded
PROPERTIES RequestEnds
