CONSTANTS
  Chunk <- MCChunk
  Hold = 2
  HoldThinking = 1
  Keep = 1
  MaxAccount = 1
  Endpoints = 1
  MaxFrame = 3
  FirstBeats = 2
  IdleBeats = 1
SPECIFICATION Spec
INVARIANTS TypeOK ReplyIsExact
PROPERTIES ImplementsProtocol
