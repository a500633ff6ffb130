SPECIFICATION Spec
CONSTANTS
  Stamps = TRUE
  Chunks <- ShortChunks
  Closed = Closed
  FlushAt = 4
  MaxDay = 1
  MaxBytes = 4
  MaxNotes = 2
  MaxFaults = 1
INVARIANTS TypeOK LinesKept FilesReadable
