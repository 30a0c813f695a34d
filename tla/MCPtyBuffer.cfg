\* A ring of three bytes, characters of one to three, five bytes printed: reads
\* shorter than a character, cuts inside one, and a client the ring has overtaken.
SPECIFICATION BufSpec
CONSTANTS
  PTY_BUFFER_BYTES = 3
  PTY_READ_MAX_BYTES = 2
  MaxWidth = 3
  StreamBound = 5
INVARIANTS
  BufTypeOK
  OutputFollowed
  NoLostWakeup
PROPERTIES
  WaitsEnd
\* The bound of the stream is reached.
CHECK_DEADLOCK FALSE
