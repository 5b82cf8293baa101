\* A message of five pages and a half through a ring of three, as the AES
\* programs' is not a whole number of pages either: every position of
\* the ring meets every part of the message.
CONSTANTS
  PAGE = 4
  NumPages = 3
  SIZE = 22
  SIZE_T = 64
  Counters = 3
SPECIFICATION RingFairSpec
INVARIANTS
  NoPageRace
  MessageIntact
PROPERTIES
  MessagesFlow
  RingIsFifo
