\* Two writers, one after the other or at once, and a reader started again and
\* again; writers stop after MaxMessages, so the system may stop.
CONSTANTS
  DATA_SECTION_SIZE = 9
  IVSHMEM_PAGE_SIZE = 1
  IVSHMEM_CHANNEL_INIT_SIZE = 2
  IVSHMEM_MAX_CHANNELS = 2
  w1 = w1
  w2 = w2
  r1 = r1
  Writers = {w1, w2}
  Readers = {r1}
  ClientKey <- MCClientKey
  Parts = 2
  Capacity = 1
  MESSAGE_SIZE = 4
  DECRYPT_MSG_SIZE = 4
  IV_LEN = 1
  TAG_LEN = 2
  MaxMessages <- MCMaxMessages
  MaxGarbled = 1
SPECIFICATION ProgramsFairSpec

  
  
PROPERTIES
  
  MessagesGetThrough
CHECK_DEADLOCK FALSE
