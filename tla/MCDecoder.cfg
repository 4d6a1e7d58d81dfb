\* Every value written, and every input with at most one unusual item.
SPECIFICATION DecoderSpec
CONSTANTS
  None = None
  Greatest <- MCGreatest
  Number <- MCNumber
  Listed <- MCListed
  Keyed <- MCKeyed
  Rank <- MCRank
  Length <- MCLength
  Type <- MCType
  Tags <- MCTags
  Sent <- MCObjects
  MaxUnusual = 1
INVARIANTS
  WrittenIsRead
  ReadIsWritten
CHECK_DEADLOCK FALSE
