\* Inputs to the verifier's reader of packs.
SPECIFICATION DecoderSpec
CONSTANTS
  None = None
  Greatest <- MCGreatest
  Number <- MCNumber
  Listed <- MCListed
  Keyed <- MCKeyed
  Rank <- MCRank
  Length <- MCLength
  Type <- MCVerifier
  Tags <- MCTags
  Sent <- MCVerifier
  MaxUnusual = 1
INVARIANT NoEmptyProofs
CHECK_DEADLOCK FALSE
