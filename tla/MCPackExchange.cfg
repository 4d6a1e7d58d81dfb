\* Packs of one or two records, exported from every ledger of the universe,
\* damaged or not, and verified.
SPECIFICATION ExchangeSpec
CONSTANTS
  None = None
  Key <- MCKey
  Honest <- MCHonest
  Obs <- MCObs
  Att <- MCAtt
  SignedObs <- MCObs
  SignedAtt <- MCAtt
  author <- MCauthor
  seq <- MCseq
  prev <- MCprev
  acks <- MCacks
  witness <- MCwitness
  subject <- MCsubject
  subject_head <- MCsubject_head
  subject_seq <- MCsubject_seq
  nonce <- MCnonce
  made <- MCmade
  Garbled <- MCGarbled
  Arriving <- MCArriving
  MissingCap = 1
  MaxClaims = 2
  MaxLosses = 2
INVARIANTS
  PackReproducesBrackets
  HonestPackPasses
  LossesAreNotViolations
  LossesNeverOverstate
  ReportedBracketsAreTrue
  ConvictionsShow
CHECK_DEADLOCK FALSE
