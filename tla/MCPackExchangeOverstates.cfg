\* Whether a pack can say more than its exporter does.
SPECIFICATION ExchangeSpec
CONSTANTS
  None = None
  Key <- MCKey
  Honest <- MCHonest
  Obs <- MCObs
  Att <- MCAtt
  SignedObs <- MCObs
  SignedAtt <- MCAtt
  author <- MCauthor
  seq <- MCseq
  prev <- MCprev
  acks <- MCacks
  witness <- MCwitness
  subject <- MCsubject
  subject_head <- MCsubject_head
  subject_seq <- MCsubject_seq
  nonce <- MCnonce
  made <- MCmade
  Garbled <- MCGarbled
  Arriving <- MCArriving
  MissingCap = 1
  MaxClaims = 2
  MaxLosses = 1
INVARIANT NoPackOverstates
CHECK_DEADLOCK FALSE
