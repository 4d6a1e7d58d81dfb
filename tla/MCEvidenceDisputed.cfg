\* Whether a record an honest witness sealed can become disputed.
SPECIFICATION EvidenceSpec
CONSTANTS
  None = None
  Key <- MCKey
  Honest <- MCHonest
  Obs <- MCObs
  Att <- MCAtt
  SignedObs <- MCSignedObs
  SignedAtt <- MCSignedAtt
  author <- MCauthor
  seq <- MCseq
  prev <- MCprev
  acks <- MCacks
  witness <- MCwitness
  subject <- MCsubject
  subject_head <- MCsubject_head
  subject_seq <- MCsubject_seq
  nonce <- MCnonce
  made <- MCmade
  Garbled <- MCGarbled
  Arriving <- MCArriving
  MissingCap = 1
PROPERTY HonestSealOutlastsConvictions
