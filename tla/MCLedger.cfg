\* The ledger under every arrival order of a small hostile universe.
SPECIFICATION Spec
CONSTANTS
  None = None
  Key <- MCKey
  Honest <- MCHonest
  Obs <- MCObs
  Att <- MCAtt
  SignedObs <- MCSignedObs
  SignedAtt <- MCSignedAtt
  author <- MCauthor
  seq <- MCseq
  prev <- MCprev
  acks <- MCacks
  witness <- MCwitness
  subject <- MCsubject
  subject_head <- MCsubject_head
  subject_seq <- MCsubject_seq
  nonce <- MCnonce
  made <- MCmade
  Garbled <- MCGarbled
  Arriving <- MCArriving
  MissingCap = 1
INVARIANTS
  TypeOK
  VerifiedIsOneChain
  HonestNeverAccused
  HonestNeverQuarantined
  DetectedForksConvict
  MissingIsExact
  HonestWitnessNeverConflicts
PROPERTIES
  ViolatedForever
  ForkEvidenceForever
