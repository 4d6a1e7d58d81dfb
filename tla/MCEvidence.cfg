\* The DAG and the brackets while a forking author's chain and the attestations
\* about it arrive in any order and keys are convicted.
SPECIFICATION EvidenceSpec
CONSTANTS
  None = None
  Key <- MCKey
  Honest <- MCHonest
  Obs <- MCObs
  Att <- MCAtt
  SignedObs <- MCSignedObs
  SignedAtt <- MCSignedAtt
  author <- MCauthor
  seq <- MCseq
  prev <- MCprev
  acks <- MCacks
  witness <- MCwitness
  subject <- MCsubject
  subject_head <- MCsubject_head
  subject_seq <- MCsubject_seq
  nonce <- MCnonce
  made <- MCmade
  Garbled <- MCGarbled
  Arriving <- MCArriving
  MissingCap = 1
INVARIANTS
  OrderIsSound
  OrderStaysInChain
  BracketEncloses
  BoundsAreTight
  DepthCountsWitnesses
PROPERTIES
  SealsAreKept
  BoundsNeverWiden
  OnlyUnwitnessedDisputed
