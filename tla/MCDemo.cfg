\* Every order of the demo's calls.
SPECIFICATION DemoSpec
CONSTANTS
  None = None
  Key <- MCKey
  Honest <- MCHonest
  Obs <- MCObs
  Att <- MCAtt
  SignedObs <- MCObs
  SignedAtt <- MCAtt
  author <- MCauthor
  seq <- MCseq
  prev <- MCprev
  acks <- MCacks
  witness <- MCwitness
  subject <- MCsubject
  subject_head <- MCsubject_head
  subject_seq <- MCsubject_seq
  nonce <- MCnonce
  made <- MCmade
  MaxCalls = 6
INVARIANTS
  DemoTypeOK
  ConvictedIffForked
  SiblingsShareTheTrunk

  
CHECK_DEADLOCK FALSE
