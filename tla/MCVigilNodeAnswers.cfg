\* Two captures, a blank one and a lookup, while one client never completes its
\* request.
SPECIFICATION FairNodeSpec
CONSTANTS
  None = None
  c1 = c1
  c2 = c2
  c3 = c3
  blank = blank
  look = look
  pack = pack
  health = health
  stuck = stuck
  w1 = w1
  w2 = w2
  w3 = w3
  Me = "me"
  Worker = {w1, w2}
  Capture = {c1, c2, blank, stuck}
  Lookup = {look}
  Exporting = {}
  Health = {}
  Malformed = {blank}
  Stalled = {stuck}
  text <- MCtext
  Key <- MCKey
  Honest <- MCEmpty
  Obs <- MCObs
  Att <- MCEmpty
  SignedObs <- MCObs
  SignedAtt <- MCEmpty
  author <- MCauthor
  seq <- MCseq
  prev <- MCprev
  acks <- MCacks
  witness <- MCNone
  subject <- MCNone
  subject_head <- MCNone
  subject_seq <- MCNone
  nonce <- MCNone
  made <- MCseq
  Arriving <- MCEmpty
  Garbled <- MCEmpty
  MissingCap = 1
  MaxAsked = 1
INVARIANT AnswersAgreeWithRealTime
PROPERTY EveryRequestAnswered
CHECK_DEADLOCK FALSE
