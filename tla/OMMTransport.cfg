CONSTANTS
  d = d
  Dispatcher = d
  None = None
  Callers <- TwoCallers
  Sequenced <- GetOnly
  Plain <- OnePings
  WholeReads = FALSE
  MayClose = TRUE
  MaxRequests = 3
  MaxNotices = 1
SPECIFICATION FairSpec
INVARIANT TypeOK
INVARIANT AnswersAreOwn
INVARIANT NoCallRaises
INVARIANT Accounted
PROPERTY ImplementsRemoteCalls
PROPERTY CallsReturnOrHangForACause
CHECK_DEADLOCK FALSE
