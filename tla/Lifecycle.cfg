CONSTANTS
  LoginMayFail = TRUE
  MaxPosts = 2
SPECIFICATION FairSpec
INVARIANT TypeOK
INVARIANT TasksAskInSession
INVARIANT NoTaskOnClosedDatabase
INVARIANT LoggedOutAtEnd
PROPERTY EndsOrHangsForACause
CHECK_DEADLOCK FALSE
