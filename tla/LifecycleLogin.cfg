CONSTANTS
  LoginMayFail = TRUE
  MaxPosts = 0
SPECIFICATION Spec
INVARIANT CommandsAfterLogin
CHECK_DEADLOCK FALSE
