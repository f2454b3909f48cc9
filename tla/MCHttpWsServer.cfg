\* Two connections over two handles, in four scenarios, with and without a limit per
\* address; or no server and four calls of the gateway by the program's own threads,
\* enough to fill two windows one after the other, or three and a message, with tokens
\* added, revoked and rotated and a reset.
SPECIFICATION ServerSpec
CONSTANTS
  Callers = {1, 2, 3, 4}
  Clients = {1, 2}
  Tokens = {t1}
  ApiToken = {t1}
  NoClient = 0
  Handles = {1, 2}
  Scenarios <- MCScenarios
  Ttl = 1
  Window = 2
  MaxRequests = 2
  MaxTime = 3
  MaxCalls = 1
  MaxMessages = 1
  MaxInputs = 4
CHECK_DEADLOCK FALSE
INVARIANTS RequestsAccounted ConnectionsAreClean
PROPERTIES StopReturns
