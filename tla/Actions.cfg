CONSTANTS
  RETRY_BUDGET = 7
  REQUEST_TIMEOUT = 1
  Asked = {0, 2, 10}
  RETRY_ATTEMPTS = 3
  ASSERTION_ATTEMPTS = 2
  MIN_DELAY = 1
  GITHUB_RETRIES = 3
  LIMIT_FALLBACK = 3
  SLOW_ANSWER = 10
  CLOUDFLARE_RETRIES = 3
  EXCHANGE_TIMEOUT = 4
  Ttls = {0, 3}
  MAX_TTL = 4
  Clients = {"socket", "stepsecurity", "github", "cloudflare"}
  MAX_TOTAL_RETRY_DELAY = 4
  OPERATION_POLL_INTERVAL = 2
  OPERATION_POLL_TIMEOUT = 5
  CONNECTION_TIMEOUT = 1
  RESPONSE_TIMEOUT = 4
  RetryAfters = {0, 3}
  MaxRuns = 2
  Names = {"a", "b"}
  Plugins = {"p", "q"}
  Sources = {"s"}
  Private = {"s"}
  Contents = {1, 2}
  Template = {"plugin", "name"}
  MaxEdits = 2
  Indexed = TRUE
  MaxTokens = 2
  Files = {"w1", "w2"}
  InDefault = {"w1"}
  FileTexts <- MCFileTexts
  Paths = {"a", "b", "c"}
  Gated = {"build"}
  maxCompareFiles = 2
  MaxChanges = 3
  MARGIN = 1
  FALLBACK = 2
  RETRY_AFTER = 2
  Lifetimes = {2, 4}
  MaxOidcNow = 5
  MaxRequests = 3
  Runs = {"r1", "r2"}
  Wanted = {1, 2}
  MaxClosed = 1
  MaxCiRepairs = 1
  MaxUpdates = 2
  MaxMoves = 3
SPECIFICATION ActionsSpec
INVARIANTS
  ActionsTypeOK  RequestsCountOnce RevokedIsDead SyncedIsInLine
  AuditIsReported GatesHold UpdatesAreKept
PROPERTIES AssertionsAreCurrent ActionsEnd
CHECK_DEADLOCK FALSE
