\* Two visitors who may follow the same link, two installations, one session
\* of a life of one tick, over two ticks; a key and a token, submitted
\* at any time, and one model call; the App uninstalled at any moment.
SPECIFICATION Spec
SYMMETRY Symmetry
CONSTANTS
  Visitor = {ann, bob}
  Installation = {acme, umbrella}
  Home = acme
  TTL = 1
  MaxLinks = 1
  MaxSessions = 1
  Horizon = 2
  Submission = {k1, t1}
  SubscriptionTokens = {t1}
  Call = {c1}
  AllowSubscriptionAuth = TRUE
  HasPlatformKey = TRUE
INVARIANTS LeftBehindBounded SignInSound QuietCallsMatched
PROPERTIES SuccessMeansStored
CHECK_DEADLOCK FALSE
