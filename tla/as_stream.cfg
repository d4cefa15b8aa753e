SPECIFICATION ClientsSpec
CONSTANTS
  Tools <- TwoTools
  Forced <- AnyForced
  MaxTextual = 2
  MaxChunks = 5
  Settings <- Backends
  Unschemed = {"Server"}
  Blocked = {"Task"}
  Priority <- First
  Shortened <- Short
  Invented = "Nothing"
  Intents = {"none", "create", "calculator"}
  Sizes = {1, 5}
  ResultSizes = {1, 4}
  MaxTools = 3
  MaxChars = 5
  MinKeep = 2
  MaxResult = 3
  MaxMessage = 5
  MaxLength = 3
  Nil = Nil
  b1 = b1
  u1 = u1
  u2 = u2
  e1 = e1
  e2 = e2
  Browsers <- OneBrowser
  Users <- TwoUsers
  Emails <- TwoEmails
  MaxKeys = 2
  MaxSessions = 2
  Requests <- Talks
  NoSession = NoSession
  Ttl = 2
  Persist = TRUE
  MaxClock = 3
  MaxBegun = 3
INVARIANTS
  AnswerSound
  ConversationSound
  PanelSound
  SessionKept
CHECK_DEADLOCK FALSE
