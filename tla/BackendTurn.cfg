CONSTANTS
  R = 1
  Timeouts = {1}
  Retries = {1}
  MaxRetries = 1
  MaxWait = 1
  Backends = {"claude", "grok", "codex", "opencode"}
  Sessions = {s1, s2}
  Parts = {p1, p2}
  Reasons = {r1, r2}
  MaxLines = 3
  None = None
SPECIFICATION TurnSpec
INVARIANTS TurnTypeOK AnswerIsKept FailuresAreRaised VerdictIsEarned
PROPERTIES ConversationKept
SYMMETRY Symmetry
