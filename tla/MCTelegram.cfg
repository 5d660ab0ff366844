\* The Telegram bridge: safety, and the digest that comes.
SPECIFICATION MCSpec
CONSTANTS
  m1 = m1  m2 = m2  n1 = n1
  Mails = {m1, m2}
  Cron = Cron
  MaxTopics = 4
  Names = {n1}
  Nothing = Nothing
  MaxRetries = 1
  MaxTurns = 2
  MaxFaults = 1
  Changes = {1, 2}
  MaxCards = 2
  MaxCardFaults = 1
  Edits = {1, 2}
  Presses = {1, 2}
  Unsent = Unsent
  MaxReplyFaults = 1
INVARIANTS NotifyInvariant CardsAgree ReplyInvariant
PROPERTIES HeldIsDigested
CHECK_DEADLOCK FALSE
