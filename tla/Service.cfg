\* Two mails, one run at a time, two attempts, two starts of which only the
\* first may fail, one client that hangs up and one close that throws.
CONSTANTS
  Mails = {m1, m2}
  Attempts = 2
  Concurrency = 1
  MaxStalls = 1
  MaxStarts = 2
  MaxRefusals = 1
  MaxHangUps = 1
CHECK_DEADLOCK FALSE
SPECIFICATION FairSpec
INVARIANTS
  TypeOK
  MailsAreCounted
  MailsAreBounded
  NothingPulledAway
  QueuedOrTold
PROPERTIES
  GracefulExitIsClean
  ShutdownEnds
  EveryMailSettles
