SPECIFICATION SafeSpec
CONSTANTS
  m1 = m1
  NoMail = NoMail
  NoFile = NoFile
  Mail = {m1}
  File = {f1, f2}
  MailOf <- OneMail
  Instance = {i1}
  MaxJobAttempts = 2
  StaleAfter = 2
  BackoffFirst = 1
  BackoffCap = 2
  Backoff <- MCBackoff
  Fault = {"cut"}
  FaultBudget = 1
INVARIANTS
  NothingForgotten
