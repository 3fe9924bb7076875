SPECIFICATION Spec
CONSTANTS
  m1 = m1
  NoMail = NoMail
  NoFile = NoFile
  Mail = {m1}
  File = {f1}
  MailOf <- OneMail
  Instance = {i1, i2}
  MaxJobAttempts = 3
  StaleAfter = 2
  BackoffFirst = 1
  BackoffCap = 2
  Backoff <- MCBackoff
  Fault = {"crash", "settle", "forward", "queue", "answer", "upload"}
  FaultBudget = 3
INVARIANTS
  TypeOK
  JobExclusive
  TriesAccounted
  NothingForgotten
PROPERTIES
  GivenUpStays
  FilesSettle
