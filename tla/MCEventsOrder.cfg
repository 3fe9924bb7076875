SPECIFICATION SafeSpec
CONSTANTS
  Delivery = {d1}
  Mail = {m1}
  EventType <- EveryRank
  HasActor = {d1}
  NoRow = NoRow
  NoMail = NoMail
INVARIANTS
  TypeOK
  StatusIsGravest
  AlertsEscalate
  ClientSeesUndelivered
CHECK_DEADLOCK FALSE
