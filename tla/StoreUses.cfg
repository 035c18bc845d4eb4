SPECIFICATION FairStoreSpec
CONSTANTS
  Writer = {w1, w2}
  Receiver = {r1, r2}
  Value = {v1, v2}
  Odd = odd
  Uses = {{"cas"}, {"set"}, {"send"}, {"send", "postgres"}}
  MaxWrites = 4
  MaxMail = 4
  Mortal = {w1, w2}
  None = none
INVARIANTS
  OneWriterPerVersion
  RowIsLogged
  MailInOrder
PROPERTIES
  MailIsTaken
CHECK_DEADLOCK FALSE
