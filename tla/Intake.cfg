SPECIFICATION FairSpec
CONSTANTS
  m1 = m1
  m2 = m2
  f1 = f1
  f2 = f2
  g1 = g1
  None = None
  Absent = Absent
  Macs = {m1}
  Groups = {g1}
  Entries <- SomeEntries
  Held <- HeldEntries
  NewEntry <- RegisteredEntry
  Descriptions <- SomeDescriptions
  TemplateFiles <- OtherColumns
  SimpleFiles <- HandWritten
  MaxRegs = 2
  Flushers = {f1, f2}
  MaxFaults = 1
  MaxActs = 2
PROPERTIES LedgerKept Settles RoundTrip
CHECK_DEADLOCK FALSE
