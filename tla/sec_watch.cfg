SPECIFICATION SecSpec
CONSTANTS
  f1 = f1
  low = low
  high = high
  o1 = o1
  person = person
  foreign = foreign
  home = home
  abroad = abroad
  p1 = p1
  p2 = p2
  x = x
  y = y
  va = va
  vb = vb
  wa = wa
  wb = wb
  k1 = k1
  k2 = k2
  c1 = c1
  c2 = c2
  Fund = {f1}
  Share = {low, high}
  Owner = {o1}
  Kind = {person, foreign}
  Office = {home, abroad}
  Absent = Absent
  None = None
  Person = {p1, p2}
  Place = {x, y}
  NoReading = NoReading
  MaxKept = 2
  RedrawMin = 2
  MaxLength = 4
  Checker = {c1, c2}
  FirstForm <- OpeningForm
  FirstNotice <- OpeningNotice
  OldFunds <- WrongFunds
  MaxFilings = 1
  MaxChecks = 3
  MaxFaults = 1
  Worker = {k1, k2}
  Vehicle = {va, vb}
  Words = {wa, wb}
  Named <- NamedBy
  Published <- Daily
  TradingDays = {2, 5, 6, 7}
  Quarter <- QuarterOf
  FirstWords = wa
  ListBegan = 5
  BackfillDays = 2
  MaxDaysPerSync = 2
  Step = 1
  LastDay = 8
  MaxWorks = 3
  MaxLosses = 1
  NoWords = NoWords
SYMMETRY Alike
INVARIANTS
  SecTypeOK
  
  NoDaySteppedOver
  BandsReadOnce
PROPERTY HistoryIsNotNews
CHECK_DEADLOCK FALSE
