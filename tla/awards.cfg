SPECIFICATION Spec
CONSTANTS
  a1 = a1
  a2 = a2
  s1 = s1
  h1 = h1
  h2 = h2
  home = home
  abroad = abroad
  c1 = c1
  p1 = p1
  p2 = p2
  Award = {a1, a2, s1}
  Subaward = {s1}
  Holder = {h1, h2}
  SoleProprietor = {h1}
  NamedLikeAPerson = {h2}
  Seat = {home, abroad}
  ForeignSeat = {abroad}
  Cik = {}
  AgencyRun = {p1}
  OfficeRun = {p2}
  Blank = Blank
  None = None
  Enriched = 1
  Opening <- FirstActions
  Months = 2
  MaxModifications = 1
  MaxStarts = 2
  MaxFaults = 1
  MaxDecisions = 1
INVARIANTS
  TypeOK
  
  ReadIsHeld

  
CHECK_DEADLOCK FALSE
