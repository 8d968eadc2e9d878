SPECIFICATION FairSpec
CONSTANTS
  Null = Null
  New = New
  r1 = r1
  r2 = r2
  Windows <- MCWindows
  Pages = {"home","roles","users","materials","mockData","sysConfig"}
  Recs = {r1, r2}
  FileRecs = {r2}
  MaxFades = 2
  MaxClicks <- MCMaxClicks
  MaxAsks = 2
  MaxVisits = 2
INVARIANTS
  SavesShownRow
  DeadButtonExplained
PROPERTIES
  WindowsLostOnlyByOverlap
  ChecksDecide
  ReloadHappens
CHECK_DEADLOCK FALSE
