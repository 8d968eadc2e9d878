SPECIFICATION StageSpec
CONSTANTS
  Threads = {t1, t2}
  Items = {i1, i2}
  Values = {a, b}
  Null = Null
  MaxMaps = 3
  MaxUpdates = 1
  Askers = {q1, q2}
  Resources = {r1, r2}
  Nothing = Nothing
  MaxLists = 2
  Tabs = {1, 2, 3}
  BrowserOf <- MCBrowserOf
  Users = {u, v}
  Pages = {p}
  None = None
  MaxSids = 3
  MaxLogins = 3
  Servants = {w1, w2}
  Labels = {m1}
  Actors = {ua}
  Nobody = Nobody
  Core = 1
  Room = 1
  Most = 2
  MaxRows = 2
  MaxAsked = 4
  Uploaders = {w1, w2}
  Sizes = {10, 11, 2048}
  Limits = {10, 4101}
  FixedLimit = 10
  MaxStored = 2
  A = A
  B = B
  a1 = a1
  a11 = a11
  b1 = b1
  x1 = x1
  x2 = x2
  Editors = {u, v}
  Provinces = {A, B}
  Cities = {a1, b1}
  Counties = {a11}
  Parent <- MCParent
  Projects = {x1, x2}
  LiesIn <- MCLiesIn
  Stored <- MCStored
  NoArea = NoArea
  MaxPicks = 5
  MaxCalls = 2
  Today <- MCToday
  Typed <- MCTyped
  NoDate = NoDate
  Unfinished = Unfinished
  Days = {1, 31}
  MonthNos = {1, 11}
  YearNos = {2016}
  MaxTouches = 4
  MaxEntries = 4
  f1 = f1
  f2 = f2
  f3 = f3
  Files = {f1, f2, f3}
  EndsIn <- MCEndsIn
  Size <- MCSize
  NoFile = NoFile
  MaxOpenings = 2
  MaxSteps = 6
  s1 = s1
  k1 = k1
  c1 = c1
  c2 = c2
  u1 = u1
  Controls = {s1, k1, c1, c2, u1}
  KindOf <- MCKindOf
  n1 = n1
  Texts2 = {n1}
  NoText = NoText
  MaxMoves = 6
  Columns = {1, 2}
  FirstRows <- MCFirstRows
  NewRows <- MCNewRows
  SearchTexts <- MCSearchTexts
  Lengths = {2, 3}
  MaxTableSteps = 3
  v1 = v1
  v2 = v2
  v3 = v3
  v4 = v4
  v5 = v5
  DayLen = 2
  WeekDays = 2
  MonthDays = 4
  WeeksShown = 3
  LastDay = 7
  ThisDay = 1
  CalEvents = {v1, v2, v3, v4, v5}
  IdOf <- MCId
  SourceOf <- MCSource
  Home <- MCHome
  Servers = {"server"}
  MaxCalSteps = 3
  Windows = {y1, y2}
  MaxModalSteps = 4
  MaxTipSteps = 6
  Panes = {y1, y2, y3}
  FirstPane = y1
  MaxTabSteps = 5
  Folds = {y1, y2, y3}
  OpenFirst = {y1}
  MaxFoldSteps = 5
  Suggestions <- MCSuggestions
  Typings <- MCTypings
  MinLength = 1
  MaxShown = 2
  MaxTypeSteps = 5
  Nodes <- MCNodes
  Queries <- MCQueries
  MaxBoxSteps = 4
  FormFields <- MCFields
  RulesOf <- MCRules
  Target = "pwd"
  Keyable = {"blank", "short", "good", "other"}
  Prefilled = {"blank", "good"}
  Unfilled = "blank"
  PassesRule <- MCPasses
  TakenByServer = {"good"}
  NoField = "none"
  NoRule = "none"
  MaxFormSteps = 6
  HashKeys = {"a", "b", "b2", "c", "p"}
  ClassOf <- MCClassOf
  HashOf <- MCHashOf
  ProtoHash = "proto"
  HashValues = {1, 2}
  Falsy = 1
  NoValue = 0
  MaxHashSteps = 4
  LastStep = 2
  MaxWizardSteps = 5
  Drops <- MCDrops
  Images = {"g", "h", "l"}
  Larges = {"l"}
  MaxFiles = 2
  MaxDrops = 2
  Switches <- MCSwitches
  Radios = {"r1", "r2", "r3"}
  DragPlaces <- MCDragPlaces
  MaxSwitchSteps = 4
  SpinStart = 2
  Stepping = 1
  SpinMin = 0
  SpinMax = 900
  TypedNumbers = {950, 1000}
  TenAfter = 2
  MaxSpins = 5
  Sliders <- MCSliders
  DragTenths <- MCDragTenths
  MaxSlides = 3
  EngineForms <- MCForms
  Vacant <- MCVacant
  MaxEngineSteps = 5
  Group <- MCGroup
  Solo = "alone"
  PhotoSets = {{"g1", "g2", "alone"}, {"g1"}}
  MaxBoxClicks = 3
  Window = "window"
  Elements = {"box"}
  LentNodes = {"note", "other"}
  Growl = "growl"
  BlockOptions = {{"cover"}, {"cover", "timed", "listens", "ignore"}}
  MaxBlockSteps = 4
INVARIANTS
  FreshUnlessCrossed
  MarksAreOfRole
  OneSessionUnlessRaced
  
  LogAgreesWithTable
  UploadsJudgedRight
  AssignmentWindowTruthful
  IntervalInOrder
  ChecksTellTruth
  FileIsOfItsForm
  WrapperShowsValue
  GridTruthful
  EventsTruthful
  WidgetsTruthful
PROPERTIES
  StoreSpec
CHECK_DEADLOCK FALSE
