CONSTANTS
  Inputs <- Cases
  DependencyGraphs <- Graphs3
  Programs <- EnginePrograms
  SessionDefs <- Defs
  Requests <- Calls3
  SessionDepth = 5
  Turns = 4
  MaxRequests = 4
  Sessions = {s1, s2}
  MaxChildren = 2
  Word = 16
  MaxMonitors = 2
  MaxAsked = 4
  Procs = {p1, p2}
  Changes = {30, 46}
  MaxId = 46
  MaxDay = 1
  MaxRuns = 2
  Packages = {"json", "http"}
  Versions <- Versions4
  HandWritten <- ByHand
  MaxCommands = 4
  Docs = {"main"}
  Sources <- Files
  Broken = {"broken"}
  Unreadable = {"odd"}
  Findings = {"none", "syntax", "effect"}
  Diagnosis <- Said
  Words = {"word"}
  Cursors = {"start"}
  Origin = "start"
  WordAt <- Hovers
  Absent = Absent
  MaxSent = 3
  MaxServers = 2
SPECIFICATION Spec
INVARIANTS
  RoundTrip
  EnginesAgree
  TypesHold
  CallsAreReported
  ModulesInOrder
  DepthCountsRefusals
  QuotaAccounted
  ListedIsFiled
  ProjectAsAsked
  SettledMeansCurrent
PROPERTIES
  VmHalts
  RequestsAnswered
  DegradeNeverHeals
CHECK_DEADLOCK FALSE
