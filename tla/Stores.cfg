CONSTANTS
  Payloads = {p1, p2, p3}
  QueueMax = 4
  Empty = Empty
  LogCapacity = 4
  AppendMax = 5
  TailMax = 3
  LogMax = 11
  LogReaders = {r1}
  LogRequests = {0, 1, 2, 3, 4}
  Blobs = {b1}
  MaxBody = 3
  RecvMax = 2
  MaxBytes = 6
  MaxFaults = 2
  Absent = Absent
  Installers = {n1, n2}
  app = app
  driver = driver
  knot = knot
  Components = {app, driver, knot}
  Requires <- RequiresValue
  EditedInPlace = {driver}
  Texts = {t1, t2}
  DepthMax = 1
  Missing = Missing
  Cut = Cut
  MaxInstalls = 2
  MaxOutages = 1
  MaxPowerCuts = 1
  Clients = {m1, m2}
  Apps = {a1, a2}
  Strays = {x1}
  Rights = {boots, manual}
  OnBoot = {boots}
  Sources = {s1}
  Stub = Stub
  Gone = Gone
  Ragged = Ragged
  BootMax = 2
  MaxRequests = 2
  MaxSlips = 1
  MaxBlackouts = 1
SPECIFICATION StoresSpec
SYMMETRY Symmetric
CHECK_DEADLOCK FALSE
INVARIANTS LogKeepsNewest LogReportTrue UploadInOrder  AckedBytesStaged AckedCommitStays InstalledIsWhole InstalledAppRuns
PROPERTIES ImplementsQueue DependenciesInstalled BootRunsInstalled
