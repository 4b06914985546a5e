SPECIFICATION PartsSpec
CONSTANTS
  one = one
  two = two
  three = three
  typed = typed
  Preset <- MCPreset
  More <- MCMore
  Typed = {typed, one}
  Placeholder = Placeholder
  CreateItem = CreateItem
  Kinds <- MCKinds
  MaxEdits = 5
  file1 = file1
  file2 = file2
  folder = folder
  Root = "/"
  DirOf <- MCDirOf
  Folders = {folder}
  NoFile = NoFile
  MaxBrowses = 4
  m1 = m1
  m2 = m2
  m3 = m3
  w1 = w1
  RowType <- MCRowType
  RowOrders <- MCRowOrders
  NoRow = NoRow
  MaxDrags = 2
  MaxSaves = 1
  TableRows = {1, 2, 3}
  SortKey <- MCSortKey
  Sortable = {"name"}
  Pages <- MCPages
  Tabs = {0, 1}
  MaxLooks = 4
  WifiSids = {0, 1, 2}
  Radios = {"radio0", "radio1"}
  MaxChanges = 3
  Acs = TRUE
  Channels <- MCChannels
  Restricted <- MCRestricted
  HtModes <- MCHtModes
  HwModes = {"", "n", "ac", "ax"}
  RadioConfs <- MCRadioConfs
  MaxPicks = 4
  Providers = {"-", "v4", "both"}
  Custom = "-"
  Ipv4Only = {"v4"}
  Services = {"s"}
  Fresh = "new"
  MaxSteps = 3
  rule = rule
  ap = ap
  z1 = z1
  z2 = z2
  Nets = {lan, wan}
  lan = lan
  wan = wan
  A = A
  B = B
  ZoneNames = {A, B}
  NoName = NoName
  Sids = {rule, ap, z1, z2}
  Type <- MCType
  MaxLinks = 2
  s0 = s0
  s1 = s1
  s2 = s2
  RadioOf <- MCRadioOf
  ListSecs = {s2}
  NetConf <- MCNetConf
  Ifnames = {"phy0-ap0"}
  WlanIfnames = {}
  Wired = {"eth0", "br-lan"}
  MaxSections = 2
  MaxNews = 1
  MaxAsks = 2
  MaxSectionEdits = 1
SYMMETRY MCSymmetry
INVARIANTS
  ShownIsHeld
  ViewKept
  FrequencyKept
  SavedIsSupported
  RowsInOrder
  NothingDangles
  NamesAgree
PROPERTIES
  
  StateAdvances
CHECK_DEADLOCK FALSE
