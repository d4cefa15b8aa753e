SPECIFICATION ToolsSpec
CONSTANTS
  BaseKeys = {"base"}
  ModeKeys = {"mode"}
  LimitKeys = {"limit"}
  ModelKeys = {"models"}
  SettingKeys = {"setting"}
  FilterKeys = {"filter"}
  SlotKeys <- TwoSlots
  Absent = Absent
  Empty = Empty
  Generated = Generated
  Nothing = Nothing
  Removed = Removed
  ProxyKey = "proxy"
  Values = {"v"}
  NewKeys = {"new"}
  Models = {"m", "n"}
  MaxPending = 2
  MaxVisits = 2
  FilterProviders = {"p", "q"}
  FirstProvider = "p"
  Names <- ModelNames
  IgnorePatterns <- Ignores
  WhitePatterns <- Whites
  MaxEdits = 3
  FetchProviders <- ThreeFetched
  NoProvider = NoProvider
  MaxUserFetches = 2
  MaxChanges = 2
  Hosts = {"h1", "h2"}
  ViewProviders = {"a", "b"}
  RemoteNames = {"Local", "r1"}
  Local = "Local"
  NoView = NoView
  MaxConfig = 2
  MaxUse = 2
  Owners = {"x", "y", "z"}
  MaxNumber = 4
  MaxRelabel = 2
  NoFile = NoFile
  Unreadable = Unreadable

  
PROPERTIES
  EnvSound
  FiltersSound
  FilesSound
CHECK_DEADLOCK FALSE
