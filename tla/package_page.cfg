SPECIFICATION Spec
CONSTANTS
  Digits <- MCDigits
  Letters <- MCLetters
  Code <- MCCode
  NoPackage = NoPackage
  NameOrder <- MCNameOrder
  Apps <- MCApps
  Lang <- MCLang
  English = "en"
  Feeds <- MCFeeds
  NewFeeds <- MCNewFeeds
  Devices <- MCDevices
  Queries = {"", "lib"}
  PageSize = 2
  MaxCommands = 1
  MaxLosses = 1
  MaxClicks = 1
INVARIANTS
  TableIsTrue
  UploadRemoved
  VersionsOrdered
PROPERTY PlanCovers
