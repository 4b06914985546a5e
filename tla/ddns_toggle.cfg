SPECIFICATION DdnsSpec
CONSTANTS
  Providers = {"-", "v4"}
  Custom = "-"
  Ipv4Only = {"v4"}
  Services = {"s"}
  Fresh = "new"
  MaxSteps = 2
PROPERTY ToggleToggles
CHECK_DEADLOCK FALSE
