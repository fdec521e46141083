\* A custom server and one of an extension, every call at any time.
\* Users need not do anything, so every behaviour may stop.
SPECIFICATION Spec
CONSTANTS
  custom = custom
  extension = extension
  c1 = c1
  c2 = c2
  x1 = x1
  x2 = x2
  Servers = {custom, extension}
  Instances = {i1, i2, i3}
  Custom = {c1, c2}
  Extension = {x1, x2}
  DefaultExtension = x1
  Choices <- TwoServers
  WithTools = {custom, extension}
  MaxRequests = 3
  NoInstance = NoInstance
  NoConfig = NoConfig
SYMMETRY InstanceSymmetry
INVARIANTS TypeOK ToolsOfRunningServers ConnectedServersRun SettingsAreApplied
CHECK_DEADLOCK FALSE
