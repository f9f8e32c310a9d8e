SPECIFICATION ElementSpec
CONSTANTS
  MaxTries = 4
  MaxSkips = 1
  Ports = {"1-1", "1-2"}
  Units = {"pro", "nano"}
  TypeOf <- MCTypeOf
  SerialOf <- MCSerialOf
INVARIANTS SerialHonoured OpenWhileReady
PROPERTIES PortHonoured RestartKeepsUnit UnplugReported
