SPECIFICATION FairSpec
CONSTANTS
  usb = usb
  uart = uart
  board = board
  rival = rival
  watch = watch
  Pass = {watch}
  Locator = {usb, uart}
  Board = {board, rival}
  SerialOf <- MCSerialOf
  HardwareOf <- MCHardwareOf
  BoardsAt <- MCBoardsAt
  MaxDevices = 2
  MaxEndpoints = 2
  MaxChannels = 2
INVARIANTS
  IdentityKept
  Idempotent
  OneDevicePerSerial
  RemovalWillBeNoticed
PROPERTIES
  HotplugSettles
