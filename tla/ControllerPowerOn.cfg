\* Power on after a step down to a speed below 10 %.
SPECIFICATION Spec
CONSTANTS
  QueueSize = 4
  CounterRange = 4
  Uint16Range = 65536
  MaxBlinkMs = 10000
  MaxFilterDays = 3650
  MinutesPerDay = 10
  FilterTickMinutes = 10
  CellRange = 256
  ButtonCommands <- PowerButtons
  MqttCommands <- None
  ControlPosts <- None
  SystemPosts <- None
  SsidPosts <- None
  MqttBurst = 0
  PmReadings <- OnePm
  WifiReadings <- On
  ListenReadings <- Off
PROPERTIES PowerRestoresLastSpeed
