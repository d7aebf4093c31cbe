\* The backlight after one request that asks for it.
SPECIFICATION Spec
CONSTANTS
  QueueSize = 4
  CounterRange = 4
  Uint16Range = 65536
  MaxBlinkMs = 10000
  MaxFilterDays = 3650
  MinutesPerDay = 10
  FilterTickMinutes = 10
  CellRange = 256
  ButtonCommands <- None
  MqttCommands <- ScreenMqtt
  ControlPosts <- ScreenPosts
  SystemPosts <- None
  SsidPosts <- None
  MqttBurst = 1
  PmReadings <- OnePm
  WifiReadings <- On
  ListenReadings <- Off
INVARIANTS ScreenLightObeyed
