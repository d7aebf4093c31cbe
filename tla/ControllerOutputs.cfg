\* Fan, lights, backlight, key lights and status LED from every source.  The SoftAP is
\* up in setup mode only; the drop counter is not looked at.
SPECIFICATION Spec
CONSTANTS
  QueueSize = 4
  CounterRange = 4
  Uint16Range = 65536
  MaxBlinkMs = 10000
  MaxFilterDays = 3650
  MinutesPerDay = 10
  FilterTickMinutes = 10
  CellRange = 256
  ButtonCommands <- OutputButtons
  MqttCommands <- OutputMqtt
  ControlPosts <- OutputPosts
  SystemPosts <- None
  SsidPosts <- None
  MqttBurst = 1
  PmReadings <- TwoPm
  WifiReadings <- On
  ListenReadings <- Off
INVARIANTS TypeOK FanMemory OutputsFollow PanelMeansDirty StaleMeansDirty
