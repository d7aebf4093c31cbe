\* What resets, drops, persists or is carried out later.  A broker loop of two
\* messages and a POST of three compete for three usable slots; the counters are wider than
\* a refused POST.  A cell of EEPROM has two values, a day one minute: the filter record
\* runs through every mixture of a save of 7, 4, 1 or 0 minutes that is cut short.
SPECIFICATION FairSpec
CONSTANTS
  QueueSize = 4
  CounterRange = 4
  Uint16Range = 65536
  MaxBlinkMs = 10000
  MaxFilterDays = 3650
  MinutesPerDay = 1
  FilterTickMinutes = 3
  CellRange = 2
  ButtonCommands <- RequestButtons
  MqttCommands <- RequestMqtt
  ControlPosts <- RequestPosts
  SystemPosts <- RequestSystem
  SsidPosts <- On
  MqttBurst = 2
  PmReadings <- OnePm
  WifiReadings <- Either
  ListenReadings <- Off
INVARIANTS FilterDurable RequestsNeverDropped
PROPERTIES RebootsHappen
