\* A button pressed while the page is handled can take the reboot's slot.
SPECIFICATION Spec
CONSTANTS
  QueueSize = 4
  QuietButtons = FALSE
PROPERTIES SaveReboots
