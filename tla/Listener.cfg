\* One address that hangs and one that answers, two packets kept per socket.
SPECIFICATION Spec
CONSTANTS
  Sockets = {"antminer", "whatsminer"}
  Address = {"good", "bad"}
  Hung = {"bad"}
  QueueLimit = 2
PROPERTIES
  StuckStopsOnlyItself
CHECK_DEADLOCK FALSE
