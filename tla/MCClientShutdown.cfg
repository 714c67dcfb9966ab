SPECIFICATION Spec
PROPERTIES
  GracefulShutdown
CHECK_DEADLOCK FALSE
