SPECIFICATION Spec
CONSTANTS
  Kinds = {"elevated"}
  MaxTyped = 3
  Room = 1
PROPERTY BrokerTells
CHECK_DEADLOCK FALSE
