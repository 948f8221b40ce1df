CONSTANT Worlds <- MCWorlds
SPECIFICATION RdependsSpec
INVARIANTS
  StructureInOrder
  ListsClosed
  InnermostList
  ReasonFitsList
  RdependsTell
PROPERTIES
  Terminates
CHECK_DEADLOCK FALSE
