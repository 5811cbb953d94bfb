SPECIFICATION Spec
CONSTANTS
  Programs = {"tcpio"}
  NAddr = 2
INVARIANTS
  SocketApart
