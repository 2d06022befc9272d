CONSTANTS
  Senders = {s1, s2}
  Takers = {d1, d2, c1}
  Dequeuers = {d1, d2}
  Capacity = 2
  Modulus = 8
  NoOne = NoOne
  MaxPackets = 4
  MaxClears = 2
SPECIFICATION Spec
INVARIANTS HolderWorks LengthAccounts EveryPacketInOnePlace ReturnedInOrder
PROPERTY ImplementsFifo
