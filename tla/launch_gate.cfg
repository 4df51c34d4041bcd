SPECIFICATION FairSpec
CONSTANTS
  a1 = a1
  a2 = a2
  a3 = a3
  b1 = b1
  b2 = b2
  alice = alice
  bob = bob
  Requests <- MCRequests
  Owners = {alice, bob}
  OwnerOf <- MCOwnerOf
  Gates = {g1, g2, g3, g4}
INVARIANTS NoIdleEntry
PROPERTIES ImplementsSlot WaitersEnter
