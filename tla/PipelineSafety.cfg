SPECIFICATION Spec
CONSTANTS
  Batches = {1, 2}
  Keys = {1, 2}
  Slots = {s1, s2}
  MaxActive = 3
SYMMETRY SlotSymmetry
INVARIANTS HubShowsClose HaltIsRotation
PROPERTIES Delivers HubNeverRegresses
