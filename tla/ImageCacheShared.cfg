CONSTANTS
  p1 = p1
  p2 = p2
  Project = {p1, p2}
  NoOne = NoOne
  MaxFaults = 0
  Faults = {}
SPECIFICATION Spec
INVARIANT BootsProvisioned
