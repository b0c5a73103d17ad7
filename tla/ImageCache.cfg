CONSTANTS
  p1 = p1
  p2 = p2
  Project = {p1, p2}
  NoOne = NoOne
  MaxFaults = 2
  Faults = {"fail", "corrupt", "kill", "full", "early", "remove"}
SPECIFICATION FairSpec
INVARIANTS ImageInv CleanBootsProvisioned BootsWithKeyPair
PROPERTY RetryBoots
