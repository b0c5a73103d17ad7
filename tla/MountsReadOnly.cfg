CONSTANTS
  Word = {"~", "/", "usr", "local", "vibebox-mounts", "home", "user", "root", ".vibebox", ".local",
          "share", "mise", "mnt", "shared", "bin", "project", "a", "b", "my dir"}
  Project = "project"
  Host = {"project", "data", "more", "my data"}
  Movable = {"data"}
  Split = {"my dir", "my data"}
  System <- MCSystem
  Specs <- MCSpecs
  Malformed = Malformed
  MaxMounts = 2
SPECIFICATION Spec
INVARIANT ReadOnlyIsKept
