SPECIFICATION EarlySpec
CONSTANTS
  Clients = {k0, k1, k2, k3, k4}
  Early = k0
  Names = {c1}
  Versions = {v1, v2}
  Archives = {a1, a2}
  NoVersion = NoVersion
  Absent = Absent
  Commands = {"register", "push", "deprecate", "delete", "pull"}
SYMMETRY Symmetry
INVARIANTS
  TypeOK
  RegistrationHasOneWinner
  LedgerBalances
  ConsistentUntilDeletion
  PulledWhatWasPublished
PROPERTIES
  ImplementsCatalog
