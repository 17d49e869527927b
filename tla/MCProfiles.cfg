SPECIFICATION ProfilesSpec
CONSTANTS
  Servers = {jp, us}
  Slots = {a, b, c}
  Gone = Gone
  Faults = {"bus", "call", "keyring", "orphan", "linger"}
SYMMETRY SymmetricProfiles
INVARIANTS NothingPutsItBack ProvenKept
