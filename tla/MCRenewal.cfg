SPECIFICATION CertSpec
CONSTANTS
  after = after
  up = up
  person = person
  nocert = nocert
  Background = {after}
  Connects = {up}
  Persons = {person}
  NoCert = nocert
CHECK_DEADLOCK FALSE
INVARIANTS
  SetsOutUsable
PROPERTIES
  RenewedInTheEnd
