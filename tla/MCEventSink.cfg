\* Three events written in any order and number, four faults or crashes.
SPECIFICATION Spec
CONSTANTS
  e1 = e1  e2 = e2  e3 = e3  bad = bad
  EventIds <- AllEvents
  Malformed = {bad}
  MaxFaults = 4
INVARIANTS TypeOK Gate WrittenOnce LossBounded
PROPERTIES ImplementsAuditLog ExportsGrow
