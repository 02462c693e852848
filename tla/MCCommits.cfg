\* Two chat requests, two administrators, a failed write and a crash.
SPECIFICATION Spec
CONSTANTS
  c1 = c1  c2 = c2  d1 = d1  d2 = d2  None = None
  Chat = {c1, c2}
  Admin = {d1, d2}
  MaxFaults = 1
  MaxCrashes = 1
SYMMETRY Requests
INVARIANTS TypeOK PausedIsQueued DecisionDurable TrailBeforeStatus ContextsMatchRows AuditedWithoutFaults
PROPERTY ImplementsHeldReplies
