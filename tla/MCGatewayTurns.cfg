\* Three chat requests over two conversations, one administrator: which turn a request takes.
SPECIFICATION Spec
CONSTANTS
  c1 = c1  c2 = c2  c3 = c3
  d1 = d1  d2 = d2  d3 = d3
  k1 = k1  k2 = k2
  benign = benign  secret = secret  answer = answer  leak = leak
  masked = masked  maskedLeak = maskedLeak
  Chat = {c1, c2, c3}
  Admin = {d1}
  Conv = {k1, k2}
  None = None
  Text <- MCText
  Scan <- MCScan
  Redact <- MCRedact
  Prompt <- OneText
  Reply <- OneReply
  GuardSev <- GuardHigh
  MaxRestarts = 0
SYMMETRY Requests
INVARIANTS TurnsContiguous SoleTurnCaptured
