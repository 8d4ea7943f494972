SPECIFICATION FairSpec
CONSTANTS
  Event = {e1}
  Payload = {w1, w2}
  Delivery = {d1}
  Proposal = {p1, p2}
  Clerk = {c1}
  Operator = {o1, o2}
  Contract = {f1}
  None = None
  Invalid = Invalid
  Lease = 1
  Validity = 1
  MaxFaults = 1
INVARIANTS RowsAgree NoEventIsLost
PROPERTIES InboxIsOutbox EveryEventIsTaken EveryClaimEnds
CHECK_DEADLOCK FALSE
