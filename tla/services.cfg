SPECIFICATION FairSpec
CONSTANTS
  Call = {r1, r2, r3}
  Interval = 2
  MaxWait = 3
  Grace = 1
  RetryAfter = {0, 3}
  Horizon = 4
  Absent = Absent
  Page = {a, b}
  QueueSize = 1
  MaxRetries = 1
  MaxEdits = 3
  NoPage = NoPage
  Title = {x, y}
  MirrorQueue = 1
  MirrorRetries = 1
  MaxChanges = 2
  MaxReads = 1
  MaxMirrorFaults = 1
  Gone = Gone
  Redirected = Redirected
  NoEvent = NoEvent
  Publish = {c1, c2}
  Handler = {h1, h2}
  MaxAge = 1
  FutureSkew = 1
  Skew = {0, 1}
  GatewayHorizon = 2
  NoPublish = NoPublish
  Change = {m1}
  Feeder = {f1, f2}
  PostAttempts = 2
  MaxLosses = 2
  NoChange = NoChange
  Job = {j1, j2}
  IssueOutcomes = {"unverifiable", "error"}
  Finding = {{"good", "fixed"}}
  MaxIssues = 1
  MaxAssignments = 1
  MaxApiErrors = 1
  MaxForeign = 1
  NoJob = NoJob
  Program = {p1}
  User = {u1}
  Request = {q1, q2}
  Url = {url1, url2}
  MaxOps = 2
  NoRequest = NoRequest
INVARIANTS PacedStarts HeldPagesAreWaiting MirrorHeals ForwardedOnce DeletionsAreMarked AgentsActOnce JournalMatchesEffects
PROPERTIES EveryPageIsReleased QueuedIssuesAreDispatched ChangesAreDelivered
CHECK_DEADLOCK FALSE
