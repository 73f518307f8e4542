\* Five parts, one behaviour of each at a time.  Of an authorization, two ceremonies
\* at a time and four revisions: an enrolment, its replacement, its disconnection and
\* the settlement.  Of the dispatcher, two commands and a mutation in three deliveries.
\* Of the client, the generation of the current attempt and those of two hellos of
\* attempts that were replaced.
CONSTANTS
  Ceremonies = {1, 2}
  MaxRevision = 4
  Messages <- MCMessages
  Principals = {"a", "b"}
  ClassOf <- MCClassOf
  PrincipalOf <- MCPrincipalOf
  Reports <- MCReports
  Cycle <- MCCycle
  MaxHeld <- MCMaxHeld
  MaxPerPrincipal = 1
  MaxActive <- MCMaxActive
  Closes = TRUE
  Zones = {"y", "z"}
  ZoneMessages <- MCZoneMessages
  ZoneOf <- MCZoneOf
  Safety = {}
  ZoneReports <- MCZoneReports
  Retained = {"y1"}
  Attachments = {1, 2}
  Epochs = {"e"}
  MaxActiveSessions = 1
  MaxNonSafety = 2
  Deliveries = {1, 2, 3}
  Delivered = {"a", "b", "m"}
  Mutations = {"m"}
  SessionIds = {1, 2}
  Ttl = 1
  MaxCached = 1
  MaxTime = 2
  Generations = {1, 2, 3}
  Commands = {"m"}
  MaxAttempts = 2
  StableBeats = 2
SPECIFICATION FairSpec
CHECK_DEADLOCK FALSE
INVARIANTS
  AdmissionIsAccounted
  AttachmentIsSound
  AuthorizationIsContained
  CancelledNeverCommits
PROPERTIES
  CallersAreToldOnce
  DispatchesOnceInItsSession
  LossIsReported
  AttachmentIsReplaced
