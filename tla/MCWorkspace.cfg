CONSTANTS
  u1 = u1
  u2 = u2
  c1 = c1
  c2 = c2
  n1 = n1
  n2 = n2
  n3 = n3
  n4 = n4
  n5 = n5
  Owner = {u1, u2}
  none = none
  CvThing = {"v1", "v2"}
  CvSms = {"v1"}
  CvBatchSize = 2
  CvMaxMessages = 2
  CvMaxEvents = 3
  MvConversation = {u1, u2}
  MvMaxMessages = 2
  MvMaxEvents = 4
  TsNumber = {n1, n2, n3, n4, n5}
  TsParsed <- Forms
  TsPhone = {"P"}
  TsExtension = {"E"}
  TsReplied = {{n1, n3}}
  TsContact = {"a"}
  TsMaxSends = 2
  TsMaxEdits = 2
  GpPost = {1, 2}
  GpRecordCount = 1
  GpText = {"x", "y"}
  GpTextOf <- OneText
  GpMaxLogins = 2
  GpMaxEvents = 2
  GgGroup = {"g"}
  GgMaxLogins = 2
  GgMaxChanges = 3
  GgMaxEvents = 1
  GePerson = {"p"}
  GeBatchSize = 1
  GeMaxLogins = 2
  GeMaxCalls = 2
  AbContact = {c1, c2}
  AbMaxLogins = 2
  AbMaxChanges = 2
  AbMaxEvents = 2
  CsSources = 2
  CsText = {"x", "y"}
  CsMaxSearches = 3
  CsMaxEvents = 1
  AcPerson = {c1, c2}
  AcBatchSize = 2
  AcMaxAsks = 4
  AcMaxEvents = 3
SPECIFICATION WorkspaceSpec
SYMMETRY Symmetry
INVARIANTS WorkspaceTypeOK ThingsLogged MessagesServed GlipShown ContactsServed
CHECK_DEADLOCK FALSE
