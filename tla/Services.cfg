SPECIFICATION Spec
CONSTANTS
  Log = {l1, l2}
  Business = {l1}
  Flusher = {n1, n2}
  BatchSize = 1
  Patience = 2
  MaxLogFaults = 2
  MaxModeChanges = 1
  MaxLogCrashes = 1
  Child = {c1, c2}
  Parent = {p1}
  Token = {t1, t2}
  MaxJoins = 2
  Task = {v1, v2, v3}
  MaxChunks = 1
  MaxTaskFaults = 1
  MaxTaskCrashes = 1
  Instance = {"i1", "i2"}
  Running <- MCRunning
  MasterInstance = "i1"
  Handler = {h1, h2}
  Buffer = 1
  MaxActive = 3
  MaxCacheFaults = 1
  Asker = {a1, a2}
  LimitedKey = {k1, k2}
  RPM = 1
  RPD = 2
  MaxMinutes = 1
  MaxLedgerFaults = 1
  MaxCool = 1
  MaxAsks = 3
  CronKey = {k1}
  Hour = 1
  Interval = 1
  MaxCronFaults = 1
  MaxRestores = 1
  GroupChannel = {"openai", "anthropic"}
  Translated <- MCTranslated
  MaxGroups = 3
  MaxGroupActs = 3
  Admin = {d1, d2}
  Cand = {1, 2}
  Asked = {"m1"}
  AliasPool <- MCAliasPool
  ExactPool <- MCExactPool
  TierPool <- MCTierPool
  Call = {q1, q2}
  Weights = {1, 2}
  MaxTurns = 2
  MaxChurn = 1
  Content <- MCContent
  Unreadable <- MCUnreadable
  SystemGroup = "sys"
  MaxEdits = 2
  MaxFiles = 1
  MaxImports = 1
  Editor = {e1, e2}
  PlainAlias = {"a"}
  AliasTarget <- MCAliasTarget
  GroupLists <- MCGroupLists
  MaxAliasRows = 4
  MaxAliasActs = 3
  MaxBoots = 1
  Way = {"toAnthropic", "toChat", "openai", "other", "audio"}
  Tool = {"t0", "t1"}
  MaxParts = 4
  Secret = {"s1", "s2"}
  RowId = {1, 2}
  MigrationBatch = 1
  MaxTools = 2
  Sample = 1
  MaxToolFaults = 1
  MaxStored = 1
  MaxServiceStarts = 1
INVARIANT ServicesTypeOK
INVARIANT StreamsSound
INVARIANT MigrationSound
CHECK_DEADLOCK FALSE
INVARIANT LogsCountedOnce
INVARIANT JoinsSound
INVARIANT SlotFreeWhenDone
INVARIANT CachesSettle
INVARIANT OvershootBounded
 
INVARIANT AdminSound
INVARIANT RouterSound
INVARIANT BackupSound
PROPERTY LogsAreWritten
PROPERTY SlotFreed
