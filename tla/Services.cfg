\* Approvals
CONSTANTS
  Installs = {"i"}
  Servers = {"s"}
  Credentials = {"c1", "c2"}
  Questions = {"q"}
  RequestScenarios = {{}, {"i", "s"}, {"c1", "c2"}, {"q"}}
  MaxClicks = 2
  CardFaults = 1
\* AgentRoute
  Peers = {1, 2}
  MaxAsks = 1
  MaxReplies = 1
  MaxCrashes = 1
\* CloudChat and Reminders
  Wired = {"m1"}
  Direct = {"m2"}
  Workers = {"w1", "w2"}
  MaxRetries = 2
  ChatFaults = 2
  Reminders = {"r1", "r2"}
  ReminderFaults = 2
\* Documents
  Personal = {"p"}
  Corporate = {"c"}
  Misfiled = {"c"}
  Urls = {"l"}
  Drafts = {"d"}
  Longer <- MCLonger
  FilePlans <- MCPlans
  MaxOrders = 2
  Chunks = 2
\* Accounts
CONSTANTS
  Bare = {"u"}
  Tagged = {"v"}
  Tag = "tag"
  NoBody = "nobody"
  MaxLinks = 2
  MaxDays = 1
  AccountFaults = 1
\* WhatsApp
CONSTANTS
  Notes = {"n"}
  TextScenarios = {{}, {"n", "q"}}
  MaxQueue = 1
  MaxPairings = 2
  MaxTrouble = 2
\* Telegram
CONSTANTS
  TextQuestions = {"q"}
  Wordy = {1}
  Posts = {"m", "t"}
  Media = {"m"}
  MaxUpdates = 2
  MaxBotFaults = 1
\* Login
CONSTANTS
  Addresses = {"a1", "a2"}
  SecretChoices = {{"pass"}, {"token"}}
  MaxFailures = 2
  Window = 1
  Block = 1
  MaxEntries = 1
  MaxTime = 2
  MaxRestarts = 1
\* Setup
CONSTANTS
  Channels = {"telegram", "whatsapp", "signal", "discord", "slack", "imessage", "teams"}
  MaxRuns = 2
  MaxMishaps = 1
\* Profile
CONSTANTS
  Answerers = {"w1", "w2"}
  Sayings <- MCSayings
\* Console
CONSTANTS
  Codes = {"q1", "q2"}
  Pages = {"p1"}
  DeskFiles = {"f1", "f2"}
  MaxRecords = 1
  MaxMoves = 2
  MaxDeskFaults = 1
\* Cli
CONSTANTS
  Calls = {"a", "b"}
  CallScripts <- MCCallScripts
  DrainAttempts = 2
  HostDeaths = 1
\* Host
CONSTANTS
  Lives <- MCLives
  Signals = {"s1", "s2"}
  SetupRetries = 3
  Keys = {"k"}
  SettingValues = {"u", "v"}
SPECIFICATION Spec
\* Everything asked for may have been answered, everything sent indexed.
CHECK_DEADLOCK FALSE
INVARIANTS
  TypeOK
  FirstClickDecides
  AnnouncedIsConfigured
  OneReply
  UserToldTrue
  ErasedStays
  RemindedOnce
  MessagesKept
  PurgedStaysOut
  SetupKeepsWord
  ProfileKeepsWord
  
  HostKeepsWord
PROPERTIES
  CredentialRowsGo
  StraysOnlyToNewer
  Answered
  EveryFileTried
