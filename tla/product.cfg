SPECIFICATION ProductSpec
CONSTANTS
  Tabs = {t1, t2}
  Messages = {1, 2, 3}
  Plan = "pro"
  Picks = {"team"}
  Configured = {"groq", "nvidia"}
  Overrides <- TeamModel
  TokenLimit <- SmallLimits
  Costs = {1}
  MaxFaults = 1
  MaxVersion = 2
  MaxSwitches = 1
  Admins = {"a1", "a2"}
  Orders = {1, 2}
  MaxUses = 1
  KeyNames = {"key"}
  Required = {"key"}
  Values = {"v1", "v2"}
  NoValue = "none"
  Jobs = {"j1", "j2"}
  Attempts = 2
  KeyChanges = 2
  Ints = {"a", "b", "c"}
  Routes = {"b"}
  PackageOf <- OnePackage
  Slots = {"s", "t"}
  Files = {"f", "g"}
  Home <- TwoHomes
  After <- AfterTheOne
  AllowedIn <- FirstAnywhere
  Clicks = {"c1", "c2"}
  MaxInstalled = 2
  MaxOps = 3
  Ops = {1, 2}
  Publishes = {2}
  EditorAsks = 2
  Names = {"x", "y"}
  FormEdits = 4
  Planned = {"a"}
  Other = {"o"}
  Pages = {"p", "q"}
  MaxRequests = 1
  WishCalls = 4
  Paths = {"p", "q"}
  ReaderChanges = 3
  ReaderAsks = 3
  ReaderFaults = 2
  MaxTexts = 2
  MaxRows = 2
  MaxLoads = 2
  ChatLimit = 2
  Users = {"a", "b", "c"}
  OnList = {"a"}
  Desks = {"a", "b"}
  DeskCalls = 2
  Packages = {"p", "q"}
  MaxCommits = 4
  TreeFaults = 3
  Looks = {"light", "dark"}
  FirstLook = "light"
  MaxVisits = 1
  Homes = {HomeTab}
  Editors = {EditorTab}
  PageEdits = 1
  MaxPresses = 2
  MaxReads = 1
  Codes = {"c", "d"}
  MaxTicks = 1
  MaxPays = 1
  PanelChanges = 2
  PanelAsks = 3
  MaxResets = 1
  PanelFaults = 2
INVARIANTS
  TypesHold ConsentIsGiven StripeFollows PayAnswers KeysFollow CodeIsWhole
  AllowanceHolds NoRouteLeftUntried ViewsAreCurrent OutcomeIsTold AdminsRemain
CHECK_DEADLOCK FALSE
