\* Two tabs and two users; two lists of applications at a time; two versions
\* of a file of the repository and of an application.
SPECIFICATION PartsSpec
CONSTANTS
  Parts = {"session", "checks", "preferences", "navigation", "header", "cli", "dotfiles", "stack"}
  Tabs = {t1, t2}
  Users = {u1, u2}
  Tenants = {x1}
  None = None
  OnlyTab = t1
  MoreTenants = {x1, x2}
  MaxChecks = 1
  MoreChecks = 2
  Langs = {"en", "es"}
  DefaultLang = "en"
  Groups = {"g1", "g2"}
  Children = {"k1", "k2"}
  Parent <- TwoParents
  Links = {"l1"}
  Buttons = {"b1"}
  Menus <- ThreeMenus
  Apps = {"a1"}
  DefaultApps = {"a0", "d1"}
  CurrentApp = "a0"
  Setups <- TwoSetups
  Text = {"page.tsx"}
  Dot = {}
  Binary = {"icon.png"}
  Safe = {"page.tsx", "icon.png"}
  Options <- FewOptions
  Dotfiles = {".npmrc"}
  MaxFetches = 2
  MaxVersion = 2
INVARIANTS PartsTypeOK HeaderIsCurrent TenantWasGranted ChoicesAreKept SubmenuStaysUsable AppsMatchUser MarkedIsKept SyncSettles DataSurvives ManifestIsRunning
CHECK_DEADLOCK FALSE
