\* One file of text and one other, of which a user customizes some.
SPECIFICATION PartsSpec
CONSTANTS
  Parts = {"cli"}
  Tabs = {t1}
  Users = {u1}
  Tenants = {x1}
  None = None
  OnlyTab = t1
  MoreTenants = {x1}
  MaxChecks = 1
  MoreChecks = 1
  Langs = {"en", "es"}
  DefaultLang = "en"
  Groups = {"g1", "g2"}
  Children = {"k1", "k2"}
  Parent <- TwoParents
  Links = {"l1"}
  Buttons = {"b1"}
  Menus <- ThreeMenus
  Apps = {"a1"}
  DefaultApps = {"a0", "d1"}
  CurrentApp = "a0"
  Setups <- TwoSetups
  Text = {"page.tsx"}
  Dot = {}
  Binary = {"icon.png"}
  Safe = {"page.tsx", "icon.png"}
  Options <- FewOptions
  Dotfiles = {".npmrc"}
  MaxFetches = 1
  MaxVersion = 1
PROPERTY ForcedSyncUpdatesAll
CHECK_DEADLOCK FALSE
