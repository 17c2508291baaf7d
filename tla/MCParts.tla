------------------------------ MODULE MCParts ------------------------------
(* Small menus, and what two applications pass to the header.              *)
EXTENDS ApplicationParts, TLC

\* Two submenus of one item each, a link and a button.
TwoParents == "k1" :> "g1" @@ "k2" :> "g2"

AllItems == Groups \cup Children \cup Links \cup Buttons

MenuOf(visible, disabled) == [visible |-> visible, disabled |-> disabled]

\* All items; some of them disabled; and all but one submenu.
ThreeMenus ==
  {MenuOf(AllItems, {}), MenuOf(AllItems, {"g1", "k1", "l1"}), MenuOf(AllItems \ {"g1"}, {})}

\* All that an application may pass, or the address of the registry only.
TwoSetups ==
  {{"appsApiUrl"},
   {"auth", "theme", "navLinks", "menuItems", "menuContent", "apps", "appsApiUrl",
    "showAppSwitcher", "showThemeToggle", "showUserMenu", "showPreferences",
    "showTenantSwitcher"}}

\* No option, or one of them; --force without being asked.
FewOptions ==
  {<<FALSE, FALSE, FALSE>>, <<TRUE, FALSE, FALSE>>, <<FALSE, FALSE, TRUE>>,
   <<FALSE, TRUE, TRUE>>}
=============================================================================
