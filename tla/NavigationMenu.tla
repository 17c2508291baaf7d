--------------------------- MODULE NavigationMenu ---------------------------
(***************************************************************************)
(* NavigationMenu of the layout package. It renders its items more than    *)
(* once, for wide and for narrow windows, and style sheets hide the copies *)
(* that do not fit; all copies share one state and the one ref by which a  *)
(* press outside the open submenu is told from a press inside.             *)
(*                                                                         *)
(* A step is an event and the commit that follows it. A click is two       *)
(* events, the press and the release; from the keyboard there is no press. *)
(***************************************************************************)
CONSTANTS
  Groups, Children,  \* items with children, and their children
  Parent,            \* the group of each child
  Links, Buttons,    \* items with a path only, and with an onClick
  Menus,             \* what menuItemsProvider may return
  None

Items == Groups \cup Children \cup Links \cup Buttons
Copies == {"main", "mobile", "drawer"}

ConstantsAssumption == None \notin Groups

VARIABLES
  setup,           \* properties the menu was given
  wide,            \* the window
  menu,
  mobileMenuOpen, drawerOpen, collapsed,
  openSubmenu,
  submenuRef,      \* the element that the ref holds
  pressed          \* where the pointer went down

vars == <<setup, wide, menu, mobileMenuOpen, drawerOpen, collapsed,
          openSubmenu, submenuRef, pressed>>

Elements == (Copies \X Items) \cup {None}

Init ==
  /\ setup \in [vertical : BOOLEAN, routed : BOOLEAN, showMobileMenu : BOOLEAN]
  /\ wide \in BOOLEAN
  /\ menu \in Menus
  /\ mobileMenuOpen = FALSE /\ drawerOpen = FALSE /\ collapsed \in BOOLEAN
  /\ openSubmenu = None /\ submenuRef = None
  /\ pressed = None

-----------------------------------------------------------------------------
(* What is rendered.                                                       *)

VisibleChildren(m, g) == {i \in Children \cap m.visible : Parent[i] = g}

IsTrigger(m, i) == i \in Groups /\ VisibleChildren(m, i) # {}

\* The copies, in the order of the document.
Rendered(mobileOpen) ==
  {"main"} \cup (IF setup.vertical /\ setup.showMobileMenu THEN {"drawer"} ELSE {})
    \cup (IF ~setup.vertical /\ setup.showMobileMenu /\ mobileOpen
          THEN {"mobile"} ELSE {})

\* The elements that are given the ref: the open group, once in each copy.
GivenRef(m, mobileOpen, open) ==
  IF open \in m.visible /\ IsTrigger(m, open)
  THEN Rendered(mobileOpen) \X {open} ELSE {}

\* MUTANT: the first copy has the ref.
FirstOf(elements) ==
  CHOOSE e \in elements : \A f \in elements : f[1] # e[1] =>
    (f[1] = "mobile" \/ e[1] = "drawer")

\* Refs are attached in the order of the document: drawer, main, mobile.
LastOf(elements) ==
  CHOOSE e \in elements : \A f \in elements : f[1] # e[1] =>
    (e[1] = "mobile" \/ f[1] = "drawer")

\* React takes the ref from elements that go, then gives it to new ones.
Commit ==
  LET before == GivenRef(menu, mobileMenuOpen, openSubmenu)
      after == GivenRef(menu', mobileMenuOpen', openSubmenu')
  IN submenuRef' = IF after \ before # {} THEN LastOf(after \ before)
                   ELSE IF before \ after # {} THEN None ELSE submenuRef

\* Not hidden by a style sheet. The closed drawer is only moved out of sight.
Displayed(c) ==
  c \in Rendered(mobileMenuOpen) /\ IF c = "main" THEN wide ELSE ~wide
InSight(c) == Displayed(c) /\ (c = "drawer" => drawerOpen)

Shown(i) ==
  /\ i \in menu.visible
  /\ i \in Children => openSubmenu = Parent[i] /\ Parent[i] \in menu.visible

\* Buttons can be disabled; links only look so.
Enabled(i) == i \notin menu.disabled \/ i \in Links

-----------------------------------------------------------------------------
(* Events.                                                                 *)

\* handleClickOutside, by what the ref holds.
Outside(c, i) ==
  submenuRef # None
    /\ submenuRef # <<c, IF i \in Children THEN Parent[i] ELSE i>>

CloseAll ==
  /\ mobileMenuOpen' = FALSE /\ drawerOpen' = FALSE /\ openSubmenu' = None

\* The item is executed, which the menu learns nothing of.
HandleItemClick(i) ==
  /\ IF i \in menu.disabled THEN UNCHANGED <<mobileMenuOpen, drawerOpen, openSubmenu>>
                            ELSE CloseAll
  /\ UNCHANGED collapsed

\* Without onNavigate the browser follows the link and loads the page anew.
Follow == CloseAll /\ collapsed' \in BOOLEAN

ToggleSubmenu(g) ==
  /\ openSubmenu' = IF openSubmenu = g THEN None ELSE g
  /\ UNCHANGED <<mobileMenuOpen, drawerOpen, collapsed>>

Activate(i) ==
  /\ Shown(i) /\ Enabled(i)
  /\ IF IsTrigger(menu, i) THEN ToggleSubmenu(i)
     ELSE IF i \in Links /\ ~setup.routed THEN Follow
     ELSE HandleItemClick(i)
  /\ UNCHANGED <<setup, wide, menu>>
  /\ Commit

Press(c, i) ==
  /\ pressed = None
  /\ InSight(c) /\ Shown(i) /\ Enabled(i)
  /\ pressed' = <<c, i>>
  /\ openSubmenu' = IF Outside(c, i) THEN None ELSE openSubmenu
  /\ UNCHANGED <<setup, wide, menu, mobileMenuOpen, drawerOpen, collapsed>>
  /\ Commit

\* What is no longer there cannot be clicked.
Click ==
  /\ pressed # None /\ InSight(pressed[1])
  /\ Activate(pressed[2])
  /\ pressed' = None

\* The pointer goes up somewhere else.
Release ==
  /\ pressed # None
  /\ pressed' = None
  /\ UNCHANGED <<setup, wide, menu, mobileMenuOpen, drawerOpen, collapsed,
                 openSubmenu, submenuRef>>

PressElsewhere ==
  /\ pressed = None /\ submenuRef # None
  /\ openSubmenu' = None
  /\ UNCHANGED <<setup, wide, menu, mobileMenuOpen, drawerOpen, collapsed,
                 pressed>>
  /\ Commit

Enter(c, i) ==
  /\ Displayed(c)
  /\ Activate(i)
  /\ UNCHANGED pressed

ToggleMobileMenu ==
  /\ ~setup.vertical /\ setup.showMobileMenu /\ ~wide
  /\ mobileMenuOpen' = ~mobileMenuOpen
  /\ UNCHANGED <<setup, wide, menu, drawerOpen, collapsed, openSubmenu, pressed>>
  /\ Commit

\* By its button, or by the backdrop or the close button of the open drawer.
ToggleDrawer ==
  /\ setup.vertical /\ setup.showMobileMenu /\ ~wide
  /\ drawerOpen' = ~drawerOpen
  /\ UNCHANGED <<setup, wide, menu, mobileMenuOpen, collapsed, openSubmenu,
                 submenuRef, pressed>>

CollapseToggleShown == setup.vertical /\ wide

ToggleCollapsed ==
  /\ CollapseToggleShown
  /\ collapsed' = ~collapsed
  /\ openSubmenu' = IF collapsed THEN openSubmenu ELSE None
  /\ UNCHANGED <<setup, wide, menu, mobileMenuOpen, drawerOpen, pressed>>
  /\ Commit

\* The property changes: the effect follows it, and leaves the submenu open.
SyncCollapsed ==
  /\ collapsed' = ~collapsed
  /\ UNCHANGED <<setup, wide, menu, mobileMenuOpen, drawerOpen, openSubmenu,
                 submenuRef, pressed>>

\* Another user or tenant has another menu.
NewMenu ==
  /\ menu' \in Menus
  /\ UNCHANGED <<setup, wide, mobileMenuOpen, drawerOpen, collapsed, openSubmenu,
                 pressed>>
  /\ Commit

\* The window is resized; nothing of the menu notices.
Resize ==
  /\ wide' = ~wide
  /\ UNCHANGED <<setup, menu, mobileMenuOpen, drawerOpen, collapsed, openSubmenu,
                 submenuRef, pressed>>

Next ==
  \/ \E c \in Copies, i \in Items : Press(c, i) \/ Enter(c, i)
  \/ Click \/ Release \/ PressElsewhere
  \/ ToggleMobileMenu \/ ToggleDrawer \/ ToggleCollapsed
  \/ SyncCollapsed \/ NewMenu \/ Resize

Spec == Init /\ [][Next]_vars

-----------------------------------------------------------------------------
(* Properties.                                                             *)

(* The menu's state has its type.                                          *)
TypeOK ==
  /\ setup \in [vertical : BOOLEAN, routed : BOOLEAN, showMobileMenu : BOOLEAN]
  /\ wide \in BOOLEAN /\ menu \in Menus
  /\ mobileMenuOpen \in BOOLEAN /\ drawerOpen \in BOOLEAN /\ collapsed \in BOOLEAN
  /\ openSubmenu \in Groups \cup {None}
  /\ submenuRef \in Elements /\ pressed \in Elements

\* A press on what the open submenu shows in the copy c counts as outside.
Unusable(c) ==
  InSight(c) /\ \E i \in Children : Shown(i) /\ Outside(c, i)

(* A press on an item of the open submenu does not close it under the      *)
(* pointer, whichever copies come and go while it is open: always in the   *)
(* mobile menu and the wide sidebar, and in the wide header unless the     *)
(* mobile menu was left open in a narrower window.                         *)
SubmenuStaysUsable ==
  /\ ~Unusable("mobile")
  /\ setup.vertical \/ ~mobileMenuOpen => ~Unusable("main")

(* The comment at line 111, "Close submenu on outside click", and the list *)
(* at line 11, which has nested items and a drawer: only a press outside   *)
(* closes the submenu. In the drawer a press inside does, too.             *)
SubmenuCanBeUsed == \A c \in Copies : ~Unusable(c)
=============================================================================
