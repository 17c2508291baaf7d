--------------------------- MODULE MCLocalCopies ---------------------------
(***************************************************************************)
(* The parts that keep a copy of what others change: the directories and   *)
(* the lock file of a checkout (ComponentSync), the caches of feature      *)
(* flags (FeatureFlagStore), where one flag is changed, through several    *)
(* instances or through one that also reads other flags, the flags of a    *)
(* page (PageFlags), and its theme (TenantTheme). They share no state, so  *)
(* a behaviour exercises one of them and leaves the others in one initial  *)
(* state.                                                                  *)
(***************************************************************************)
EXTENDS MCComponentSync, MCFeatureFlagStore

CONSTANTS
  OnlyInstance,  \* the instance that is used in the part "flags"
  OnlyFlag,      \* the flag that is changed
  Visitors, MaxChecks,                  \* PageFlags
  Visitor,       \* who is signed in where the flags of the page do not matter
  Default, Themes, Styled, MaxRequests  \* TenantTheme

VARIABLES
  part,
  account, evaluation, page, copy, checks, seen,  \* PageFlags
  service, mounted, hook, style, cached, requests, controller, heard  \* TenantTheme

pageVars == <<account, evaluation, page, copy, checks, seen>>
themeVars == <<service, mounted, hook, style, cached, requests, controller, heard>>

F == INSTANCE PageFlags
T == INSTANCE TenantTheme

ASSUME PageAssumption == F!ConstantsAssumption
ASSUME ThemeAssumption == T!ConstantsAssumption

CopiesInit ==
  /\ part \in {"sync", "flags", "instances", "page", "theme"}
  /\ Init /\ FlagsInit /\ F!Init /\ T!Init
  /\ part # "page" => account = Visitor /\ evaluation = {}
  /\ part # "theme" => service = Default
  /\ part # "sync" => manifest = NoLocks
  /\ part \in {"sync", "page", "theme"} => \A k \in Keys : table[k] = None
  /\ part = "instances" => \A k \in Keys \ {OnlyFlag} : table[k] = None

OfSync(Move) == part = "sync" /\ Move /\ UNCHANGED <<part, flagsVars, pageVars, themeVars>>

\* The other flags are only read.
OfFlags ==
  /\ FlagsNext /\ UNCHANGED <<part, vars, pageVars, themeVars>>
  /\ \A i \in Instances :
       /\ pending'[i] # None => pending'[i].key = OnlyFlag
       /\ unsure'[i] \subseteq {OnlyFlag}

\* The other instances are never asked.
OfOneInstance ==
  /\ OfFlags
  /\ \A i \in Instances \ {OnlyInstance} :
       cache'[i] = EmptyCache /\ ttl'[i] = 0 /\ pending'[i] = None

OfPage(Move) == part = "page" /\ Move /\ UNCHANGED <<part, vars, flagsVars, themeVars>>

OfTheme(Move) == part = "theme" /\ Move /\ UNCHANGED <<part, vars, flagsVars, pageVars>>

CopiesNext ==
  \/ OfSync(Next)
  \/ part = "instances" /\ OfFlags
  \/ part = "flags" /\ OfOneInstance
  \/ OfPage(F!Next)
  \/ OfTheme(T!Next)

CopiesSpec ==
  CopiesInit /\ [][CopiesNext]_<<part, vars, flagsVars, pageVars, themeVars>>

-----------------------------------------------------------------------------

(* Every part of the state has its type.                                   *)
CopiesTypeOK == TypeOK /\ FlagsTypeOK /\ F!TypeOK /\ T!TypeOK

(* What a page shows is by flags evaluated for somebody who was signed in  *)
(* since it began, unless a request of it failed or it still loads.        *)
FlagsAreOfThisPage == F!FlagsAreOfThisPage

(* A page shows, and hands on, the theme that it was answered with last.   *)
ThemeIsTheLastHeard == T!ThemeIsTheLastHeard
=============================================================================
