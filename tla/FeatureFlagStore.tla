-------------------------- MODULE FeatureFlagStore --------------------------
(***************************************************************************)
(* Feature flags: a table shared by all instances of the backend, a cache  *)
(* in each instance with one expiry time for all its entries, the handlers *)
(* that read and change flags, and their evaluation for a request.         *)
(*                                                                         *)
(* An instance serves one request at a time, so it interleaves with other  *)
(* instances only; a request may fail at the table, and an instance may be *)
(* recycled at any point. Reads are not ConsistentRead: one that follows a *)
(* write may still be answered with what was stored before.                *)
(***************************************************************************)
EXTENDS Integers

CONSTANTS
  Keys, Instances, Users, Tenants, Sessions,
  Anonymous,   \* the empty user, tenant or session identifier
  None,        \* no such flag, no such cache entry, a field not given
  Bucket,      \* SHA-256 of key and identifier, modulo 100
  Updates,     \* the request bodies clients send
  Stored,      \* flags that were stored before
  TTL          \* cacheTTL, in ticks of the model's clock

Ids == Users \cup Sessions

Percentages == 0..100

Flag == [enabled         : BOOLEAN,
         percentage      : Percentages,
         users           : SUBSET Users,
         disabledUsers   : SUBSET Users,
         tenants         : SUBSET Tenants,
         disabledTenants : SUBSET Tenants]

FlagUpdate == [enabled         : BOOLEAN,
               percentage      : Int,
               users           : {None} \cup SUBSET Users,
               disabledUsers   : {None} \cup SUBSET Users,
               tenants         : {None} \cup SUBSET Tenants,
               disabledTenants : {None} \cup SUBSET Tenants]

Context == [user    : Users \cup {Anonymous},
            session : Sessions \cup {Anonymous},
            tenant  : Tenants \cup {Anonymous}]

ASSUME FlagsAssumption ==
  /\ Anonymous \notin Users \cup Sessions \cup Tenants
  /\ None \notin Flag \cup [key : Keys, update : Updates, flag : Flag]
  /\ \A s \in (SUBSET Users) \cup (SUBSET Tenants) : s # None
  /\ Bucket \in [Keys -> [Ids -> 0..99]]
  /\ Updates \subseteq FlagUpdate /\ Stored \subseteq Flag
  /\ TTL \in Nat \ {0}

VARIABLES
  table,    \* the flags stored
  replica,  \* the same as a lagging replica still has them
  cache,    \* what each instance has cached, expired or not
  ttl,      \* ticks until the cache of an instance expires
  pending,  \* the update each instance is about to save
  unsure    \* history: the flags of which an instance may have, or be about
            \* to save, another version than the one that was just replaced

flagsVars == <<table, replica, cache, ttl, pending, unsure>>

-----------------------------------------------------------------------------
(* Evaluation of a flag for the context of a request.                      *)

\* MUTANT: the rollout takes the upper part of the buckets.
UpperBuckets(key, flag, id) ==
  /\ flag.percentage > 0 /\ flag.percentage < 100
  /\ Bucket[key][id] >= flag.percentage

InBucket(key, flag, id) ==
  /\ flag.percentage > 0 /\ flag.percentage < 100
  /\ Bucket[key][id] < flag.percentage

\* The user if there is one, else the session, else nothing to hash.
InRollout(key, flag, c) ==
  \/ c.user # Anonymous /\ InBucket(key, flag, c.user)
  \/ /\ c.user = Anonymous /\ c.session # Anonymous
     /\ InBucket(key, flag, c.session)

Enabled(key, flag, c) ==
  /\ c.user \notin flag.disabledUsers
  /\ \/ c.user \in flag.users
     \/ /\ c.tenant \notin flag.disabledTenants
        /\ \/ c.tenant \in flag.tenants
           \/ InRollout(key, flag, c)
           \/ flag.enabled

-----------------------------------------------------------------------------
(* Updates. A list that is not given, and a percentage out of range, keep  *)
(* what the flag has.                                                      *)

NewFeatureFlag(enabled) ==
  [enabled |-> enabled, percentage |-> 0, users |-> {}, disabledUsers |-> {},
   tenants |-> {}, disabledTenants |-> {}]

Given(new, old) == IF new = None THEN old ELSE new

\* MUTANT: the percentage of a request is not checked.
AnyPercentage(p) == TRUE

InRange(p) == p \in Percentages

Updated(flag, u) ==
  [enabled         |-> u.enabled,
   percentage      |-> IF InRange(u.percentage)
                         THEN u.percentage ELSE flag.percentage,
   users           |-> Given(u.users, flag.users),
   disabledUsers   |-> Given(u.disabledUsers, flag.disabledUsers),
   tenants         |-> Given(u.tenants, flag.tenants),
   disabledTenants |-> Given(u.disabledTenants, flag.disabledTenants)]

\* The flag that an update of found saves: a new one if there is none.
Target(found, u) ==
  Updated(IF found = None THEN NewFeatureFlag(u.enabled) ELSE found, u)

-----------------------------------------------------------------------------
(* The instances.                                                          *)

Pending == [key : Keys, update : Updates, flag : Flag]

EmptyCache == [k \in Keys |-> None]

FlagsInit ==
  /\ table \in [Keys -> Stored \cup {None}]
  /\ replica = table
  /\ cache = [i \in Instances |-> EmptyCache]
  /\ ttl = [i \in Instances |-> 0]
  /\ pending = [i \in Instances |-> None]
  /\ unsure = [i \in Instances |-> {}]

Tick ==
  /\ \E i \in Instances : ttl[i] > 0
  /\ ttl' = [i \in Instances |-> IF ttl[i] > 0 THEN ttl[i] - 1 ELSE 0]
  /\ UNCHANGED <<table, replica, cache, pending, unsure>>

\* A lagging replica catches up.
Replicate(k) ==
  /\ replica' = [replica EXCEPT ![k] = table[k]]
  /\ UNCHANGED <<table, cache, ttl, pending, unsure>>

Free(i) == pending[i] = None

\* A live entry answers for the table.
Hit(i, k) == cache[i][k] # None /\ ttl[i] > 0

MayFind(i, k) == IF Hit(i, k) THEN {cache[i][k]} ELSE {table[k], replica[k]}

\* Whether instance i is unsure of a flag when the table answered found. An
\* answer without the flag leaves the entry that the instance has of it.
Misled(i, k, found) ==
  \/ found # table[k]
  \/ found = None /\ k \in unsure[i]

\* Store.Get, which found the flag found and whose caller will have turned it
\* into flag: the cache holds what was returned, not a copy of it. A miss
\* restarts the one expiry time, and so revives every entry that had expired.
Get(i, k, found, flag) ==
  /\ cache' = IF found = None THEN cache ELSE [cache EXCEPT ![i][k] = flag]
  /\ ttl' = IF Hit(i, k) \/ found = None THEN ttl ELSE [ttl EXCEPT ![i] = TTL]
  /\ unsure' = IF Hit(i, k) THEN unsure
               ELSE [unsure EXCEPT ![i] =
                       (@ \ {k}) \cup {m \in {k} : Misled(i, m, found)}]

Evaluate(i, k) ==
  /\ Free(i)
  /\ \E found \in MayFind(i, k) : Get(i, k, found, found)
  /\ UNCHANGED <<table, replica, pending>>

\* Store.List, for EvaluateHandler and ListHandler: always scans the table, and
\* replaces newer entries by older answers as well. Entries of flags that the
\* scan does not return stay, and live on.
List(i) ==
  /\ Free(i)
  /\ \E lagging \in SUBSET Keys :
       LET found == [k \in Keys |-> IF k \in lagging THEN replica[k] ELSE table[k]]
       IN /\ cache' = [cache EXCEPT ![i] =
               [k \in Keys |-> IF found[k] # None THEN found[k] ELSE cache[i][k]]]
          /\ unsure' = [unsure EXCEPT ![i] = {k \in Keys : Misled(i, k, found[k])}]
  /\ ttl' = [ttl EXCEPT ![i] = TTL]
  /\ UNCHANGED <<table, replica, pending>>

\* UpdateHandler up to the save. It updates the flag that Get returned.
BeginUpdate(i, k) ==
  /\ Free(i)
  /\ \E found \in MayFind(i, k), u \in Updates :
       LET flag == Target(found, u) IN
       /\ Get(i, k, found, flag)
       /\ pending' =
            [pending EXCEPT ![i] = [key |-> k, update |-> u, flag |-> flag]]
  /\ UNCHANGED <<table, replica>>

\* The flag k was written through instance i, whose cache has followed.
Wrote(i, k) ==
  unsure' = [j \in Instances |->
               IF j = i THEN unsure[j] \ {k} ELSE unsure[j] \cup {k}]

\* A write failed, applied or not; these instances may have what is not stored.
Failed(misled, k) ==
  unsure' = [j \in Instances |->
               IF j \in misled \/ table'[k] # table[k]
               THEN unsure[j] \cup {k} ELSE unsure[j]]

\* Save, and the answer 200. It does not touch the expiry time.
SaveFlag(i) ==
  /\ ~Free(i)
  /\ table' = [table EXCEPT ![pending[i].key] = pending[i].flag]
  /\ cache' = [cache EXCEPT ![i][pending[i].key] = pending[i].flag]
  /\ pending' = [pending EXCEPT ![i] = None]
  /\ Wrote(i, pending[i].key)
  /\ UNCHANGED <<replica, ttl>>

\* PutItem reports an error, whether or not it was applied: the answer 500.
\* The flag in the cache has been changed already.
SaveFails(i) ==
  /\ ~Free(i)
  /\ \/ table' = [table EXCEPT ![pending[i].key] = pending[i].flag]
     \/ UNCHANGED table
  /\ pending' = [pending EXCEPT ![i] = None]
  /\ Failed({i}, pending[i].key)
  /\ UNCHANGED <<replica, cache, ttl>>

\* MUTANT: Delete leaves the flag in the cache.
KeepCached(i, k) == cache[i][k]

Forgotten(i, k) == None

DeleteFlag(i, k) ==
  /\ Free(i)
  /\ table' = [table EXCEPT ![k] = None]
  /\ cache' = [cache EXCEPT ![i][k] = Forgotten(i, k)]
  /\ Wrote(i, k)
  /\ UNCHANGED <<replica, ttl, pending>>

DeleteFails(i, k) ==
  /\ Free(i)
  /\ \/ table' = [table EXCEPT ![k] = None]
     \/ UNCHANGED table
  /\ Failed({}, k)
  /\ UNCHANGED <<replica, cache, ttl, pending>>

\* A new instance in the place of i, which may have been serving a request;
\* for an idle instance also InvalidateCache.
Recycle(i) ==
  /\ cache' = [cache EXCEPT ![i] = EmptyCache]
  /\ ttl' = [ttl EXCEPT ![i] = 0]
  /\ pending' = [pending EXCEPT ![i] = None]
  /\ unsure' = [unsure EXCEPT ![i] = {}]
  /\ UNCHANGED <<table, replica>>

FlagsNext ==
  \/ Tick
  \/ \E k \in Keys : Replicate(k)
  \/ \E i \in Instances :
       \/ List(i) \/ SaveFlag(i) \/ SaveFails(i) \/ Recycle(i)
       \/ \E k \in Keys : \/ Evaluate(i, k) \/ BeginUpdate(i, k)
                          \/ DeleteFlag(i, k) \/ DeleteFails(i, k)

FlagsSpec == FlagsInit /\ [][FlagsNext]_flagsVars

-----------------------------------------------------------------------------
(* Properties.                                                             *)

FlagsTypeOK ==
  /\ table \in [Keys -> Flag \cup {None}]
  /\ replica \in [Keys -> Flag \cup {None}]
  /\ cache \in [Instances -> [Keys -> Flag \cup {None}]]
  /\ ttl \in [Instances -> 0..TTL]
  /\ pending \in [Instances -> Pending \cup {None}]
  /\ unsure \in [Instances -> SUBSET Keys]

(* An update saves the stored flag with nothing changed but what the       *)
(* request asks for, whatever expired, was revived or was listed, and      *)
(* whoever changed the flag before, unless one of three things happened    *)
(* since the instance was last answered with the stored flag or wrote it:  *)
(* another instance changed the flag, a write of it failed, or the table   *)
(* gave an outdated answer. A second update right after the first may be   *)
(* misled by the last of them, and take back what the first one changed.   *)
UpdatesBuildOnStored ==
  \A i \in Instances :
    ~Free(i) /\ pending[i].key \notin unsure[i]
      => pending[i].flag = Target(table[pending[i].key], pending[i].update)

RaisedTo(old, new) ==
  /\ new.percentage > old.percentage
  /\ new = [old EXCEPT !.percentage = new.percentage]

(* Raising the percentage of a flag, below 100, and nothing else turns the *)
(* feature off for nobody.                                                 *)
RolloutOnlyGrows ==
  [][\A k \in Keys :
       /\ table[k] # None /\ table'[k] # None
       /\ RaisedTo(table[k], table'[k]) /\ table'[k].percentage < 100
       => \A c \in Context :
            Enabled(k, table[k], c) => Enabled(k, table'[k], c)]_flagsVars

(* Raising the percentage of a flag, to 100 as well, turns it off for      *)
(* nobody.                                                                 *)
FullRolloutShrinksNothing ==
  [][\A k \in Keys :
       /\ table[k] # None /\ table'[k] # None
       /\ RaisedTo(table[k], table'[k])
       => \A c \in Context :
            Enabled(k, table[k], c) => Enabled(k, table'[k], c)]_flagsVars

(* FEATURE_FLAGS.md:297, "In-memory cache with 30-second TTL": an entry    *)
(* that has expired answers again only if it is what a read of the table   *)
(* would answer, or what this instance is about to save.                   *)
ExpiredAreReadAnew ==
  [][\A i \in Instances, k \in Keys :
       cache[i][k] # None /\ ttl[i] = 0 /\ ttl'[i] > 0
       => \/ cache'[i][k] \in {table[k], replica[k]}
          \/ pending'[i] # None /\ pending'[i].key = k]_flagsVars
=============================================================================
