----------------------- MODULE FeatureFlagStoreProofs -----------------------
(* Theorems about FeatureFlagStore, for any number of flags and instances,  *)
(* any buckets and any updates.                                             *)
EXTENDS FeatureFlagStore, TLAPS

-----------------------------------------------------------------------------
(* The algorithms.                                                         *)

LEMMA TargetOK ==
  ASSUME NEW found \in Flag \cup {None}, NEW u \in FlagUpdate
  PROVE  Target(found, u) \in Flag
<1>1. NewFeatureFlag(u.enabled) \in Flag
  BY DEF NewFeatureFlag, Flag, FlagUpdate, Percentages
<1>2. ASSUME NEW flag \in Flag PROVE Updated(flag, u) \in Flag
  BY <1>2 DEF Updated, Flag, FlagUpdate, Given, InRange, Percentages
<1>3. QED
  BY <1>1, <1>2 DEF Target

\* Below 100, a larger percentage keeps every identifier in the rollout.
LEMMA LargerPercentage ==
  ASSUME NEW bucket \in 0..99, NEW p \in 0..100, NEW q \in 0..100,
         bucket < p, q > p
  PROVE  q > 0 /\ bucket < q
OBVIOUS

LEMMA BucketGrows ==
  ASSUME NEW old \in Flag, NEW new \in Flag, RaisedTo(old, new),
         new.percentage \in 0..99, NEW k \in Keys, NEW id \in Ids,
         InBucket(k, old, id)
  PROVE  InBucket(k, new, id)
<1>1. Bucket[k][id] \in 0..99
  BY FlagsAssumption
<1>2. old.percentage \in 0..100 /\ new.percentage \in 0..100
  BY DEF Flag, Percentages
<1>3. Bucket[k][id] < old.percentage /\ new.percentage > old.percentage
  BY DEF InBucket, RaisedTo
<1>4. new.percentage > 0 /\ Bucket[k][id] < new.percentage
  BY <1>1, <1>2, <1>3, LargerPercentage
<1>5. new.percentage < 100
  OBVIOUS
<1>6. QED
  BY <1>4, <1>5 DEF InBucket

LEMMA EnabledGrows ==
  ASSUME NEW old \in Flag, NEW new \in Flag, RaisedTo(old, new),
         new.percentage \in 0..99, NEW k \in Keys, NEW c \in Context,
         Enabled(k, old, c)
  PROVE  Enabled(k, new, c)
<1>1. /\ new.enabled = old.enabled
      /\ new.users = old.users /\ new.disabledUsers = old.disabledUsers
      /\ new.tenants = old.tenants
      /\ new.disabledTenants = old.disabledTenants
  BY DEF RaisedTo, Flag
<1>2. InRollout(k, old, c) => InRollout(k, new, c)
  BY BucketGrows DEF InRollout, Context, Ids
<1>3. QED
  BY <1>1, <1>2 DEF Enabled

-----------------------------------------------------------------------------
(* Type correctness.                                                       *)

LEMMA FoundOK ==
  ASSUME FlagsTypeOK, NEW i \in Instances, NEW k \in Keys
  PROVE  MayFind(i, k) \subseteq Flag \cup {None}
BY DEF FlagsTypeOK, MayFind

LEMMA GetOK ==
  ASSUME FlagsTypeOK, NEW i \in Instances, NEW k \in Keys,
         NEW found \in Flag \cup {None}, NEW flag \in Flag \cup {None},
         Get(i, k, found, flag)
  PROVE  /\ cache' \in [Instances -> [Keys -> Flag \cup {None}]]
         /\ ttl' \in [Instances -> 0..TTL]
         /\ unsure' \in [Instances -> SUBSET Keys]
<1>1. TTL \in 0..TTL
  BY FlagsAssumption
<1>2. QED
  BY <1>1 DEF FlagsTypeOK, Get

LEMMA InitTypeOK == FlagsInit => FlagsTypeOK
<1> SUFFICES ASSUME FlagsInit PROVE FlagsTypeOK
  OBVIOUS
<1>1. 0 \in 0..TTL
  BY FlagsAssumption
<1>2. QED
  BY <1>1, FlagsAssumption DEF FlagsInit, FlagsTypeOK, EmptyCache

LEMMA BeginUpdateTypeOK ==
  ASSUME FlagsTypeOK, NEW i \in Instances, NEW k \in Keys, BeginUpdate(i, k)
  PROVE  FlagsTypeOK'
<1>1. PICK found \in MayFind(i, k), u \in Updates :
        /\ Get(i, k, found, Target(found, u))
        /\ pending' = [pending EXCEPT ![i] =
             [key |-> k, update |-> u, flag |-> Target(found, u)]]
  BY DEF BeginUpdate
<1>2. found \in Flag \cup {None} /\ Target(found, u) \in Flag
  BY FoundOK, TargetOK, FlagsAssumption
<1>3. [key |-> k, update |-> u, flag |-> Target(found, u)] \in Pending
  BY <1>2 DEF Pending
<1>4. pending' \in [Instances -> Pending \cup {None}]
  BY <1>1, <1>3 DEF FlagsTypeOK
<1>5. QED
  BY <1>1, <1>2, <1>4, GetOK DEF BeginUpdate, FlagsTypeOK

LEMMA WroteOK ==
  ASSUME FlagsTypeOK, NEW i \in Instances, NEW k \in Keys, Wrote(i, k)
  PROVE  unsure' \in [Instances -> SUBSET Keys]
BY DEF FlagsTypeOK, Wrote

LEMMA FailedOK ==
  ASSUME FlagsTypeOK, NEW misled, NEW k \in Keys, Failed(misled, k)
  PROVE  unsure' \in [Instances -> SUBSET Keys]
BY DEF FlagsTypeOK, Failed

LEMMA InstanceTypeOK ==
  ASSUME FlagsTypeOK, NEW i \in Instances,
         List(i) \/ SaveFlag(i) \/ SaveFails(i) \/ Recycle(i)
  PROVE  FlagsTypeOK'
<1>1. TTL \in 0..TTL /\ 0 \in 0..TTL
  BY FlagsAssumption
<1>2. CASE List(i)
  BY <1>1, <1>2 DEF List, FlagsTypeOK
<1>3. ASSUME ~Free(i)
      PROVE  pending[i].key \in Keys /\ pending[i].flag \in Flag
  BY <1>3 DEF Free, FlagsTypeOK, Pending
<1>4. CASE SaveFlag(i)
  BY <1>3, <1>4, WroteOK DEF SaveFlag, FlagsTypeOK
<1>5. CASE SaveFails(i)
  BY <1>3, <1>5, FailedOK DEF SaveFails, FlagsTypeOK
<1>6. CASE Recycle(i)
  BY <1>1, <1>6 DEF Recycle, FlagsTypeOK, EmptyCache
<1>7. QED
  BY <1>2, <1>4, <1>5, <1>6

LEMMA KeyTypeOK ==
  ASSUME FlagsTypeOK, NEW i \in Instances, NEW k \in Keys,
         Evaluate(i, k) \/ DeleteFlag(i, k) \/ DeleteFails(i, k)
  PROVE  FlagsTypeOK'
<1>1. CASE Evaluate(i, k)
  BY <1>1, FoundOK, GetOK DEF Evaluate, FlagsTypeOK
<1>2. CASE DeleteFlag(i, k)
  BY <1>2, WroteOK DEF DeleteFlag, FlagsTypeOK, Forgotten
<1>3. CASE DeleteFails(i, k)
  BY <1>3, FailedOK DEF DeleteFails, FlagsTypeOK
<1>4. QED
  BY <1>1, <1>2, <1>3

\* Percentages stay in range and lists are lists, whatever is asked for.
THEOREM TypeCorrect == FlagsSpec => []FlagsTypeOK
<1>1. FlagsTypeOK /\ [FlagsNext]_flagsVars => FlagsTypeOK'
  <2> SUFFICES ASSUME FlagsTypeOK, [FlagsNext]_flagsVars PROVE FlagsTypeOK'
    OBVIOUS
  <2>1. CASE UNCHANGED flagsVars
    BY <2>1 DEF flagsVars, FlagsTypeOK
  <2>2. CASE Tick
    BY <2>2, FlagsAssumption DEF Tick, FlagsTypeOK
  <2>3. ASSUME NEW k \in Keys, Replicate(k) PROVE FlagsTypeOK'
    BY <2>3 DEF Replicate, FlagsTypeOK
  <2>4. QED
    BY <2>1, <2>2, <2>3, InstanceTypeOK, KeyTypeOK, BeginUpdateTypeOK DEF FlagsNext
<1>2. QED
  BY <1>1, InitTypeOK, PTL DEF FlagsSpec

-----------------------------------------------------------------------------
(* Rollouts.                                                               *)

\* Below 100, raising a percentage turns the feature off for nobody.
THEOREM RolloutGrows == FlagsSpec => RolloutOnlyGrows
<1>1. FlagsTypeOK /\ FlagsTypeOK' /\ [FlagsNext]_flagsVars
        => [\A k \in Keys :
              /\ table[k] # None /\ table'[k] # None
              /\ RaisedTo(table[k], table'[k]) /\ table'[k].percentage < 100
              => \A c \in Context :
                   Enabled(k, table[k], c) => Enabled(k, table'[k], c)]_flagsVars
  <2> SUFFICES ASSUME FlagsTypeOK, FlagsTypeOK', NEW k \in Keys, NEW c \in Context,
                      table[k] # None, table'[k] # None,
                      RaisedTo(table[k], table'[k]),
                      table'[k].percentage < 100, Enabled(k, table[k], c)
               PROVE  Enabled(k, table'[k], c)
    OBVIOUS
  <2>1. table[k] \in Flag /\ table'[k] \in Flag
    BY DEF FlagsTypeOK
  <2>2. table'[k].percentage \in 0..99
    BY <2>1 DEF Flag, Percentages
  <2>3. QED
    BY <2>1, <2>2, EnabledGrows
<1>2. QED
  BY <1>1, TypeCorrect, PTL DEF FlagsSpec, RolloutOnlyGrows

-----------------------------------------------------------------------------
(* Updates.                                                                *)

\* What an instance that is sure of a flag has cached of it: the stored flag,
\* or the flag of the update that it is about to save.
Coherent ==
  \A i \in Instances, k \in Keys :
    k \notin unsure[i] =>
      \/ cache[i][k] \in {None, table[k]}
      \/ ~Free(i) /\ pending[i].key = k

LEMMA FindsStored ==
  ASSUME Coherent, NEW i \in Instances, NEW k \in Keys, Free(i),
         NEW found \in MayFind(i, k), NEW flag, Get(i, k, found, flag),
         unsure \in [Instances -> SUBSET Keys], k \notin unsure'[i]
  PROVE  found = table[k]
<1>1. CASE Hit(i, k)
  BY <1>1 DEF Coherent, MayFind, Hit, Get
<1>2. CASE ~Hit(i, k)
  BY <1>2 DEF Get, Misled
<1>3. QED
  BY <1>1, <1>2

\* A step of instance i that writes no flag, and leaves i coherent.
LEMMA ReadKeeps ==
  ASSUME FlagsTypeOK, Coherent, UpdatesBuildOnStored,
         UNCHANGED table, NEW i \in Instances,
         \A j \in Instances \ {i} :
           cache'[j] = cache[j] /\ pending'[j] = pending[j]
             /\ unsure'[j] = unsure[j],
         \A k \in Keys : k \notin unsure'[i] =>
           \/ cache'[i][k] \in {None, table[k]}
           \/ pending'[i] # None /\ pending'[i].key = k,
         pending'[i] # None /\ pending'[i].key \notin unsure'[i]
           => pending'[i].flag
                = Target(table[pending'[i].key], pending'[i].update)
  PROVE  Coherent' /\ UpdatesBuildOnStored'
<1>1. ASSUME NEW j \in Instances, NEW k \in Keys, k \notin unsure'[j]
      PROVE  \/ cache'[j][k] \in {None, table[k]}
             \/ ~Free(j)' /\ pending'[j].key = k
  <2>1. CASE j # i
    BY <1>1, <2>1 DEF Coherent, Free
  <2>2. CASE j = i
    BY <1>1, <2>2 DEF Free
  <2>3. QED
    BY <2>1, <2>2
<1>2. ASSUME NEW j \in Instances, ~Free(j)', pending'[j].key \notin unsure'[j]
      PROVE  pending'[j].flag
               = Target(table[pending'[j].key], pending'[j].update)
  BY <1>2 DEF UpdatesBuildOnStored, Free
<1>3. QED
  BY <1>1, <1>2 DEF Coherent, UpdatesBuildOnStored

\* A step that writes, or fails to write, the flag k through instance i.
LEMMA WriteKeeps ==
  ASSUME FlagsTypeOK, Coherent, UpdatesBuildOnStored,
         NEW i \in Instances, NEW k \in Keys,
         \A j \in Instances \ {i} :
           cache'[j] = cache[j] /\ pending'[j] = pending[j],
         \A m \in Keys \ {k} :
           table'[m] = table[m] /\ cache'[i][m] = cache[i][m],
         \A j \in Instances : unsure'[j] \ {k} = unsure[j] \ {k},
         \A j \in Instances \ {i} :
           k \notin unsure'[j] => k \notin unsure[j] /\ table'[k] = table[k],
         k \notin unsure'[i] => cache'[i][k] \in {None, table'[k]},
         Free(i) \/ pending[i].key = k, Free(i)'
  PROVE  Coherent' /\ UpdatesBuildOnStored'
<1>1. ASSUME NEW j \in Instances, NEW m \in Keys, m \notin unsure'[j]
      PROVE  \/ cache'[j][m] \in {None, table'[m]}
             \/ ~Free(j)' /\ pending'[j].key = m
  <2>1. CASE j = i /\ m = k
    BY <1>1, <2>1
  <2>2. CASE j = i /\ m # k
    <3>1. m \notin unsure[j]
      BY <1>1, <2>2
    <3>2. QED
      BY <2>2, <3>1 DEF Coherent
  <2>3. CASE j # i
    <3>1. m \notin unsure[j] /\ table'[m] = table[m]
      BY <1>1, <2>3
    <3>2. QED
      BY <2>3, <3>1 DEF Coherent, Free
  <2>4. QED
    BY <2>1, <2>2, <2>3
<1>2. ASSUME NEW j \in Instances, ~Free(j)', pending'[j].key \notin unsure'[j]
      PROVE  pending'[j].flag
               = Target(table'[pending'[j].key], pending'[j].update)
  <2>1. j # i /\ pending'[j] = pending[j]
    BY <1>2
  <2>2. pending[j].key \in Keys
    BY <1>2, <2>1 DEF Free, FlagsTypeOK, Pending
  <2>3. /\ pending[j].key \notin unsure[j]
        /\ table'[pending[j].key] = table[pending[j].key]
    BY <1>2, <2>1, <2>2
  <2>4. QED
    BY <1>2, <2>1, <2>2, <2>3 DEF UpdatesBuildOnStored, Free
<1>3. QED
  BY <1>1, <1>2 DEF Coherent, UpdatesBuildOnStored

LEMMA ReadStep ==
  ASSUME FlagsTypeOK, Coherent, UpdatesBuildOnStored, NEW i \in Instances,
         \/ List(i) \/ Recycle(i)
         \/ \E k \in Keys : Evaluate(i, k) \/ BeginUpdate(i, k)
  PROVE  Coherent' /\ UpdatesBuildOnStored'
<1>1. CASE List(i)
  <2>1. PICK found \in [Keys -> Flag \cup {None}] :
          /\ cache' = [cache EXCEPT ![i] =
               [k \in Keys |-> IF found[k] # None THEN found[k] ELSE cache[i][k]]]
          /\ unsure' = [unsure EXCEPT ![i] = {k \in Keys : Misled(i, k, found[k])}]
    <3>1. PICK lagging \in SUBSET Keys :
            LET found == [k \in Keys |-> IF k \in lagging THEN replica[k] ELSE table[k]]
            IN /\ cache' = [cache EXCEPT ![i] =
                    [k \in Keys |-> IF found[k] # None THEN found[k] ELSE cache[i][k]]]
               /\ unsure' = [unsure EXCEPT ![i] = {k \in Keys : Misled(i, k, found[k])}]
      BY <1>1 DEF List
    <3>2. [k \in Keys |-> IF k \in lagging THEN replica[k] ELSE table[k]]
            \in [Keys -> Flag \cup {None}]
      BY DEF FlagsTypeOK
    <3>3. QED
      BY <3>1, <3>2
  <2>2. Free(i) /\ pending'[i] = None /\ UNCHANGED <<table, pending>>
    BY <1>1 DEF List, Free
  <2>3. ASSUME NEW k \in Keys, k \notin unsure'[i]
        PROVE  cache'[i][k] \in {None, table[k]}
    <3>1. ~Misled(i, k, found[k])
      BY <2>1, <2>3 DEF FlagsTypeOK
    <3>2. cache'[i][k] = IF found[k] # None THEN found[k] ELSE cache[i][k]
      BY <2>1 DEF FlagsTypeOK
    <3>3. QED
      BY <2>2, <3>1, <3>2 DEF Misled, Coherent
  <2>4. \A j \in Instances \ {i} :
          cache'[j] = cache[j] /\ pending'[j] = pending[j] /\ unsure'[j] = unsure[j]
    BY <2>1, <2>2 DEF FlagsTypeOK
  <2>5. QED
    BY <2>2, <2>3, <2>4, ReadKeeps
<1>2. CASE Recycle(i)
  <2>1. \A k \in Keys : cache'[i][k] = None
    BY <1>2 DEF Recycle, FlagsTypeOK, EmptyCache
  <2>2. \A j \in Instances \ {i} :
          cache'[j] = cache[j] /\ pending'[j] = pending[j] /\ unsure'[j] = unsure[j]
    BY <1>2 DEF Recycle, FlagsTypeOK
  <2>3. pending'[i] = None /\ UNCHANGED table
    BY <1>2 DEF Recycle, FlagsTypeOK
  <2>4. QED
    BY <2>1, <2>2, <2>3, ReadKeeps
<1>3. ASSUME NEW k \in Keys, NEW found \in MayFind(i, k),
             NEW flag \in Flag \cup {None}, Free(i), Get(i, k, found, flag)
      PROVE  /\ \A m \in Keys \ {k} : m \notin unsure'[i] =>
                  cache'[i][m] \in {None, table[m]}
             /\ k \notin unsure'[i] =>
                  found = table[k] /\ cache'[i][k] \in {None, table[k], flag}
             /\ \A j \in Instances \ {i} :
                  cache'[j] = cache[j] /\ unsure'[j] = unsure[j]
  <2>1. ASSUME NEW m \in Keys \ {k}, m \notin unsure'[i]
        PROVE  cache'[i][m] \in {None, table[m]}
    <3>1. m \notin unsure[i]
      BY <1>3, <2>1 DEF Get, FlagsTypeOK
    <3>2. cache'[i][m] = cache[i][m]
      BY <1>3, <2>1 DEF Get, FlagsTypeOK
    <3>3. QED
      BY <1>3, <3>1, <3>2 DEF Coherent
  <2>2. ASSUME k \notin unsure'[i]
        PROVE  found = table[k] /\ cache'[i][k] \in {None, table[k], flag}
    <3>1. found = table[k]
      BY <1>3, <2>2, FindsStored DEF FlagsTypeOK
    <3>2. CASE found # None
      BY <1>3, <3>1, <3>2 DEF Get, FlagsTypeOK
    <3>3. CASE found = None
      <4>1. cache' = cache
        BY <1>3, <3>3 DEF Get
      <4>2. k \notin unsure[i]
        BY <1>3, <2>2, <3>3 DEF Get, Misled, FlagsTypeOK
      <4>3. QED
        BY <1>3, <3>1, <4>1, <4>2 DEF Coherent
    <3>4. QED
      BY <3>1, <3>2, <3>3
  <2>3. \A j \in Instances \ {i} : cache'[j] = cache[j] /\ unsure'[j] = unsure[j]
    BY <1>3 DEF Get, FlagsTypeOK
  <2>4. QED
    BY <2>1, <2>2, <2>3
<1>4. ASSUME NEW k \in Keys, Evaluate(i, k)
      PROVE  Coherent' /\ UpdatesBuildOnStored'
  <2>1. PICK found \in MayFind(i, k) : Get(i, k, found, found)
    BY <1>4 DEF Evaluate
  <2>2. Free(i) /\ pending'[i] = None /\ UNCHANGED <<table, pending>>
    BY <1>4 DEF Evaluate, Free
  <2>3. found \in Flag \cup {None}
    BY FoundOK
  <2>4. /\ \A m \in Keys \ {k} : m \notin unsure'[i] =>
             cache'[i][m] \in {None, table[m]}
        /\ k \notin unsure'[i] =>
             found = table[k] /\ cache'[i][k] \in {None, table[k], found}
        /\ \A j \in Instances \ {i} : cache'[j] = cache[j] /\ unsure'[j] = unsure[j]
    BY <1>3, <2>1, <2>2, <2>3
  <2>5. \A m \in Keys : m \notin unsure'[i] => cache'[i][m] \in {None, table[m]}
    BY <2>4
  <2>6. QED
    BY <2>2, <2>4, <2>5, ReadKeeps
<1>5. ASSUME NEW k \in Keys, BeginUpdate(i, k)
      PROVE  Coherent' /\ UpdatesBuildOnStored'
  <2>1. PICK found \in MayFind(i, k), u \in Updates :
          /\ Get(i, k, found, Target(found, u))
          /\ pending' = [pending EXCEPT ![i] =
               [key |-> k, update |-> u, flag |-> Target(found, u)]]
    BY <1>5 DEF BeginUpdate
  <2>2. found \in Flag \cup {None} /\ Target(found, u) \in Flag
    BY FoundOK, TargetOK, FlagsAssumption
  <2>3. pending'[i] = [key |-> k, update |-> u, flag |-> Target(found, u)]
        /\ \A j \in Instances \ {i} : pending'[j] = pending[j]
    BY <2>1 DEF FlagsTypeOK
  <2>4. pending'[i] # None
    BY <2>2, <2>3, FlagsAssumption
  <2>5. Free(i) /\ UNCHANGED table
    BY <1>5 DEF BeginUpdate
  <2>6. /\ \A m \in Keys \ {k} : m \notin unsure'[i] =>
             cache'[i][m] \in {None, table[m]}
        /\ k \notin unsure'[i] =>
             /\ found = table[k]
             /\ cache'[i][k] \in {None, table[k], Target(found, u)}
        /\ \A j \in Instances \ {i} : cache'[j] = cache[j] /\ unsure'[j] = unsure[j]
    BY <1>3, <2>1, <2>2, <2>5
  <2>7. /\ pending'[i].key = k /\ pending'[i].update = u
        /\ pending'[i].flag = Target(found, u)
    BY <2>3
  <2>8. \A m \in Keys : m \notin unsure'[i] =>
          \/ cache'[i][m] \in {None, table[m]}
          \/ pending'[i] # None /\ pending'[i].key = m
    BY <2>4, <2>6, <2>7
  <2>9. QED
    BY <2>3, <2>5, <2>6, <2>7, <2>8, ReadKeeps
<1>6. QED
  BY <1>1, <1>2, <1>4, <1>5

LEMMA WriteStep ==
  ASSUME FlagsTypeOK, Coherent, UpdatesBuildOnStored, NEW i \in Instances,
         \/ SaveFlag(i) \/ SaveFails(i)
         \/ \E k \in Keys : DeleteFlag(i, k) \/ DeleteFails(i, k)
  PROVE  Coherent' /\ UpdatesBuildOnStored'
<1>1. ASSUME NEW k \in Keys, Wrote(i, k)
      PROVE  /\ \A j \in Instances : unsure'[j] \ {k} = unsure[j] \ {k}
             /\ \A j \in Instances \ {i} : k \in unsure'[j]
  BY <1>1 DEF Wrote
<1>2. ASSUME NEW k \in Keys, NEW misled, Failed(misled, k)
      PROVE  \A j \in Instances :
               /\ unsure'[j] \ {k} = unsure[j] \ {k}
               /\ j \in misled => k \in unsure'[j]
               /\ k \notin unsure'[j] => k \notin unsure[j] /\ table'[k] = table[k]
  BY <1>2 DEF Failed
<1>3. CASE SaveFlag(i)
  <2> DEFINE k == pending[i].key
  <2>1. k \in Keys
    BY <1>3 DEF SaveFlag, Free, FlagsTypeOK, Pending
  <2>2. Free(i)' /\ \A j \in Instances \ {i} :
                      cache'[j] = cache[j] /\ pending'[j] = pending[j]
    BY <1>3 DEF SaveFlag, Free, FlagsTypeOK
  <2>3. \A m \in Keys \ {k} : table'[m] = table[m] /\ cache'[i][m] = cache[i][m]
    BY <1>3 DEF SaveFlag, FlagsTypeOK
  <2>4. cache'[i][k] = table'[k]
    BY <1>3, <2>1 DEF SaveFlag, FlagsTypeOK
  <2>5. /\ \A j \in Instances : unsure'[j] \ {k} = unsure[j] \ {k}
        /\ \A j \in Instances \ {i} : k \in unsure'[j]
    BY <1>1, <1>3, <2>1 DEF SaveFlag
  <2> HIDE DEF k
  <2>6. Free(i) \/ pending[i].key = k
    BY DEF k
  <2>7. QED
    BY <2>1, <2>2, <2>3, <2>4, <2>5, <2>6, WriteKeeps
<1>4. CASE SaveFails(i)
  <2> DEFINE k == pending[i].key
  <2>1. k \in Keys
    BY <1>4 DEF SaveFails, Free, FlagsTypeOK, Pending
  <2>2. Free(i)' /\ \A j \in Instances \ {i} :
                      cache'[j] = cache[j] /\ pending'[j] = pending[j]
    BY <1>4 DEF SaveFails, Free, FlagsTypeOK
  <2>3. \A m \in Keys \ {k} : table'[m] = table[m] /\ cache'[i][m] = cache[i][m]
    BY <1>4 DEF SaveFails, FlagsTypeOK
  <2>4. \A j \in Instances :
          /\ unsure'[j] \ {k} = unsure[j] \ {k}
          /\ j \in {i} => k \in unsure'[j]
          /\ k \notin unsure'[j] => k \notin unsure[j] /\ table'[k] = table[k]
    <3>1. Failed({i}, k)
      BY <1>4 DEF SaveFails
    <3>2. QED
      BY <1>2, <2>1, <3>1
  <2> HIDE DEF k
  <2>5. Free(i) \/ pending[i].key = k
    BY DEF k
  <2>6. QED
    BY <2>1, <2>2, <2>3, <2>4, <2>5, WriteKeeps
<1>5. ASSUME NEW k \in Keys, DeleteFlag(i, k)
      PROVE  Coherent' /\ UpdatesBuildOnStored'
  <2>1. Free(i) /\ Free(i)'
        /\ \A j \in Instances \ {i} :
             cache'[j] = cache[j] /\ pending'[j] = pending[j]
    BY <1>5 DEF DeleteFlag, Free, FlagsTypeOK
  <2>2. \A m \in Keys \ {k} : table'[m] = table[m] /\ cache'[i][m] = cache[i][m]
    BY <1>5 DEF DeleteFlag, FlagsTypeOK
  <2>3. cache'[i][k] = None
    BY <1>5 DEF DeleteFlag, Forgotten, FlagsTypeOK
  <2>4. /\ \A j \in Instances : unsure'[j] \ {k} = unsure[j] \ {k}
        /\ \A j \in Instances \ {i} : k \in unsure'[j]
    BY <1>1, <1>5 DEF DeleteFlag
  <2>5. QED
    BY <2>1, <2>2, <2>3, <2>4, WriteKeeps
<1>6. ASSUME NEW k \in Keys, DeleteFails(i, k)
      PROVE  Coherent' /\ UpdatesBuildOnStored'
  <2>1. Free(i) /\ Free(i)'
        /\ \A j \in Instances \ {i} :
             cache'[j] = cache[j] /\ pending'[j] = pending[j]
    BY <1>6 DEF DeleteFails, Free, FlagsTypeOK
  <2>2. \A m \in Keys \ {k} : table'[m] = table[m] /\ cache'[i][m] = cache[i][m]
    BY <1>6 DEF DeleteFails, FlagsTypeOK
  <2>3. \A j \in Instances :
          /\ unsure'[j] \ {k} = unsure[j] \ {k}
          /\ j \in {} => k \in unsure'[j]
          /\ k \notin unsure'[j] => k \notin unsure[j] /\ table'[k] = table[k]
    <3>1. Failed({}, k)
      BY <1>6 DEF DeleteFails
    <3>2. QED
      BY <1>2, <3>1
  <2>4. k \notin unsure'[i] => cache'[i][k] \in {None, table'[k]}
    <3>1. cache' = cache
      BY <1>6 DEF DeleteFails
    <3>2. QED
      BY <2>1, <2>3, <3>1 DEF Coherent
  <2>5. QED
    BY <2>1, <2>2, <2>3, <2>4, WriteKeeps
<1>7. QED
  BY <1>3, <1>4, <1>5, <1>6

\* An update takes back nothing, unless its instance was misled since it was
\* last answered with the stored flag or wrote it: by a change through another
\* instance, by a write that failed, or by an outdated answer of the table.
THEOREM OnlyMisledUpdatesRevert == FlagsSpec => []UpdatesBuildOnStored
<1>1. FlagsInit => Coherent /\ UpdatesBuildOnStored
  BY DEF FlagsInit, Coherent, UpdatesBuildOnStored, EmptyCache, Free
<1>2. FlagsTypeOK /\ Coherent /\ UpdatesBuildOnStored /\ [FlagsNext]_flagsVars
        => Coherent' /\ UpdatesBuildOnStored'
  <2> SUFFICES ASSUME FlagsTypeOK, Coherent, UpdatesBuildOnStored,
                      [FlagsNext]_flagsVars
               PROVE  Coherent' /\ UpdatesBuildOnStored'
    OBVIOUS
  <2>1. CASE UNCHANGED flagsVars \/ Tick \/ \E k \in Keys : Replicate(k)
    BY <2>1 DEF flagsVars, Tick, Replicate, Coherent, UpdatesBuildOnStored, Free
  <2>2. QED
    BY <2>1, ReadStep, WriteStep DEF FlagsNext
<1>3. QED
  BY <1>1, <1>2, TypeCorrect, PTL DEF FlagsSpec
=============================================================================
