------------------------- MODULE MCFeatureFlagStore -------------------------
(* Model values and request bodies to check FeatureFlagStore with.          *)
EXTENDS FeatureFlagStore, TLC

CONSTANTS user1, session1, tenant1

OneUser == {user1}
OneTenant == {tenant1}
OneSession == {session1}

\* The user falls into a low bucket of every flag, the session into a high one.
TwoBuckets == [k \in Keys |-> [id \in Ids |-> IF id \in Users THEN 10 ELSE 60]]

PutBody(enabled, percentage) ==
  [enabled |-> enabled, percentage |-> percentage, users |-> None,
   disabledUsers |-> None, tenants |-> None, disabledTenants |-> None]

\* A rollout step, and a list given without a percentage to change.
FewUpdates ==
  {PutBody(FALSE, 70), [PutBody(FALSE, -1) EXCEPT !.disabledUsers = {user1}]}

RolledOut(percentage) ==
  {[NewFeatureFlag(FALSE) EXCEPT !.percentage = percentage]}

HalfRolledOut == RolledOut(20)

\* The steps of the rollout guide in docs/FEATURE_FLAGS.md.
GuideUpdates == {PutBody(FALSE, p) : p \in {5, 25, 50, 100}}

NothingStored == {}

\* A later start, reached when the flags were stored, replicated and listed.
InitListed ==
  /\ table \in [Keys -> Stored] /\ replica = table
  /\ cache = [i \in Instances |-> table]
  /\ ttl = [i \in Instances |-> TTL]
  /\ pending = [i \in Instances |-> None]
  /\ unsure = [i \in Instances |-> {}]

\* From there on, and no write fails.
QuietSpec ==
  /\ InitListed
  /\ [][/\ FlagsNext
        /\ \A i \in Instances :
             ~SaveFails(i) /\ \A k \in Keys : ~DeleteFails(i, k)]_flagsVars
=============================================================================
