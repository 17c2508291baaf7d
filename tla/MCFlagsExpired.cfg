\* Two flags that two instances have cached; no write fails.
SPECIFICATION QuietSpec
CONSTANTS
  Keys = {k1, k2}
  Instances = {i1, i2}
  user1 = user1
  session1 = session1
  tenant1 = tenant1
  Users <- OneUser
  Tenants <- OneTenant
  Sessions <- OneSession
  Anonymous = Anonymous
  None = None
  Bucket <- TwoBuckets
  Updates <- FewUpdates
  Stored <- HalfRolledOut
  TTL = 1
PROPERTY ExpiredAreReadAnew
