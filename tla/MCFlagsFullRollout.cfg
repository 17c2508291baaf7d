\* One flag, raised step by step to 100 percent.
SPECIFICATION FlagsSpec
CONSTANTS
  Keys = {k1}
  Instances = {i1}
  user1 = user1
  session1 = session1
  tenant1 = tenant1
  Users <- OneUser
  Tenants <- OneTenant
  Sessions <- OneSession
  Anonymous = Anonymous
  None = None
  Bucket <- TwoBuckets
  Updates <- GuideUpdates
  Stored <- NothingStored
  TTL = 1
PROPERTY FullRolloutShrinksNothing
