SPECIFICATION FairSpec
CONSTANTS
  r1 = r1
  r2 = r2
  a = a
  b = b
  c = c
  Realm = Realm
  client1 = client1
  client2 = client2
  Kinds = {"user_roles", "user_groups"}
  Items = {a, b, c}
  Container <- MCContainer
  Resources = {r1}
  Exhaustive = {r1}
  MaxFaults = 2
  MaxManual = 1
  MaxEdits = 2
INVARIANTS ApplyEffect DestroyEffect StepInv EffectInv
PROPERTIES RefinesContract Converges
