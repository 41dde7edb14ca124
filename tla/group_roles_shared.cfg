SPECIFICATION FairSpec
CONSTANTS
  r1 = r1
  r2 = r2
  a = a
  b = b
  c = c
  Realm = Realm
  client1 = client1
  client2 = client2
  Kinds = {"group_roles"}
  Items = {a, b}
  Container <- MCContainer
  Resources = {r1, r2}
  Exhaustive = {}
  MaxFaults = 1
  MaxManual = 0
  MaxEdits = 1
INVARIANTS ApplyEffect
PROPERTIES RefinesContract Converges
