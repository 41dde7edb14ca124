SPECIFICATION MCSpec
CONSTANTS
  r1 = r1
  r2 = r2
  p = p
  q = q
  away = away
  first = first
  second = second
  v = v
  w = w
  Places = {p, q, away}
  Values = {v, w}
  Absent = Absent
  Resources = {r1, r2}
  Policies = {}
  RealmOf <- MCRealmOf
  Homes <- MCHomes
  MaxEvents = 0
INVARIANT AppliedEntriesExist
