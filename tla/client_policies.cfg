SPECIFICATION MCFairSpec
CONSTANTS
  r1 = r1
  r2 = r2
  p = p
  q = q
  away = away
  first = first
  second = second
  v = v
  w = w
  Places = {p, q, away}
  Values = {v, w}
  Absent = Absent
  Resources = {r1, r2}
  Policies = {r1, r2}
  RealmOf <- MCRealmOf
  Homes <- MCHomes
  MaxEvents = 2
INVARIANTS EntriesKnown
PROPERTIES OthersOnlyRolledBack LostUpdatesHeal
