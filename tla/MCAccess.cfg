SPECIFICATION Spec
CONSTANTS
  a = a
  b = b
  home = home
  other = other
  Tenants = {home, other}
  Home = home
  Window = 1
  TenantLimit = 1
  LoginTenantLimit = 2
  LoginGlobalLimit = 3
  MaxTime = 4
  MaxAsks = 7
  Tabs = {a, b}
  Lifetime = 0
  Errands = {"sessions", "limits"}
  MaxCalls = 4
  MaxSessionTime = 1
SYMMETRY TabsAlike
INVARIANTS
  TypeOK
  SessionsSingle
  StoredLive
  WindowsBounded
CHECK_DEADLOCK FALSE
