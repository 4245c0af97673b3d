\* Two clients, one user, one code with three rows of tokens, two requests.
SPECIFICATION Spec
CONSTANTS
  None = None
  Clients = {c1, c2}
  Uris = {u1}
  Subjects = {s1}
  Verifiers = {v1, v2}
  Origins = {o1}
  Codes = {k1}
  Tokens = {t1, t2, t3}
  Requests = {r1, r2}
  CodeTTL = 1
  AccessTTL = 1
  RefreshTTL = 1
  MaxClock = 1
  MaxFaults = 1
INVARIANTS OneLivePerGrant SpentIsIssued GrantKept
SYMMETRY Symmetry
