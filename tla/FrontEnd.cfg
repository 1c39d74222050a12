\* Two requests of every kind, of two clients, directly or behind a proxy of
\* every kind whose headers are trusted, with and without credentials.
CONSTANTS
  r1 = r1  r2 = r2  c1 = c1  c2 = c2  proxy = proxy  own = own  foreign = foreign  none = none
  Clients = {c1, c2}  Proxy = proxy  NoOrigin = none  Origins = {own, foreign}  AllowedOrigins = {own}
  Requests = {r1, r2}
  Inputs <- EveryVariant
  Configs <- EveryConfig
  RateLimit = TRUE  RateBurst = 1  MaxRefills = 1
SPECIFICATION Spec
CHECK_DEADLOCK FALSE
SYMMETRY SymRequests
INVARIANTS
  EffectsAuthorized
  LimitedPerClient
