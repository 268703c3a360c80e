SPECIFICATION StartupSpec
CONSTANTS
  NApps = 3
  db = db
  www = www
  job = job
  ghost = ghost
  main = main
  more = more
  web = web
  batch = batch
  none = none
  x = x
  y = y
  z = z
  p = p
  q = q
  r = r
  Id = {db, www, job, ghost}
  GroupName = {web, batch, none}
  InitName = {main, more}
  LimitName = {"small", "large", "huge", "strange", "none"}
  Var = {x, y, z}
  Val = {p, q, r}
  Infinity = Infinity
  Mega = 4
  Word = 16
  CheckLine = {"good", "bad"}
  BadLine = {"bad"}
  Own <- TheOwn
  Files <- TheFiles
INVARIANTS TypeOK LoopInvariant SetupIsRight RefusedIffBroken LoadedAsWritten LimitsAreLeast EnvIsLayered
PROPERTY StartupEnds
