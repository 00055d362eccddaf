CONSTANTS
  job = job
  preload = preload
  server = server
  flash = flash
  Local = Local
  NoConn = NoConn
  Workers = {job, preload}
  Preloaders = {preload}
  Conns = {Local, server}
  Tiers = {flash}
SPECIFICATION Spec
INVARIANTS LeasesGuardTheProcess UpdatesComeBetweenCalls
CHECK_DEADLOCK FALSE
