CONSTANTS
  paddle = paddle
  mineru = mineru
  s1 = s1
  s2 = s2
  s3 = s3
  NotBuilt = NotBuilt
  Unset = Unset
  Children <- PaddleThenMinerU
  Snapshots = {s1, s2, s3}
  Refusers = {paddle, mineru}
  Recorders = {paddle}
  Validators = {mineru}
  Router = paddle
  engine = engine
  fallback = fallback
  Leaves <- EngineThenFallback
  t1 = t1
  t2 = t2
  Calls = {t1, t2}
SPECIFICATION RoutedSpec
SYMMETRY Symmetry
INVARIANTS AcknowledgedIsDurable SettingsInEffect LeavesFollow
CHECK_DEADLOCK FALSE
