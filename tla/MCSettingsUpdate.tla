--------------------------- MODULE MCSettingsUpdate ---------------------------
EXTENDS EngineRouting, TLC
CONSTANTS paddle, mineru, s1, s2, s3, engine, fallback, t1, t2

PaddleThenMinerU == <<paddle, mineru>>
EngineThenFallback == <<engine, fallback>>
Symmetry == Permutations(Snapshots) \cup Permutations(Calls)
===============================================================================
