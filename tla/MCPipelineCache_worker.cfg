CONSTANTS
  ocr = ocr
  structure = structure
  vl = vl
  NoPipeline = NoPipeline
  Pipelines = {ocr, structure, vl}
  Heavy = {structure, vl}
  MaxHeavy = 1
SPECIFICATION FairSpec
INVARIANTS HeavyModelsFit ModelInUseStays
PROPERTIES IdleModelsGo
CHECK_DEADLOCK FALSE
