--------------------------- MODULE MCPipelineCache ---------------------------
EXTENDS PipelineCache
CONSTANTS ocr, structure, vl
==============================================================================
