--------------------------- MODULE MCProbeFlight ---------------------------
EXTENDS ProbeFlight

CONSTANTS decision, metadata, start, movie, show
=============================================================================
