--------------------------- MODULE MCProjectView ---------------------------
EXTENDS ProjectView
=============================================================================
