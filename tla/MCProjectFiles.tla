-------------------------- MODULE MCProjectFiles --------------------------
EXTENDS ProjectFiles
CONSTANTS t1, t2, s1
\* The server with its event channels; the process of a tool or a task.
Server == {t1, s1}
Tool == {t2}
MCProcesses == {Server, Tool}
=============================================================================
