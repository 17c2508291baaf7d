--------------------------- MODULE MCShellLoader ---------------------------
(* Settings to check ShellLoader with.                                      *)
EXTENDS ShellLoader

Settings(retries, fallback) == [retries |-> retries, fallback |-> fallback]

Defaults == Settings(1, TRUE)
Custom == {Settings(0, FALSE)}

OwnOptions == [h \in Hooks |-> Settings(0, TRUE)]
NoOptions == [h \in Hooks |-> None]
=============================================================================
