---- MODULE MCUdsServer ----
EXTENDS UdsServer, TLC
====
