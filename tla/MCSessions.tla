---- MODULE MCSessions ----
EXTENDS Sessions, TLC
====
