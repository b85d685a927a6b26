---- MODULE MCIntranet ----
EXTENDS Hub, TLC
====
