---- MODULE MCTaskQ ----
(* The task queue alone, under every order of calls its callers can make. *)
EXTENDS TaskQ, TLC

====
