---- MODULE MCSyncMutex ----
(* Two connections, the first with two calls of its own, and a lock b that clients
   also unlock when they do not hold it. *)
EXTENDS SyncMutex, TLC

CONSTANTS w1, w2, c1, c2, c3

MCOwnerOf == (c1 :> w1) @@ (c2 :> w1) @@ (c3 :> w2)
====
