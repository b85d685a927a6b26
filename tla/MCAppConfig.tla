---- MODULE MCAppConfig ----
(* Three uploads, the archive of the last is shorter. *)
EXTENDS AppConfig, TLC

CONSTANTS u1, u2, u3

MCSize == u1 :> 2 @@ u2 :> 2 @@ u3 :> 1
====
