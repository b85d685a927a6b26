---- MODULE MCConfig ----
(* Uploads that bring a store with a migration, one of them next to the stores there are. *)
EXTENDS Config, TLC

CONSTANTS u1, u2, s1, s2

MCVersion == Initial :> (s1 :> 1) @@ u1 :> (s1 :> 2 @@ s2 :> 1) @@ u2 :> (s2 :> 1)
             @@ Empty :> <<>> @@ Torn :> <<>>
====
