---- MODULE MCInternet ----
(* One request of any route next to an upload or a logout. *)
EXTENDS Internet, TLC

CONSTANTS r1, r2

MCOffers == r1 :> Routes @@ r2 :> {"postFile", "logout"}
====
