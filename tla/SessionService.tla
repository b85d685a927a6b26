---- MODULE SessionService ----
(***************************************************************************)
(* What the session store promises to the rest of blank-one: an identifier *)
(* is given to one session, a session is valid from its creation until it  *)
(* is deleted or expires, and a restart may lose sessions and may bring    *)
(* back deleted ones.                                                      *)
(***************************************************************************)
EXTENDS Naturals

CONSTANT Keys

VARIABLES issued,  \* identifiers given to a session so far
          valid,   \* those a token of which is accepted
          lives    \* restarts of the process

vars == <<issued, valid, lives>>

Init == issued = {} /\ valid = {} /\ lives = 0

Create(k) == /\ k \notin issued
             /\ issued' = issued \cup {k}
             /\ valid' = valid \cup {k}
             /\ UNCHANGED lives

(* Deleted, or expired. *)
End(k) == /\ k \in valid
          /\ valid' = valid \ {k}
          /\ UNCHANGED <<issued, lives>>

Restart == /\ \E K \in SUBSET issued : valid' = K
           /\ lives' = lives + 1
           /\ UNCHANGED issued

Next == (\E k \in Keys : Create(k) \/ End(k)) \/ Restart

Spec == Init /\ [][Next]_vars
====
