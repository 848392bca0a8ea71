------------------------------- MODULE MCKiosk ------------------------------
(* A kiosk that names the launcher, and one of an app with a smaller        *)
(* version.                                                                *)
EXTENDS Kiosk

CONSTANTS s1, s2, c1, c2, a1

Revs == [s \in {s1, s2} |-> IF s = s1 THEN 1 ELSE -1]
Policies ==
  [s \in {s1, s2} |->
     IF s = s1 THEN [kiosk |-> TRUE, code |-> c1, app |-> Launcher]
     ELSE [kiosk |-> TRUE, code |-> c2, app |-> a1]]
=============================================================================
