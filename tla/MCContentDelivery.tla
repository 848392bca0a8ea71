------------------------- MODULE MCContentDelivery --------------------------
EXTENDS ContentDelivery

CONSTANTS s1, s2, i1, i2, i3, v1, v2

TwoSnapshots == {s1, s2}
ThreeItems == {i1, i2, i3}
TwoValues == {v1, v2}

Nothing == [i \in ThreeItems |-> None]

(* As paths, i1 and i3 are two spellings of one file. *)
TwoFiles == [i \in ThreeItems |-> IF i = i3 THEN i1 ELSE i]

(* The second snapshot changes a file, writes the path of another          *)
(* differently, brings a certificate and replaces an app by another.       *)
Changing ==
  [s \in TwoSnapshots |->
     IF s = s1
     THEN [files |-> [Nothing EXCEPT ![i1] = v1, ![i2] = v1],
           certificates |-> Nothing,
           apps |-> [Nothing EXCEPT ![i1] = v1]]
     ELSE [files |-> [Nothing EXCEPT ![i2] = v2, ![i3] = v1],
           certificates |-> [Nothing EXCEPT ![i1] = v1],
           apps |-> [Nothing EXCEPT ![i2] = v1]]]

=============================================================================
