------------------------------ MODULE MCFleet -------------------------------
(* A small instance of Fleet for TLC. *)
EXTENDS Fleet, TLC

CONSTANTS d1, d2, d3

Models == [d \in Device |-> d]

(* A low level that the query reads, and one that only Go reads. *)
Low15 == [form |-> "number", value |-> 15]
Text15 == [form |-> "text", value |-> 15]
Levels == {Low15, Text15}

(* Reports of now, which name the sender or another device, one of the     *)
(* time before, and one of the time to come.                               *)
Bodies ==
  {[at |-> None, level |-> Low15, named |-> d] : d \in Device}
    \cup {[at |-> -1, level |-> Text15, named |-> None], [at |-> 2, level |-> None, named |-> None]}

(* The last of these days takes two ticks. *)
Midnights == {-1, 0, 2}

DeviceSymmetry == Permutations({d1, d2, d3})
=============================================================================
