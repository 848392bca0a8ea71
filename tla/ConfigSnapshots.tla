-------------------------- MODULE ConfigSnapshots ---------------------------
(***************************************************************************)
(* Signed config snapshots and the launcher's stored state.                *)
(*                                                                         *)
(* A snapshot is its content: the revision is a hash of everything in it   *)
(* but the device bucket, so equal revisions are equal contents.  A bucket *)
(* maps a path, certificate or package to the content or version wanted.   *)
(***************************************************************************)
EXTENDS Naturals

CONSTANTS
  Snapshot,        \* the snapshots an administrator publishes
  Item,            \* paths, certificate ids, package names
  Value,           \* file contents, certificates, version codes
  Content,         \* Content[s][b][i]: what snapshot s wants of item i
  None,
  MaxEnrollments   \* how many times the phone is enrolled

Bucket == {"files", "certificates", "apps"}

ASSUME ContentAssumption ==
  /\ Content \in [Snapshot -> [Bucket -> [Item -> Value \cup {None}]]]
  /\ None \notin Snapshot \cup Value

ASSUME MaxEnrollmentsAssumption == MaxEnrollments \in Nat

(* Device secrets, numbered in the order they are handed out. *)
Key == 1..MaxEnrollments

Signed == [snap : Snapshot, key : Key]

(* AgentState *)
AgentState ==
  [identity : Key \cup {None},
   cache    : Signed \cup {None},
   applied  : [Bucket -> Signed \cup {None}]]

EmptyState ==
  [identity |-> None, cache |-> None, applied |-> [b \in Bucket |-> None]]

(* What the revision of a bucket is compared by: certificateBucketVersion  *)
(* for certificates, the snapshot's revision otherwise.                    *)
Version(b, s) == IF b = "certificates" THEN Content[s][b] ELSE s

Wanted(b, s) == {i \in Item : Content[s][b][i] # None}

=============================================================================
