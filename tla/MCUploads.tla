----------------------------- MODULE MCUploads ------------------------------
(* Small instances of Uploads for TLC. *)
EXTENDS Uploads, TLC

CONSTANTS j1, j2, k1, c1, c2, p1, p2, path1, seed

Blank == [kind |-> "file", body |-> TRUE, sum |-> c1, key |-> k1, name |-> "n", path |-> path1,
          vars |-> FALSE, pkg |-> p1, code |-> 1, target |-> None, art |-> None, publish |-> TRUE]

(* Everything that carries a payload; versions are named after it. *)
Payloads ==
  {[Blank EXCEPT !.kind = k] : k \in {"file", "cert", "managed"}}
  \cup {[Blank EXCEPT !.kind = k, !.sum = c2] : k \in {"file", "certApi"}}
  \cup {[Blank EXCEPT !.kind = "managed", !.sum = c2, !.vars = TRUE]}
  \cup {[Blank EXCEPT !.kind = "app", !.sum = c, !.name = c] : c \in Content}
  \cup {[Blank EXCEPT !.kind = "publish", !.sum = c, !.name = c, !.target = i] :
           c \in Content, i \in AppId}
(* Payloads of the API for keys the dashboard made, the same or another.   *)
Intruders == {[Blank EXCEPT !.kind = k, !.sum = c, !.key = i, !.name = c] :
                k \in {"file", "certApi"}, c \in Content, i \in Job}
(* Rows without a payload, and links to the rows of other requests. *)
Links == {[Blank EXCEPT !.kind = "file", !.body = FALSE, !.key = k] : k \in Key}
         \cup {[Blank EXCEPT !.kind = "bind", !.target = i] : i \in Job}
         \cup {[Blank EXCEPT !.kind = "version", !.target = i, !.art = a, !.code = 2] :
                 i \in Job, a \in Job}
         \cup {[Blank EXCEPT !.kind = "versionApi", !.target = i, !.publish = FALSE, !.sum = c2] :
                 i \in Job}
AllRequests == Payloads \cup Intruders \cup Links
JobSymmetry == Permutations({j1, j2})
=============================================================================
