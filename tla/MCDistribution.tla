--------------------------- MODULE MCDistribution ---------------------------
(* A policy, its successor, a rollback to the first with and without an       *)
(* authorization, a second document under a version and under a sequence      *)
(* already used, a candidate that is not healthy, and one a new root signs.   *)
EXTENDS Distribution, TLC

Release(v, d, seq, b) ==
  [ sound |-> TRUE, healthy |-> TRUE, roots |-> Roots,
    versions |-> [role \in Roles |-> v],
    digests |-> [role \in Roles |-> d],
    expires |-> [role \in Roles |-> IF role = "timestamp" THEN 2 ELSE 4],
    bundle |-> b, seq |-> seq, issued |-> 0, targetExpires |-> 4,
    rollback |-> Unset ]

First == Release(1, 1, 1, "b1")

Second == Release(2, 2, 2, "b2")

RollbackToFirst ==
  [Release(3, 3, 1, "b1") EXCEPT
     !.rollback = [from |-> 2, to |-> 1, bundle |-> "b1",
                   issued |-> 0, expires |-> 3, minimum |-> 1]]

Unauthorized == Release(4, 4, 1, "b1")

SameVersion == Release(2, 5, 3, "b3")

SameSequence == Release(4, 6, 2, "b3")

Unhealthy == [Release(4, 7, 3, "b3") EXCEPT !.healthy = FALSE]

NewRootOnly == [Release(5, 8, 3, "b3") EXCEPT !.roots = {2}]

Tampered == [Release(5, 9, 4, "b3") EXCEPT !.sound = FALSE]

MCReleases ==
  {First, Second, RollbackToFirst, Unauthorized, SameVersion, SameSequence,
   Unhealthy, NewRootOnly, Tampered}

MCRootExpires == [v \in Roots |-> IF v = 1 THEN 3 ELSE 4]
=============================================================================
