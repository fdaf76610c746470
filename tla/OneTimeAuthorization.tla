------------------------ MODULE OneTimeAuthorization ------------------------
(***************************************************************************)
(* What an approval promises (docs/APPROVAL_MODEL.md: "a one-time          *)
(* authorization for one already-decided action"), with no store, clock,   *)
(* lock or process: a token is drawn, may be authorized once, may be spent *)
(* once if it was authorized, and may be voided until it is spent.         *)
(***************************************************************************)
CONSTANT Tokens

VARIABLE auth

States == {"undrawn", "held", "authorized", "spent", "void"}

Init == auth = [t \in Tokens |-> "undrawn"]

\* No more than one token moves in a step, but for Void: a sweep voids many.
Move(t, from, to) ==
  /\ auth[t] = from
  /\ auth' = [auth EXCEPT ![t] = to]

Draw(t) == Move(t, "undrawn", "held")

Authorize(t) == Move(t, "held", "authorized")

Spend(t) == Move(t, "authorized", "spent")

Void(S) ==
  /\ \A t \in S : auth[t] \in {"held", "authorized"}
  /\ auth' = [t \in Tokens |-> IF t \in S THEN "void" ELSE auth[t]]

Next ==
  \/ \E t \in Tokens : Draw(t) \/ Authorize(t) \/ Spend(t)
  \/ \E S \in SUBSET Tokens : Void(S)

Spec == Init /\ [][Next]_auth
=============================================================================
