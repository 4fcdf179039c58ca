------------------------------ MODULE SingleUse ------------------------------
(***************************************************************************)
(* What a store of one-time permissions promises: a permission is offered, *)
(* approved and spent in this order, it may lapse before it is spent, and  *)
(* its holder acts on it at most once, after it was spent.                 *)
(***************************************************************************)
EXTENDS Naturals

CONSTANT Id                 \* the permissions that may ever be offered

VARIABLES phase,            \* phase of each permission
          uses              \* how often its holder has acted on it

vars == <<phase, uses>>

Phases == {"none", "offered", "approved", "spent", "lapsed"}

Init == /\ phase = [i \in Id |-> "none"]
        /\ uses = [i \in Id |-> 0]

Follows(a, b) == \/ a = b
                 \/ a = "none" /\ b = "offered"
                 \/ a = "offered" /\ b = "approved"
                 \/ a = "approved" /\ b = "spent"
                 \/ a \in {"offered", "approved"} /\ b = "lapsed"

\* One operation of the store may also drop what has expired.
Change == /\ phase' \in [Id -> Phases]
          /\ \A i \in Id : Follows(phase[i], phase'[i])
          /\ UNCHANGED uses

Act(i) == /\ phase[i] = "spent" /\ uses[i] = 0
          /\ uses' = [uses EXCEPT ![i] = 1]
          /\ UNCHANGED phase

Next == Change \/ \E i \in Id : Act(i)

Spec == Init /\ [][Next]_vars
==============================================================================
