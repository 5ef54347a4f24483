------------------------------- MODULE MCRosa -------------------------------
(* Small instances of Rosa for TLC. *)
EXTENDS Rosa, TLC

CONSTANTS u1, c1, c2, s1, s2, w1, w2

Owners == [c \in Clusters |-> u1]

Same == Permutations(Clusters) \cup Permutations(Syncs)

\* Bound: a behaviour has one request, or two that are followed while their
\* clusters install and one rosaSync works at a time.
OneOrYoung ==
    \/ \E c \in Clusters : \A d \in Clusters \ {c} : create[d] = "none"
    \/ /\ expired = {}
       /\ \A c \in Clusters : ocm[c] \in {"none", "installing"}
       /\ \E s \in Syncs : \A r \in Syncs \ {s} : sync[r] = Idle
=============================================================================
