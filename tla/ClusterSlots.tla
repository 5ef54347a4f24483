---------------------------- MODULE ClusterSlots ----------------------------
(***************************************************************************)
(* What the job manager promises about clusters, without saying how: a     *)
(* cluster takes one of a limited number of slots, an owner holds at most  *)
(* one of them, and a cluster that has given its slot back never gets one  *)
(* again. Slots may be given back several at a time and at any time.       *)
(***************************************************************************)
EXTENDS Naturals, FiniteSets

CONSTANTS Clusters, OwnedBy, Limit

VARIABLES
    held,   \* the clusters that have a slot
    taken   \* the clusters that have ever been asked for

vars == <<held, taken>>

Init == held = {} /\ taken = {}

\* A new cluster gets a slot.
Take(c) == /\ c \notin taken
           /\ \A d \in held : OwnedBy[d] # OwnedBy[c]
           /\ Cardinality(held) < Limit
           /\ held' = held \cup {c}
           /\ taken' = taken \cup {c}

\* A cluster is asked for and gets no slot.
Refuse(c) == c \notin taken /\ taken' = taken \cup {c} /\ UNCHANGED held

\* Clusters end or are given up.
Release == held' \in SUBSET held /\ UNCHANGED taken

Next == (\E c \in Clusters : Take(c) \/ Refuse(c)) \/ Release

Spec == Init /\ [][Next]_vars
=============================================================================
