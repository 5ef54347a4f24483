---------------------------- MODULE MCJobManager ----------------------------
(* Small instances of JobManager for TLC. *)
EXTENDS JobManager, TLC

CONSTANTS u1, j1, j2

\* One user owns every job.
OneUser == [j \in Jobs |-> u1]

\* The state without the ghosts, for properties that do not read them.
NoGhosts == <<botVars, restarts, used, prowVars>>

\* Bound: a behaviour has a restart or a cluster at its age limit, not both.
RestartOrAge == restarts = 0 \/ \A j \in Jobs : passed[j] = {}

\* The two clusters of the first user may be exchanged.
SameUser == Permutations({j1, j2})
=============================================================================
