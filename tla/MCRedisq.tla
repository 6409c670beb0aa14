------------------------------ MODULE MCRedisq ------------------------------
(* Values for the constants of Redisq that a .cfg file cannot write.        *)
EXTENDS Redisq

CONSTANTS j1, j2

\* Nothing under the pre-upgrade shared key, or one payload of an old job.
NoLeft == <<>>
OneLeft == <<[job |-> j2, attempts |-> 0]>>

\* One trouble in a behaviour: a missed heartbeat, or a command that fails.
OneTrouble == faults + stalls <= 1

\* Replicas are interchangeable.
ReplicaSymmetry == Permutations(Instances)
=============================================================================
