------------------------------ MODULE JobQueue ------------------------------
(***************************************************************************)
(* The contract behind the Queue interface (internal/queue/queue.go): what  *)
(* both drivers promise about one job, with nothing of how they keep it.    *)
(* "Swapping drivers via config must be behavior-preserving": Memq and      *)
(* Redisq are shown to implement this one specification.                    *)
(*                                                                          *)
(* A job the queue has taken is owed until a handler that was given it      *)
(* acks it or it is dead-lettered.  A handler that asks for a retry hands   *)
(* it back with one more attempt on it, MaxRetries times at most.  The      *)
(* drivers differ in two ways, which Redelivers tells apart: the one that   *)
(* is durable never gives an owed job up but may run it again, also after   *)
(* it has settled; the other runs it once per attempt, and a Close may give *)
(* it up as long as it says so.                                             *)
(***************************************************************************)
EXTENDS Naturals

CONSTANTS
    Jobs,
    Slots,       \* whoever runs handlers: the workers of all replicas
    MaxRetries,  \* cfg.MaxRetries
    Redelivers   \* at least once (Redis) or at most once per attempt (memory)

VARIABLES
    fate,        \* what has become of each job
    tries,       \* attempts charged to an owed job
    hands,       \* the slots that have the job
    closing      \* Close has been called

qvars == <<fate, tries, hands, closing>>

\* A durable queue may owe jobs already, with the runs they have had.
Init ==
    /\ fate \in [Jobs -> {"outside", "owed"}]
    /\ tries \in [Jobs -> 0..MaxRetries]
    /\ \A j \in Jobs : fate[j] = "outside" => tries[j] = 0
    /\ hands = [j \in Jobs |-> {}]
    /\ closing = FALSE

\* Enqueue succeeds (or its answer is lost).
Accept(j) ==
    /\ fate[j] = "outside"
    /\ fate' = [fate EXCEPT ![j] = "owed"]
    /\ UNCHANGED <<tries, hands, closing>>

\* A worker gets the job.
Take(j, s) ==
    /\ \/ fate[j] = "owed" /\ hands[j] = {}
       \/ Redelivers /\ fate[j] \in {"owed", "settled"}
    /\ hands' = [hands EXCEPT ![j] = @ \cup {s}]
    /\ UNCHANGED <<fate, tries, closing>>

\* It finished: acked, or written to the dead-letter sink.
Settle(j, s) ==
    /\ s \in hands[j]
    /\ fate' = [fate EXCEPT ![j] = "settled"]
    /\ tries' = [tries EXCEPT ![j] = 0]
    /\ hands' = [hands EXCEPT ![j] = @ \ {s}]
    /\ UNCHANGED closing

\* It did not, and a retry is scheduled.
Retry(j, s) ==
    /\ s \in hands[j]
    /\ fate[j] = "owed"
    /\ tries[j] < MaxRetries
    /\ tries' = [tries EXCEPT ![j] = @ + 1]
    /\ hands' = [hands EXCEPT ![j] = @ \ {s}]
    /\ UNCHANGED <<fate, closing>>

\* A durable queue may lose the slots, with whatever they had, never the job.
Abandon ==
    /\ Redelivers
    /\ UNCHANGED <<fate, tries, closing>>
    /\ \E S \in SUBSET Slots : hands' = [j \in Jobs |-> hands[j] \ S]

Close ==
    /\ closing' = TRUE
    /\ UNCHANGED <<fate, tries, hands>>

\* A closing queue that is not durable gives up a job nobody is working on.
GiveUp(j) ==
    /\ ~Redelivers /\ closing
    /\ fate[j] = "owed" /\ hands[j] = {}
    /\ fate' = [fate EXCEPT ![j] = "reported"]
    /\ tries' = [tries EXCEPT ![j] = 0]
    /\ UNCHANGED <<hands, closing>>

Next ==
    \/ Abandon
    \/ Close
    \/ \E j \in Jobs : Accept(j) \/ GiveUp(j)
    \/ \E j \in Jobs, s \in Slots : Take(j, s) \/ Settle(j, s) \/ Retry(j, s)

Spec == Init /\ [][Next]_qvars
=============================================================================
