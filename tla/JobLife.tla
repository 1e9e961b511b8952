------------------------------ MODULE JobLife ------------------------------
(***************************************************************************)
(* What the task runtime promises the owner of a job, whatever attempts,   *)
(* daemons, workers and locks there are behind it: the job waits, is taken *)
(* and runs once; it may be stopped, and put back as long as its code has  *)
(* not begun; stopped in its run it does not succeed; it is settled once,  *)
(* with a result exactly when it succeeded, and the outcome is told once.  *)
(* The stop is a user's or the runtime's own: the promise does not tell    *)
(* them apart, and a cancelled start may be put back.                      *)
(***************************************************************************)
EXTENDS Naturals

CONSTANT Jobs

VARIABLES life,     \* "none", "queued", "taken", "cancelling" or the outcome
          runs,     \* how often the code of a job was begun
          results,  \* jobs with a published result
          told      \* how often the outcome of a job was announced

vars == <<life, runs, results, told>>

Outcomes == {"succeeded", "failed", "cancelled", "lost"}

Init == /\ life = [j \in Jobs |-> "none"] /\ runs = [j \in Jobs |-> 0]
        /\ results = {} /\ told = [j \in Jobs |-> 0]

Becomes(j, s) == life' = [life EXCEPT ![j] = s]

Submit(j) ==
    /\ life[j] = "none" /\ Becomes(j, "queued")
    /\ UNCHANGED <<runs, results, told>>

Take(j) ==
    /\ life[j] = "queued" /\ Becomes(j, "taken")
    /\ UNCHANGED <<runs, results, told>>

\* The code of the job begins, once in its life.
Run(j) ==
    /\ life[j] = "taken" /\ runs[j] = 0
    /\ runs' = [runs EXCEPT ![j] = 1]
    /\ UNCHANGED <<life, results, told>>

\* A user or the runtime wants the job to stop.
Stop(j) ==
    /\ life[j] = "taken" /\ Becomes(j, "cancelling")
    /\ UNCHANGED <<runs, results, told>>

\* The start did not come off, and the job waits again.
PutBack(j) ==
    /\ life[j] = "cancelling" /\ runs[j] = 0 /\ Becomes(j, "queued")
    /\ UNCHANGED <<runs, results, told>>

Succeed(j) ==
    /\ life[j] = "taken" /\ runs[j] = 1 /\ Becomes(j, "succeeded")
    /\ results' = results \cup {j}
    /\ UNCHANGED <<runs, told>>

\* A job is settled as cancelled only after somebody has stopped it.
End(j) ==
    /\ \/ life[j] = "queued" /\ Becomes(j, "cancelled")
       \/ /\ life[j] = "taken" /\ runs[j] = 1
          /\ \E s \in {"failed", "lost"} : Becomes(j, s)
       \/ /\ life[j] = "cancelling"
          /\ \E s \in Outcomes \ {"succeeded"} : Becomes(j, s)
    /\ UNCHANGED <<runs, results, told>>

Tell(j) ==
    /\ life[j] \in Outcomes /\ told[j] = 0
    /\ told' = [told EXCEPT ![j] = 1]
    /\ UNCHANGED <<life, runs, results>>

Next == \E j \in Jobs : \/ Submit(j) \/ Take(j) \/ Run(j) \/ Stop(j) \/ PutBack(j)
                        \/ Succeed(j) \/ End(j) \/ Tell(j)

Spec == Init /\ [][Next]_vars
=============================================================================
