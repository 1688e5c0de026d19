----------------------------- MODULE JobLedger -----------------------------
(***************************************************************************)
(* What the job queue promises, without clocks, sessions or lock columns:  *)
(* a job waits, is held by one worker, and ends up completed, or failed    *)
(* once MaxAttempts attempts have failed.  A worker that disappears gives  *)
(* its job up; the job is handed back and claimed again.                   *)
(***************************************************************************)
EXTENDS Integers

CONSTANTS
  Jobs,        \* ids of the jobs uploads will ever enqueue
  Workers,     \* the worker processes
  NoJob,       \* a worker that holds no job
  MaxAttempts  \* settings.worker_max_attempts

ASSUME JobLedgerAssumption == NoJob \notin Jobs /\ MaxAttempts \in Nat \ {0}

VARIABLES
  status,    \* the status of each job; "unborn" and "gone" jobs have no row
  attempts,  \* how many runs of the job have failed
  holds      \* the job each worker is busy with

ledger == <<status, attempts, holds>>

Init ==
  /\ status = [j \in Jobs |-> "unborn"]
  /\ attempts = [j \in Jobs |-> 0]
  /\ holds = [w \in Workers |-> NoJob]

Held(j) == \E w \in Workers : holds[w] = j

Enqueue(j) ==
  /\ status[j] = "unborn"
  /\ status' = [status EXCEPT ![j] = "pending"]
  /\ UNCHANGED <<attempts, holds>>

Delete(j) ==
  /\ status[j] \notin {"unborn", "gone"}
  /\ status' = [status EXCEPT ![j] = "gone"]
  /\ attempts' = [attempts EXCEPT ![j] = 0]
  /\ UNCHANGED holds

\* Mutant of Claim: a job that is running is taken as well.
ClaimAlsoRunning(w, j) ==
  /\ holds[w] = NoJob
  /\ status[j] \in {"pending", "running"}
  /\ status' = [status EXCEPT ![j] = "running"]
  /\ holds' = [holds EXCEPT ![w] = j]
  /\ UNCHANGED attempts

Claim(w, j) ==
  /\ holds[w] = NoJob
  /\ status[j] = "pending"
  /\ status' = [status EXCEPT ![j] = "running"]
  /\ holds' = [holds EXCEPT ![w] = j]
  /\ UNCHANGED attempts

\* The claim takes effect and its worker never learns of it.
ClaimLost(j) ==
  /\ status[j] = "pending"
  /\ status' = [status EXCEPT ![j] = "running"]
  /\ UNCHANGED <<attempts, holds>>

Complete(w, j) ==
  /\ holds[w] = j
  /\ status[j] = "running"
  /\ status' = [status EXCEPT ![j] = "completed"]
  /\ holds' = [holds EXCEPT ![w] = NoJob]
  /\ UNCHANGED attempts

StatusAfter(failures) == IF failures >= MaxAttempts THEN "failed" ELSE "pending"

Fail(w, j) ==
  /\ holds[w] = j
  /\ status[j] = "running"
  /\ attempts' = [attempts EXCEPT ![j] = @ + 1]
  /\ status' = [status EXCEPT ![j] = StatusAfter(attempts[j] + 1)]
  /\ holds' = [holds EXCEPT ![w] = NoJob]

\* The job was deleted under its worker.
Drop(w, j) ==
  /\ holds[w] = j
  /\ status[j] = "gone"
  /\ holds' = [holds EXCEPT ![w] = NoJob]
  /\ UNCHANGED <<status, attempts>>

\* The worker's process ends while it holds the job.
Abandon(w, j) ==
  /\ holds[w] = j
  /\ holds' = [holds EXCEPT ![w] = NoJob]
  /\ UNCHANGED <<status, attempts>>

\* Mutant of HandBack: a job that has failed before is not handed back.
HandBackFirstTry(js) ==
  /\ js # {}
  /\ \A j \in js : status[j] = "running" /\ ~Held(j) /\ attempts[j] = 0
  /\ status' = [j \in Jobs |-> IF j \in js THEN "pending" ELSE status[j]]
  /\ UNCHANGED <<attempts, holds>>

\* Mutant of HandBack: whether a worker still holds the job is not looked at.
HandBackHeld(js) ==
  /\ js # {}
  /\ \A j \in js : status[j] = "running"
  /\ status' = [j \in Jobs |-> IF j \in js THEN "pending" ELSE status[j]]
  /\ UNCHANGED <<attempts, holds>>

\* Jobs whose workers are gone wait again.
HandBack(js) ==
  /\ js # {}
  /\ \A j \in js : status[j] = "running" /\ ~Held(j)
  /\ status' = [j \in Jobs |-> IF j \in js THEN "pending" ELSE status[j]]
  /\ UNCHANGED <<attempts, holds>>

Settle(w, j) == Complete(w, j) \/ Fail(w, j) \/ Drop(w, j)

Next ==
  \/ \E j \in Jobs : Enqueue(j) \/ Delete(j) \/ ClaimLost(j)
  \/ \E w \in Workers, j \in Jobs : Claim(w, j) \/ Settle(w, j) \/ Abandon(w, j)
  \/ \E js \in SUBSET Jobs : HandBack(js)

\* A worker's loop never stops for good (it polls every second and its
\* container is restarted unless stopped), and a run ends.
Fairness ==
  /\ \A j \in Jobs : WF_ledger(\E w \in Workers : Claim(w, j))
  /\ \A w \in Workers, j \in Jobs : WF_ledger(Settle(w, j))
  /\ \A j \in Jobs : WF_ledger(HandBack({j}))

SafeSpec == Init /\ [][Next]_ledger

Spec == SafeSpec /\ Fairness

-----------------------------------------------------------------------------
JobStatus == {"pending", "running", "completed", "failed"}

TypeOK ==
  /\ status \in [Jobs -> JobStatus \cup {"unborn", "gone"}]
  /\ attempts \in [Jobs -> 0 .. MaxAttempts]
  /\ holds \in [Workers -> Jobs \cup {NoJob}]

\* A held job is running under one worker, or was deleted under it.
HeldByOne ==
  \A w \in Workers : holds[w] # NoJob =>
    /\ status[holds[w]] \in {"running", "gone"}
    /\ \A v \in Workers : holds[v] = holds[w] => v = w

CrashesCease ==
  <>[][\A j \in Jobs : ~ClaimLost(j) /\ \A w \in Workers : ~Abandon(w, j)]_ledger

\* Unless workers keep disappearing, every job that waits is settled for good:
\* it completes, fails, or is deleted.  A job lost by a worker that disappears
\* is not lost to the queue.
EventuallySettled ==
  CrashesCease =>
    \A j \in Jobs : status[j] \in {"pending", "running"} ~>
                      [](status[j] \in {"completed", "failed", "gone"})
=============================================================================
