------------------------------ MODULE JobQueue ------------------------------
(***************************************************************************)
(* The PDF job queue and the worker loop that drains it.                   *)
(*                                                                         *)
(* The queue is one PostgreSQL table (SqlJobQueue); every method opens a   *)
(* session of its own, so a method that loads a row and then commits is    *)
(* two steps here, with any number of other processes' steps in between.   *)
(* SQLAlchemy's unit of work emits an UPDATE of just the columns whose     *)
(* value differs from the loaded one (WriteBack).  A worker is the loop of *)
(* app.worker: release stale locks, claim the oldest due job, run it,      *)
(* record the outcome.                                                     *)
(*                                                                         *)
(* Times are whole seconds of one clock shared by the processes.           *)
(***************************************************************************)
EXTENDS Integers, FiniteSets

CONSTANTS
  Jobs,         \* ids of the jobs uploads will ever enqueue
  Workers,      \* the worker processes
  Nobody,       \* NULL in the locked_by column
  NoJob,        \* a worker that holds no job
  MaxAttempts,  \* settings.worker_max_attempts, copied into every row
  LockTtl,      \* settings.worker_lock_ttl_seconds
  MaxRun,       \* bound: longest time from a claim to the end of its outcome
  MaxCrashes,   \* bound: how many times worker processes are killed
  MaxFaults,    \* bound: how many statements the database refuses
  AckLoss,      \* whether a commit may take effect and still raise
  MaxClock      \* bound: the last second of the model

ASSUME JobQueueAssumption ==
  /\ Nobody \notin Workers
  /\ NoJob \notin Jobs
  /\ MaxAttempts \in Nat \ {0}
  /\ LockTtl \in Nat
  /\ MaxRun \in Nat
  /\ MaxCrashes \in Nat
  /\ MaxFaults \in Nat
  /\ AckLoss \in BOOLEAN
  /\ MaxClock \in Nat

VARIABLES
  clock,    \* the current second
  row,      \* the table pdf_jobs
  pc,       \* where each worker is in its loop
  job,      \* the job each worker claimed
  started,  \* when each worker claimed it
  loaded,   \* the row as the open session of each worker loaded it
  now,      \* datetime.now() as the open session of each worker read it
  stale,    \* the rows a worker's open release_stale_locks will reset
  claims,   \* history: how often each job has been claimed
  disputed, \* history: the jobs handed back while held or settled, or settled twice
  crashes,  \* how many workers have been killed so far
  faults    \* how many statements have been refused so far

vars ==
  <<clock, row, pc, job, started, loaded, now, stale, claims, disputed, crashes, faults>>

-----------------------------------------------------------------------------
NoTime == -1   \* NULL in the locked_at column

JobStatus == {"pending", "running", "completed", "failed"}

\* "unborn" before the upload's enqueue, "gone" after the cascading delete:
\* in both cases the table holds no such row.
Row == [status     : JobStatus \cup {"unborn", "gone"},
        attempts   : Nat,
        run_after  : Nat,
        locked_at  : Nat \cup {NoTime},
        locked_by  : Workers \cup {Nobody},
        created_at : Nat]

EmptyRow == [status |-> "unborn", attempts |-> 0, run_after |-> 0,
             locked_at |-> NoTime, locked_by |-> Nobody, created_at |-> 0]

Exists(j) == row[j].status \in JobStatus

\* A worker between its claim and the end of that job's outcome.
Holding == {"claimed", "run", "completing", "fail", "failing"}

PC == Holding \cup {"loop", "release", "claim", "stopped"}

\* min(60, max(0, 2**attempts - 2)), for attempts > 0.
BackoffTable == <<0, 2, 6, 14, 30>>
Backoff(attempts) == IF attempts \in 1..5 THEN BackoffTable[attempts] ELSE 60

ASSUME BackoffTableAssumption == \A a \in 1..5 : BackoffTable[a] = 2^a - 2

\* Mutant of Unlocked: the time of the lock stays.
UnlockedKeepingTime(r) == [r EXCEPT !.locked_by = Nobody]

Unlocked(r) == [r EXCEPT !.locked_at = NoTime, !.locked_by = Nobody]

\* Mutants of AfterFailure: the failure is not counted, the job is given up one
\* attempt early.
AfterFailureUncounted(r, t) ==
  IF r.attempts + 1 >= MaxAttempts
  THEN [Unlocked(r) EXCEPT !.status = "failed"]
  ELSE [Unlocked(r) EXCEPT !.status = "pending", !.run_after = t + Backoff(r.attempts + 1)]

AfterFailureOneLess(r, t) ==
  LET attempts == r.attempts + 1
      counted  == [Unlocked(r) EXCEPT !.attempts = attempts]
  IN  IF attempts + 1 >= MaxAttempts
      THEN [counted EXCEPT !.status = "failed"]
      ELSE [counted EXCEPT !.status = "pending", !.run_after = t + Backoff(attempts)]

\* The row after fail_or_retry, called at time t on the loaded row r.
AfterFailure(r, t) ==
  LET attempts == r.attempts + 1
      counted  == [Unlocked(r) EXCEPT !.attempts = attempts]
  IN  IF attempts >= MaxAttempts
      THEN [counted EXCEPT !.status = "failed"]
      ELSE [counted EXCEPT !.status = "pending", !.run_after = t + Backoff(attempts)]

\* The columns a flush writes: those the session changed.
Flushed(old, new, current) == IF new = old THEN current ELSE new

WriteBack(old, new, current) ==
  [status     |-> Flushed(old.status, new.status, current.status),
   attempts   |-> Flushed(old.attempts, new.attempts, current.attempts),
   run_after  |-> Flushed(old.run_after, new.run_after, current.run_after),
   locked_at  |-> Flushed(old.locked_at, new.locked_at, current.locked_at),
   locked_by  |-> Flushed(old.locked_by, new.locked_by, current.locked_by),
   created_at |-> current.created_at]

-----------------------------------------------------------------------------
Init ==
  /\ clock = 0
  /\ row = [j \in Jobs |-> EmptyRow]
  /\ pc = [w \in Workers |-> "loop"]
  /\ job = [w \in Workers |-> NoJob]
  /\ started = [w \in Workers |-> 0]
  /\ loaded = [w \in Workers |-> EmptyRow]
  /\ now = [w \in Workers |-> 0]
  /\ stale = [w \in Workers |-> {}]
  /\ claims = [j \in Jobs |-> 0]
  /\ disputed = {}
  /\ crashes = 0
  /\ faults = 0

budgets == <<crashes, faults>>
session == <<loaded, now, stale>>

Goto(w, label) == pc' = [pc EXCEPT ![w] = label]

CloseSession(w) ==
  /\ loaded' = [loaded EXCEPT ![w] = EmptyRow]
  /\ now' = [now EXCEPT ![w] = 0]
  /\ stale' = [stale EXCEPT ![w] = {}]

\* The worker is done with its job, or its process has ended.
LetGo(w) ==
  /\ job' = [job EXCEPT ![w] = NoJob]
  /\ started' = [started EXCEPT ![w] = 0]
  /\ CloseSession(w)

\* An exception leaves the loop: the process ends, whatever it held.
Exit(w) == Goto(w, "stopped") /\ LetGo(w)

\* The database refuses a statement: nothing is written.
Refused == faults < MaxFaults /\ faults' = faults + 1 /\ UNCHANGED crashes

\* A commit takes effect, but its acknowledgement never arrives.
AckLost == AckLoss /\ Refused

-----------------------------------------------------------------------------
Queued(t) ==
  [EmptyRow EXCEPT !.status = "pending", !.run_after = t, !.created_at = t]

\* POST /pdfs: a fresh document id, hence no row for it yet.
Enqueue(j) ==
  /\ row[j].status = "unborn"
  /\ row' = [row EXCEPT ![j] = Queued(clock)]
  /\ UNCHANGED <<clock, pc, job, started, session, claims, disputed, budgets>>

Gone == [EmptyRow EXCEPT !.status = "gone"]

\* DELETE /pdfs/{id}: the row goes with its document (ON DELETE CASCADE).
DeleteDocument(j) ==
  /\ Exists(j)
  /\ row' = [row EXCEPT ![j] = Gone]
  /\ UNCHANGED <<clock, pc, job, started, session, claims, disputed, budgets>>

\* Mutant of StaleRows: the status is not looked at, and a row without a lock
\* counts as old.
StaleRowsOfAnyStatus(older_than) ==
  {j \in Jobs : Exists(j) /\ row[j].locked_at < older_than}

\* The part of release_stale_locks up to its commit.
StaleRows(older_than) ==
  {j \in Jobs : /\ row[j].status = "running"
                /\ row[j].locked_at # NoTime
                /\ row[j].locked_at < older_than}

ReleaseRead(w) ==
  /\ pc[w] = "loop"
  /\ LET found == StaleRows(clock - LockTtl)
     IN  /\ stale' = [stale EXCEPT ![w] = found]
         /\ Goto(w, IF found = {} THEN "claim" ELSE "release")
  /\ UNCHANGED <<clock, row, job, started, loaded, now, claims, disputed, budgets>>

\* The UPDATE of the rows found, as they are by now.
Released(r) == [Unlocked(r) EXCEPT !.status = "pending"]

\* The workers that have job j, one holder or many.
Takers(j) == {w \in Workers : job[w] = j}

\* Of these, the ones a worker still runs, or that are settled by now.
Contested(w) ==
  {j \in stale[w] : row[j].status \in {"completed", "failed"} \/ (Exists(j) /\ Takers(j) # {})}

ResetStale(w) ==
  /\ row' = [j \in Jobs |-> IF j \in stale[w] /\ Exists(j) THEN Released(row[j]) ELSE row[j]]
  /\ disputed' = disputed \cup Contested(w)

ReleaseWrite(w) ==
  /\ pc[w] = "release"
  /\ \/ /\ \E j \in stale[w] : Exists(j)
        /\ ResetStale(w)
        /\ Goto(w, "claim")
        /\ CloseSession(w)
        /\ UNCHANGED <<job, started, budgets>>
     \/ \* a row is gone: StaleDataError
        /\ \E j \in stale[w] : ~Exists(j)
        /\ Exit(w)
        /\ UNCHANGED <<row, disputed, budgets>>
     \/ Refused /\ Exit(w) /\ UNCHANGED <<row, disputed>>
     \/ AckLost /\ ResetStale(w) /\ Exit(w)
  /\ UNCHANGED <<clock, claims>>

\* A row lock that FOR UPDATE SKIP LOCKED may meet: an open transaction of
\* another worker that writes, or is claiming, that row.
MayLock(w, j) ==
  \/ pc[w] = "claim"
  \/ pc[w] = "release" /\ j \in stale[w]
  \/ pc[w] \in {"completing", "failing"} /\ job[w] = j

\* Mutants of Claimable: the claim also takes running jobs, or failed ones.
ClaimableAndRunning ==
  {j \in Jobs : row[j].status \in {"pending", "running"} /\ row[j].run_after <= clock}

ClaimableAndFailed ==
  {j \in Jobs : row[j].status \in {"pending", "failed"} /\ row[j].run_after <= clock}

Claimable == {j \in Jobs : row[j].status = "pending" /\ row[j].run_after <= clock}

Skippable(w, j) == \E v \in Workers \ {w} : MayLock(v, j)

Claimed(r, w, t) ==
  [r EXCEPT !.status = "running", !.locked_at = t, !.locked_by = w]

MarkRunning(w, j) ==
  /\ row' = [row EXCEPT ![j] = Claimed(@, w, clock)]
  /\ claims' = [claims EXCEPT ![j] = @ + 1]

\* The claiming transaction: the oldest due row that is not locked.
ClaimNext(w, j) ==
  /\ pc[w] = "claim"
  /\ j \in Claimable
  /\ \A i \in Claimable : row[i].created_at < row[j].created_at => Skippable(w, i)
  /\ MarkRunning(w, j)
  /\ \/ /\ Goto(w, "claimed")
        /\ job' = [job EXCEPT ![w] = j]
        /\ started' = [started EXCEPT ![w] = clock]
        /\ UNCHANGED <<session, budgets>>
     \/ AckLost /\ Exit(w)
  /\ UNCHANGED <<clock, disputed>>

\* claim_next returns None, and the loop waits for the poll interval.
ClaimNothing(w) ==
  /\ pc[w] = "claim"
  /\ \A j \in Claimable : Skippable(w, j)
  /\ Goto(w, "loop")
  /\ UNCHANGED <<clock, row, job, started, session, claims, disputed, budgets>>

\* The refresh that ends claim_next re-reads the row, which may be gone.
ClaimRefresh(w) ==
  /\ pc[w] = "claimed"
  /\ \/ /\ Exists(job[w])
        /\ Goto(w, "run")
        /\ UNCHANGED <<job, started, session, budgets>>
     \/ ~Exists(job[w]) /\ Exit(w) /\ UNCHANGED budgets
     \/ Refused /\ Exit(w)
  /\ UNCHANGED <<clock, row, claims, disputed>>

\* A read of the queue outside any job fails: the exception leaves the loop.
ReadRefused(w) ==
  /\ pc[w] \in {"loop", "claim"}
  /\ Refused
  /\ Exit(w)
  /\ UNCHANGED <<clock, row, claims, disputed>>

\* pipeline.run raises.
RunRaises(w) ==
  /\ pc[w] = "run"
  /\ Goto(w, "fail")
  /\ UNCHANGED <<clock, row, job, started, session, claims, disputed, budgets>>

\* pipeline.run returns, and complete() loads the row.
CompleteLoad(w) ==
  /\ pc[w] = "run"
  /\ \/ /\ Exists(job[w])
        /\ loaded' = [loaded EXCEPT ![w] = row[job[w]]]
        /\ Goto(w, "completing")
        /\ UNCHANGED budgets
     \/ ~Exists(job[w]) /\ Goto(w, "fail") /\ UNCHANGED <<loaded, budgets>>
     \/ Refused /\ Goto(w, "fail") /\ UNCHANGED loaded
  /\ UNCHANGED <<clock, row, job, started, now, stale, claims, disputed>>

\* Mutant of Completed: the lock columns are not reset.
CompletedStillLocked(r) == [r EXCEPT !.status = "completed"]

Completed(r) == [Unlocked(r) EXCEPT !.status = "completed"]

\* The UPDATE that an open session of w sends for the row of its job.
Flush(w, new) ==
  row' = [row EXCEPT ![job[w]] = WriteBack(loaded[w], new, row[job[w]])]

CompleteWrite(w) ==
  /\ pc[w] = "completing"
  /\ \/ /\ Exists(job[w])
        /\ Flush(w, Completed(loaded[w]))
        /\ Goto(w, "loop")
        /\ LetGo(w)
        /\ UNCHANGED <<disputed, budgets>>
     \/ \* StaleDataError, a refusal or a lost acknowledgement: except Exception
        /\ \/ ~Exists(job[w]) /\ UNCHANGED <<row, disputed, budgets>>
           \/ Refused /\ UNCHANGED <<row, disputed>>
           \/ /\ AckLost /\ Exists(job[w]) /\ Flush(w, Completed(loaded[w]))
              /\ disputed' = disputed \cup {job[w]}
        /\ Goto(w, "fail")
        /\ CloseSession(w)
        /\ UNCHANGED <<job, started>>
  /\ UNCHANGED <<clock, claims>>

\* fail_or_retry loads the row; its LookupError leaves the loop.
FailLoad(w) ==
  /\ pc[w] = "fail"
  /\ \/ /\ Exists(job[w])
        /\ loaded' = [loaded EXCEPT ![w] = row[job[w]]]
        /\ now' = [now EXCEPT ![w] = clock]
        /\ Goto(w, "failing")
        /\ UNCHANGED <<job, started, stale, budgets>>
     \/ ~Exists(job[w]) /\ Exit(w) /\ UNCHANGED budgets
     \/ Refused /\ Exit(w)
  /\ UNCHANGED <<clock, row, claims, disputed>>

FailWrite(w) ==
  /\ pc[w] = "failing"
  /\ \/ /\ Exists(job[w])
        /\ Flush(w, AfterFailure(loaded[w], now[w]))
        /\ Goto(w, "loop")
        /\ LetGo(w)
        /\ UNCHANGED budgets
     \/ /\ \/ ~Exists(job[w]) /\ UNCHANGED <<row, budgets>>
           \/ Refused /\ UNCHANGED row
           \/ AckLost /\ Exists(job[w]) /\ Flush(w, AfterFailure(loaded[w], now[w]))
        /\ Exit(w)
  /\ UNCHANGED <<clock, claims, disputed>>

\* SIGTERM: the loop ends at its next test of the stop event.
Stop(w) ==
  /\ pc[w] = "loop"
  /\ Exit(w)
  /\ UNCHANGED <<clock, row, claims, disputed, budgets>>

\* The process is killed at any point: open sessions roll back.
Crash(w) ==
  /\ pc[w] # "stopped"
  /\ crashes < MaxCrashes
  /\ crashes' = crashes + 1
  /\ Exit(w)
  /\ UNCHANGED <<clock, row, claims, disputed, faults>>

\* The container's restart policy starts the worker again.
Restart(w) ==
  /\ pc[w] = "stopped"
  /\ Goto(w, "loop")
  /\ UNCHANGED <<clock, row, job, started, session, claims, disputed, budgets>>

\* Time passes, but no worker spends more than MaxRun seconds on one claim.
Tick ==
  /\ clock < MaxClock
  /\ \A w \in Workers : pc[w] \in Holding => clock < started[w] + MaxRun
  /\ clock' = clock + 1
  /\ UNCHANGED <<row, pc, job, started, session, claims, disputed, budgets>>

-----------------------------------------------------------------------------
WorkerStep(w) ==
  \/ ReleaseRead(w)
  \/ ReleaseWrite(w)
  \/ \E j \in Jobs : ClaimNext(w, j)
  \/ ClaimNothing(w)
  \/ ClaimRefresh(w)
  \/ ReadRefused(w)
  \/ RunRaises(w)
  \/ CompleteLoad(w)
  \/ CompleteWrite(w)
  \/ FailLoad(w)
  \/ FailWrite(w)
  \/ Stop(w)
  \/ Crash(w)
  \/ Restart(w)

Next ==
  \/ \E j \in Jobs : Enqueue(j) \/ DeleteDocument(j)
  \/ \E w \in Workers : WorkerStep(w)
  \/ Tick

Spec == Init /\ [][Next]_vars

-----------------------------------------------------------------------------
\* A row whose lock columns are NULL together.
PairedRow == {r \in Row : r.locked_at = NoTime <=> r.locked_by = Nobody}

\* Every variable keeps its type, and a row's lock columns are NULL together:
\* no flush of columns that changed, onto whatever row, sets one without the other.
TypeOK ==
  /\ clock \in Nat
  /\ row \in [Jobs -> PairedRow]
  /\ pc \in [Workers -> PC]
  /\ job \in [Workers -> Jobs \cup {NoJob}]
  /\ \A w \in Workers : pc[w] \in Holding <=> job[w] \in Jobs
  /\ started \in [Workers -> Nat]
  /\ loaded \in [Workers -> PairedRow]
  /\ now \in [Workers -> Nat]
  /\ stale \in [Workers -> SUBSET Jobs]
  /\ claims \in [Jobs -> Nat]
  /\ disputed \subseteq Jobs
  /\ crashes \in Nat
  /\ faults \in Nat

\* No job is run by two workers at once: between claim_next and the end of
\* complete or fail_or_retry a job has one holder.
OneHolder ==
  \A v, w \in Workers :
    v # w /\ pc[v] \in Holding /\ pc[w] \in Holding /\ job[v] = job[w] => job[v] \in disputed

\* What a holder is entitled to find in the table, though complete and
\* fail_or_retry never look: its job is still running under its own lock.
HolderOwnsRow ==
  \A w \in Workers :
    pc[w] \in Holding /\ job[w] \notin disputed /\ Exists(job[w]) =>
      /\ row[job[w]].status = "running"
      /\ row[job[w]].locked_by = w
      /\ row[job[w]].locked_at = started[w]

\* Whatever is killed, refused or late, a job has one holder, who finds its row
\* as claimed, until a release hands it back under that holder or a completion
\* raises after it took effect: nothing else in four methods, none of which
\* holds a lock while a job runs, lets two workers at one job.
HoldersAreExclusive == OneHolder /\ HolderOwnsRow

\* A row is locked exactly while it is running: no outcome leaves a lock on
\* a settled row, and no running row lacks the locked_at that
\* release_stale_locks needs to give it back.
LockedIffRunning ==
  \A j \in Jobs \ disputed : Exists(j) =>
    /\ row[j].status = "running" <=> row[j].locked_by # Nobody
    /\ row[j].status = "running" <=> row[j].locked_at # NoTime

\* fail_or_retry gives up exactly when the attempts are used up: a failed job
\* has had MaxAttempts failures, one that is waiting or running has had fewer.
GivesUpAtMaxAttempts ==
  \A j \in Jobs \ disputed : Exists(j) =>
    /\ row[j].attempts <= MaxAttempts
    /\ row[j].status = "failed" => row[j].attempts = MaxAttempts
    /\ row[j].status \in {"pending", "running"} => row[j].attempts < MaxAttempts

\* However many workers run a job, overrun their locks or lose updates to one
\* another, no job is given up before MaxAttempts claims were spent on it.
NeverGivenUpEarly ==
  \A j \in Jobs : row[j].status = "failed" => claims[j] >= MaxAttempts

\* Every claim is accounted for: it is running, it completed the job, it was
\* counted by fail_or_retry, or a crash or a database fault cut it short.
ClaimsAccounted ==
  \A j \in Jobs \ disputed : Exists(j) =>
    LET open == IF row[j].status \in {"running", "completed"} THEN 1 ELSE 0
    IN  claims[j] - row[j].attempts - open \in 0 .. (crashes + faults)

\* The status, the lock, the attempts and the claims of a job that was never
\* disputed agree, although four methods write them, each some columns and none
\* under a lock, and may be killed or refused anywhere.
RowsAddUp == LockedIffRunning /\ GivesUpAtMaxAttempts /\ ClaimsAccounted

\* A job that completed or failed for good stays as it is until its document
\* is deleted: no late writer brings it back, and a release or a lost
\* acknowledgement that does is a dispute.
SettledIsFinal ==
  [][\A j \in Jobs \ disputed' :
       row[j].status \in {"completed", "failed"} =>
         row'[j] = row[j] \/ row'[j].status = "gone"]_vars

\* No release takes a job from a worker that still runs it, and neither a release
\* nor a late failure brings back one that is settled, whatever crashes, refused
\* statements and overruns there were: so it is with one worker.
Undisputed == disputed = {}

-----------------------------------------------------------------------------
\* The table and the loop implement what the queue promises.
Ledger == INSTANCE JobLedger
            WITH status   <- [j \in Jobs |-> row[j].status],
                 attempts <- [j \in Jobs |-> row[j].attempts],
                 holds    <- job

\* Two sessions, a clock and a TTL stand in for the ledger's one table: seen
\* through the row's status and attempts and the worker's job, every step of
\* the code is a step of the ledger or changes nothing there, through crashes,
\* refusals, lost acknowledgements and overruns, up to the first dispute.
ImplementsLedger ==
  Ledger!Init /\ [][disputed' = {} => Ledger!Next]_(Ledger!ledger)

-----------------------------------------------------------------------------
(* The inductive invariant of every regime.                                 *)

\* A job's counted failures and the claims that still may fail are never more
\* than its claims, counted from the row or from what an open fail_or_retry
\* loaded of it.
FailuresHaveClaims ==
  /\ \A j \in Jobs : row[j].attempts + Cardinality(Takers(j)) <= claims[j]
  /\ \A w \in Workers : pc[w] = "failing" =>
       loaded[w].attempts + Cardinality(Takers(job[w])) <= claims[job[w]]
  /\ NeverGivenUpEarly
=============================================================================
