-------------------------- MODULE JobQueue_proofs --------------------------
(***************************************************************************)
(* What holds of the job queue for every number of workers and jobs and    *)
(* every value of the settings, checked by TLAPS.                          *)
(***************************************************************************)
EXTENDS JobQueue, FiniteSetTheorems, TLAPS

\* The delay of a retry is a number of seconds.
LEMMA BackoffType == ASSUME NEW a \in Nat PROVE Backoff(a) \in Nat
  BY DEF Backoff, BackoffTable

\* What each method of the queue makes of a row is a row.
LEMMA CompletedType == ASSUME NEW r \in PairedRow PROVE Completed(r) \in PairedRow
  BY DEF Completed, Unlocked, Row, PairedRow, NoTime, JobStatus

LEMMA ReleasedType == ASSUME NEW r \in PairedRow PROVE Released(r) \in PairedRow
  BY DEF Released, Unlocked, Row, PairedRow, NoTime, JobStatus

LEMMA ClaimedType ==
  ASSUME NEW r \in PairedRow, NEW w \in Workers, NEW t \in Nat
  PROVE  Claimed(r, w, t) \in PairedRow
<1>1. Claimed(r, w, t) \in Row
  BY DEF Claimed, Row, PairedRow, NoTime, JobStatus
<1>2. Claimed(r, w, t).locked_at = t /\ Claimed(r, w, t).locked_by = w
  BY DEF Claimed, Row, PairedRow
<1>3. t # NoTime /\ w # Nobody
  BY JobQueueAssumption DEF NoTime
<1>4. QED
  BY <1>1, <1>2, <1>3 DEF PairedRow

LEMMA QueuedType == ASSUME NEW t \in Nat PROVE Queued(t) \in PairedRow
  BY DEF Queued, EmptyRow, Row, PairedRow, NoTime, JobStatus

LEMMA GoneType == Gone \in PairedRow
  BY DEF Gone, EmptyRow, Row, PairedRow, NoTime

LEMMA AfterFailureType ==
  ASSUME NEW r \in PairedRow, NEW t \in Nat
  PROVE  AfterFailure(r, t) \in PairedRow
<1>1. r.attempts + 1 \in Nat
  BY DEF Row, PairedRow, NoTime
<1>2. t + Backoff(r.attempts + 1) \in Nat
  BY <1>1, BackoffType
<1>3. QED
  BY <1>1, <1>2 DEF AfterFailure, Unlocked, Row, PairedRow, NoTime, JobStatus

\* What an outcome leaves in the row.
LEMMA CompletedFields ==
  ASSUME NEW r \in PairedRow
  PROVE  /\ Completed(r).status = "completed"
         /\ Completed(r).attempts = r.attempts
         /\ Completed(r).locked_at = NoTime
         /\ Completed(r).locked_by = Nobody
  BY DEF Completed, Unlocked, Row, PairedRow

LEMMA AfterFailureFields ==
  ASSUME NEW r \in PairedRow, NEW t \in Nat
  PROVE  /\ AfterFailure(r, t).status =
               IF r.attempts + 1 >= MaxAttempts THEN "failed" ELSE "pending"
         /\ AfterFailure(r, t).attempts = r.attempts + 1
         /\ AfterFailure(r, t).locked_at = NoTime
         /\ AfterFailure(r, t).locked_by = Nobody
  BY DEF AfterFailure, Unlocked, Row, PairedRow


\* A flush of an unlocked row onto a row gives a row: the session changed both lock
\* columns or none.
LEMMA WriteBackType ==
  ASSUME NEW old \in PairedRow, NEW new \in PairedRow, NEW current \in PairedRow,
         new.locked_at = NoTime, new.locked_by = Nobody
  PROVE  WriteBack(old, new, current) \in PairedRow
  BY DEF WriteBack, Flushed, Row, PairedRow, NoTime

LEMMA EmptyRowType == EmptyRow \in PairedRow
  BY DEF EmptyRow, Row, PairedRow, NoTime

\* An ended process holds nothing, and its variables keep their types.
LEMMA ExitType ==
  ASSUME TypeOK, NEW w \in Workers, Exit(w)
  PROVE  /\ pc' \in [Workers -> PC]
         /\ job' \in [Workers -> Jobs \cup {NoJob}]
         /\ \A v \in Workers : pc'[v] \in Holding <=> job'[v] \in Jobs
         /\ started' \in [Workers -> Nat]
         /\ loaded' \in [Workers -> PairedRow]
         /\ now' \in [Workers -> Nat]
         /\ stale' \in [Workers -> SUBSET Jobs]
  BY JobQueueAssumption, EmptyRowType
  DEF TypeOK, Exit, Goto, LetGo, CloseSession, PC, Holding

\* The rows an UPDATE of release_stale_locks writes are rows.
LEMMA ResetStaleType ==
  ASSUME TypeOK, NEW w \in Workers, ResetStale(w)
  PROVE  row' \in [Jobs -> PairedRow] /\ disputed' \subseteq Jobs
  BY ReleasedType DEF TypeOK, ResetStale, Contested

LEMMA MarkRunningType ==
  ASSUME TypeOK, NEW w \in Workers, NEW j \in Jobs, MarkRunning(w, j)
  PROVE  row' \in [Jobs -> PairedRow] /\ claims' \in [Jobs -> Nat]
<1>1. Claimed(row[j], w, clock) \in PairedRow
  BY ClaimedType DEF TypeOK
<1>2. QED
  BY <1>1 DEF TypeOK, MarkRunning

LEMMA FlushType ==
  ASSUME TypeOK, NEW w \in Workers, NEW r \in PairedRow, Flush(w, r), job[w] \in Jobs,
         r.locked_at = NoTime, r.locked_by = Nobody
  PROVE  row' \in [Jobs -> PairedRow]
<1>1. WriteBack(loaded[w], r, row[job[w]]) \in PairedRow
  BY WriteBackType DEF TypeOK
<1>2. QED
  BY <1>1 DEF Flush, TypeOK

\* Every step keeps every variable in its type.
LEMMA TypeStep == TypeOK /\ [Next]_vars => TypeOK'
<1> SUFFICES ASSUME TypeOK, [Next]_vars
             PROVE  TypeOK'
  OBVIOUS
<1> USE JobQueueAssumption, EmptyRowType DEF TypeOK
<1>1. ASSUME NEW j \in Jobs, Enqueue(j)
      PROVE  TypeOK'
  BY <1>1, QueuedType DEF Enqueue, session, budgets
<1>2. ASSUME NEW j \in Jobs, DeleteDocument(j)
      PROVE  TypeOK'
  BY <1>2, GoneType DEF DeleteDocument, session, budgets
<1>3. ASSUME NEW w \in Workers, ReleaseRead(w)
      PROVE  TypeOK'
  BY <1>3 DEF ReleaseRead, Goto, StaleRows, budgets, PC, Holding
<1>4. ASSUME NEW w \in Workers, ReleaseWrite(w)
      PROVE  TypeOK'
  <2>1. row' \in [Jobs -> PairedRow] /\ disputed' \subseteq Jobs
    BY <1>4, ResetStaleType DEF ReleaseWrite, AckLost
  <2>2. CASE Exit(w)
    BY <1>4, <2>1, <2>2, ExitType DEF ReleaseWrite, AckLost, Refused, budgets
  <2>3. CASE Goto(w, "claim") /\ CloseSession(w) /\ UNCHANGED <<job, started, budgets>>
    BY <1>4, <2>1, <2>3 DEF ReleaseWrite, Goto, CloseSession, budgets, PC, Holding
  <2>4. QED
    BY <1>4, <2>2, <2>3 DEF ReleaseWrite, AckLost, Refused
<1>5. ASSUME NEW w \in Workers, NEW j \in Jobs, ClaimNext(w, j)
      PROVE  TypeOK'
  <2>1. row' \in [Jobs -> PairedRow] /\ claims' \in [Jobs -> Nat]
    BY <1>5, MarkRunningType DEF ClaimNext
  <2>2. CASE AckLost /\ Exit(w)
    BY <1>5, <2>1, <2>2, ExitType DEF ClaimNext, AckLost, Refused
  <2>3. CASE ~(AckLost /\ Exit(w))
    BY <1>5, <2>1, <2>3 DEF ClaimNext, Goto, session, budgets, PC, Holding
  <2>4. QED
    BY <2>2, <2>3
<1>6. ASSUME NEW w \in Workers, ClaimNothing(w)
      PROVE  TypeOK'
  BY <1>6 DEF ClaimNothing, Goto, session, budgets, PC, Holding
<1>7. ASSUME NEW w \in Workers, ClaimRefresh(w)
      PROVE  TypeOK'
  <2>1. CASE Exit(w)
    BY <1>7, <2>1, ExitType DEF ClaimRefresh, Refused, budgets
  <2>2. CASE ~Exit(w)
    BY <1>7, <2>2 DEF ClaimRefresh, Goto, session, budgets, PC, Holding
  <2>3. QED
    BY <2>1, <2>2
<1>8. ASSUME NEW w \in Workers, ReadRefused(w)
      PROVE  TypeOK'
  BY <1>8, ExitType DEF ReadRefused, Refused
<1>9. ASSUME NEW w \in Workers, RunRaises(w)
      PROVE  TypeOK'
  BY <1>9 DEF RunRaises, Goto, session, budgets, PC, Holding
<1>10. ASSUME NEW w \in Workers, CompleteLoad(w)
       PROVE  TypeOK'
  BY <1>10 DEF CompleteLoad, Goto, Refused, budgets, PC, Holding
<1>11. ASSUME NEW w \in Workers, CompleteWrite(w)
       PROVE  TypeOK'
  <2>1. job[w] \in Jobs /\ loaded[w] \in PairedRow
    BY <1>11 DEF CompleteWrite, Holding
  <2>2. row' \in [Jobs -> PairedRow]
    BY <1>11, <2>1, FlushType, CompletedType, CompletedFields DEF CompleteWrite
  <2>3. faults' \in Nat /\ crashes' \in Nat /\ disputed' \subseteq Jobs
    BY <1>11, <2>1 DEF CompleteWrite, AckLost, Refused, budgets
  <2>4. QED
    BY <1>11, <2>1, <2>2, <2>3
    DEF CompleteWrite, Goto, LetGo, CloseSession, PC, Holding
<1>12. ASSUME NEW w \in Workers, FailLoad(w)
       PROVE  TypeOK'
  <2>1. CASE Exit(w)
    BY <1>12, <2>1, ExitType DEF FailLoad, Refused, budgets
  <2>2. CASE ~Exit(w)
    BY <1>12, <2>2 DEF FailLoad, Goto, budgets, PC, Holding
  <2>3. QED
    BY <2>1, <2>2
<1>13. ASSUME NEW w \in Workers, FailWrite(w)
       PROVE  TypeOK'
  <2>1. job[w] \in Jobs /\ loaded[w] \in PairedRow /\ now[w] \in Nat
    BY <1>13 DEF FailWrite, Holding
  <2>2. row' \in [Jobs -> PairedRow]
    BY <1>13, <2>1, FlushType, AfterFailureType, AfterFailureFields DEF FailWrite
  <2>3. faults' \in Nat /\ crashes' \in Nat
    BY <1>13 DEF FailWrite, AckLost, Refused, budgets
  <2>4. CASE Exit(w)
    BY <1>13, <2>2, <2>3, <2>4, ExitType DEF FailWrite
  <2>5. CASE Goto(w, "loop") /\ LetGo(w)
    BY <1>13, <2>2, <2>3, <2>5
    DEF FailWrite, Goto, LetGo, CloseSession, PC, Holding
  <2>6. QED
    BY <1>13, <2>4, <2>5 DEF FailWrite
<1>14. ASSUME NEW w \in Workers, Stop(w)
       PROVE  TypeOK'
  BY <1>14, ExitType DEF Stop, budgets
<1>15. ASSUME NEW w \in Workers, Crash(w)
       PROVE  TypeOK'
  BY <1>15, ExitType DEF Crash
<1>16. ASSUME NEW w \in Workers, Restart(w)
       PROVE  TypeOK'
  BY <1>16 DEF Restart, Goto, session, budgets, PC, Holding
<1>17. CASE Tick
  BY <1>17 DEF Tick, session, budgets
<1>18. CASE UNCHANGED vars
  BY <1>18 DEF vars
<1>19. QED
  BY <1>1, <1>2, <1>3, <1>4, <1>5, <1>6, <1>7, <1>8, <1>9, <1>10, <1>11,
     <1>12, <1>13, <1>14, <1>15, <1>16, <1>17, <1>18
  DEF Next, WorkerStep

\* The model is well typed whatever the workers, the database and the clock do.
THEOREM TypeCorrect == Spec => []TypeOK
<1>1. Init => TypeOK
  BY JobQueueAssumption, EmptyRowType DEF Init, TypeOK, PC, Holding
<1>2. QED
  BY <1>1, TypeStep, PTL DEF Spec


\* A flush by a session that has not been overtaken writes the row it computed.
LEMMA CurrentFlush ==
  ASSUME TypeOK, NEW w \in Workers, NEW new, job[w] \in Jobs,
         loaded[w] = row[job[w]], Flush(w, new)
  PROVE  /\ row'[job[w]].status = new.status
         /\ row'[job[w]].attempts = new.attempts
         /\ row'[job[w]].locked_at = new.locked_at
         /\ row'[job[w]].locked_by = new.locked_by
         /\ \A j \in Jobs \ {job[w]} : row'[j] = row[j]
  BY DEF Flush, WriteBack, Flushed, TypeOK

-----------------------------------------------------------------------------
(* Every regime at once: any number of workers, each killed, refused or     *)
(* outliving its lock anywhere.  A job keeps one holder and a row that adds *)
(* up until it is disputed, so the invariant speaks of each job until then, *)
(* and what a step does is one of a few changes.                            *)

\* What has gone wrong so far; each piece of it may cost one claim its outcome.
Trouble == crashes + faults

\* The row is running, and the worker that claimed it has ended.
Lost(j) == row[j].status = "running" /\ \A w \in Workers : job[w] # j

\* A row's columns agree, and every claim beyond its failures and the one that
\* is open was cut short: that of a lost row as well.
RowOK(j) ==
  Exists(j) =>
    /\ row[j].status = "running" <=> row[j].locked_by # Nobody
    /\ row[j].status = "running" <=> row[j].locked_at # NoTime
    /\ row[j].attempts <= MaxAttempts
    /\ row[j].status = "failed" => row[j].attempts = MaxAttempts
    /\ row[j].status \in {"pending", "running"} => row[j].attempts < MaxAttempts
    /\ claims[j] - row[j].attempts
         - (IF row[j].status \in {"running", "completed"} THEN 1 ELSE 0)
         \in 0 .. Trouble - (IF Lost(j) THEN 1 ELSE 0)

\* The worker that has job j has it alone, finds the row as it claimed it, unless
\* it was deleted, and has not been overtaken in a session it has open.
Owns(w, j) ==
  job[w] = j =>
    /\ row[j].status \in {"running", "gone"}
    /\ \A v \in Workers : job[v] = j => v = w
    /\ Exists(j) => row[j].locked_by = w /\ row[j].locked_at = started[w]
    /\ pc[w] \in {"completing", "failing"} /\ Exists(j) => loaded[w] = row[j]

UnbornUntouched(j) ==
  row[j].status = "unborn" => claims[j] = 0 /\ row[j].attempts = 0

RowsOK ==
  /\ \A j \in Jobs : UnbornUntouched(j)
  /\ \A j \in Jobs \ disputed : RowOK(j)

HoldersOK == \A j \in Jobs \ disputed : \A w \in Workers : Owns(w, j)

QueueInv == RowsOK /\ HoldersOK

\* How one step may change rows, holders and claims.
Rests == UNCHANGED <<row, job, claims>> /\ Trouble' >= Trouble

Takes(w, j) ==
  /\ row[j].status = "pending" /\ job[w] = NoJob
  /\ job' = [job EXCEPT ![w] = j] /\ MarkRunning(w, j) /\ Trouble' = Trouble

\* A claim whose worker ends before it learns of it.
Loses(w, j) ==
  /\ row[j].status = "pending" /\ UNCHANGED job
  /\ MarkRunning(w, j) /\ Trouble' = Trouble + 1

Settles(w, j) ==
  /\ row[j].status = "running" /\ job[w] = j
  /\ job' = [job EXCEPT ![w] = NoJob] /\ UNCHANGED claims /\ Trouble' >= Trouble
  /\ \A k \in Jobs \ {j} : row'[k] = row[k]
  /\ row'[j].locked_at = NoTime /\ row'[j].locked_by = Nobody
  /\ \/ row'[j].status = "completed" /\ row'[j].attempts = row[j].attempts
     \/ /\ row'[j].status = IF row[j].attempts + 1 >= MaxAttempts THEN "failed" ELSE "pending"
        /\ row'[j].attempts = row[j].attempts + 1

Leaves(w, j) ==
  /\ job[w] = j
  /\ job' = [job EXCEPT ![w] = NoJob] /\ UNCHANGED <<row, claims>>
  /\ \/ ~Exists(j) /\ Trouble' >= Trouble
     \/ Trouble' = Trouble + 1

\* A release leaves every job that it does not dispute as it was, or hands back
\* one that nobody holds.
Resets ==
  /\ UNCHANGED <<job, claims>> /\ Trouble' >= Trouble
  /\ \A j \in Jobs : row'[j] = row[j] \/ (Exists(j) /\ row'[j] = Released(row[j]))
  /\ \A j \in Jobs \ disputed' :
       row'[j] = row[j] \/ (Lost(j) /\ row'[j] = Released(row[j]))
  /\ row' \in [Jobs -> Row]

\* A late outcome of a disputed job, or the one that disputes it.
Strays(w, j) ==
  /\ job[w] = j /\ j \in disputed' /\ UNCHANGED claims /\ Trouble' >= Trouble
  /\ row'[j].status # "unborn"
  /\ \A k \in Jobs \ {j} : row'[k] = row[k]
  /\ \A k \in Jobs \ {j} : \A v \in Workers : job'[v] = k <=> job[v] = k

Change ==
  \/ Rests
  \/ \E j \in Jobs : (Enqueue(j) \/ DeleteDocument(j)) /\ Trouble' = Trouble
  \/ \E w \in Workers, j \in Jobs :
       Takes(w, j) \/ Loses(w, j) \/ Settles(w, j) \/ Leaves(w, j) \/ Strays(w, j)
  \/ Resets

LEMMA TroubleType == ASSUME TypeOK PROVE Trouble \in Nat
  BY DEF TypeOK, Trouble

LEMMA RefusedIsTrouble ==
  ASSUME TypeOK, Refused
  PROVE  Trouble' = Trouble + 1 /\ Trouble' >= Trouble
  BY DEF TypeOK, Refused, Trouble

LEMMA NoTrouble == ASSUME TypeOK, UNCHANGED budgets PROVE Trouble' = Trouble /\ Trouble' >= Trouble
  BY TroubleType DEF Trouble, budgets

\* Workers other than the one that steps keep what they own, if it keeps off.
LEMMA OthersOwn ==
  ASSUME TypeOK, HoldersOK, NEW w \in Workers, disputed \subseteq disputed',
         \A v \in Workers \ {w} : /\ pc'[v] = pc[v] /\ job'[v] = job[v]
                                  /\ started'[v] = started[v] /\ loaded'[v] = loaded[v],
         \A k \in Jobs \ disputed' : \A v \in Workers \ {w} :
           job[v] = k => row'[k] = row[k] /\ job'[w] # k,
         \A k \in Jobs \ disputed' : job'[w] = k =>
           /\ row'[k].status \in {"running", "gone"}
           /\ row'[k].status \in JobStatus =>
                row'[k].locked_by = w /\ row'[k].locked_at = started'[w]
           /\ pc'[w] \in {"completing", "failing"} /\ row'[k].status \in JobStatus =>
                loaded'[w] = row'[k]
  PROVE  HoldersOK'
<1> SUFFICES ASSUME NEW k \in Jobs \ disputed', NEW v \in Workers, job'[v] = k
             PROVE  Owns(v, k)'
  BY DEF HoldersOK, Owns
<1>1. CASE v = w
  <2>1. \A u \in Workers : job'[u] = k => u = w
    BY <1>1
  <2>2. QED
    BY <1>1, <2>1 DEF Owns, Exists
<1>2. CASE v # w
  <2>1. Owns(v, k) /\ job[v] = k /\ row'[k] = row[k] /\ job'[w] # k
    BY <1>2 DEF HoldersOK
  <2>2. \A u \in Workers : job'[u] = k => u = v
    BY <1>2, <2>1 DEF Owns
  <2>3. QED
    BY <1>2, <2>1, <2>2 DEF Owns, Exists
<1>3. QED
  BY <1>1, <1>2

\* A worker moves on, with nothing written.
LEMMA MovesOn ==
  ASSUME TypeOK, HoldersOK, NEW w \in Workers, NEW l, Goto(w, l),
         UNCHANGED <<row, job, started, claims, disputed>>, Trouble' >= Trouble,
         \A v \in Workers \ {w} : loaded'[v] = loaded[v],
         l \in {"completing", "failing"} /\ Exists(job[w]) => loaded'[w] = row[job[w]]
  PROVE  Change /\ HoldersOK'
<1>1. pc'[w] = l /\ \A v \in Workers \ {w} : pc'[v] = pc[v]
  BY DEF Goto, TypeOK
<1>2. \A k \in Jobs \ disputed' : \A v \in Workers : Owns(v, k)
  BY DEF HoldersOK
<1>3. ASSUME NEW k \in Jobs \ disputed', job'[w] = k
      PROVE  /\ row'[k].status \in {"running", "gone"}
             /\ row'[k].status \in JobStatus =>
                  row'[k].locked_by = w /\ row'[k].locked_at = started'[w]
             /\ pc'[w] \in {"completing", "failing"} /\ row'[k].status \in JobStatus =>
                  loaded'[w] = row'[k]
  <2>1. Owns(w, k) /\ job[w] = k
    BY <1>2, <1>3
  <2>2. QED
    BY <1>1, <2>1 DEF Owns, Exists
<1>4. \A k \in Jobs \ disputed' : \A v \in Workers \ {w} :
        job[v] = k => row'[k] = row[k] /\ job'[w] # k
  BY <1>2 DEF Owns
<1>5. HoldersOK'
  BY <1>1, <1>3, <1>4, OthersOwn
<1>6. QED
  BY <1>5 DEF Change, Rests

\* A worker that lets go keeps its hands off every other job.
LEMMA LetsGo ==
  ASSUME TypeOK, HoldersOK, NEW w \in Workers, NEW l, Goto(w, l), LetGo(w),
         disputed \subseteq disputed',
         \A k \in Jobs \ disputed' : \A v \in Workers \ {w} : job[v] = k => row'[k] = row[k]
  PROVE  HoldersOK'
<1>1. /\ job'[w] = NoJob
      /\ \A v \in Workers \ {w} : /\ pc'[v] = pc[v] /\ job'[v] = job[v]
                                  /\ started'[v] = started[v] /\ loaded'[v] = loaded[v]
  BY DEF Goto, LetGo, CloseSession, TypeOK
<1>2. job'[w] \notin Jobs
  BY <1>1, JobQueueAssumption
<1>3. \A k \in Jobs \ disputed' : job'[w] # k
  BY <1>2
<1>4. QED
  BY <1>1, <1>3, OthersOwn

\* Its process ends, by a fault, or because its job was deleted.
LEMMA Ends ==
  ASSUME TypeOK, HoldersOK, NEW w \in Workers, Exit(w), UNCHANGED <<row, claims, disputed>>,
         \/ job[w] = NoJob /\ Trouble' >= Trouble
         \/ job[w] \in Jobs /\ ~Exists(job[w]) /\ Trouble' >= Trouble
         \/ Trouble' = Trouble + 1
  PROVE  Change /\ HoldersOK'
<1>1. job' = [job EXCEPT ![w] = NoJob]
  BY DEF Exit, LetGo
<1>2. HoldersOK'
  BY LetsGo DEF Exit
<1>3. CASE job[w] = NoJob
  <2>1. job' = job
    BY <1>1, <1>3 DEF TypeOK
  <2>2. Trouble' >= Trouble
    BY <1>3, TroubleType, JobQueueAssumption
  <2>3. QED
    BY <1>2, <2>1, <2>2 DEF Change, Rests
<1>4. CASE job[w] \in Jobs
  <2>1. Leaves(w, job[w])
    BY <1>1, <1>4, JobQueueAssumption DEF Leaves
  <2>2. QED
    BY <1>2, <1>4, <2>1 DEF Change
<1>5. QED
  BY <1>3, <1>4 DEF TypeOK

\* The UPDATE that ends a job, by its only holder or by a late one.
LEMMA Outcome ==
  ASSUME TypeOK, HoldersOK, NEW w \in Workers, pc[w] \in {"completing", "failing"},
         Exists(job[w]), NEW new, new \in {Completed(loaded[w]), AfterFailure(loaded[w], now[w])},
         Flush(w, new), NEW l, Goto(w, l), LetGo(w), UNCHANGED <<claims, disputed>>,
         Trouble' >= Trouble
  PROVE  Change /\ HoldersOK'
<1>1. PICK j \in Jobs : j = job[w]
  BY DEF TypeOK, Holding
<1>2. job' = [job EXCEPT ![w] = NoJob] /\ \A k \in Jobs \ {j} : row'[k] = row[k]
  BY <1>1 DEF LetGo, Flush, TypeOK
<1>3. HoldersOK'
  <2>1. \A k \in Jobs \ disputed' : \A v \in Workers \ {w} : job[v] = k => row'[k] = row[k]
    BY <1>1, <1>2 DEF HoldersOK, Owns
  <2>2. QED
    BY <2>1, LetsGo
<1>4. CASE j \in disputed
  <2>1. row'[j].status # "unborn"
    <3>1. loaded[w] \in PairedRow /\ now[w] \in Nat
      BY DEF TypeOK
    <3>2. new.status \in {"completed", "failed", "pending"}
      BY <3>1, CompletedFields, AfterFailureFields
    <3>3. row'[j].status \in {new.status, row[j].status}
      BY <1>1 DEF Flush, WriteBack, Flushed, TypeOK
    <3>4. QED
      BY <1>1, <3>2, <3>3 DEF Exists, JobStatus
  <2>2. \A k \in Jobs \ {j} : \A v \in Workers : job'[v] = k <=> job[v] = k
    BY <1>1, <1>2, JobQueueAssumption DEF TypeOK
  <2>3. Strays(w, j)
    BY <1>1, <1>2, <1>4, <2>1, <2>2 DEF Strays
  <2>4. QED
    BY <1>3, <2>3 DEF Change
<1>5. CASE j \notin disputed
  <2>1. /\ loaded[w] = row[j] /\ loaded[w] \in PairedRow /\ now[w] \in Nat
        /\ row[j].status = "running"
    BY <1>1, <1>5 DEF HoldersOK, Owns, TypeOK, Exists, JobStatus
  <2>2. /\ row'[j].status = new.status /\ row'[j].attempts = new.attempts
        /\ row'[j].locked_at = new.locked_at /\ row'[j].locked_by = new.locked_by
    BY <1>1, <2>1, CurrentFlush
  <2>3. Settles(w, j)
    BY <1>1, <1>2, <2>1, <2>2, CompletedFields, AfterFailureFields DEF Settles
  <2>4. QED
    BY <1>3, <2>3 DEF Change
<1>6. QED
  BY <1>4, <1>5

\* complete() takes effect and raises: the job is disputed, its worker goes on.
LEMMA CompletedUnheard ==
  ASSUME TypeOK, HoldersOK, NEW w \in Workers, pc[w] = "completing", Exists(job[w]),
         Flush(w, Completed(loaded[w])), Goto(w, "fail"), CloseSession(w),
         disputed' = disputed \cup {job[w]}, UNCHANGED <<job, started, claims>>,
         Trouble' >= Trouble
  PROVE  Change /\ HoldersOK'
<1>1. PICK j \in Jobs : j = job[w]
  BY DEF TypeOK, Holding
<1>2. \A k \in Jobs \ {j} : row'[k] = row[k]
  BY <1>1 DEF Flush, TypeOK
<1>3. \A v \in Workers \ {w} : pc'[v] = pc[v] /\ loaded'[v] = loaded[v]
  BY DEF Goto, CloseSession, TypeOK
<1>4. \A k \in Jobs \ disputed' : k # j /\ k \in Jobs \ disputed
  BY <1>1
<1>5. HoldersOK'
  BY <1>1, <1>2, <1>3, <1>4, OthersOwn
<1>6. row'[j].status # "unborn"
  <2>1. Completed(loaded[w]).status = "completed"
    BY CompletedFields DEF TypeOK
  <2>2. row'[j].status \in {"completed", row[j].status}
    BY <1>1, <2>1 DEF Flush, WriteBack, Flushed, TypeOK
  <2>3. QED
    BY <1>1, <2>2 DEF Exists, JobStatus
<1>7. Strays(w, j)
  BY <1>1, <1>2, <1>6 DEF Strays
<1>8. QED
  BY <1>5, <1>7 DEF Change

\* A release disputes the jobs it takes from a holder; the others are unheld.
LEMMA ReleaseResets ==
  ASSUME TypeOK, TypeOK', QueueInv, NEW w \in Workers, pc[w] = "release", ResetStale(w),
         UNCHANGED claims, Trouble' >= Trouble, NEW l, Goto(w, l), CloseSession(w),
         \/ UNCHANGED <<job, started>>
         \/ LetGo(w)
  PROVE  Change /\ HoldersOK'
<1>1. job[w] = NoJob /\ stale[w] \in SUBSET Jobs /\ job' = job
  BY DEF LetGo, TypeOK, Holding
<1>2. disputed \subseteq disputed'
  BY DEF ResetStale
<1>3. \A j \in Jobs : row'[j] = row[j] \/ (Exists(j) /\ row'[j] = Released(row[j]))
  BY DEF ResetStale
<1>4. ASSUME NEW j \in Jobs \ disputed', row'[j] # row[j]
      PROVE  Lost(j) /\ row'[j] = Released(row[j])
  <2>1. j \in stale[w] /\ Exists(j) /\ row'[j] = Released(row[j])
    BY <1>4 DEF ResetStale
  <2>2. j \notin Contested(w) /\ j \notin disputed
    BY <1>4 DEF ResetStale
  <2>3. row[j].status \notin {"completed", "failed"} /\ \A v \in Workers : job[v] # j
    BY <2>1, <2>2 DEF Contested, Takers
  <2>4. row[j].status # "pending"
    <3>1. SUFFICES ASSUME row[j].status = "pending" PROVE FALSE
      OBVIOUS
    <3>2. row[j].locked_by = Nobody /\ row[j].locked_at = NoTime /\ row[j] \in Row
      BY <2>1, <2>2, <3>1 DEF QueueInv, RowsOK, RowOK, TypeOK, PairedRow
    <3>3. Released(row[j]) = row[j]
      BY <3>1, <3>2 DEF Released, Unlocked, Row
    <3>4. QED
      BY <1>4, <2>1, <3>3
  <2>5. QED
    BY <2>1, <2>3, <2>4 DEF Lost, Exists, JobStatus
<1>5. row' \in [Jobs -> Row]
  BY DEF TypeOK, PairedRow
<1>6. Resets
  BY <1>1, <1>3, <1>4, <1>5 DEF Resets
<1>7. /\ \A v \in Workers \ {w} : /\ pc'[v] = pc[v] /\ started'[v] = started[v]
                                  /\ loaded'[v] = loaded[v]
      /\ \A k \in Jobs : job'[w] # k
  BY <1>1, JobQueueAssumption DEF Goto, CloseSession, LetGo, TypeOK
<1>8. HoldersOK'
  BY <1>1, <1>2, <1>4, <1>7, OthersOwn DEF QueueInv, Lost
<1>9. QED
  BY <1>6, <1>8 DEF Change

\* A claim takes a job nobody holds, or has its worker end before it knows.
LEMMA Claims ==
  ASSUME TypeOK, HoldersOK, NEW w \in Workers, NEW j \in Jobs, ClaimNext(w, j)
  PROVE  Change /\ HoldersOK'
<1>1. /\ row[j].status = "pending" /\ job[w] = NoJob /\ MarkRunning(w, j)
      /\ UNCHANGED disputed
  BY DEF ClaimNext, Claimable, TypeOK, Holding
<1>2. /\ row'[j].status = "running" /\ row'[j].locked_by = w /\ row'[j].locked_at = clock
      /\ \A k \in Jobs \ {j} : row'[k] = row[k]
  BY <1>1 DEF MarkRunning, Claimed, TypeOK, Row, PairedRow
<1>3. ASSUME NEW k \in Jobs \ disputed', NEW v \in Workers \ {w}, job[v] = k
      PROVE  k # j /\ row'[k] = row[k]
  BY <1>1, <1>2, <1>3 DEF HoldersOK, Owns
<1>4. CASE /\ Goto(w, "claimed") /\ job' = [job EXCEPT ![w] = j]
           /\ started' = [started EXCEPT ![w] = clock] /\ UNCHANGED <<session, budgets>>
  <2>1. /\ pc'[w] = "claimed" /\ job'[w] = j /\ started'[w] = clock
        /\ \A v \in Workers \ {w} : /\ pc'[v] = pc[v] /\ job'[v] = job[v]
                                    /\ started'[v] = started[v] /\ loaded'[v] = loaded[v]
    BY <1>4 DEF Goto, TypeOK, session
  <2>2. HoldersOK'
    BY <1>1, <1>2, <1>3, <2>1, OthersOwn
  <2>3. Takes(w, j)
    BY <1>1, <1>4, NoTrouble DEF Takes
  <2>4. QED
    BY <2>2, <2>3 DEF Change
<1>5. CASE AckLost /\ Exit(w)
  <2>1. HoldersOK'
    BY <1>1, <1>3, <1>5, LetsGo DEF Exit
  <2>2. job' = job
    BY <1>1, <1>5 DEF Exit, LetGo, TypeOK
  <2>3. Loses(w, j)
    BY <1>1, <1>5, <2>2, RefusedIsTrouble DEF Loses, AckLost
  <2>4. QED
    BY <2>1, <2>3 DEF Change
<1>6. QED
  BY <1>4, <1>5 DEF ClaimNext

LEMMA Releases ==
  ASSUME TypeOK, TypeOK', QueueInv, NEW w \in Workers, ReleaseWrite(w)
  PROVE  Change /\ HoldersOK'
<1>1. job[w] = NoJob /\ pc[w] = "release" /\ UNCHANGED claims
  BY DEF ReleaseWrite, TypeOK, Holding
<1>2. CASE ResetStale(w) /\ Goto(w, "claim") /\ CloseSession(w) /\ UNCHANGED <<job, started, budgets>>
  BY <1>1, <1>2, NoTrouble, ReleaseResets
<1>3. CASE AckLost /\ ResetStale(w) /\ Exit(w)
  <2>1. Trouble' >= Trouble
    BY <1>3, RefusedIsTrouble DEF AckLost
  <2>2. CloseSession(w)
    BY <1>3 DEF Exit, LetGo
  <2>3. QED
    BY <1>1, <1>3, <2>1, <2>2, ReleaseResets DEF Exit
<1>4. CASE Exit(w) /\ UNCHANGED <<row, disputed>> /\ (UNCHANGED budgets \/ Refused)
  BY <1>1, <1>4, NoTrouble, RefusedIsTrouble, Ends DEF QueueInv
<1>5. QED
  BY <1>2, <1>3, <1>4 DEF ReleaseWrite

\* The steps between a claim and the end of its outcome.
LEMMA Runs ==
  ASSUME TypeOK, HoldersOK, NEW w \in Workers,
         ClaimRefresh(w) \/ RunRaises(w) \/ CompleteLoad(w) \/ CompleteWrite(w)
           \/ FailLoad(w) \/ FailWrite(w)
  PROVE  Change /\ HoldersOK'
<1>1. UNCHANGED claims /\ pc[w] \in Holding /\ job[w] \in Jobs
  BY DEF ClaimRefresh, RunRaises, CompleteLoad, CompleteWrite, FailLoad, FailWrite, Holding,
         TypeOK
<1>2. ASSUME NEW l, Goto(w, l), UNCHANGED <<row, job, started, disputed>>,
             UNCHANGED budgets \/ Refused,
             \A v \in Workers \ {w} : loaded'[v] = loaded[v],
             l \in {"completing", "failing"} /\ Exists(job[w]) => loaded'[w] = row[job[w]]
      PROVE  Change /\ HoldersOK'
  <2>1. Trouble' >= Trouble
    BY <1>2, NoTrouble, RefusedIsTrouble
  <2>2. QED
    BY <1>1, <1>2, <2>1, MovesOn
<1>3. ASSUME Exit(w), UNCHANGED <<row, disputed>>, (~Exists(job[w]) /\ UNCHANGED budgets) \/ Refused
      PROVE  Change /\ HoldersOK'
  BY <1>1, <1>3, NoTrouble, RefusedIsTrouble, Ends
<1>4. CASE ClaimRefresh(w)
  <2>1. CASE Exit(w)
    BY <1>3, <1>4, <2>1 DEF ClaimRefresh, Exit, Goto, TypeOK
  <2>2. CASE Goto(w, "run") /\ UNCHANGED <<job, started, session, budgets>>
    BY <1>2, <1>4, <2>2 DEF ClaimRefresh, session
  <2>3. QED
    BY <1>4, <2>1, <2>2 DEF ClaimRefresh
<1>5. CASE RunRaises(w)
  BY <1>2, <1>5 DEF RunRaises, session
<1>6. CASE CompleteLoad(w)
  <2>1. CASE loaded' = [loaded EXCEPT ![w] = row[job[w]]] /\ Goto(w, "completing")
             /\ UNCHANGED budgets
    BY <1>2, <1>6, <2>1 DEF CompleteLoad, TypeOK
  <2>2. CASE Goto(w, "fail") /\ (UNCHANGED budgets \/ Refused) /\ UNCHANGED loaded
    BY <1>2, <1>6, <2>2 DEF CompleteLoad
  <2>3. QED
    BY <1>6, <2>1, <2>2 DEF CompleteLoad
<1>7. CASE CompleteWrite(w)
  <2>1. CASE Exists(job[w]) /\ Flush(w, Completed(loaded[w])) /\ Goto(w, "loop") /\ LetGo(w)
             /\ UNCHANGED <<disputed, budgets>>
    BY <1>1, <1>7, <2>1, NoTrouble, Outcome DEF CompleteWrite
  <2>2. CASE Goto(w, "fail") /\ UNCHANGED <<row, job, started, disputed>>
             /\ (UNCHANGED budgets \/ Refused) /\ CloseSession(w)
    <3>1. \A v \in Workers \ {w} : loaded'[v] = loaded[v]
      BY <2>2 DEF CloseSession, TypeOK
    <3>2. QED
      BY <1>2, <2>2, <3>1
  <2>3. CASE AckLost /\ Exists(job[w]) /\ Flush(w, Completed(loaded[w])) /\ Goto(w, "fail")
             /\ disputed' = disputed \cup {job[w]} /\ CloseSession(w) /\ UNCHANGED <<job, started>>
    <3>1. Trouble' >= Trouble
      BY <2>3, RefusedIsTrouble DEF AckLost
    <3>2. QED
      BY <1>1, <1>7, <2>3, <3>1, CompletedUnheard DEF CompleteWrite
  <2>4. QED
    BY <1>1, <1>7, <2>1, <2>2, <2>3 DEF CompleteWrite
<1>8. CASE FailLoad(w)
  <2>1. CASE loaded' = [loaded EXCEPT ![w] = row[job[w]]] /\ Goto(w, "failing")
             /\ UNCHANGED <<job, started, budgets>>
    BY <1>2, <1>8, <2>1 DEF FailLoad, TypeOK
  <2>2. CASE Exit(w) /\ ((~Exists(job[w]) /\ UNCHANGED budgets) \/ Refused)
    BY <1>3, <1>8, <2>2 DEF FailLoad
  <2>3. QED
    BY <1>8, <2>1, <2>2 DEF FailLoad
<1>9. CASE FailWrite(w)
  <2>1. CASE Exists(job[w]) /\ Flush(w, AfterFailure(loaded[w], now[w])) /\ LetGo(w)
             /\ (Goto(w, "loop") \/ Goto(w, "stopped")) /\ (UNCHANGED budgets \/ Refused)
    BY <1>1, <1>9, <2>1, NoTrouble, RefusedIsTrouble, Outcome DEF FailWrite
  <2>2. CASE Exit(w) /\ UNCHANGED row /\ ((~Exists(job[w]) /\ UNCHANGED budgets) \/ Refused)
    BY <1>3, <1>9, <2>2 DEF FailWrite
  <2>3. QED
    BY <1>1, <1>9, <2>1, <2>2 DEF FailWrite, AckLost, Exit
<1>10. QED
  BY <1>4, <1>5, <1>6, <1>7, <1>8, <1>9

\* The steps outside any job.
LEMMA Loops ==
  ASSUME TypeOK, HoldersOK, NEW w \in Workers,
         ReleaseRead(w) \/ ClaimNothing(w) \/ ReadRefused(w) \/ Stop(w) \/ Crash(w) \/ Restart(w)
  PROVE  Change /\ HoldersOK'
<1>1. UNCHANGED <<row, claims, disputed>>
  BY DEF ReleaseRead, ClaimNothing, ReadRefused, Stop, Crash, Restart
<1>2. CASE ReleaseRead(w) \/ ClaimNothing(w) \/ Restart(w)
  <2>1. PICK l \in {"claim", "release", "loop"} : Goto(w, l)
    BY <1>2 DEF ReleaseRead, ClaimNothing, Restart
  <2>2. UNCHANGED <<job, started, loaded, budgets>>
    BY <1>2 DEF ReleaseRead, ClaimNothing, Restart, session
  <2>3. QED
    BY <1>1, <2>1, <2>2, NoTrouble, MovesOn
<1>3. CASE ReadRefused(w) \/ Stop(w)
  <2>1. job[w] = NoJob /\ Exit(w) /\ (Refused \/ UNCHANGED budgets)
    BY <1>3 DEF ReadRefused, Stop, TypeOK, Holding
  <2>2. QED
    BY <1>1, <2>1, RefusedIsTrouble, NoTrouble, Ends
<1>4. CASE Crash(w)
  <2>1. Exit(w) /\ Trouble' = Trouble + 1
    BY <1>4 DEF Crash, Trouble, TypeOK
  <2>2. QED
    BY <1>1, <2>1, Ends
<1>5. QED
  BY <1>2, <1>3, <1>4

\* Every step is a change of these kinds.
LEMMA StepChanges ==
  ASSUME TypeOK, TypeOK', QueueInv, [Next]_vars
  PROVE  Change /\ HoldersOK' /\ disputed \subseteq disputed'
<1>1. HoldersOK
  BY DEF QueueInv
<1>2. ASSUME NEW j \in Jobs, Enqueue(j) \/ DeleteDocument(j) PROVE Change /\ HoldersOK'
  <2>1. /\ \A i \in Jobs \ {j} : row'[i] = row[i]
        /\ row[j].status = "unborn" \/ row'[j].status = "gone"
        /\ UNCHANGED <<pc, job, started, loaded, disputed>>
        /\ Trouble' = Trouble
    BY <1>2 DEF Enqueue, DeleteDocument, Gone, EmptyRow, TypeOK, session, budgets, Trouble
  <2>2. ASSUME NEW k \in Jobs \ disputed, NEW w \in Workers, job[w] = k PROVE Owns(w, k)'
    <3>1. Owns(w, k)
      BY <1>1 DEF HoldersOK
    <3>2. QED
      BY <2>1, <2>2, <3>1 DEF Owns, Exists, JobStatus
  <2>3. HoldersOK'
    BY <2>1, <2>2 DEF HoldersOK, Owns
  <2>4. QED
    BY <1>2, <2>1, <2>3 DEF Change
<1>3. CASE Tick \/ UNCHANGED vars
  <2>1. UNCHANGED <<row, pc, job, started, loaded, claims, disputed, budgets>>
    BY <1>3 DEF Tick, vars, session, budgets
  <2>2. HoldersOK'
    BY <1>1, <2>1 DEF HoldersOK, Owns, Exists
  <2>3. QED
    BY <2>1, <2>2, NoTrouble DEF Change, Rests
<1>4. Change /\ HoldersOK'
  BY <1>1, <1>2, <1>3, Releases, Claims, Runs, Loops DEF Next, WorkerStep
<1>5. disputed \subseteq disputed'
  <2>1. ASSUME NEW j \in Jobs, Enqueue(j) \/ DeleteDocument(j) PROVE disputed' = disputed
    BY <2>1 DEF Enqueue, DeleteDocument
  <2>2. CASE Tick \/ UNCHANGED vars
    BY <2>2 DEF Tick, vars
  <2>3. ASSUME NEW w \in Workers, WorkerStep(w) PROVE disputed \subseteq disputed'
    <3>1. CASE ReleaseWrite(w)
      BY <3>1 DEF ReleaseWrite, ResetStale
    <3>2. CASE CompleteWrite(w)
      BY <3>2 DEF CompleteWrite
    <3>3. CASE ~ReleaseWrite(w) /\ ~CompleteWrite(w)
      BY <2>3, <3>3 DEF WorkerStep, ReleaseRead, ClaimNext, ClaimNothing, ClaimRefresh,
         ReadRefused, RunRaises, CompleteLoad, FailLoad, FailWrite, Stop, Crash, Restart
    <3>4. QED
      BY <3>1, <3>2, <3>3
  <2>4. QED
    BY <2>1, <2>2, <2>3 DEF Next
<1>6. QED
  BY <1>4, <1>5

\* What a claim makes of its row and its count.
LEMMA ClaimedRow ==
  ASSUME TypeOK, NEW w \in Workers, NEW i \in Jobs, MarkRunning(w, i),
         row[i].status = "pending", NEW j \in Jobs
  PROVE  IF i = j
         THEN /\ row'[j].status = "running" /\ row'[j].attempts = row[j].attempts
              /\ row'[j].locked_by # Nobody /\ row'[j].locked_at # NoTime
              /\ claims'[j] = claims[j] + 1 /\ ~Lost(j)
         ELSE row'[j] = row[j] /\ claims'[j] = claims[j]
<1>1. Claimed(row[i], w, clock).locked_by # Nobody /\ Claimed(row[i], w, clock).locked_at # NoTime
  BY JobQueueAssumption DEF Claimed, TypeOK, Row, PairedRow, NoTime
<1>2. /\ Claimed(row[i], w, clock).status = "running"
      /\ Claimed(row[i], w, clock).attempts = row[i].attempts
  BY DEF Claimed, TypeOK, Row, PairedRow
<1>3. QED
  BY <1>1, <1>2 DEF MarkRunning, TypeOK, Lost

\* A row that is left as it was, by a worker of another job or by none, still
\* adds up.
LEMMA RowRests ==
  ASSUME NEW j \in Jobs, RowOK(j), row'[j] = row[j], claims'[j] = claims[j],
         Lost(j)' => Lost(j) \/ Trouble' >= Trouble + 1, Trouble' >= Trouble,
         Trouble \in Nat, Trouble' \in Nat, claims[j] \in Nat, row[j].attempts \in Nat
  PROVE  RowOK(j)'
  BY DEF RowOK, Exists

\* What a change does to the row of one job that is not disputed.
LEMMA RowStep ==
  ASSUME TypeOK, TypeOK', QueueInv, Change, disputed \subseteq disputed',
         NEW j \in Jobs \ disputed'
  PROVE  RowOK(j)'
<1> USE JobQueueAssumption
<1>1. /\ RowOK(j) /\ UnbornUntouched(j) /\ row[j] \in Row /\ row'[j] \in Row
      /\ claims[j] \in Nat /\ row[j].attempts \in Nat /\ Trouble \in Nat
  BY TroubleType DEF QueueInv, RowsOK, TypeOK, Row, PairedRow
<1>2. Trouble' \in Nat
  <2>1. PICK c \in Nat, f \in Nat : crashes' = c /\ faults' = f
    BY DEF TypeOK
  <2>2. Trouble' = c + f
    BY <2>1 DEF Trouble
  <2>3. QED
    BY <2>2
<1>3. CASE Rests
  <2>1. row'[j] = row[j] /\ claims'[j] = claims[j] /\ Trouble' >= Trouble /\ (Lost(j)' => Lost(j))
    BY <1>3 DEF Rests, Lost
  <2>2. QED
    BY <1>1, <1>2, <2>1, RowRests
<1>4. ASSUME NEW i \in Jobs, Enqueue(i) \/ DeleteDocument(i), Trouble' = Trouble
      PROVE  RowOK(j)'
  <2>1. UNCHANGED <<job, claims>>
    BY <1>4 DEF Enqueue, DeleteDocument
  <2>2. CASE i = j /\ Enqueue(i)
    <3>1. row[j].status = "unborn" /\ row'[j] = Queued(clock) /\ claims[j] = 0
      BY <1>1, <2>2 DEF Enqueue, TypeOK, UnbornUntouched
    <3>2. /\ row'[j].status = "pending" /\ row'[j].attempts = 0
          /\ row'[j].locked_at = NoTime /\ row'[j].locked_by = Nobody
      BY <3>1 DEF Queued, EmptyRow
    <3>3. ~Lost(j)'
      BY <3>2 DEF Lost
    <3>4. QED
      BY <1>1, <1>4, <2>1, <3>1, <3>2, <3>3 DEF RowOK
  <2>3. CASE i = j /\ DeleteDocument(i)
    <3>1. row'[j].status = "gone"
      BY <2>3 DEF DeleteDocument, Gone, EmptyRow, TypeOK
    <3>2. QED
      BY <3>1 DEF RowOK, Exists, JobStatus
  <2>4. CASE i # j
    <3>1. row'[j] = row[j]
      BY <1>4, <2>4 DEF Enqueue, DeleteDocument, TypeOK
    <3>2. Lost(j)' => Lost(j)
      BY <2>1, <3>1 DEF Lost
    <3>3. QED
      BY <1>1, <1>2, <1>4, <2>1, <3>1, <3>2, RowRests
  <2>5. QED
    BY <1>4, <2>2, <2>3, <2>4
<1>5. ASSUME NEW w \in Workers, NEW i \in Jobs, Takes(w, i)
      PROVE  RowOK(j)'
  <2>1. IF i = j
        THEN /\ row'[j].status = "running" /\ row'[j].attempts = row[j].attempts
             /\ row'[j].locked_by # Nobody /\ row'[j].locked_at # NoTime
             /\ claims'[j] = claims[j] + 1 /\ ~Lost(j)
        ELSE row'[j] = row[j] /\ claims'[j] = claims[j]
    BY <1>5, ClaimedRow DEF Takes
  <2>2. CASE i = j
    <3>1. ~Lost(j)'
      <4>1. job'[w] = j
        BY <1>5, <2>2 DEF Takes, TypeOK
      <4>2. QED
        BY <4>1 DEF Lost
    <3>2. row[j].status = "pending"
      BY <1>5, <2>2 DEF Takes
    <3>3. QED
      BY <1>1, <1>5, <2>1, <2>2, <3>1, <3>2 DEF Takes, RowOK, Exists, JobStatus
  <2>3. CASE i # j
    <3>1. \A v \in Workers : job'[v] = j <=> job[v] = j
      BY <1>5, <2>3 DEF Takes, TypeOK
    <3>2. Lost(j)' => Lost(j)
      BY <2>1, <2>3, <3>1 DEF Lost
    <3>3. QED
      BY <1>1, <1>2, <1>5, <2>1, <2>3, <3>2, RowRests DEF Takes
  <2>4. QED
    BY <2>2, <2>3
<1>6. ASSUME NEW w \in Workers, NEW i \in Jobs, Loses(w, i)
      PROVE  RowOK(j)'
  <2>1. IF i = j
        THEN /\ row'[j].status = "running" /\ row'[j].attempts = row[j].attempts
             /\ row'[j].locked_by # Nobody /\ row'[j].locked_at # NoTime
             /\ claims'[j] = claims[j] + 1 /\ ~Lost(j)
        ELSE row'[j] = row[j] /\ claims'[j] = claims[j]
    BY <1>6, ClaimedRow DEF Loses
  <2>2. CASE i = j
    <3>1. row[j].status = "pending" /\ Trouble' = Trouble + 1
      BY <1>6, <2>2 DEF Loses
    <3>2. QED
      BY <1>1, <2>1, <2>2, <3>1 DEF RowOK, Exists, JobStatus
  <2>3. CASE i # j
    <3>1. Lost(j)' => Lost(j)
      BY <1>6, <2>1, <2>3 DEF Loses, Lost
    <3>2. Trouble' >= Trouble
      BY <1>1, <1>6 DEF Loses
    <3>3. QED
      BY <1>1, <1>2, <2>1, <2>3, <3>1, <3>2, RowRests
  <2>4. QED
    BY <2>2, <2>3
<1>7. ASSUME NEW w \in Workers, NEW i \in Jobs, Settles(w, i)
      PROVE  RowOK(j)'
  <2>1. Trouble' >= Trouble /\ claims'[j] = claims[j]
    BY <1>7 DEF Settles
  <2>2. CASE i = j
    <3>1. row'[j].status # "running" /\ ~Lost(j)' /\ ~Lost(j)
      BY <1>7, <2>2 DEF Settles, Lost
    <3>2. QED
      BY <1>1, <1>2, <1>7, <2>1, <2>2, <3>1 DEF Settles, RowOK, Exists, JobStatus
  <2>3. CASE i # j
    <3>1. row'[j] = row[j] /\ \A v \in Workers : job'[v] = j <=> job[v] = j
      BY <1>7, <2>3 DEF Settles, TypeOK
    <3>2. Lost(j)' => Lost(j)
      BY <3>1 DEF Lost
    <3>3. QED
      BY <1>1, <1>2, <2>1, <3>1, <3>2, RowRests
  <2>4. QED
    BY <2>2, <2>3
<1>8. ASSUME NEW w \in Workers, NEW i \in Jobs, Leaves(w, i)
      PROVE  RowOK(j)'
  <2>1. row'[j] = row[j] /\ claims'[j] = claims[j] /\ Trouble' >= Trouble
    BY <1>1, <1>8 DEF Leaves
  <2>2. CASE i = j /\ ~Exists(j)
    BY <2>1, <2>2 DEF RowOK, Exists
  <2>3. CASE i = j /\ Exists(j)
    <3>1. Trouble' = Trouble + 1
      BY <1>8, <2>3 DEF Leaves
    <3>2. QED
      BY <1>1, <1>2, <2>1, <3>1, RowRests
  <2>4. CASE i # j
    <3>1. \A v \in Workers : job'[v] = j <=> job[v] = j
      BY <1>8, <2>4 DEF Leaves, TypeOK
    <3>2. Lost(j)' => Lost(j)
      BY <2>1, <3>1 DEF Lost
    <3>3. QED
      BY <1>1, <1>2, <2>1, <3>2, RowRests
  <2>5. QED
    BY <2>2, <2>3, <2>4
<1>9. ASSUME NEW w \in Workers, NEW i \in Jobs, Strays(w, i)
      PROVE  RowOK(j)'
  <2>1. i # j /\ row'[j] = row[j] /\ claims'[j] = claims[j] /\ Trouble' >= Trouble
    BY <1>9 DEF Strays
  <2>2. Lost(j)' => Lost(j)
    BY <1>9, <2>1 DEF Strays, Lost
  <2>3. QED
    BY <1>1, <1>2, <2>1, <2>2, RowRests
<1>10. CASE Resets
  <2>1. claims'[j] = claims[j] /\ job' = job /\ Trouble' >= Trouble
    BY <1>10 DEF Resets
  <2>2. CASE row'[j] = row[j]
    <3>1. Lost(j)' => Lost(j)
      BY <2>1, <2>2 DEF Lost
    <3>2. QED
      BY <1>1, <1>2, <2>1, <2>2, <3>1, RowRests
  <2>3. CASE Lost(j) /\ row'[j] = Released(row[j])
    <3>1. /\ row'[j].status = "pending" /\ row'[j].attempts = row[j].attempts
          /\ row'[j].locked_at = NoTime /\ row'[j].locked_by = Nobody
      BY <1>1, <2>3 DEF Released, Unlocked, Row
    <3>2. ~Lost(j)' /\ row[j].status = "running"
      BY <2>3, <3>1 DEF Lost
    <3>3. QED
      BY <1>1, <1>2, <2>1, <2>3, <3>1, <3>2 DEF RowOK, Exists, JobStatus
  <2>4. QED
    BY <1>10, <2>2, <2>3 DEF Resets
<1>11. QED
  BY <1>3, <1>4, <1>5, <1>6, <1>7, <1>8, <1>9, <1>10 DEF Change

\* No change makes a row unborn again.
LEMMA UnbornStep ==
  ASSUME TypeOK, QueueInv, Change, NEW j \in Jobs
  PROVE  UnbornUntouched(j)'
<1> USE DEF TypeOK
<1>1. UnbornUntouched(j) /\ row[j] \in Row
  BY DEF QueueInv, RowsOK, PairedRow
<1>2. CASE row'[j] = row[j] /\ claims'[j] = claims[j]
  BY <1>1, <1>2 DEF UnbornUntouched
<1>3. CASE row'[j].status # "unborn"
  BY <1>3 DEF UnbornUntouched
<1>4. ASSUME NEW i \in Jobs, Enqueue(i) \/ DeleteDocument(i)
      PROVE  (row'[j] = row[j] /\ claims'[j] = claims[j]) \/ row'[j].status # "unborn"
  BY <1>4 DEF Enqueue, DeleteDocument, Queued, Gone, EmptyRow
<1>5. ASSUME NEW w \in Workers, NEW i \in Jobs, Takes(w, i) \/ Loses(w, i)
      PROVE  (row'[j] = row[j] /\ claims'[j] = claims[j]) \/ row'[j].status # "unborn"
  BY <1>5, ClaimedRow DEF Takes, Loses
<1>6. ASSUME NEW w \in Workers, NEW i \in Jobs, Settles(w, i) \/ Leaves(w, i) \/ Strays(w, i)
      PROVE  (row'[j] = row[j] /\ claims'[j] = claims[j]) \/ row'[j].status # "unborn"
  BY <1>6 DEF Settles, Leaves, Strays
<1>7. ASSUME Resets
      PROVE  (row'[j] = row[j] /\ claims'[j] = claims[j]) \/ row'[j].status # "unborn"
  <2>1. Released(row[j]).status = "pending"
    BY <1>1 DEF Released, Unlocked, Row
  <2>2. QED
    BY <1>7, <2>1 DEF Resets
<1>8. QED
  BY <1>2, <1>3, <1>4, <1>5, <1>6, <1>7 DEF Change, Rests

LEMMA QueueStep ==
  ASSUME TypeOK, TypeOK', QueueInv, [Next]_vars
  PROVE  QueueInv'
<1>1. Change /\ HoldersOK' /\ disputed \subseteq disputed'
  BY StepChanges
<1>2. RowsOK'
  BY <1>1, RowStep, UnbornStep DEF RowsOK
<1>3. QED
  BY <1>1, <1>2 DEF QueueInv

LEMMA QueueAlways == Spec => []QueueInv
<1>1. Init => QueueInv
  <2> SUFFICES ASSUME Init PROVE QueueInv
    OBVIOUS
  <2>1. \A j \in Jobs : row[j].status = "unborn" /\ row[j].attempts = 0 /\ claims[j] = 0
    BY DEF Init, EmptyRow
  <2>2. \A w \in Workers : job[w] \notin Jobs
    BY JobQueueAssumption DEF Init
  <2>3. QED
    BY <2>1, <2>2
       DEF QueueInv, RowsOK, HoldersOK, RowOK, Owns, UnbornUntouched, Exists, JobStatus
<1>2. TypeOK /\ TypeOK' /\ QueueInv /\ [Next]_vars => QueueInv'
  BY QueueStep
<1>3. QED
  BY <1>1, <1>2, TypeCorrect, PTL DEF Spec

\* However many workers there are, and whatever ends, refuses or delays them: a
\* job that was never disputed has one holder, who finds its row as claimed.
THEOREM Exclusivity == Spec => []HoldersAreExclusive
<1>1. TypeOK /\ QueueInv => HoldersAreExclusive
  <2> SUFFICES ASSUME TypeOK, QueueInv PROVE HoldersAreExclusive
    OBVIOUS
  <2>1. ASSUME NEW w \in Workers, pc[w] \in Holding, job[w] \notin disputed
        PROVE  Owns(w, job[w]) /\ job[w] \in Jobs
    BY <2>1 DEF QueueInv, HoldersOK, TypeOK
  <2>2. OneHolder
    BY <2>1 DEF OneHolder, Owns
  <2>3. HolderOwnsRow
    BY <2>1 DEF HolderOwnsRow, Owns, Exists, JobStatus
  <2>4. QED
    BY <2>2, <2>3 DEF HoldersAreExclusive
<1>2. QED
  BY <1>1, QueueAlways, TypeCorrect, PTL

\* Its status, its lock, its attempts and its claims agree: each claim without
\* an outcome is paid for by a crash or a refusal of its own.
THEOREM Bookkeeping == Spec => []RowsAddUp
<1>1. TypeOK /\ QueueInv => RowsAddUp
  <2> SUFFICES ASSUME TypeOK, QueueInv PROVE RowsAddUp
    OBVIOUS
  <2>1. LockedIffRunning /\ GivesUpAtMaxAttempts
    BY DEF QueueInv, RowsOK, RowOK, LockedIffRunning, GivesUpAtMaxAttempts
  <2>2. ASSUME NEW j \in Jobs \ disputed, Exists(j)
        PROVE  claims[j] - row[j].attempts
                 - (IF row[j].status \in {"running", "completed"} THEN 1 ELSE 0)
                 \in 0 .. (crashes + faults)
    <3>1. RowOK(j) /\ Trouble \in Nat /\ claims[j] \in Nat /\ row[j].attempts \in Nat
      BY TroubleType DEF QueueInv, RowsOK, TypeOK, Row, PairedRow
    <3>2. QED
      BY <2>2, <3>1 DEF RowOK, Trouble
  <2>3. QED
    BY <2>1, <2>2 DEF RowsAddUp, ClaimsAccounted
<1>2. QED
  BY <1>1, QueueAlways, TypeCorrect, PTL

\* An outcome is final: only a dispute over the job brings it back.
LEMMA SettledStep ==
  TypeOK /\ QueueInv /\ Change =>
    \A j \in Jobs \ disputed' :
      row[j].status \in {"completed", "failed"} =>
        row'[j] = row[j] \/ row'[j].status = "gone"
<1> SUFFICES ASSUME TypeOK, QueueInv, Change, NEW j \in Jobs \ disputed',
                    row[j].status \in {"completed", "failed"}
             PROVE  row'[j] = row[j] \/ row'[j].status = "gone"
  OBVIOUS
<1>1. ASSUME NEW i \in Jobs, Enqueue(i) \/ DeleteDocument(i)
      PROVE  row'[j] = row[j] \/ row'[j].status = "gone"
  BY <1>1 DEF Enqueue, DeleteDocument, Gone, EmptyRow, TypeOK
<1>2. ASSUME NEW w \in Workers, NEW i \in Jobs, Takes(w, i) \/ Loses(w, i)
      PROVE  row'[j] = row[j]
  BY <1>2, ClaimedRow DEF Takes, Loses
<1>3. ASSUME NEW w \in Workers, NEW i \in Jobs, Settles(w, i) \/ Leaves(w, i) \/ Strays(w, i)
      PROVE  row'[j] = row[j]
  BY <1>3 DEF Settles, Leaves, Strays
<1>4. ASSUME Resets PROVE row'[j] = row[j]
  BY <1>4 DEF Resets, Lost
<1>5. QED
  BY <1>1, <1>2, <1>3, <1>4 DEF Change, Rests

THEOREM Finality == Spec => SettledIsFinal
<1>1. TypeOK /\ TypeOK' /\ QueueInv /\ [Next]_vars =>
        [\A j \in Jobs \ disputed' :
           row[j].status \in {"completed", "failed"} =>
             row'[j] = row[j] \/ row'[j].status = "gone"]_vars
  BY StepChanges, SettledStep
<1>2. QED
  BY <1>1, QueueAlways, TypeCorrect, PTL DEF Spec, SettledIsFinal

\* A change that disputes nothing is one the ledger makes.
LEMMA LedgerStep ==
  ASSUME TypeOK, TypeOK', QueueInv, Change, disputed' = {}, disputed \subseteq disputed'
  PROVE  [Ledger!Next]_(Ledger!ledger)
<1> USE DEF TypeOK
<1>1. \A j \in Jobs : row[j] \in Row /\ row'[j] \in Row /\ UnbornUntouched(j)
  BY DEF PairedRow, QueueInv, RowsOK
<1>2. CASE Rests
  BY <1>2 DEF Rests, Ledger!ledger
<1>3. ASSUME NEW j \in Jobs, Enqueue(j) PROVE Ledger!Enqueue(j)
  <2>1. Queued(clock).status = "pending" /\ Queued(clock).attempts = 0
    BY DEF Queued, EmptyRow
  <2>2. row[j].status = "unborn" /\ row' = [row EXCEPT ![j] = Queued(clock)] /\ UNCHANGED job
    BY <1>3 DEF Enqueue
  <2>3. row[j].attempts = 0
    BY <1>1, <2>2 DEF UnbornUntouched
  <2>4. QED
    BY <2>1, <2>2, <2>3 DEF Ledger!Enqueue
<1>4. ASSUME NEW j \in Jobs, DeleteDocument(j) PROVE Ledger!Delete(j)
  <2>1. Gone.status = "gone" /\ Gone.attempts = 0
    BY DEF Gone, EmptyRow
  <2>2. QED
    BY <1>4, <2>1 DEF DeleteDocument, Ledger!Delete, Exists, JobStatus
<1>5. ASSUME NEW w \in Workers, NEW j \in Jobs, Takes(w, j) \/ Loses(w, j)
      PROVE  Ledger!Claim(w, j) \/ Ledger!ClaimLost(j)
  <2>1. /\ Claimed(row[j], w, clock).status = "running"
        /\ Claimed(row[j], w, clock).attempts = row[j].attempts
    BY <1>1 DEF Claimed, Row
  <2>2. QED
    BY <1>5, <2>1 DEF Takes, Loses, MarkRunning, Ledger!Claim, Ledger!ClaimLost
<1>6. ASSUME NEW w \in Workers, NEW j \in Jobs, Settles(w, j) PROVE Ledger!Settle(w, j)
  <2>1. CASE row'[j].status = "completed" /\ row'[j].attempts = row[j].attempts
    <3>1. Ledger!Complete(w, j)
      BY <1>6, <2>1 DEF Settles, Ledger!Complete
    <3>2. QED
      BY <3>1 DEF Ledger!Settle
  <2>2. CASE /\ row'[j].status = Ledger!StatusAfter(row[j].attempts + 1)
             /\ row'[j].attempts = row[j].attempts + 1
    <3>1. Ledger!Fail(w, j)
      BY <1>6, <2>2 DEF Settles, Ledger!Fail
    <3>2. QED
      BY <3>1 DEF Ledger!Settle
  <2>3. QED
    BY <1>6, <2>1, <2>2 DEF Settles, Ledger!StatusAfter
<1>7. ASSUME NEW w \in Workers, NEW j \in Jobs, Leaves(w, j) PROVE Ledger!Abandon(w, j)
  BY <1>7 DEF Leaves, Ledger!Abandon
<1>8. ASSUME NEW w \in Workers, NEW j \in Jobs, Strays(w, j) PROVE FALSE
  BY <1>8 DEF Strays
<1>9. ASSUME Resets PROVE Ledger!Next \/ UNCHANGED Ledger!ledger
  <2>1. PICK js \in SUBSET Jobs : js = {j \in Jobs : row'[j] # row[j]}
    OBVIOUS
  <2>2. \A j \in js : Lost(j) /\ row'[j] = Released(row[j])
    BY <1>9, <2>1 DEF Resets
  <2>3. ASSUME NEW j \in js
        PROVE  Released(row[j]).status = "pending" /\ Released(row[j]).attempts = row[j].attempts
    BY <1>1 DEF Released, Unlocked, Row
  <2>4. CASE js = {}
    BY <1>9, <2>1, <2>4 DEF Resets, Ledger!ledger
  <2>5. CASE js # {}
    <3>1. Ledger!HandBack(js)
      BY <1>9, <2>1, <2>2, <2>3, <2>5 DEF Resets, Lost, Ledger!HandBack, Ledger!Held
    <3>2. QED
      BY <3>1 DEF Ledger!Next
  <2>6. QED
    BY <2>4, <2>5
<1>10. QED
  BY <1>2, <1>3, <1>4, <1>5, <1>6, <1>7, <1>8, <1>9 DEF Change, Ledger!Next

\* Every behaviour of the table and its workers is one of the ledger, up to the
\* first dispute.
THEOREM Refinement == Spec => ImplementsLedger
<1>1. Init => Ledger!Init
  BY DEF Init, Ledger!Init, EmptyRow
<1>2. TypeOK /\ TypeOK' /\ QueueInv /\ [Next]_vars =>
        [disputed' = {} => Ledger!Next]_(Ledger!ledger)
  BY StepChanges, LedgerStep
<1>3. QED
  BY <1>1, <1>2, TypeCorrect, QueueAlways, PTL DEF Spec, ImplementsLedger

-----------------------------------------------------------------------------
(* One worker, the deployment's default, and no lost acknowledgement: there *)
(* is nobody to dispute a job with, however the worker is killed, refused   *)
(* and restarted, and however long its runs outlive the lock.               *)

Alone == ~AckLoss /\ \A v, w \in Workers : v = w

\* What the worker is about to hand back is still lost, unless it was deleted.
AloneInv ==
  /\ Undisputed
  /\ \A w \in Workers : pc[w] = "release" =>
       \A j \in stale[w] : row[j].status \in {"running", "gone"}

LEMMA AloneStep ==
  ASSUME Alone, TypeOK, AloneInv, [Next]_vars
  PROVE  AloneInv'
<1> USE DEF Alone, TypeOK, AloneInv, Undisputed
<1>1. ASSUME NEW w \in Workers, NEW l, Goto(w, l), l # "release", disputed' = {}
      PROVE  AloneInv'
  BY <1>1 DEF Goto
<1>2. ASSUME NEW w \in Workers, Exit(w), disputed' = {}
      PROVE  AloneInv'
  BY <1>1, <1>2 DEF Exit
<1>3. ASSUME NEW j \in Jobs, Enqueue(j) \/ DeleteDocument(j)
      PROVE  AloneInv'
  <2>1. /\ \A i \in Jobs \ {j} : row'[i] = row[i]
        /\ row[j].status = "unborn" \/ row'[j].status = "gone"
        /\ UNCHANGED <<pc, stale, disputed>>
    BY <1>3 DEF Enqueue, DeleteDocument, Gone, EmptyRow, session
  <2>2. QED
    BY <2>1
<1>4. ASSUME NEW w \in Workers, ReleaseRead(w)
      PROVE  AloneInv'
  <2>1. \A j \in StaleRows(clock - LockTtl) : row[j].status = "running"
    BY DEF StaleRows
  <2>2. stale'[w] = StaleRows(clock - LockTtl) /\ UNCHANGED <<row, disputed>>
    BY <1>4 DEF ReleaseRead
  <2>3. QED
    BY <2>1, <2>2
<1>5. ASSUME NEW w \in Workers, ReleaseWrite(w)
      PROVE  AloneInv'
  <2>1. \A v \in Workers : job[v] \notin Jobs
    BY <1>5 DEF ReleaseWrite, Holding
  <2>2. Contested(w) = {}
    <3>1. \A j \in stale[w] : j \in Jobs /\ row[j].status \notin {"completed", "failed"}
      BY <1>5 DEF ReleaseWrite
    <3>2. \A j \in Jobs : Takers(j) = {}
      BY <2>1 DEF Takers
    <3>3. QED
      BY <3>1, <3>2 DEF Contested
  <2>3. disputed' = {}
    BY <1>5, <2>2 DEF ReleaseWrite, ResetStale
  <2>4. QED
    BY <1>1, <1>2, <1>5, <2>3 DEF ReleaseWrite
<1>6. ASSUME NEW w \in Workers, WorkerStep(w), ~ReleaseRead(w), ~ReleaseWrite(w)
      PROVE  AloneInv'
  <2>1. disputed' = {}
    BY <1>6 DEF WorkerStep, ClaimNext, ClaimNothing, ClaimRefresh, ReadRefused, RunRaises,
       CompleteLoad, CompleteWrite, FailLoad, FailWrite, Stop, Crash, Restart, AckLost
  <2>2. Exit(w) \/ \E l \in PC \ {"release"} : Goto(w, l)
    BY <1>6 DEF WorkerStep, ClaimNext, ClaimNothing, ClaimRefresh, ReadRefused, RunRaises,
       CompleteLoad, CompleteWrite, FailLoad, FailWrite, Stop, Crash, Restart, PC, Holding
  <2>3. QED
    BY <1>1, <1>2, <2>1, <2>2
<1>7. CASE Tick \/ UNCHANGED vars
  BY <1>7 DEF Tick, vars, session
<1>8. QED
  BY <1>3, <1>4, <1>5, <1>6, <1>7 DEF Next

\* One worker by itself never takes a job from itself, nor brings one back.
THEOREM AloneUndisputed == ASSUME Alone PROVE Spec => []Undisputed
<1>1. Init => AloneInv
  BY DEF Init, AloneInv, Undisputed
<1>2. Alone /\ TypeOK /\ AloneInv /\ [Next]_vars => AloneInv'
  BY AloneStep
<1>3. AloneInv => Undisputed
  BY DEF AloneInv
<1>4. QED
  BY <1>1, <1>2, <1>3, TypeCorrect, PTL DEF Spec

\* So it implements the ledger from end to end.
THEOREM RefinementAlone == ASSUME Alone PROVE Spec => Ledger!SafeSpec
<1>1. (disputed = {})' /\ [disputed' = {} => Ledger!Next]_(Ledger!ledger)
        => [Ledger!Next]_(Ledger!ledger)
  OBVIOUS
<1>2. Undisputed => disputed = {}
  BY DEF Undisputed
<1>3. QED
  BY <1>1, <1>2, Refinement, AloneUndisputed, PTL DEF ImplementsLedger, Ledger!SafeSpec

-----------------------------------------------------------------------------
\* No job is given up early, in any regime: whatever number of workers hold one
\* job, overrun its lock, lose updates to one another, are killed or are refused
\* statements.  The argument counts: every counted failure and every worker that
\* has the job stands for a claim of its own.

\* The workers that have a job can be counted.
LEMMA TakersFinite ==
  ASSUME IsFiniteSet(Workers), NEW j
  PROVE  IsFiniteSet(Takers(j)) /\ Cardinality(Takers(j)) \in Nat
<1>1. Takers(j) \in SUBSET Workers
  BY DEF Takers
<1>2. IsFiniteSet(Takers(j))
  BY <1>1, FS_Subset
<1>3. QED
  BY <1>2, FS_CardinalityType

\* A worker that lets go of its job is one taker less, and no job gets more.
LEMMA TakersLeft ==
  ASSUME IsFiniteSet(Workers), TypeOK, NEW w \in Workers, NEW j \in Jobs,
         job' = [job EXCEPT ![w] = NoJob]
  PROVE  /\ Takers(j)' = Takers(j) \ {w}
         /\ Cardinality(Takers(j)') \in Nat
         /\ Cardinality(Takers(j)') = IF job[w] = j THEN Cardinality(Takers(j)) - 1
                                                    ELSE Cardinality(Takers(j))
<1>1. Takers(j)' = Takers(j) \ {w}
  BY JobQueueAssumption DEF Takers, TypeOK
<1>2. w \in Takers(j) <=> job[w] = j
  BY DEF Takers
<1>3. IsFiniteSet(Takers(j)) /\ Cardinality(Takers(j)) \in Nat
  BY TakersFinite
<1>4. Cardinality(Takers(j) \ {w}) = IF w \in Takers(j) THEN Cardinality(Takers(j)) - 1
                                                         ELSE Cardinality(Takers(j))
  BY <1>3, FS_RemoveElement
<1>5. Cardinality(Takers(j) \ {w}) \in Nat
  BY <1>3, FS_RemoveElement, FS_CardinalityType
<1>6. QED
  BY <1>1, <1>2, <1>4, <1>5

\* A worker that takes a job is one taker more of that job, and of no other.
LEMMA TakersJoined ==
  ASSUME IsFiniteSet(Workers), TypeOK, NEW w \in Workers, NEW i \in Jobs, NEW j \in Jobs,
         job[w] = NoJob, job' = [job EXCEPT ![w] = j]
  PROVE  Cardinality(Takers(i)') = IF i = j THEN Cardinality(Takers(i)) + 1
                                            ELSE Cardinality(Takers(i))
<1>1. Takers(i)' = IF i = j THEN Takers(i) \cup {w} ELSE Takers(i)
  BY JobQueueAssumption DEF Takers, TypeOK
<1>2. w \notin Takers(i)
  BY JobQueueAssumption DEF Takers
<1>3. IsFiniteSet(Takers(i))
  BY TakersFinite
<1>4. Cardinality(Takers(i) \cup {w}) = Cardinality(Takers(i)) + 1
  BY <1>2, <1>3, FS_AddElement
<1>5. QED
  BY <1>1, <1>4

\* A step that claims nothing and counts no failure: no job has more failures or
\* more takers than before, none fails for good, and no session is opened.
Quiet ==
  /\ claims' = claims
  /\ job' = job \/ \E w \in Workers : job' = [job EXCEPT ![w] = NoJob]
  /\ \A i \in Jobs : row'[i].attempts <= row[i].attempts
  /\ \A i \in Jobs : row'[i].status = "failed" => row[i].status = "failed"
  /\ \A v \in Workers : pc'[v] = "failing" =>
       pc[v] = "failing" /\ loaded'[v] = loaded[v] /\ job'[v] = job[v]

\* A quiet step keeps the count.
LEMMA QuietStep ==
  ASSUME IsFiniteSet(Workers), TypeOK, TypeOK', FailuresHaveClaims, Quiet
  PROVE  FailuresHaveClaims'
<1>1. ASSUME NEW i \in Jobs
      PROVE  /\ Cardinality(Takers(i)) \in Nat
             /\ Cardinality(Takers(i)') \in Nat
             /\ Cardinality(Takers(i)') <= Cardinality(Takers(i))
  <2>1. Cardinality(Takers(i)) \in Nat
    BY TakersFinite
  <2>2. CASE job' = job
    <3>1. Takers(i)' = Takers(i)
      BY <2>2 DEF Takers
    <3>2. QED
      BY <2>1, <3>1
  <2>3. CASE \E w \in Workers : job' = [job EXCEPT ![w] = NoJob]
    <3>1. PICK w \in Workers : job' = [job EXCEPT ![w] = NoJob]
      BY <2>3
    <3>2. /\ Cardinality(Takers(i)') \in Nat
          /\ Cardinality(Takers(i)') = IF job[w] = i THEN Cardinality(Takers(i)) - 1
                                                     ELSE Cardinality(Takers(i))
      BY <3>1, TakersLeft
    <3>3. QED
      BY <2>1, <3>2
  <2>4. QED
    BY <2>2, <2>3 DEF Quiet
<1>2. ASSUME NEW i \in Jobs
      PROVE  row'[i].attempts + Cardinality(Takers(i)') <= claims'[i]
  <2>1. row[i].attempts \in Nat /\ row'[i].attempts \in Nat /\ claims[i] \in Nat
    BY DEF TypeOK, Row, PairedRow
  <2>2. QED
    BY <1>1, <2>1 DEF Quiet, FailuresHaveClaims
<1>3. ASSUME NEW v \in Workers, pc'[v] = "failing"
      PROVE  (loaded[v].attempts + Cardinality(Takers(job[v])) <= claims[job[v]])'
  <2>1. PICK i \in Jobs : i = job[v] /\ i = job'[v]
    BY <1>3 DEF Quiet, TypeOK, Holding
  <2>2. Takers(job[v]) = Takers(i) /\ Takers(job[v])' = Takers(i)'
    BY <2>1 DEF Takers
  <2>3. loaded[v].attempts \in Nat /\ claims[i] \in Nat
    BY DEF TypeOK, Row, PairedRow
  <2>4. loaded[v].attempts + Cardinality(Takers(i)) <= claims[i]
    BY <1>3, <2>1, <2>2 DEF Quiet, FailuresHaveClaims
  <2>5. loaded[v].attempts + Cardinality(Takers(i)') <= claims[i]
    BY <1>1, <2>3, <2>4
  <2>6. QED
    BY <1>3, <2>1, <2>2, <2>5 DEF Quiet
<1>4. NeverGivenUpEarly'
  BY DEF NeverGivenUpEarly, FailuresHaveClaims, Quiet
<1>5. QED
  BY <1>2, <1>3, <1>4 DEF FailuresHaveClaims, Quiet

\* A process that ends, or a worker that is done with its job, is quiet as far
\* as the row is.
LEMMA LetsGoQuietly ==
  ASSUME TypeOK, NEW w \in Workers, NEW l \in {"loop", "stopped", "claim"}, Goto(w, l),
         LetGo(w), claims' = claims,
         \A i \in Jobs : row'[i].attempts <= row[i].attempts,
         \A i \in Jobs : row'[i].status = "failed" => row[i].status = "failed"
  PROVE  Quiet
<1>1. job' = [job EXCEPT ![w] = NoJob]
  BY DEF LetGo
<1>2. \A v \in Workers : pc'[v] = "failing" =>
        pc[v] = "failing" /\ loaded'[v] = loaded[v] /\ job'[v] = job[v]
  BY DEF Goto, LetGo, CloseSession, TypeOK
<1>3. QED
  BY <1>1, <1>2 DEF Quiet

\* A worker that moves on inside or outside its job, and not to "failing", is
\* quiet as far as the row is.
LEMMA MovesOnQuietly ==
  ASSUME TypeOK, NEW w \in Workers, NEW l, Goto(w, l), l # "failing",
         UNCHANGED <<job, claims>>, \A v \in Workers \ {w} : loaded'[v] = loaded[v],
         \A i \in Jobs : row'[i].attempts <= row[i].attempts,
         \A i \in Jobs : row'[i].status = "failed" => row[i].status = "failed"
  PROVE  Quiet
<1>1. \A v \in Workers : pc'[v] = "failing" =>
        pc[v] = "failing" /\ loaded'[v] = loaded[v] /\ job'[v] = job[v]
  BY DEF Goto, TypeOK
<1>2. QED
  BY <1>1 DEF Quiet

\* No release and no complete() counts a failure or gives a job up.
LEMMA ReleaseFailsNone ==
  ASSUME TypeOK, NEW w \in Workers, ResetStale(w), NEW i \in Jobs
  PROVE  /\ row'[i].attempts = row[i].attempts
         /\ row'[i].status = "failed" => row[i].status = "failed"
<1>1. row[i] \in PairedRow
  BY DEF TypeOK
<1>2. Released(row[i]).attempts = row[i].attempts /\ Released(row[i]).status = "pending"
  BY <1>1 DEF Released, Unlocked, Row, PairedRow
<1>3. row'[i] = row[i] \/ row'[i] = Released(row[i])
  BY DEF ResetStale
<1>4. QED
  BY <1>2, <1>3

LEMMA CompleteFailsNone ==
  ASSUME TypeOK, NEW w \in Workers, job[w] \in Jobs, Flush(w, Completed(loaded[w])),
         NEW i \in Jobs
  PROVE  /\ row'[i].attempts = row[i].attempts
         /\ row'[i].status = "failed" => row[i].status = "failed"
<1>1. loaded[w] \in PairedRow
  BY DEF TypeOK
<1>2. Completed(loaded[w]).attempts = loaded[w].attempts /\ Completed(loaded[w]).status = "completed"
  BY <1>1, CompletedFields
<1>3. QED
  BY <1>2 DEF Flush, WriteBack, Flushed, TypeOK

\* A claim adds one to the claims of its job and at most one to its takers.
LEMMA ClaimCounts ==
  ASSUME IsFiniteSet(Workers), TypeOK, TypeOK', FailuresHaveClaims,
         NEW w \in Workers, NEW j \in Jobs, ClaimNext(w, j)
  PROVE  FailuresHaveClaims'
<1>1. /\ claims' = [claims EXCEPT ![j] = claims[j] + 1]
      /\ \A i \in Jobs : row'[i].attempts = row[i].attempts
      /\ \A i \in Jobs : row'[i].status = "failed" => row[i].status = "failed"
  BY DEF ClaimNext, MarkRunning, Claimed, TypeOK, Row, PairedRow
<1>2. job[w] = NoJob
  BY DEF ClaimNext, TypeOK, Holding
<1>3. ASSUME NEW i \in Jobs
      PROVE  /\ Cardinality(Takers(i)) \in Nat
             /\ Cardinality(Takers(i)') \in Nat
             /\ Cardinality(Takers(i)') <= Cardinality(Takers(i)) + (IF i = j THEN 1 ELSE 0)
  <2>1. Cardinality(Takers(i)) \in Nat
    BY TakersFinite
  <2>2. CASE job' = [job EXCEPT ![w] = j]
    <3>1. Cardinality(Takers(i)') = IF i = j THEN Cardinality(Takers(i)) + 1
                                             ELSE Cardinality(Takers(i))
      BY <1>2, <2>2, TakersJoined
    <3>2. QED
      BY <2>1, <3>1
  <2>3. CASE job' = [job EXCEPT ![w] = NoJob]
    <3>1. Takers(i)' = Takers(i)
      BY <1>2, <2>3 DEF Takers, TypeOK
    <3>2. QED
      BY <2>1, <3>1
  <2>4. QED
    BY <2>2, <2>3 DEF ClaimNext, Exit, LetGo
<1>4. ASSUME NEW i \in Jobs
      PROVE  row'[i].attempts + Cardinality(Takers(i)') <= claims'[i]
  <2>1. row[i].attempts \in Nat /\ claims[i] \in Nat
    BY DEF TypeOK, Row, PairedRow
  <2>2. row[i].attempts + Cardinality(Takers(i)) <= claims[i]
    BY DEF FailuresHaveClaims
  <2>3. claims'[i] = claims[i] + (IF i = j THEN 1 ELSE 0)
    BY <1>1 DEF TypeOK
  <2>4. QED
    BY <1>1, <1>3, <2>1, <2>2, <2>3
<1>5. ASSUME NEW v \in Workers, pc'[v] = "failing"
      PROVE  (loaded[v].attempts + Cardinality(Takers(job[v])) <= claims[job[v]])'
  <2>1. pc[v] = "failing" /\ loaded'[v] = loaded[v] /\ job'[v] = job[v]
    BY <1>5 DEF ClaimNext, Goto, Exit, LetGo, CloseSession, session, TypeOK
  <2>2. PICK i \in Jobs : i = job[v] /\ i = job'[v]
    BY <2>1 DEF TypeOK, Holding
  <2>3. Takers(job[v]) = Takers(i) /\ Takers(job[v])' = Takers(i)'
    BY <2>2 DEF Takers
  <2>4. loaded[v].attempts \in Nat /\ claims[i] \in Nat
    BY DEF TypeOK, Row, PairedRow
  <2>5. loaded[v].attempts + Cardinality(Takers(i)) <= claims[i]
    BY <2>1, <2>2, <2>3 DEF FailuresHaveClaims
  <2>6. claims'[i] = claims[i] + (IF i = j THEN 1 ELSE 0)
    BY <1>1 DEF TypeOK
  <2>7. loaded[v].attempts + Cardinality(Takers(i)') <= claims'[i]
    BY <1>3, <2>4, <2>5, <2>6
  <2>8. QED
    BY <2>1, <2>2, <2>7
<1>6. NeverGivenUpEarly'
  BY <1>1, JobQueueAssumption DEF NeverGivenUpEarly, FailuresHaveClaims, TypeOK
<1>7. QED
  BY <1>4, <1>5, <1>6 DEF FailuresHaveClaims
\* fail_or_retry opens its session with the attempts the row has.
LEMMA FailLoadCounts ==
  ASSUME IsFiniteSet(Workers), TypeOK, TypeOK', FailuresHaveClaims,
         NEW w \in Workers, pc[w] = "fail", Exists(job[w]), Goto(w, "failing"),
         loaded' = [loaded EXCEPT ![w] = row[job[w]]], UNCHANGED <<row, job, claims>>
  PROVE  FailuresHaveClaims'
<1>1. job[w] \in Jobs
  BY DEF TypeOK, Holding
<1>2. \A i : Takers(i)' = Takers(i)
  BY DEF Takers
<1>3. ASSUME NEW v \in Workers, pc'[v] = "failing"
      PROVE  (loaded[v].attempts + Cardinality(Takers(job[v])) <= claims[job[v]])'
  <2>1. PICK i : i = job[v] /\ i = job'[v]
    OBVIOUS
  <2>2. Takers(job[v]) = Takers(i) /\ Takers(job[v])' = Takers(i)
    BY <2>1, <1>2 DEF Takers
  <2>3. loaded'[v].attempts + Cardinality(Takers(i)) <= claims[i]
    <3>1. CASE v = w
      <4>1. loaded'[v] = row[i] /\ i \in Jobs
        BY <1>1, <2>1, <3>1 DEF TypeOK
      <4>2. QED
        BY <4>1 DEF FailuresHaveClaims
    <3>2. CASE v # w
      <4>1. loaded'[v] = loaded[v] /\ pc[v] = "failing"
        BY <1>3, <3>2 DEF TypeOK, Goto
      <4>2. QED
        BY <2>1, <2>2, <4>1 DEF FailuresHaveClaims
    <3>3. QED
      BY <3>1, <3>2
  <2>4. QED
    BY <2>1, <2>2, <2>3
<1>4. \A i \in Jobs : row'[i].attempts + Cardinality(Takers(i)') <= claims'[i]
  BY <1>2 DEF FailuresHaveClaims
<1>5. NeverGivenUpEarly'
  BY DEF NeverGivenUpEarly, FailuresHaveClaims
<1>6. QED
  BY <1>3, <1>4, <1>5 DEF FailuresHaveClaims

\* fail_or_retry writes one failure more than it loaded, whatever the row holds
\* by now, and gives up only if that makes MaxAttempts.
LEMMA FailFlush ==
  ASSUME TypeOK, NEW w \in Workers, job[w] \in Jobs,
         Flush(w, AfterFailure(loaded[w], now[w]))
  PROVE  /\ row'[job[w]].attempts = loaded[w].attempts + 1
         /\ row'[job[w]].status = "failed" =>
              row[job[w]].status = "failed" \/ loaded[w].attempts + 1 >= MaxAttempts
         /\ \A i \in Jobs \ {job[w]} : row'[i] = row[i]
<1>1. loaded[w] \in PairedRow /\ now[w] \in Nat /\ loaded[w].attempts \in Nat
  BY DEF TypeOK, Row, PairedRow
<1>2. /\ AfterFailure(loaded[w], now[w]).attempts = loaded[w].attempts + 1
      /\ AfterFailure(loaded[w], now[w]).status =
           IF loaded[w].attempts + 1 >= MaxAttempts THEN "failed" ELSE "pending"
  BY <1>1, AfterFailureFields
<1>3. QED
  BY <1>1, <1>2 DEF Flush, WriteBack, Flushed, TypeOK

\* The failure that is counted is the claim of the worker that leaves.
LEMMA FailWriteCounts ==
  ASSUME IsFiniteSet(Workers), TypeOK, TypeOK', FailuresHaveClaims,
         NEW w \in Workers, NEW l \in {"loop", "stopped"}, pc[w] = "failing",
         Flush(w, AfterFailure(loaded[w], now[w])), Goto(w, l), LetGo(w), claims' = claims
  PROVE  FailuresHaveClaims'
<1>1. PICK j \in Jobs : j = job[w]
  BY DEF TypeOK, Holding
<1>2. Takers(job[w]) = Takers(j)
  BY <1>1 DEF Takers
<1>3. /\ row'[j].attempts = loaded[w].attempts + 1
      /\ row'[j].status = "failed" =>
           row[j].status = "failed" \/ loaded[w].attempts + 1 >= MaxAttempts
      /\ \A i \in Jobs \ {j} : row'[i] = row[i]
  BY <1>1, FailFlush
<1>4. loaded[w].attempts \in Nat /\ claims[j] \in Nat
  BY DEF TypeOK, Row, PairedRow
<1>5. loaded[w].attempts + Cardinality(Takers(j)) <= claims[j]
  BY <1>1, <1>2 DEF FailuresHaveClaims
<1>6. ASSUME NEW i \in Jobs
      PROVE  /\ Cardinality(Takers(i)) \in Nat /\ Cardinality(Takers(i)') \in Nat
             /\ Cardinality(Takers(i)') = IF i = j THEN Cardinality(Takers(i)) - 1
                                                  ELSE Cardinality(Takers(i))
  <2>1. job' = [job EXCEPT ![w] = NoJob]
    BY DEF LetGo
  <2>2. QED
    BY <1>1, <2>1, TakersFinite, TakersLeft
<1>7. ASSUME NEW i \in Jobs
      PROVE  row'[i].attempts + Cardinality(Takers(i)') <= claims'[i]
  <2>1. CASE i = j
    BY <1>3, <1>4, <1>5, <1>6, <2>1
  <2>2. CASE i # j
    BY <1>3, <1>6, <2>2 DEF FailuresHaveClaims
  <2>3. QED
    BY <2>1, <2>2
<1>8. ASSUME NEW v \in Workers, pc'[v] = "failing"
      PROVE  (loaded[v].attempts + Cardinality(Takers(job[v])) <= claims[job[v]])'
  <2>1. pc[v] = "failing" /\ loaded'[v] = loaded[v] /\ job'[v] = job[v]
    BY <1>8 DEF Goto, LetGo, CloseSession, TypeOK
  <2>2. PICK i \in Jobs : i = job[v] /\ i = job'[v]
    BY <2>1 DEF TypeOK, Holding
  <2>3. Takers(job[v]) = Takers(i) /\ Takers(job[v])' = Takers(i)'
    BY <2>2 DEF Takers
  <2>4. loaded[v].attempts \in Nat /\ claims[i] \in Nat
    BY DEF TypeOK, Row, PairedRow
  <2>5. loaded[v].attempts + Cardinality(Takers(i)) <= claims[i]
    BY <2>1, <2>2, <2>3 DEF FailuresHaveClaims
  <2>6. loaded[v].attempts + Cardinality(Takers(i)') <= claims[i]
    BY <1>6, <2>4, <2>5
  <2>7. QED
    BY <2>1, <2>2, <2>6
<1>9. NeverGivenUpEarly'
  <2> SUFFICES ASSUME NEW i \in Jobs, row'[i].status = "failed"
               PROVE  claims[i] >= MaxAttempts
    BY DEF NeverGivenUpEarly
  <2>1. CASE row[i].status = "failed"
    BY <2>1 DEF FailuresHaveClaims, NeverGivenUpEarly
  <2>2. CASE row[i].status # "failed"
    <3>1. i = j /\ loaded[w].attempts + 1 >= MaxAttempts
      BY <1>3, <2>2
    <3>2. Cardinality(Takers(j)) >= 1
      <4>1. Cardinality(Takers(j)) - 1 \in Nat
        BY <1>6
      <4>2. QED
        BY <1>6, <4>1
    <3>3. QED
      BY <1>4, <1>5, <1>6, <3>1, <3>2, JobQueueAssumption
  <2>3. QED
    BY <2>1, <2>2
<1>10. QED
  BY <1>7, <1>8, <1>9 DEF FailuresHaveClaims
\* Every step keeps the count.
LEMMA FailuresStep ==
  ASSUME IsFiniteSet(Workers), TypeOK, TypeOK', FailuresHaveClaims, [Next]_vars
  PROVE  FailuresHaveClaims'
<1>1. ASSUME NEW j \in Jobs, Enqueue(j) \/ DeleteDocument(j)
      PROVE  Quiet
  <2>1. PICK r \in {Queued(clock), Gone} : row' = [row EXCEPT ![j] = r]
    BY <1>1 DEF Enqueue, DeleteDocument
  <2>2. r.attempts = 0 /\ r.status # "failed"
    BY <2>1 DEF Queued, Gone, EmptyRow
  <2>3. \A i \in Jobs : row[i].attempts \in Nat
    BY DEF TypeOK, Row, PairedRow
  <2>4. UNCHANGED <<pc, job, loaded, claims>>
    BY <1>1 DEF Enqueue, DeleteDocument, session
  <2>5. QED
    BY <2>1, <2>2, <2>3, <2>4 DEF Quiet, TypeOK
<1>2. ASSUME NEW w \in Workers, ReleaseRead(w) \/ ClaimNothing(w) \/ RunRaises(w)
                               \/ Restart(w)
      PROVE  Quiet
  <2>1. UNCHANGED <<row, job, claims, loaded>>
    BY <1>2 DEF ReleaseRead, ClaimNothing, RunRaises, Restart, session
  <2>2. PICK l \in {"loop", "release", "claim", "fail"} : Goto(w, l)
    BY <1>2 DEF ReleaseRead, ClaimNothing, RunRaises, Restart
  <2>3. QED
    BY <2>1, <2>2, MovesOnQuietly DEF TypeOK, Row, PairedRow
<1>3. ASSUME NEW w \in Workers, ReadRefused(w) \/ Stop(w) \/ Crash(w)
      PROVE  Quiet
  <2>1. Exit(w) /\ UNCHANGED <<row, claims>>
    BY <1>3 DEF ReadRefused, Stop, Crash
  <2>2. QED
    BY <2>1, LetsGoQuietly DEF Exit, TypeOK, Row, PairedRow
<1>4. ASSUME NEW w \in Workers, ReleaseWrite(w)
      PROVE  Quiet
  <2>1. UNCHANGED claims /\ (ResetStale(w) \/ UNCHANGED row)
    BY <1>4 DEF ReleaseWrite
  <2>2. \A i \in Jobs : /\ row'[i].attempts <= row[i].attempts
                        /\ row'[i].status = "failed" => row[i].status = "failed"
    BY <2>1, ReleaseFailsNone DEF TypeOK, Row, PairedRow
  <2>3. CASE Exit(w)
    BY <2>1, <2>2, <2>3, LetsGoQuietly DEF Exit
  <2>4. CASE Goto(w, "claim") /\ CloseSession(w) /\ UNCHANGED job
    BY <2>1, <2>2, <2>4, MovesOnQuietly DEF CloseSession
  <2>5. QED
    BY <1>4, <2>3, <2>4 DEF ReleaseWrite
<1>5. ASSUME NEW w \in Workers, ClaimRefresh(w) \/ CompleteLoad(w)
      PROVE  Quiet
  <2>1. UNCHANGED <<row, claims>>
    BY <1>5 DEF ClaimRefresh, CompleteLoad
  <2>2. \A i \in Jobs : /\ row'[i].attempts <= row[i].attempts
                        /\ row'[i].status = "failed" => row[i].status = "failed"
    BY <2>1 DEF TypeOK, Row, PairedRow
  <2>3. CASE Exit(w)
    BY <2>1, <2>2, <2>3, LetsGoQuietly DEF Exit
  <2>4. CASE /\ Goto(w, "run") \/ Goto(w, "completing") \/ Goto(w, "fail")
             /\ UNCHANGED job
             /\ \A v \in Workers \ {w} : loaded'[v] = loaded[v]
    BY <2>1, <2>2, <2>4, MovesOnQuietly
  <2>5. QED
    BY <1>5, <2>3, <2>4 DEF ClaimRefresh, CompleteLoad, session, TypeOK
<1>6. ASSUME NEW w \in Workers, CompleteWrite(w)
      PROVE  Quiet
  <2>1. UNCHANGED claims /\ (Flush(w, Completed(loaded[w])) \/ UNCHANGED row)
    BY <1>6 DEF CompleteWrite
  <2>2. job[w] \in Jobs
    BY <1>6 DEF CompleteWrite, TypeOK, Holding
  <2>3. \A i \in Jobs : /\ row'[i].attempts <= row[i].attempts
                        /\ row'[i].status = "failed" => row[i].status = "failed"
    BY <2>1, <2>2, CompleteFailsNone DEF TypeOK, Row, PairedRow
  <2>4. CASE Goto(w, "loop") /\ LetGo(w)
    BY <2>1, <2>3, <2>4, LetsGoQuietly
  <2>5. CASE Goto(w, "fail") /\ CloseSession(w) /\ UNCHANGED job
    BY <2>1, <2>3, <2>5, MovesOnQuietly DEF CloseSession
  <2>6. QED
    BY <1>6, <2>4, <2>5 DEF CompleteWrite
<1>7. ASSUME NEW w \in Workers, NEW j \in Jobs, ClaimNext(w, j)
      PROVE  FailuresHaveClaims'
  BY <1>7, ClaimCounts
<1>8. ASSUME NEW w \in Workers, FailLoad(w)
      PROVE  FailuresHaveClaims'
  <2>1. CASE Exit(w)
    <3>1. Quiet
      BY <1>8, <2>1, LetsGoQuietly DEF FailLoad, Exit, TypeOK, Row, PairedRow
    <3>2. QED
      BY <3>1, QuietStep
  <2>2. CASE ~Exit(w)
    BY <1>8, <2>2, FailLoadCounts DEF FailLoad
  <2>3. QED
    BY <2>1, <2>2
<1>9. ASSUME NEW w \in Workers, FailWrite(w)
      PROVE  FailuresHaveClaims'
  <2>1. PICK l \in {"loop", "stopped"} : Goto(w, l) /\ LetGo(w) /\ claims' = claims
    BY <1>9 DEF FailWrite, Exit
  <2>2. CASE Flush(w, AfterFailure(loaded[w], now[w]))
    BY <1>9, <2>1, <2>2, FailWriteCounts DEF FailWrite
  <2>3. CASE UNCHANGED row
    <3>1. Quiet
      BY <2>1, <2>3, LetsGoQuietly DEF TypeOK, Row, PairedRow
    <3>2. QED
      BY <3>1, QuietStep
  <2>4. QED
    BY <1>9, <2>2, <2>3 DEF FailWrite
<1>10. CASE Tick \/ UNCHANGED vars
  <2>1. Quiet
    BY <1>10 DEF Tick, vars, session, Quiet, TypeOK, Row, PairedRow
  <2>2. QED
    BY <2>1, QuietStep
<1>11. QED
  BY <1>1, <1>2, <1>3, <1>4, <1>5, <1>6, <1>7, <1>8, <1>9, <1>10, QuietStep
  DEF Next, WorkerStep

\* No job is given up before MaxAttempts claims were spent on it, for any number
\* of workers and jobs, whoever overruns, is killed, is refused or loses an
\* update.
THEOREM NoEarlyFailure == ASSUME IsFiniteSet(Workers) PROVE Spec => []NeverGivenUpEarly
<1>1. ASSUME Init
      PROVE  FailuresHaveClaims
  <2>1. \A j \in Jobs : Takers(j) = {}
    BY <1>1, JobQueueAssumption DEF Init, Takers
  <2>2. Cardinality({}) = 0
    BY FS_EmptySet
  <2>3. QED
    BY <1>1, <2>1, <2>2 DEF Init, EmptyRow, FailuresHaveClaims, NeverGivenUpEarly
<1>2. TypeOK /\ TypeOK' /\ FailuresHaveClaims /\ [Next]_vars => FailuresHaveClaims'
  BY FailuresStep
<1>3. FailuresHaveClaims => NeverGivenUpEarly
  BY DEF FailuresHaveClaims
<1>4. QED
  BY <1>1, <1>2, <1>3, TypeCorrect, PTL DEF Spec
=============================================================================
