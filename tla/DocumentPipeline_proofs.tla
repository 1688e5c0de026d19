---------------------- MODULE DocumentPipeline_proofs ----------------------
(***************************************************************************)
(* Theorems about JobLedger and DocumentPipeline: whatever runs, crashes,  *)
(* exceptions and deletes a document went through, what it says of itself  *)
(* agrees with what was done to it, for any number of documents, pages and *)
(* workers.                                                                *)
(***************************************************************************)
EXTENDS DocumentPipeline, TLAPS

-----------------------------------------------------------------------------
\* The ledger by itself.

\* A job that may still be tried has a failure left.
LedgerInv ==
  /\ TypeOK
  /\ HeldByOne
  /\ \A j \in Jobs : status[j] \in {"unborn", "pending", "running"} => attempts[j] < MaxAttempts

LEMMA LedgerStart == ASSUME Init PROVE LedgerInv
  BY JobLedgerAssumption DEF Init, LedgerInv, TypeOK, HeldByOne

\* The status of a job that had no row, or has none any more.
LEMMA UnheldMoves ==
  ASSUME LedgerInv, NEW j \in Jobs, Enqueue(j) \/ Delete(j) PROVE LedgerInv'
<1>1. \A w \in Workers : holds[w] \in Jobs \cup {NoJob}
  BY DEF LedgerInv, TypeOK
<1>2. CASE Enqueue(j)
  <2>1. \A w \in Workers : holds[w] # j
    BY <1>1, <1>2, JobLedgerAssumption DEF Enqueue, LedgerInv, HeldByOne
  <2>2. QED
    BY <1>1, <1>2, <2>1, JobLedgerAssumption DEF Enqueue, LedgerInv, TypeOK, HeldByOne, JobStatus
<1>3. CASE Delete(j)
  BY <1>1, <1>3, JobLedgerAssumption DEF Delete, LedgerInv, TypeOK, HeldByOne, JobStatus
<1>4. QED
  BY <1>2, <1>3

LEMMA ClaimKeepsLedger ==
  ASSUME LedgerInv, NEW w \in Workers, NEW j \in Jobs, Claim(w, j) PROVE LedgerInv'
<1>1. \A v \in Workers : holds[v] # j
  BY JobLedgerAssumption DEF Claim, LedgerInv, HeldByOne
<1>2. QED
  BY <1>1, JobLedgerAssumption DEF Claim, LedgerInv, TypeOK, HeldByOne, JobStatus

\* A worker lets go of its job, which nobody holds then.
LEMMA LettingGoKeepsLedger ==
  ASSUME LedgerInv, NEW w \in Workers, NEW j \in Jobs, Settle(w, j) \/ Abandon(w, j)
  PROVE  LedgerInv' /\ \A v \in Workers : holds'[v] # j
<1>1. holds[w] = j /\ holds' = [holds EXCEPT ![w] = NoJob] /\ j # NoJob
  BY JobLedgerAssumption DEF Settle, Complete, Fail, Drop, Abandon
<1>2. \A v \in Workers : holds[v] = j => v = w
  BY <1>1 DEF LedgerInv, HeldByOne
<1>3. holds \in [Workers -> Jobs \cup {NoJob}]
  BY DEF LedgerInv, TypeOK
<1>4. \A v \in Workers : holds'[v] # j
  BY <1>1, <1>2, <1>3
<1>5. CASE Complete(w, j)
  BY <1>1, <1>2, <1>3, <1>5 DEF Complete, LedgerInv, TypeOK, HeldByOne, JobStatus
<1>6. CASE Fail(w, j)
  <2>1. attempts[j] \in 0..MaxAttempts /\ attempts[j] < MaxAttempts
    BY <1>6 DEF Fail, LedgerInv, TypeOK
  <2>2. attempts[j] + 1 \in 0..MaxAttempts
    BY <2>1, JobLedgerAssumption
  <2>3. StatusAfter(attempts[j] + 1) \in {"failed", "pending"}
        /\ (StatusAfter(attempts[j] + 1) = "pending" => attempts[j] + 1 < MaxAttempts)
    BY <2>1, JobLedgerAssumption DEF StatusAfter
  <2>4. TypeOK'
    BY <1>1, <1>3, <1>6, <2>2, <2>3 DEF Fail, LedgerInv, TypeOK, JobStatus
  <2>5. HeldByOne'
    BY <1>1, <1>2, <1>3, <1>6 DEF Fail, LedgerInv, TypeOK, HeldByOne
  <2>6. (\A i \in Jobs : status[i] \in {"unborn", "pending", "running"} =>
                          attempts[i] < MaxAttempts)'
    BY <1>6, <2>3 DEF Fail, LedgerInv, TypeOK
  <2>7. QED
    BY <1>4, <2>4, <2>5, <2>6 DEF LedgerInv
<1>7. CASE Drop(w, j) \/ Abandon(w, j)
  BY <1>1, <1>2, <1>3, <1>4, <1>7 DEF Drop, Abandon, LedgerInv, TypeOK, HeldByOne
<1>8. QED
  BY <1>4, <1>5, <1>6, <1>7 DEF Settle

LEMMA HandBackKeepsLedger ==
  ASSUME LedgerInv, NEW js \in SUBSET Jobs, HandBack(js) PROVE LedgerInv'
  BY JobLedgerAssumption DEF HandBack, Held, LedgerInv, TypeOK, HeldByOne, JobStatus

LEMMA ClaimLostKeepsLedger ==
  ASSUME LedgerInv, NEW j \in Jobs, ClaimLost(j) PROVE LedgerInv'
<1>1. \A v \in Workers : holds[v] # j
  BY JobLedgerAssumption DEF ClaimLost, LedgerInv, HeldByOne
<1>2. QED
  BY <1>1, JobLedgerAssumption DEF ClaimLost, LedgerInv, TypeOK, HeldByOne, JobStatus

LEMMA LedgerStep == ASSUME LedgerInv, [Next]_ledger PROVE LedgerInv'
<1>1. CASE UNCHANGED ledger
  BY <1>1 DEF ledger, LedgerInv, TypeOK, HeldByOne
<1>2. QED
  BY <1>1, UnheldMoves, ClaimKeepsLedger, ClaimLostKeepsLedger, LettingGoKeepsLedger,
     HandBackKeepsLedger DEF Next

\* A job of the ledger has one holder at most, while it runs or after it was
\* deleted under its holder, and is failed after MaxAttempts failures at most.
THEOREM LedgerHolders == SafeSpec => [](TypeOK /\ HeldByOne)
<1>1. LedgerInv => TypeOK /\ HeldByOne
  BY DEF LedgerInv
<1>2. QED
  BY <1>1, LedgerStart, LedgerStep, PTL DEF SafeSpec

-----------------------------------------------------------------------------
\* What a document's row says, at any time and at each label of its holder.

Document(d) ==
  [processing_status : ProcessingStatus \cup {"none", "gone"},
   classification_error : BOOLEAN, parsing_error : BOOLEAN,
   pages : {{}, PagesOf(d)}, extracts : SUBSET PagesOf(d)]

\* ParsedHasText and ErrorsMatchStatus, of one row, where the documents in skips
\* had a run that did not classify them.
Sound(d, r, skips) ==
  /\ r \in Document(d)
  /\ r.processing_status = "parsed" =>
       /\ SimplePages(d) \cap r.pages \subseteq r.extracts
       /\ d \notin skips => r.pages = PagesOf(d)
  /\ r.processing_status = "classification_failed" => r.classification_error
  /\ r.classification_error => r.processing_status = "classification_failed" \/ d \in skips
  /\ r.processing_status = "parsing_failed" => r.parsing_error
  /\ r.processing_status \in {"parsing", "parsed"} => ~r.parsing_error

\* The labels a run comes to on its way from the classification.
Unskipped(d, label, skips) == label \in {"get_pages", "no_pages", "parsing"} /\ d \notin skips

\* The holder of d at this label, with these extracts to save, meets the row r.
Meets(d, label, r, out, skips) ==
  /\ label \in {"classify", "unclassified", "save_pages", "classified"} =>
       r.processing_status = "classifying"
  /\ label \in {"save_pages", "classified", "parse", "save_extracts", "parsed"} =>
       PagesOf(d) # {}
  /\ label = "check" => r.processing_status \in {"classified", "classification_failed"}
  /\ (label = "check" /\ r.processing_status = "classified") \/ Unskipped(d, label, skips) =>
       PagesOf(d) # {} /\ r.pages = PagesOf(d)
  /\ Unskipped(d, label, skips) => r.processing_status = "classified"
  /\ label = "no_pages" => r.pages = {}
  /\ label \in {"classified", "parse", "save_extracts", "parsed"} => r.pages = PagesOf(d)
  /\ label = "parsing" => r.pages = PagesOf(d) /\ PagesOf(d) # {}
  /\ label \in {"parse", "save_extracts", "parsed"} => r.processing_status = "parsing"
  /\ label = "unparsed" =>
       r.processing_status \in {"parsing", "parsed"} /\ r.pages = PagesOf(d)
  /\ label \in {"log", "complete"} => r.processing_status \in Terminal
  /\ label = "save_extracts" => SimplePages(d) \subseteq out
  /\ label = "parsed" => SimplePages(d) \subseteq r.extracts

\* The row of a document and the row of its job.
RowsAgree(d) ==
  /\ status[d] \in JobStatus => Exists(d)
  /\ status[d] = "gone" => doc[d].processing_status = "gone"
  /\ status[d] = "completed" => doc[d].processing_status \in Terminal

WorkerOK(w) ==
  /\ pc[w] \in Labels
  /\ pc[w] # "idle" <=> holds[w] # NoJob
  /\ output[w] # {} => pc[w] = "save_extracts" /\ output[w] \subseteq PagesOf(holds[w])
  /\ holds[w] # NoJob /\ Exists(holds[w]) => Meets(holds[w], pc[w], doc[holds[w]], output[w], skipped)

PipelineInv ==
  /\ LedgerInv
  /\ doc = [d \in Jobs |-> doc[d]]
  /\ pc \in [Workers -> Labels]
  /\ output = [w \in Workers |-> output[w]]
  /\ skipped \subseteq Jobs
  /\ \A d \in Jobs : Sound(d, doc[d], skipped) /\ RowsAgree(d)
  /\ \A w \in Workers : WorkerOK(w)

LEMMA PipelineStart == ASSUME PipelineInit PROVE PipelineInv
<1>1. LedgerInv
  BY LedgerStart DEF PipelineInit
<1>2. \A d \in Jobs : NoDocument \in Document(d)
  BY DEF NoDocument, Document, ProcessingStatus
<1>3. ASSUME NEW d \in Jobs PROVE Sound(d, doc[d], skipped) /\ RowsAgree(d)
  BY <1>2 DEF PipelineInit, Init, Sound, NoDocument, RowsAgree, JobStatus
<1>4. ASSUME NEW w \in Workers PROVE WorkerOK(w)
  BY DEF PipelineInit, Init, WorkerOK, Labels
<1>5. QED
  BY <1>1, <1>3, <1>4 DEF PipelineInit, PipelineInv, Labels

-----------------------------------------------------------------------------
\* The steps of a run.

\* A step of w's run of d leads to this label, leaves this row and has these
\* extracts to save.
RunsOn(w, d, label, r, out) ==
  /\ UNCHANGED ledger
  /\ doc' = [doc EXCEPT ![d] = r]
  /\ pc' = [pc EXCEPT ![w] = label]
  /\ output' = [output EXCEPT ![w] = out]
  /\ skipped' \in {skipped, skipped \cup {d}}

\* What such a step may leave behind.
MayLeave(d, label, r, out, skips) ==
  /\ label \in Labels \ {"idle"}
  /\ Sound(d, r, skips)
  /\ IF Exists(d) THEN r.processing_status \in ProcessingStatus ELSE r = doc[d]
  /\ out # {} => label = "save_extracts" /\ out \subseteq PagesOf(d)
  /\ Exists(d) => Meets(d, label, r, out, skips)

\* A run that skips classification asks less of its document, and says nothing
\* of the others.
LEMMA SkipsAddUp ==
  ASSUME NEW d, NEW e, NEW r, NEW skips, NEW more, more \in {skips, skips \cup {d}}
  PROVE  /\ Sound(e, r, skips) => Sound(e, r, more)
         /\ e # d => \A label, out : Meets(e, label, r, out, skips) <=> Meets(e, label, r, out, more)
  BY DEF Sound, Meets, Unskipped

\* Other workers hold other documents, so nothing they rely on has changed.
LEMMA RunsOnKeeps ==
  ASSUME PipelineInv, NEW w \in Workers, NEW d \in Jobs, holds[w] = d,
         NEW label, NEW r, NEW out, RunsOn(w, d, label, r, out), MayLeave(d, label, r, out, skipped')
  PROVE  PipelineInv'
<1>1. LedgerInv'
  BY LedgerStep DEF RunsOn, PipelineInv
<1>2. /\ doc' = [e \in Jobs |-> doc'[e]] /\ output' = [v \in Workers |-> output'[v]]
      /\ pc' \in [Workers -> Labels]
      /\ \A e \in Jobs : doc'[e] = IF e = d THEN r ELSE doc[e]
      /\ \A v \in Workers : pc'[v] = (IF v = w THEN label ELSE pc[v])
                            /\ output'[v] = (IF v = w THEN out ELSE output[v])
  BY DEF RunsOn, MayLeave, PipelineInv
<1>3. status' = status /\ holds' = holds /\ d # NoJob
  BY JobLedgerAssumption DEF RunsOn, ledger
<1>4. status[d] \in {"running", "gone"} /\ \A v \in Workers : holds[v] = d => v = w
  BY <1>3 DEF PipelineInv, LedgerInv, HeldByOne
<1>5. ASSUME NEW e \in Jobs PROVE Sound(e, doc[e], skipped)' /\ RowsAgree(e)'
  <2>1. CASE e = d
    <3>1. Sound(d, r, skipped') /\ doc'[d] = r /\ RowsAgree(d)
      BY <1>2 DEF MayLeave, PipelineInv
    <3>2. IF Exists(d) THEN r.processing_status \in ProcessingStatus ELSE r = doc[d]
      BY DEF MayLeave
    <3>3. status[d] # "completed" /\ "gone" \notin ProcessingStatus
      BY <1>4 DEF ProcessingStatus
    <3>4. QED
      BY <1>3, <2>1, <3>1, <3>2, <3>3 DEF RowsAgree, Exists, Sound
  <2>2. CASE e # d
    <3>1. Sound(e, doc[e], skipped') /\ doc'[e] = doc[e] /\ RowsAgree(e)
      BY <1>2, <2>2, SkipsAddUp DEF PipelineInv, RunsOn
    <3>2. QED
      BY <1>3, <3>1 DEF RowsAgree, Exists
  <2>3. QED
    BY <2>1, <2>2
<1>6. ASSUME NEW v \in Workers PROVE WorkerOK(v)'
  <2>1. CASE v = w
    <3>1. Exists(d) => Meets(d, label, r, out, skipped')
      BY DEF MayLeave
    <3>2. doc'[d].processing_status \in ProcessingStatus => Exists(d)
      BY <1>2 DEF MayLeave, Exists
    <3>3. QED
      BY <1>2, <1>3, <2>1, <3>1, <3>2 DEF MayLeave, WorkerOK, Exists
  <2>2. CASE v # w
    <3>1. holds[v] # d /\ holds[v] \in Jobs \cup {NoJob}
      BY <1>4, <2>2 DEF PipelineInv, LedgerInv, TypeOK
    <3>2. holds[v] \in Jobs => doc'[holds[v]] = doc[holds[v]]
      BY <1>2, <3>1
    <3>3. WorkerOK(v)
      BY DEF PipelineInv
    <3>4. pc'[v] = pc[v] /\ output'[v] = output[v] /\ holds'[v] = holds[v]
      BY <1>2, <1>3, <2>2
    <3>5. holds[v] # NoJob => holds[v] # d /\ holds[v] \in Jobs
      BY <3>1
    <3>6. holds[v] # NoJob /\ Exists(holds[v]) =>
            Meets(holds[v], pc[v], doc[holds[v]], output[v], skipped')
      BY <3>3, <3>5, SkipsAddUp DEF WorkerOK, RunsOn
    <3>7. QED
      BY <3>1, <3>2, <3>3, <3>4, <3>6 DEF WorkerOK, Exists
  <2>3. QED
    BY <2>1, <2>2
<1>7. skipped' \subseteq Jobs
  BY DEF RunsOn, PipelineInv
<1>8. QED
  BY <1>1, <1>2, <1>5, <1>6, <1>7 DEF PipelineInv

\* A step that only moves on, and one that saves a row of the document.
LEMMA MovingOnKeeps ==
  ASSUME PipelineInv, NEW w \in Workers, NEW d \in Jobs, holds[w] = d, pc[w] # "save_extracts",
         NEW label \in Labels \ {"idle"}, Goto(w, label), UNCHANGED <<doc, output>>,
         skipped' \in {skipped, skipped \cup {d}},
         Exists(d) => Meets(d, label, doc[d], {}, skipped')
  PROVE  PipelineInv'
<1>1. output[w] = {}
  BY DEF PipelineInv, WorkerOK
<1>2. RunsOn(w, d, label, doc[d], {})
  BY <1>1 DEF Goto, RunsOn, PipelineInv
<1>3. MayLeave(d, label, doc[d], {}, skipped')
  BY SkipsAddUp DEF MayLeave, PipelineInv, Exists
<1>4. QED
  BY <1>2, <1>3, RunsOnKeeps

LEMMA SavingKeeps ==
  ASSUME PipelineInv, NEW w \in Workers, NEW d \in Jobs, holds[w] = d, pc[w] # "save_extracts",
         NEW label \in Labels \ {"idle"}, Goto(w, label), NEW r, Exists(d), UNCHANGED <<output, skipped>>,
         doc' = [doc EXCEPT ![d] = r], Sound(d, r, skipped), r.processing_status \in ProcessingStatus,
         Meets(d, label, r, {}, skipped)
  PROVE  PipelineInv'
<1>1. output[w] = {}
  BY DEF PipelineInv, WorkerOK
<1>2. RunsOn(w, d, label, r, {})
  BY <1>1 DEF Goto, RunsOn, PipelineInv
<1>3. MayLeave(d, label, r, {}, skipped)
  BY DEF MayLeave
<1>4. QED
  BY <1>2, <1>3, RunsOnKeeps

\* What the holder of an existing document meets.
LEMMA HolderMeets ==
  ASSUME PipelineInv, NEW w \in Workers, NEW d \in Jobs, holds[w] = d
  PROVE  /\ pc[w] \in Labels \ {"idle"} /\ Sound(d, doc[d], skipped)
         /\ Exists(d) => Meets(d, pc[w], doc[d], output[w], skipped)
  BY JobLedgerAssumption DEF PipelineInv, WorkerOK

\* An exception leads to a label that meets the same row.
LEMMA RaisingKeeps ==
  ASSUME PipelineInv, NEW w \in Workers, NEW d \in Jobs, holds[w] = d, pc[w] # "save_extracts",
         NEW handler, Raise(w, handler), UNCHANGED skipped,
         \/ handler = "fail"
         \/ handler = "unclassified" /\ pc[w] = "classify"
         \/ handler = "unparsed" /\ pc[w] \in {"parse", "parsed"}
  PROVE  PipelineInv'
<1>1. handler \in Labels \ {"idle"}
  BY DEF Labels, StatusCalls
<1>2. Exists(d) => Meets(d, handler, doc[d], {}, skipped)
  BY HolderMeets DEF Meets, Unskipped
<1>3. QED
  BY <1>1, <1>2, MovingOnKeeps DEF Raise

\* _apply_processing_status keeps a row sound, if what "parsed" promises is there.
LEMMA AppliedIsSound ==
  ASSUME NEW d \in Jobs, NEW r, Sound(d, r, skipped), NEW new \in ProcessingStatus,
         new \in {"classified", "parsing", "parsed", "parsing_failed"} =>
           ~r.classification_error \/ d \in skipped,
         new = "parsed" => SimplePages(d) \cap r.pages \subseteq r.extracts
                           /\ (d \notin skipped => r.pages = PagesOf(d)),
         new # "uploaded"
  PROVE  /\ Sound(d, Applied(r, new), skipped) /\ Applied(r, new).processing_status = new
         /\ Applied(r, new).pages = r.pages /\ Applied(r, new).extracts = r.extracts
<1>1. r \in Document(d)
  BY DEF Sound
<1>2. QED
  BY <1>1 DEF Sound, Applied, Document, ProcessingStatus

LEMMA StatusCallKeeps ==
  ASSUME PipelineInv, NEW w \in Workers, NEW d \in Jobs, holds[w] = d,
         SetProcessingStatus(w, d), UNCHANGED skipped
  PROVE  PipelineInv'
<1> DEFINE call == StatusCalls[pc[w]]
<1>1. pc[w] \in {"classifying", "unclassified", "classified", "no_pages", "parsing", "parsed",
                 "unparsed"} /\ pc[w] # "save_extracts"
  BY DEF SetProcessingStatus, StatusCalls
<1>2. CASE Raise(w, call.else)
  BY <1>1, <1>2, RaisingKeeps DEF StatusCalls
<1>3. ASSUME Exists(d), doc' = [doc EXCEPT ![d] = Applied(@, call.set)], UNCHANGED output,
             NEW label \in {call.then, call.else}, Goto(w, label)
      PROVE  PipelineInv'
  <2>1. Meets(d, pc[w], doc[d], output[w], skipped) /\ Sound(d, doc[d], skipped)
    BY <1>3, HolderMeets
  <2>2. /\ call.set \in ProcessingStatus /\ call.set # "uploaded"
        /\ label \in Labels \ {"idle"}
    BY <1>1, <1>3 DEF StatusCalls, ProcessingStatus, Labels
  <2>3. doc[d].classification_error =>
          doc[d].processing_status = "classification_failed" \/ d \in skipped
    BY <2>1 DEF Sound
  <2>4. /\ call.set \in {"classified", "parsing", "parsed", "parsing_failed"} =>
             ~doc[d].classification_error \/ d \in skipped
        /\ call.set = "parsed" => SimplePages(d) \cap doc[d].pages \subseteq doc[d].extracts
                                  /\ (d \notin skipped => doc[d].pages = PagesOf(d))
    BY <1>1, <2>1, <2>3 DEF StatusCalls, Meets, Unskipped
  <2>5. Sound(d, Applied(doc[d], call.set), skipped)
        /\ Applied(doc[d], call.set).processing_status = call.set
        /\ Applied(doc[d], call.set).pages = doc[d].pages
        /\ Applied(doc[d], call.set).extracts = doc[d].extracts
    BY <2>1, <2>2, <2>4, AppliedIsSound
  <2>6. Meets(d, label, Applied(doc[d], call.set), {}, skipped)
    BY <1>1, <1>3, <2>1, <2>5 DEF StatusCalls, Meets, Unskipped, Terminal
  <2>7. doc' = [doc EXCEPT ![d] = Applied(doc[d], call.set)]
    BY <1>3
  <2>8. QED
    BY <1>1, <1>3, <2>2, <2>5, <2>6, <2>7, SavingKeeps
<1>4. QED
  BY <1>2, <1>3 DEF SetProcessingStatus

LEMMA ReadingKeeps ==
  ASSUME PipelineInv, NEW w \in Workers, NEW d \in Jobs, holds[w] = d,
         \/ Download(w, d)
         \/ /\ Classify(w, d) \/ CheckClassified(w, d) \/ GetPages(w, d) \/ LogProcessed(w, d)
            /\ UNCHANGED skipped
  PROVE  PipelineInv'
<1>1. pc[w] # "save_extracts"
  BY DEF Download, Classify, CheckClassified, GetPages, LogProcessed
<1>2. CASE /\ Raise(w, "fail") \/ (Raise(w, "unclassified") /\ pc[w] = "classify")
           /\ UNCHANGED skipped
  BY <1>1, <1>2, RaisingKeeps
<1>3. ASSUME NEW label, Goto(w, label), UNCHANGED <<doc, output, skipped>>,
             \/ pc[w] = "get" /\ label = "classifying"
             \/ pc[w] = "classify" /\ label = "save_pages" /\ PagesOf(d) # {}
             \/ pc[w] = "check" /\ label = "complete"
                /\ doc[d].processing_status = "classification_failed"
             \/ pc[w] = "check" /\ label = "get_pages"
                /\ doc[d].processing_status # "classification_failed"
             \/ pc[w] = "get_pages" /\ label = "parsing" /\ doc[d].pages # {}
             \/ pc[w] = "get_pages" /\ label = "no_pages" /\ doc[d].pages = {}
             \/ pc[w] = "log" /\ label = "complete"
      PROVE  PipelineInv'
  <2>1. label \in Labels \ {"idle"}
    BY <1>3 DEF Labels, StatusCalls
  <2>2. doc[d].pages \in {{}, PagesOf(d)}
    BY HolderMeets DEF Sound, Document
  <2>3. Exists(d) => Meets(d, label, doc[d], {}, skipped)
    BY <1>3, <2>2, HolderMeets DEF Meets, Unskipped, Terminal
  <2>4. QED
    BY <1>1, <1>3, <2>1, <2>3, MovingOnKeeps
\* The run that skips the classification goes straight to its pages.
<1>4. ASSUME Goto(w, "get_pages"), UNCHANGED <<doc, output>>, skipped' = skipped \cup {d}
      PROVE  PipelineInv'
  <2>1. "get_pages" \in Labels \ {"idle"}
    BY DEF Labels
  <2>2. Meets(d, "get_pages", doc[d], {}, skipped')
    BY <1>4 DEF Meets, Unskipped
  <2>3. QED
    BY <1>1, <1>4, <2>1, <2>2, MovingOnKeeps
<1>5. QED
  BY <1>2, <1>3, <1>4 DEF Download, Classify, CheckClassified, GetPages, LogProcessed

LEMMA SavePagesKeeps ==
  ASSUME PipelineInv, NEW w \in Workers, NEW d \in Jobs, holds[w] = d,
         SavePageClassifications(w, d), UNCHANGED skipped
  PROVE  PipelineInv'
<1>1. pc[w] = "save_pages"
  BY DEF SavePageClassifications
<1>2. CASE Raise(w, "fail")
  BY <1>1, <1>2, RaisingKeeps
<1>3. ASSUME Exists(d), doc' = [doc EXCEPT ![d].pages = PagesOf(d)], UNCHANGED output,
             NEW label \in {"classified", "fail"}, Goto(w, label)
      PROVE  PipelineInv'
  <2> DEFINE r == [doc[d] EXCEPT !.pages = PagesOf(d)]
  <2>1. Sound(d, doc[d], skipped) /\ doc[d].processing_status = "classifying" /\ PagesOf(d) # {}
    BY <1>1, <1>3, HolderMeets DEF Meets
  <2>2. Sound(d, r, skipped) /\ r.processing_status = "classifying" /\ r.pages = PagesOf(d)
    BY <2>1 DEF Sound, Document
  <2>3. doc' = [doc EXCEPT ![d] = r]
    BY <1>3
  <2>4. Meets(d, label, r, {}, skipped)
    BY <1>3, <2>1, <2>2 DEF Meets, Unskipped
  <2>5. label \in Labels \ {"idle"} /\ r.processing_status \in ProcessingStatus
    BY <1>3, <2>2 DEF Labels, StatusCalls, ProcessingStatus
  <2>6. QED
    BY <1>1, <1>3, <2>2, <2>3, <2>4, <2>5, SavingKeeps
<1>4. QED
  BY <1>2, <1>3 DEF SavePageClassifications

LEMMA ParseKeeps ==
  ASSUME PipelineInv, NEW w \in Workers, NEW d \in Jobs, holds[w] = d, Parse(w, d), UNCHANGED skipped
  PROVE  PipelineInv'
<1>1. pc[w] = "parse"
  BY DEF Parse
<1>2. CASE Raise(w, "unparsed")
  BY <1>1, <1>2, RaisingKeeps
<1>3. ASSUME NEW azure \in SUBSET ComplexPages(d), NEW found,
             found = SimplePages(d) \cup azure,
             output' = [output EXCEPT ![w] = found],
             Goto(w, IF found = {} THEN "parsed" ELSE "save_extracts"), UNCHANGED doc
      PROVE  PipelineInv'
  <2> DEFINE label == IF found = {} THEN "parsed" ELSE "save_extracts"
  <2>1. RunsOn(w, d, label, doc[d], found)
    BY <1>3 DEF Goto, RunsOn, PipelineInv
  <2>2. found \subseteq PagesOf(d) /\ SimplePages(d) \subseteq found
    BY <1>3 DEF SimplePages, ComplexPages
  <2>3. Exists(d) => Meets(d, label, doc[d], found, skipped)
    BY <1>1, <2>2, HolderMeets DEF Meets, Unskipped
  <2>4. label \in Labels \ {"idle"} /\ (found # {} => label = "save_extracts")
    BY DEF Labels, StatusCalls
  <2>5. MayLeave(d, label, doc[d], found, skipped)
    BY <2>2, <2>3, <2>4 DEF MayLeave, PipelineInv, Exists
  <2>6. QED
    BY <2>1, <2>5, RunsOnKeeps
<1>4. QED
  BY <1>2, <1>3 DEF Parse

LEMMA SaveExtractsKeeps ==
  ASSUME PipelineInv, NEW w \in Workers, NEW d \in Jobs, holds[w] = d,
         SavePageExtracts(w, d), UNCHANGED skipped
  PROVE  PipelineInv'
<1>1. pc[w] = "save_extracts" /\ output' = [output EXCEPT ![w] = {}]
  BY DEF SavePageExtracts
<1>2. CASE Goto(w, "unparsed") /\ UNCHANGED doc
  <2>1. RunsOn(w, d, "unparsed", doc[d], {})
    BY <1>1, <1>2 DEF Goto, RunsOn, PipelineInv
  <2>2. Exists(d) => Meets(d, "unparsed", doc[d], {}, skipped)
    BY <1>1, HolderMeets DEF Meets, Unskipped
  <2>3. MayLeave(d, "unparsed", doc[d], {}, skipped)
    BY <2>2 DEF MayLeave, PipelineInv, Exists, Labels, StatusCalls
  <2>4. QED
    BY <2>1, <2>3, RunsOnKeeps
<1>3. ASSUME Exists(d), doc' = [doc EXCEPT ![d].extracts = output[w]],
             NEW label \in {"parsed", "unparsed"}, Goto(w, label)
      PROVE  PipelineInv'
  <2> DEFINE r == [doc[d] EXCEPT !.extracts = output[w]]
  <2>1. Sound(d, doc[d], skipped) /\ Meets(d, "save_extracts", doc[d], output[w], skipped)
    BY <1>1, <1>3, HolderMeets
  <2>2. output[w] \subseteq PagesOf(d)
    BY DEF PipelineInv, WorkerOK
  <2>3. doc[d].processing_status = "parsing" /\ doc[d].pages = PagesOf(d)
        /\ SimplePages(d) \subseteq output[w] /\ PagesOf(d) # {}
    BY <2>1 DEF Meets, Unskipped
  <2>4. Sound(d, r, skipped) /\ r.processing_status = "parsing" /\ r.pages = PagesOf(d)
        /\ r.extracts = output[w]
    BY <2>1, <2>2, <2>3 DEF Sound, Document
  <2>5. RunsOn(w, d, label, r, {})
    BY <1>1, <1>3 DEF Goto, RunsOn
  <2>6. Meets(d, label, r, {}, skipped)
    BY <1>3, <2>3, <2>4 DEF Meets, Unskipped
  <2>7. MayLeave(d, label, r, {}, skipped)
    BY <1>3, <2>4, <2>6 DEF MayLeave, Labels, StatusCalls, ProcessingStatus
  <2>8. QED
    BY <2>5, <2>7, RunsOnKeeps
<1>4. QED
  BY <1>2, <1>3 DEF SavePageExtracts

-----------------------------------------------------------------------------
\* A run ends, one way or the other.
LEMMA EndKeeps ==
  ASSUME PipelineInv, NEW w \in Workers, NEW d \in Jobs, Settle(w, d) \/ Abandon(w, d), Idle(w), UNCHANGED skipped,
         Complete(w, d) => pc[w] = "complete"
  PROVE  PipelineInv'
<1>1. LedgerInv' /\ \A v \in Workers : holds'[v] # d
  BY LettingGoKeepsLedger DEF PipelineInv
<1>2. /\ holds[w] = d /\ holds' = [holds EXCEPT ![w] = NoJob] /\ d # NoJob
      /\ \A e \in Jobs : e # d => status'[e] = status[e]
  BY JobLedgerAssumption
     DEF Settle, Complete, Fail, Drop, Abandon, PipelineInv, LedgerInv, TypeOK
<1>3. status[d] \in {"running", "gone"} /\ (status[d] = "gone" <=> status'[d] = "gone")
      /\ (status[d] = "running" => status'[d] \in JobStatus)
      /\ (status'[d] = "completed" => Complete(w, d) /\ status[d] = "running")
  BY <1>2, JobLedgerAssumption
     DEF Settle, Complete, Fail, Drop, Abandon, StatusAfter, JobStatus, PipelineInv, LedgerInv,
         TypeOK, HeldByOne
<1>4. status'[d] = "completed" => doc[d].processing_status \in Terminal
  BY <1>2, <1>3, HolderMeets DEF Meets, PipelineInv, RowsAgree, JobStatus
<1>5. UNCHANGED doc /\ pc' = [pc EXCEPT ![w] = "idle"] /\ output' = [output EXCEPT ![w] = {}]
  BY DEF Idle
<1>6. ASSUME NEW e \in Jobs PROVE Sound(e, doc[e], skipped)' /\ RowsAgree(e)'
  <2>1. Sound(e, doc[e], skipped) /\ RowsAgree(e) /\ doc'[e] = doc[e]
    BY <1>5 DEF PipelineInv
  <2>2. CASE e # d
    BY <1>2, <2>1, <2>2 DEF RowsAgree, Exists
  <2>3. CASE e = d
    BY <1>3, <1>4, <2>1, <2>3 DEF RowsAgree, Exists, JobStatus
  <2>4. QED
    BY <2>1, <2>2, <2>3
<1>7. ASSUME NEW v \in Workers PROVE WorkerOK(v)'
  <2>1. WorkerOK(v)
    BY DEF PipelineInv
  <2>2. CASE v = w
    BY <1>2, <1>5, <2>2 DEF WorkerOK, PipelineInv, LedgerInv, TypeOK, Labels
  <2>3. CASE v # w
    <3>1. pc'[v] = pc[v] /\ output'[v] = output[v] /\ holds'[v] = holds[v] /\ doc' = doc
      BY <1>2, <1>5, <2>3 DEF PipelineInv, LedgerInv, TypeOK
    <3>2. QED
      BY <2>1, <3>1 DEF WorkerOK, Exists
  <2>4. QED
    BY <2>2, <2>3
<1>8. /\ doc' = [e \in Jobs |-> doc'[e]] /\ output' = [v \in Workers |-> output'[v]]
      /\ pc' \in [Workers -> Labels]
  BY <1>5 DEF PipelineInv, Labels
<1>9. QED
  BY <1>1, <1>6, <1>7, <1>8 DEF PipelineInv

LEMMA CompleteKeeps ==
  ASSUME PipelineInv, NEW w \in Workers, NEW d \in Jobs, CompleteJob(w, d), UNCHANGED skipped
  PROVE  PipelineInv'
<1>1. pc[w] = "complete"
  BY DEF CompleteJob
<1>2. CASE Complete(w, d) /\ Idle(w)
  BY <1>1, <1>2, EndKeeps DEF Settle
<1>3. CASE holds[w] = d /\ Raise(w, "fail")
  BY <1>1, <1>3, RaisingKeeps
<1>4. QED
  BY <1>2, <1>3 DEF CompleteJob

LEMMA FailKeeps ==
  ASSUME PipelineInv, NEW w \in Workers, NEW d \in Jobs, FailJob(w, d) \/ Crash(w, d), UNCHANGED skipped
  PROVE  PipelineInv'
<1>1. CASE FailJob(w, d) /\ ~Complete(w, d)
  BY <1>1, EndKeeps DEF FailJob, Settle
<1>2. CASE FailJob(w, d) /\ Complete(w, d)
  \* The status after a failure is never "completed".
  <2>1. status'[d] = "completed" /\ holds[w] = d /\ status[d] = "running"
    BY <1>2 DEF Complete, PipelineInv, LedgerInv, TypeOK
  <2>2. status'[d] # "completed"
    BY <1>2, <2>1 DEF FailJob, Fail, Drop, Abandon, StatusAfter, PipelineInv, LedgerInv, TypeOK
  <2>3. QED
    BY <2>1, <2>2
<1>3. CASE Crash(w, d)
  <2>1. Abandon(w, d) /\ Idle(w) /\ status' = status
    BY <1>3 DEF Crash, Abandon
  <2>2. ~Complete(w, d)
    BY <2>1 DEF Complete, PipelineInv, LedgerInv, TypeOK
  <2>3. QED
    BY <2>1, <2>2, EndKeeps
<1>4. QED
  BY <1>1, <1>2, <1>3

-----------------------------------------------------------------------------
\* What happens to documents outside a run.

\* The workers' runs go on, when documents that a worker may hold are the same.
LEMMA WorkersGoOn ==
  ASSUME PipelineInv, UNCHANGED <<holds, pc, output, skipped>>,
         \A w \in Workers : holds[w] \in Jobs =>
           doc'[holds[w]] = doc[holds[w]] \/ doc'[holds[w]].processing_status = "gone"
  PROVE  \A w \in Workers : WorkerOK(w)'
<1>1. SUFFICES ASSUME NEW w \in Workers PROVE WorkerOK(w)'
  OBVIOUS
<1>2. WorkerOK(w) /\ holds[w] \in Jobs \cup {NoJob}
  BY DEF PipelineInv, LedgerInv, TypeOK
<1>3. "gone" \notin ProcessingStatus
  BY DEF ProcessingStatus
<1>4. QED
  BY <1>2, <1>3 DEF WorkerOK, Exists

LEMMA CreateKeeps ==
  ASSUME PipelineInv, NEW d \in Jobs, Create(d) PROVE PipelineInv'
<1>1. doc[d] = NoDocument /\ doc' = [doc EXCEPT ![d].processing_status = "uploaded"]
      /\ UNCHANGED <<ledger, status, attempts, holds, pc, output, skipped>>
  BY DEF Create, ledger
<1>2. status[d] = "unborn"
  BY <1>1 DEF PipelineInv, RowsAgree, LedgerInv, TypeOK, Exists, NoDocument, ProcessingStatus
<1>3. \A w \in Workers : holds[w] # d
  BY <1>2, JobLedgerAssumption DEF PipelineInv, LedgerInv, HeldByOne
<1>4. \A w \in Workers : WorkerOK(w)'
  BY <1>1, <1>3, WorkersGoOn DEF PipelineInv
<1>5. /\ Sound(d, doc[d], skipped)' /\ doc'[d].processing_status = "uploaded"
      /\ \A e \in Jobs : e # d => doc'[e] = doc[e]
  <2> DEFINE r == [NoDocument EXCEPT !.processing_status = "uploaded"]
  <2>1. doc'[d] = r /\ \A e \in Jobs : e # d => doc'[e] = doc[e]
    BY <1>1 DEF PipelineInv
  <2>2. Sound(d, r, skipped) /\ r.processing_status = "uploaded"
    BY DEF NoDocument, Sound, Document, ProcessingStatus
  <2>3. QED
    BY <1>1, <2>1, <2>2
<1>6. ASSUME NEW e \in Jobs PROVE Sound(e, doc[e], skipped)' /\ RowsAgree(e)'
  BY <1>1, <1>2, <1>5 DEF PipelineInv, RowsAgree, Exists, ProcessingStatus, JobStatus
<1>7. LedgerInv'
  BY <1>1, LedgerStep DEF PipelineInv
<1>8. QED
  BY <1>1, <1>4, <1>6, <1>7 DEF PipelineInv

LEMMA EnqueueKeeps ==
  ASSUME PipelineInv, NEW d \in Jobs, EnqueueJob(d) PROVE PipelineInv'
<1>1. LedgerInv'
  BY UnheldMoves DEF EnqueueJob, PipelineInv
<1>2. \A w \in Workers : WorkerOK(w)'
  BY WorkersGoOn DEF EnqueueJob, Enqueue
<1>3. ASSUME NEW e \in Jobs PROVE Sound(e, doc[e], skipped)' /\ RowsAgree(e)'
  BY DEF EnqueueJob, Enqueue, PipelineInv, RowsAgree, Exists, LedgerInv, TypeOK
<1>4. QED
  BY <1>1, <1>2, <1>3 DEF PipelineInv, EnqueueJob

LEMMA DeleteKeeps ==
  ASSUME PipelineInv, NEW d \in Jobs, DeleteDocument(d) PROVE PipelineInv'
<1> DEFINE r == [NoDocument EXCEPT !.processing_status = "gone"]
<1>1. doc' = [doc EXCEPT ![d] = r] /\ UNCHANGED <<pc, output, holds, skipped>> /\ Exists(d)
  BY DEF DeleteDocument, ledger, Delete
<1>2. /\ r.processing_status = "gone" /\ Sound(d, r, skipped) /\ doc'[d] = r
      /\ \A e \in Jobs : e # d => doc'[e] = doc[e]
  BY <1>1 DEF NoDocument, Sound, Document, ProcessingStatus, PipelineInv
<1>3. LedgerInv'
  BY UnheldMoves, LedgerStep DEF DeleteDocument, PipelineInv
<1>4. \A w \in Workers : WorkerOK(w)'
  BY <1>1, <1>2, WorkersGoOn
<1>5. status'[d] \in {"unborn", "gone"} /\ \A e \in Jobs : e # d => status'[e] = status[e]
  BY <1>1 DEF DeleteDocument, ledger, Delete, PipelineInv, LedgerInv, TypeOK
<1>6. ASSUME NEW e \in Jobs PROVE Sound(e, doc[e], skipped)' /\ RowsAgree(e)'
  BY <1>1, <1>2, <1>5 DEF PipelineInv, RowsAgree, Exists, JobStatus
<1>7. QED
  BY <1>1, <1>3, <1>4, <1>6 DEF PipelineInv

LEMMA ReleaseKeeps ==
  ASSUME PipelineInv, NEW js \in SUBSET Jobs, ReleaseStale(js) PROVE PipelineInv'
<1>1. LedgerInv'
  BY HandBackKeepsLedger DEF ReleaseStale, PipelineInv
<1>2. \A w \in Workers : WorkerOK(w)'
  BY WorkersGoOn DEF ReleaseStale, HandBack
<1>3. ASSUME NEW e \in Jobs PROVE Sound(e, doc[e], skipped)' /\ RowsAgree(e)'
  BY DEF ReleaseStale, HandBack, PipelineInv, RowsAgree, Exists, JobStatus
<1>4. QED
  BY <1>1, <1>2, <1>3 DEF PipelineInv, ReleaseStale

LEMMA ClaimJobKeeps ==
  ASSUME PipelineInv, NEW w \in Workers, NEW d \in Jobs, ClaimJob(w, d) PROVE PipelineInv'
<1>1. LedgerInv'
  BY ClaimKeepsLedger DEF ClaimJob, PipelineInv
<1>2. /\ holds' = [holds EXCEPT ![w] = d] /\ status' = [status EXCEPT ![d] = "running"]
      /\ status[d] = "pending" /\ pc' = [pc EXCEPT ![w] = "get"] /\ UNCHANGED <<doc, output, skipped>>
      /\ holds[w] = NoJob /\ d # NoJob
  BY JobLedgerAssumption DEF ClaimJob, Claim
<1>3. ASSUME NEW e \in Jobs PROVE Sound(e, doc[e], skipped)' /\ RowsAgree(e)'
  BY <1>2 DEF PipelineInv, RowsAgree, Exists, LedgerInv, TypeOK, JobStatus
<1>4. ASSUME NEW v \in Workers PROVE WorkerOK(v)'
  <2>1. WorkerOK(v)
    BY DEF PipelineInv
  <2>2. CASE v = w
    <3>1. holds'[v] = d /\ pc'[v] = "get" /\ output'[v] = output[v] /\ output[v] = {}
      BY <1>2, <2>1, <2>2 DEF PipelineInv, LedgerInv, TypeOK, WorkerOK
    <3>2. QED
      BY <1>2, <3>1 DEF WorkerOK, Meets, Unskipped, Labels, Exists
  <2>3. CASE v # w
    <3>1. holds'[v] = holds[v] /\ pc'[v] = pc[v] /\ output'[v] = output[v]
      BY <1>2, <2>3 DEF PipelineInv, LedgerInv, TypeOK
    <3>2. QED
      BY <1>2, <2>1, <3>1 DEF WorkerOK, Exists
  <2>4. QED
    BY <2>2, <2>3
<1>5. QED
  BY <1>1, <1>2, <1>3, <1>4 DEF PipelineInv, Labels

LEMMA RunStepKeeps ==
  ASSUME PipelineInv, NEW w \in Workers, NEW d \in Jobs, RunStep(w, d) PROVE PipelineInv'
  BY StatusCallKeeps, ReadingKeeps, SavePagesKeeps, ParseKeeps, SaveExtractsKeeps,
     CompleteKeeps, FailKeeps DEF RunStep, PhaseStep

LEMMA LoseClaimKeeps ==
  ASSUME PipelineInv, NEW d \in Jobs, LoseClaim(d) PROVE PipelineInv'
<1>1. LedgerInv'
  BY ClaimLostKeepsLedger DEF LoseClaim, PipelineInv
<1>2. \A w \in Workers : WorkerOK(w)'
  BY WorkersGoOn DEF LoseClaim, ClaimLost
<1>3. ASSUME NEW e \in Jobs PROVE Sound(e, doc[e], skipped)' /\ RowsAgree(e)'
  BY DEF LoseClaim, ClaimLost, PipelineInv, RowsAgree, Exists, JobStatus, LedgerInv, TypeOK
<1>4. QED
  BY <1>1, <1>2, <1>3 DEF PipelineInv, LoseClaim

LEMMA PipelineStep == ASSUME PipelineInv, [PipelineNext]_pipeline PROVE PipelineInv'
<1>1. CASE UNCHANGED pipeline
  BY <1>1 DEF pipeline, PipelineInv, LedgerInv, TypeOK, HeldByOne, Sound, RowsAgree, Exists,
              WorkerOK
<1>2. QED
  BY <1>1, CreateKeeps, EnqueueKeeps, DeleteKeeps, ReleaseKeeps, ClaimJobKeeps, LoseClaimKeeps,
     RunStepKeeps, FailKeeps DEF PipelineNext, Crash

\* Every variable keeps its type, those of the ledger included; a worker that
\* runs a job holds it, and only one that is about to save has extracts.
THEOREM PipelineTypes == PipelineSpec => []PipelineTypeOK
<1>1. PipelineInv => PipelineTypeOK
  BY DEF PipelineInv, LedgerInv, Sound, Document, WorkerOK, PipelineTypeOK
<1>2. QED
  BY <1>1, PipelineStart, PipelineStep, PTL DEF PipelineSpec

\* What a document says of itself agrees with what was done to it and with its
\* job, through any runs, exceptions, crashes, retries and deletes.
THEOREM DocumentsAgree == PipelineSpec => []DocumentIsConsistent
<1>1. PipelineInv => DocumentIsConsistent
  BY DEF PipelineInv, RowsAgree, Sound, DocumentIsConsistent, CompletedIsTerminal,
         ParsedHasText, ErrorsMatchStatus
<1>2. QED
  BY <1>1, PipelineStart, PipelineStep, PTL DEF PipelineSpec

-----------------------------------------------------------------------------
\* Who changes a document, and how.

\* The holder of d sets the status of its label, or saves pages or extracts.
HolderMoves(d) ==
  \E w \in Workers :
    /\ holds[w] = d
    /\ \/ doc'[d].processing_status = doc[d].processing_status
       \/ /\ Exists(d)
          /\ pc[w] \in DOMAIN StatusCalls
          /\ doc'[d].processing_status = StatusCalls[pc[w]].set

LEMMA OneWriter ==
  ASSUME PipelineInv, PipelineNext, NEW d \in Jobs
  PROVE  \/ doc'[d] = doc[d]
         \/ doc[d].processing_status = "none"
         \/ doc'[d].processing_status = "gone"
         \/ HolderMoves(d)
<1>1. ASSUME NEW e \in Jobs, Create(e) \/ EnqueueJob(e) \/ DeleteDocument(e)
      PROVE  \/ doc'[d] = doc[d] \/ doc[d].processing_status = "none"
             \/ doc'[d].processing_status = "gone"
  BY <1>1 DEF Create, EnqueueJob, DeleteDocument, NoDocument, PipelineInv
<1>2. ASSUME \/ \E js \in SUBSET Jobs : ReleaseStale(js)
             \/ \E e \in Jobs : LoseClaim(e)
      PROVE  doc'[d] = doc[d]
  BY <1>2 DEF ReleaseStale, LoseClaim
<1>3. ASSUME NEW w \in Workers, NEW e \in Jobs,
             ClaimJob(w, e) \/ Crash(w, e) \/ (RunStep(w, e) /\ e # d)
      PROVE  doc'[d] = doc[d]
  <2>1. CASE ClaimJob(w, e) \/ Crash(w, e)
    BY <2>1 DEF ClaimJob, Crash, Idle
  <2>2. CASE RunStep(w, e) /\ e # d
    BY <2>2 DEF RunStep, PhaseStep, Download, SetProcessingStatus, Classify, SavePageClassifications,
                CheckClassified, GetPages, Parse, SavePageExtracts, LogProcessed, CompleteJob,
                FailJob, Raise, Idle, PipelineInv
  <2>3. QED
    BY <1>3, <2>1, <2>2
<1>4. ASSUME NEW w \in Workers, RunStep(w, d) PROVE doc'[d] = doc[d] \/ HolderMoves(d)
  <2>1. holds[w] = d
    BY <1>4 DEF RunStep
  <2>2. CASE SetProcessingStatus(w, d)
    <3>1. CASE Exists(d) /\ doc' = [doc EXCEPT ![d] = Applied(@, StatusCalls[pc[w]].set)]
      <4>1. doc'[d] = Applied(doc[d], StatusCalls[pc[w]].set) /\ doc[d] \in Document(d)
        BY <3>1 DEF PipelineInv, Sound
      <4>2. doc'[d].processing_status = StatusCalls[pc[w]].set
        BY <4>1 DEF Applied, Document
      <4>3. QED
        BY <2>1, <2>2, <3>1, <4>2 DEF HolderMoves, SetProcessingStatus
    <3>2. QED
      BY <2>2, <3>1 DEF SetProcessingStatus, Raise
  <2>3. CASE SavePageClassifications(w, d) \/ SavePageExtracts(w, d)
    <3>1. doc[d] \in Document(d)
      BY DEF PipelineInv, Sound
    <3>2. doc'[d] = doc[d] \/ doc'[d].processing_status = doc[d].processing_status
      BY <2>3, <3>1 DEF SavePageClassifications, SavePageExtracts, Raise, Document, PipelineInv
    <3>3. QED
      BY <2>1, <3>2 DEF HolderMoves
  <2>4. CASE \/ Download(w, d) \/ Classify(w, d) \/ CheckClassified(w, d) \/ GetPages(w, d)
             \/ Parse(w, d) \/ LogProcessed(w, d) \/ CompleteJob(w, d) \/ FailJob(w, d)
    BY <2>4 DEF Download, Classify, CheckClassified, GetPages, Parse, LogProcessed, CompleteJob,
                FailJob, Raise, Idle
  <2>5. QED
    BY <1>4, <2>2, <2>3, <2>4 DEF RunStep, PhaseStep
<1>5. QED
  BY <1>1, <1>2, <1>3, <1>4 DEF PipelineNext

\* The status clients poll follows the documented order: each call that sets it
\* is reached only with the status the call before it left, although another
\* run, cut off earlier, may have left any other.
THEOREM StatusIsOrdered == PipelineSpec => StatusOrder
<1> DEFINE Ordered(s, t, e) ==
             s \in ProcessingStatus /\ t # s => t \in MayFollow(s, e, skipped)
<1>1. ASSUME PipelineInv, PipelineNext, NEW d \in Jobs
      PROVE  Ordered(doc[d].processing_status, doc'[d].processing_status, d)
  <2>1. ASSUME NEW w \in Workers, holds[w] = d, Exists(d), pc[w] \in DOMAIN StatusCalls
        PROVE  Ordered(doc[d].processing_status, StatusCalls[pc[w]].set, d)
    <3>1. Meets(d, pc[w], doc[d], output[w], skipped)
      BY <1>1, <2>1, HolderMeets
    <3>2. QED
      BY <2>1, <3>1 DEF Meets, Unskipped, StatusCalls, Order, MayFollow
  <2>2. "none" \notin ProcessingStatus
    BY DEF ProcessingStatus
  <2>3. QED
    BY <1>1, <2>1, <2>2, OneWriter DEF HolderMoves, MayFollow
<1>2. PipelineInv /\ [PipelineNext]_pipeline =>
        [\A d \in Jobs : LET s == doc[d].processing_status
                             t == doc'[d].processing_status
                         IN  s \in ProcessingStatus /\ t # s =>
                               t \in MayFollow(s, d, skipped)]_pipeline
  BY <1>1
<1>3. QED
  BY <1>2, PipelineStart, PipelineStep, PTL DEF PipelineSpec, StatusOrder

\* A document whose job is completed or given up has no writer left: a worker
\* that wrote it would hold a job that HeldByOne says is running or deleted.
THEOREM SettledStaysFinal == PipelineSpec => SettledDocumentIsFinal
<1>1. ASSUME PipelineInv, PipelineNext, NEW d \in Jobs, status[d] \in {"completed", "failed"}
      PROVE  doc'[d] = doc[d] \/ doc'[d].processing_status = "gone"
  <2>1. Exists(d) /\ doc[d].processing_status # "none"
    BY <1>1 DEF PipelineInv, RowsAgree, JobStatus, Exists, ProcessingStatus
  <2>2. \A w \in Workers : holds[w] # d
    BY <1>1, JobLedgerAssumption DEF PipelineInv, LedgerInv, HeldByOne
  <2>3. QED
    BY <1>1, <2>1, <2>2, OneWriter DEF HolderMoves
<1>2. PipelineInv /\ [PipelineNext]_pipeline =>
        [\A d \in Jobs : status[d] \in {"completed", "failed"} =>
           doc'[d] = doc[d] \/ doc'[d].processing_status = "gone"]_pipeline
  BY <1>1
<1>3. QED
  BY <1>2, PipelineStart, PipelineStep, PTL DEF PipelineSpec, SettledDocumentIsFinal

\* A run drives its job as the abstract queue allows: every step of the pipeline
\* is a step of the ledger or leaves the ledger alone.
THEOREM PipelineRefinesLedger == PipelineSpec => SafeSpec
<1>1. PipelineInit => Init
  BY DEF PipelineInit
<1>2. ASSUME [PipelineNext]_pipeline PROVE [Next]_ledger
  <2>1. CASE UNCHANGED pipeline
    BY <2>1 DEF pipeline, ledger
  <2>2. ASSUME NEW d \in Jobs,
               Create(d) \/ EnqueueJob(d) \/ DeleteDocument(d) \/ LoseClaim(d)
        PROVE  [Next]_ledger
    BY <2>2 DEF Create, EnqueueJob, DeleteDocument, LoseClaim, Next
  <2>3. ASSUME NEW js \in SUBSET Jobs, ReleaseStale(js) PROVE [Next]_ledger
    BY <2>3 DEF ReleaseStale, Next
  <2>4. ASSUME NEW w \in Workers, NEW d \in Jobs, ClaimJob(w, d) \/ Crash(w, d)
        PROVE  [Next]_ledger
    BY <2>4 DEF ClaimJob, Crash, Next
  <2>5. ASSUME NEW w \in Workers, NEW d \in Jobs, RunStep(w, d) PROVE [Next]_ledger
    <3>1. \/ UNCHANGED ledger \/ Settle(w, d) \/ Abandon(w, d)
      BY <2>5 DEF RunStep, PhaseStep, Download, SetProcessingStatus, Classify, SavePageClassifications,
                  CheckClassified, GetPages, Parse, SavePageExtracts, LogProcessed,
                  CompleteJob, FailJob, Raise, Goto, Settle
    <3>2. QED
      BY <3>1 DEF Next
  <2>6. QED
    BY <1>2, <2>1, <2>2, <2>3, <2>4, <2>5 DEF PipelineNext
<1>3. QED
  BY <1>1, <1>2, PTL DEF PipelineSpec, SafeSpec
=============================================================================
