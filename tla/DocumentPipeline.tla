-------------------------- MODULE DocumentPipeline --------------------------
(***************************************************************************)
(* What a worker does to a PDF document while it holds the document's job: *)
(* PdfProcessingPipeline.run classifies the pages, extracts their text and *)
(* records its progress in pdf_documents.processing_status, one            *)
(* transaction per step.                                                   *)
(*                                                                         *)
(* The queue is JobLedger, the abstraction JobQueue implements: one worker *)
(* holds a job, and a job may be tried again after a failure or a crash.   *)
(* A document has one job, so jobs and documents share their ids.          *)
(*                                                                         *)
(* A set_processing_status or save_* call loads the document and commits   *)
(* later.  Only the holder of the job and DELETE write a document's row,   *)
(* and a row that goes away in between makes the commit raise just as the  *)
(* load would have, so each such call is one step.                         *)
(***************************************************************************)
EXTENDS JobLedger

CONSTANT PageClass  \* the class of each page of each document, as the rules see it

PageClasses == {"born_digital_simple", "born_digital_complex"}

ASSUME PageClassAssumption ==
  \A d \in Jobs : \A p \in DOMAIN PageClass[d] : PageClass[d][p] \in PageClasses

VARIABLES
  doc,    \* the table pdf_documents, with its pages and page extracts
  pc,     \* how far each worker is with its run
  output, \* the extracts a worker is about to save
  skipped \* history: documents that a run has parsed without classifying them

pipeline == <<status, attempts, holds, doc, pc, output, skipped>>

-----------------------------------------------------------------------------
ProcessingStatus ==
  {"uploaded", "classifying", "classified", "parsing", "parsed",
   "classification_failed", "parsing_failed"}

Terminal == {"parsed", "classification_failed", "parsing_failed"}

PagesOf(d) == DOMAIN PageClass[d]

\* split_pages_by_class
SimplePages(d) == {p \in PagesOf(d) : PageClass[d][p] = "born_digital_simple"}
ComplexPages(d) == PagesOf(d) \ SimplePages(d)

\* "none" before the upload and "gone" after the delete: no such row.
NoDocument == [processing_status |-> "none", classification_error |-> FALSE,
               parsing_error |-> FALSE, pages |-> {}, extracts |-> {}]

Exists(d) == doc[d].processing_status \in ProcessingStatus

\* _apply_processing_status; an error column is TRUE when it holds a text.
Applied(r, new) ==
  [r EXCEPT !.processing_status = new,
            !.classification_error = IF new \in {"classifying", "classification_failed"}
                                     THEN new = "classification_failed" ELSE @,
            !.parsing_error = IF new \in {"parsing", "parsing_failed", "parsed"}
                              THEN new = "parsing_failed" ELSE @]

-----------------------------------------------------------------------------
PipelineInit ==
  /\ Init
  /\ doc = [d \in Jobs |-> NoDocument]
  /\ pc = [w \in Workers |-> "idle"]
  /\ output = [w \in Workers |-> {}]
  /\ skipped = {}

Create(d) ==
  /\ doc[d] = NoDocument
  /\ doc' = [doc EXCEPT ![d].processing_status = "uploaded"]
  /\ UNCHANGED <<ledger, pc, output, skipped>>

\* The upload's enqueue; a document that is gone fails its foreign key.
EnqueueJob(d) ==
  /\ Exists(d)
  /\ Enqueue(d)
  /\ UNCHANGED <<doc, pc, output, skipped>>

\* DELETE /pdfs/{id}: pages, extracts and job go with the document.
DeleteDocument(d) ==
  /\ Exists(d)
  /\ doc' = [doc EXCEPT ![d] = [NoDocument EXCEPT !.processing_status = "gone"]]
  /\ IF status[d] = "unborn" THEN UNCHANGED ledger ELSE Delete(d)
  /\ UNCHANGED <<pc, output, skipped>>

ReleaseStale(js) == HandBack(js) /\ UNCHANGED <<doc, pc, output, skipped>>

ClaimJob(w, d) ==
  /\ Claim(w, d)
  /\ pc' = [pc EXCEPT ![w] = "get"]
  /\ UNCHANGED <<doc, output, skipped>>

\* The claim is committed and its answer lost: the worker's process ends.
LoseClaim(d) == ClaimLost(d) /\ UNCHANGED <<doc, pc, output, skipped>>

-----------------------------------------------------------------------------
\* A step of the run of the held document d ends at one of two labels: its
\* effect and the way on, or the way an exception takes.  An exception may
\* come from the database, the storage or a library at any time, and comes for
\* certain once the document is gone; a commit that raises may have taken effect.
Goto(w, label) == pc' = [pc EXCEPT ![w] = label] /\ UNCHANGED ledger

Raise(w, handler) == Goto(w, handler) /\ UNCHANGED <<doc, output>>

\* Each run reads settings.classification_enabled, which the worker's restart
\* between two runs may have changed.
Download(w, d) ==
  /\ pc[w] = "get"
  /\ \/ Exists(d) /\ Goto(w, "classifying") /\ UNCHANGED <<doc, output, skipped>>
     \/ /\ Exists(d)
        /\ Goto(w, "get_pages")
        /\ skipped' = skipped \cup {d}
        /\ UNCHANGED <<doc, output>>
     \/ Raise(w, "fail") /\ UNCHANGED skipped

\* The calls of set_processing_status: the status each sets, the label after
\* it, and the label its exception leads to.
StatusCalls ==
  [classifying  |-> [set |-> "classifying",           then |-> "classify", else |-> "fail"],
   unclassified |-> [set |-> "classification_failed", then |-> "check",    else |-> "fail"],
   classified   |-> [set |-> "classified",            then |-> "check",    else |-> "fail"],
   no_pages     |-> [set |-> "parsed",                then |-> "log",      else |-> "fail"],
   parsing      |-> [set |-> "parsing",               then |-> "parse",    else |-> "fail"],
   parsed       |-> [set |-> "parsed",                then |-> "log",      else |-> "unparsed"],
   unparsed     |-> [set |-> "parsing_failed",        then |-> "log",      else |-> "fail"]]

SetProcessingStatus(w, d) ==
  /\ pc[w] \in DOMAIN StatusCalls
  /\ LET call == StatusCalls[pc[w]]
     IN  \/ /\ Exists(d)
            /\ doc' = [doc EXCEPT ![d] = Applied(@, call.set)]
            /\ Goto(w, call.then) \/ Goto(w, call.else)
            /\ UNCHANGED output
         \/ Raise(w, call.else)

\* classify_bytes refuses a document without pages.
Classify(w, d) ==
  /\ pc[w] = "classify"
  /\ \/ PagesOf(d) # {} /\ Goto(w, "save_pages") /\ UNCHANGED <<doc, output>>
     \/ Raise(w, "unclassified")

SavePageClassifications(w, d) ==
  /\ pc[w] = "save_pages"
  /\ \/ /\ Exists(d)
        /\ doc' = [doc EXCEPT ![d].pages = PagesOf(d)]
        /\ Goto(w, "classified") \/ Goto(w, "fail")
        /\ UNCHANGED output
     \/ Raise(w, "fail")

\* Mutant of CheckClassified: a failed classification is parsed all the same.
CheckNothing(w, d) ==
  /\ pc[w] = "check"
  /\ \/ Exists(d) /\ Goto(w, "get_pages") /\ UNCHANGED <<doc, output>>
     \/ Raise(w, "fail")

\* run re-reads the document to learn whether its classification failed.
CheckClassified(w, d) ==
  /\ pc[w] = "check"
  /\ \/ /\ Exists(d)
        /\ Goto(w, IF doc[d].processing_status = "classification_failed"
                   THEN "complete" ELSE "get_pages")
        /\ UNCHANGED <<doc, output>>
     \/ Raise(w, "fail")

\* get_pages asks for pages only: none when the document is gone.
GetPages(w, d) ==
  /\ pc[w] = "get_pages"
  /\ \/ /\ Goto(w, IF doc[d].pages = {} THEN "no_pages" ELSE "parsing")
        /\ UNCHANGED <<doc, output>>
     \/ Raise(w, "fail")

\* Mutant of Parse: a parser that raises has found nothing to extract.
ParseSwallowing(w, d) ==
  /\ pc[w] = "parse"
  /\ \E found \in {{}} \cup {SimplePages(d) \cup azure : azure \in SUBSET ComplexPages(d)} :
       /\ output' = [output EXCEPT ![w] = found]
       /\ Goto(w, IF found = {} THEN "parsed" ELSE "save_extracts")
       /\ UNCHANGED doc

\* Every simple page yields an extract; of the complex pages those Azure
\* returns do, and none when PARSING_ENABLED is off.
Parse(w, d) ==
  /\ pc[w] = "parse"
  /\ \/ \E azure \in SUBSET ComplexPages(d) :
          LET found == SimplePages(d) \cup azure
          IN  /\ output' = [output EXCEPT ![w] = found]
              /\ Goto(w, IF found = {} THEN "parsed" ELSE "save_extracts")
              /\ UNCHANGED doc
     \/ Raise(w, "unparsed")

SavePageExtracts(w, d) ==
  /\ pc[w] = "save_extracts"
  /\ output' = [output EXCEPT ![w] = {}]
  /\ \/ /\ Exists(d)
        /\ doc' = [doc EXCEPT ![d].extracts = output[w]]
        /\ Goto(w, "parsed") \/ Goto(w, "unparsed")
     \/ Goto(w, "unparsed") /\ UNCHANGED doc

\* run reads the document once more, for its log line.
LogProcessed(w, d) ==
  /\ pc[w] = "log"
  /\ \/ Exists(d) /\ Goto(w, "complete") /\ UNCHANGED <<doc, output>>
     \/ Raise(w, "fail")

-----------------------------------------------------------------------------
\* The worker is rid of its job.
Idle(w) ==
  /\ pc' = [pc EXCEPT ![w] = "idle"]
  /\ output' = [output EXCEPT ![w] = {}]
  /\ UNCHANGED doc

\* The worker's run of complete() raises when its UPDATE has not taken effect.
CompleteJob(w, d) ==
  /\ pc[w] = "complete"
  /\ \/ Complete(w, d) /\ Idle(w)
     \/ holds[w] = d /\ Raise(w, "fail")

FailJob(w, d) ==
  /\ pc[w] = "fail"
  /\ Fail(w, d) \/ Drop(w, d) \/ Abandon(w, d)
  /\ Idle(w)

\* The process is killed while it runs d.
Crash(w, d) ==
  /\ pc[w] \notin {"idle", "fail"}
  /\ Abandon(w, d)
  /\ Idle(w)
  /\ UNCHANGED skipped

\* What a run does once it knows its way.
PhaseStep(w, d) ==
  \/ SetProcessingStatus(w, d)
  \/ Classify(w, d)
  \/ SavePageClassifications(w, d)
  \/ CheckClassified(w, d)
  \/ GetPages(w, d)
  \/ Parse(w, d)
  \/ SavePageExtracts(w, d)
  \/ LogProcessed(w, d)
  \/ CompleteJob(w, d)
  \/ FailJob(w, d)

RunStep(w, d) ==
  /\ holds[w] = d
  /\ Download(w, d) \/ (PhaseStep(w, d) /\ UNCHANGED skipped)

PipelineNext ==
  \/ \E d \in Jobs : Create(d) \/ EnqueueJob(d) \/ DeleteDocument(d) \/ LoseClaim(d)
  \/ \E js \in SUBSET Jobs : ReleaseStale(js)
  \/ \E w \in Workers, d \in Jobs : ClaimJob(w, d) \/ RunStep(w, d) \/ Crash(w, d)

\* The loop never stops for good: its container is restarted, it polls every
\* second and takes the oldest job first; and every step of a run ends.
PipelineFairness ==
  /\ \A d \in Jobs : WF_pipeline(\E w \in Workers : ClaimJob(w, d))
  /\ \A d \in Jobs : WF_pipeline(ReleaseStale({d}))
  /\ \A w \in Workers, d \in Jobs : WF_pipeline(RunStep(w, d))

PipelineSpec == PipelineInit /\ [][PipelineNext]_pipeline /\ PipelineFairness

-----------------------------------------------------------------------------
Labels == {"idle", "get", "classify", "save_pages", "check", "get_pages", "parse",
           "save_extracts", "log", "complete", "fail"} \cup DOMAIN StatusCalls

\* Every variable keeps its type, those of the ledger included.
PipelineTypeOK ==
  /\ TypeOK
  /\ HeldByOne
  /\ \A d \in Jobs :
       doc[d] \in [processing_status : ProcessingStatus \cup {"none", "gone"},
                   classification_error : BOOLEAN, parsing_error : BOOLEAN,
                   pages : {{}, PagesOf(d)}, extracts : SUBSET PagesOf(d)]
  /\ pc \in [Workers -> Labels]
  /\ \A w \in Workers : pc[w] # "idle" <=> holds[w] # NoJob
  /\ \A w \in Workers : output[w] # {} =>
       pc[w] = "save_extracts" /\ output[w] \subseteq PagesOf(holds[w])
  /\ skipped \subseteq Jobs

\* The queue never forgets a document half-way: when its job is completed, the
\* status a client polls is one it stops at.
CompletedIsTerminal ==
  \A d \in Jobs : status[d] = "completed" => doc[d].processing_status \in Terminal

\* A document offered for chat has the text of every simple page on record,
\* through whatever runs, crashes, lost answers and retries it came; and it has
\* all its pages on record, unless a worker that does not classify ran it.
ParsedHasText ==
  \A d \in Jobs : doc[d].processing_status = "parsed" =>
    /\ SimplePages(d) \cap doc[d].pages \subseteq doc[d].extracts
    /\ d \notin skipped => doc[d].pages = PagesOf(d)

\* The error columns agree with the status: a text where that phase failed
\* last, none left over from an earlier run.  A run that skips classification
\* leaves the text of an earlier classification that failed.
ErrorsMatchStatus ==
  \A d \in Jobs :
    /\ doc[d].processing_status = "classification_failed" => doc[d].classification_error
    /\ doc[d].classification_error =>
         doc[d].processing_status = "classification_failed" \/ d \in skipped
    /\ doc[d].processing_status = "parsing_failed" => doc[d].parsing_error
    /\ doc[d].processing_status \in {"parsing", "parsed"} => ~doc[d].parsing_error

\* What a document says of itself agrees with what was done to it, and with its
\* job, though runs are cut off, repeated and race with its deletion.
DocumentIsConsistent == CompletedIsTerminal /\ ParsedHasText /\ ErrorsMatchStatus

\* What clients watch moves along the documented order.  "parsed" is taken back
\* when the answer to its commit is lost; only a new run goes back further, to
\* "classifying", or to the parsing if that run skips classification.
Order ==
  [uploaded |-> {}, classifying |-> {"classified", "classification_failed"},
   classified |-> {"parsing"}, parsing |-> {"parsed", "parsing_failed"},
   parsed |-> {"parsing_failed"}, classification_failed |-> {}, parsing_failed |-> {}]

MayFollow(s, d, skips) ==
  Order[s] \cup {"classifying", "gone"}
           \cup (IF d \in skips THEN {"parsing", "parsed"} ELSE {})

StatusOrder ==
  [][\A d \in Jobs :
       LET s == doc[d].processing_status
           t == doc'[d].processing_status
       IN  s \in ProcessingStatus /\ t # s => t \in MayFollow(s, d, skipped)]_pipeline

\* Once its job is completed or given up, nothing touches a document again
\* but its deletion: no late writer is left.
SettledDocumentIsFinal ==
  [][\A d \in Jobs :
       status[d] \in {"completed", "failed"} =>
         doc'[d] = doc[d] \/ doc'[d].processing_status = "gone"]_pipeline
=============================================================================
