# Verification of all-pdfs-chat

TLA+ models of the program in `src/`, TLC runs that check them on small
instances, and theorems about every one of them proved with TLAPS for every
value of their constants. Paths below are relative to `src/`; `app/` is `backend/app/`.

## The system

A user uploads PDFs to a FastAPI server, worker processes classify the pages
and extract their text, and the user then chats about a document with an LLM
agent that reads the extracted pages. A Next.js client polls for progress.

| Component | State | Operations | What makes it correct |
|---|---|---|---|
| Job queue, `app/infrastructure/persistence/sql/repositories/jobs.py` | table `pdf_jobs`: status, attempts, run_after, locked_at, locked_by | `enqueue`, `claim_next`, `complete`, `fail_or_retry`, `release_stale_locks`; `ON DELETE CASCADE` | one holder per job; no job lost; attempts bounded; outcomes final |
| Worker loop, `app/worker/__main__.py` | what the process is doing, the job it holds | release, claim, run, complete or fail; SIGTERM | every claim ends in an outcome or is handed back |
| Processing pipeline, `app/worker/pdf_pipeline.py` | `pdf_documents.processing_status`, error columns, `pdf_pages`, `pdf_page_extracts` | `run`: classify, re-read, parse; each step a transaction | the status says what was really done; a completed job leaves a terminal status |
| Upload and management, `app/application/services/pdf_upload.py`, `pdf_management.py` | blob store, document row, job row | upload (blob, row, job), rename, delete (threads, row, blob) | a row has its blob; a delete leaves nothing behind |
| Conversations, `app/application/services/conversation.py` | table `conversations`, LangGraph checkpoints by thread id | create, chat, rename, delete, read | memory lives and dies with its conversation |
| Chat agent, `app/agent/graph.py`, `service.py` | one checkpointed message list, step counter and cited pages per thread | agent node, tools node, timeout | a turn ends with text within its tool budget; what is cited was read |
| Classification, parsing and search, `app/classification/`, `app/parsing/`, `app/agent/tools.py` | the run's own: features, classes, Azure's operation, extracts | features, rules and the shortcut past pdfplumber, page ranges, the wait for Azure with its deadline, merge, ranking | a page's class does not depend on who looked at it; every page is asked of the reader its class names; the wait ends |
| Authentication, `app/application/auth/` | tables `users`, `user_sessions` | register, login, logout, authenticate | one account per email; a revoked or expired session is refused |
| Browser client, `frontend/src/` | session in local storage, auth context, query cache, chat panel | login, polling, hydrate, send | no answer of an earlier state overwrites a later one |
| Start-up and migrations, `app/main.py`, `app/infrastructure/persistence/sql/migrations.py`, `alembic/` | the resources the API holds, its readiness; the database's revision and tables | lifespan, strict check of the revision, `ensure_migrated`, `upgrade head` | requests meet an API that is whole; the API returns by itself |
| Tracing, `app/agent/tracing.py`, `app/observability/http_tracing.py` | whether it is on, for the whole process; what a node's wrapper caches | set-up in a task and a thread, with retries; root and node spans | never holds up a start; once on, stays on |
| Deployment, `deploy/`, `docker-compose.prod.yml`, `scripts/dev.sh` | `.env`, the API's container, the dump | `deploy.sh` command by command, restart policies | no migration without its dump; success means serving |
| Rate limiting, in-memory doubles, page layout | | | not modelled (see the end) |

The processes share one PostgreSQL database and one blob store and exchange no
messages: API requests and workers meet only in rows, and each repository
method opens a session of its own. What is hard therefore lies between two
sessions: a row that changed since it was read, a process that ends between
two commits, a lock that expires under its holder, a delete that races
everything. `PROJECT.json` lists these hazards line by line.

## Modules

| Module | Models | Composes |
|---|---|---|
| `JobLedger` | what the queue promises: jobs wait, are held, settle | |
| `JobQueue` | the table `pdf_jobs`, its methods and the worker loop, with time | implements `JobLedger` |
| `JobQueue_proofs` | theorems about `JobQueue` | extends `JobQueue` |
| `DocumentPipeline` | `PdfProcessingPipeline.run` over the document's rows | extends `JobLedger` |
| `DocumentPipeline_proofs` | theorems about the ledger and the pipeline | extends `DocumentPipeline` |
| `Library` | the API's requests over documents, files, conversations and threads | |
| `Library_proofs` | theorems about `Library` | extends `Library` |
| `AgentLoop` | the chat agent's graph over a checkpointed thread | |
| `AgentLoop_proofs` | theorems about `AgentLoop` | extends `AgentLoop` |
| `ChatPanel` | the browser's chat panel, its cached history and its requests | |
| `ChatPanel_proofs` | theorems about `ChatPanel` | extends `ChatPanel` |
| `Sessions` | accounts, sessions and the tabs of a browser that share a token | |
| `Sessions_proofs` | theorems about `Sessions` | extends `Sessions` |
| `PageRules` | the features of a page and the rules that judge it (pure) | |
| `PageAnalysis` | one run over one document's bytes, Azure beside it, the tools afterwards | extends `PageRules` |
| `PageAnalysis_proofs` | theorems about the rules, the parser and the search | extends `PageAnalysis` |
| `ApiProcess` | one process of the API: start, end, and tracing beside both | |
| `Release` | `deploy.sh`, the database's revision, the container and its restarts | extends `ApiProcess` |
| `Release_proofs` | theorems about `Release` | extends `Release` |
| `MCJobQueue`, `MCDocumentPipeline`, `MCLibrary`, `MCAgentLoop`, `MCChatPanel`, `MCSessions`, `MCPageAnalysis`, `MCRelease` | instances for TLC | |

### JobQueue

`row[j]` is the row of job `j` ("unborn" before `enqueue`, "gone" after the
cascading delete). A worker's `pc` follows `run_worker`:

    loop -> release -> claim -> claimed -> run -> completing -> loop
                                            |         |
                                            +-> fail <-+ -> failing -> loop

`ReleaseRead`/`ReleaseWrite` are the SELECT and the COMMIT of
`release_stale_locks`; `CompleteLoad`/`CompleteWrite` and
`FailLoad`/`FailWrite` those of `complete` and `fail_or_retry`. Between the two,
any other process may act, and what is written then is what SQLAlchemy's unit
of work writes: an UPDATE by primary key of the columns that differ from the
row as loaded (`WriteBack`). `claim_next` holds a row lock (`FOR UPDATE SKIP
LOCKED`) over its whole transaction, so `ClaimNext` is one step; it takes the
oldest due row, and may pass over an older one only if some other worker's
transaction could be holding it (`Skippable`). The `refresh` after the claim's
commit is a step of its own, because the row may be deleted before it.
`ClaimNothing` is the poll.

Faults: `Crash` kills a worker anywhere, `Refused` makes a statement raise with
nothing written, `AckLost` makes a commit raise although it took effect, and a
deleted row makes the flush raise StaleDataError. What follows each is the
code's: inside the `try` it becomes `fail_or_retry`, elsewhere it ends the
process (`Exit`), which the container's restart policy starts again. A
multi-row release of which some rows are gone either raises or skips them
(drivers differ in whether they report row counts for batches); both are
allowed.

Abstractions: time is whole seconds of a common clock and TTL and run lengths
are small; `stale_before` and the rows it is compared with are read in one
step; `last_error` and `updated_at` are left out. `MaxRun` bounds how long a
worker may hold a job, and may be longer than the TTL, as it is with the default
settings (600 and 300 seconds, `settings.py:50` and `:44`).

The history variable `disputed` collects the jobs that were taken from a worker
still busy with them, brought back when they were settled already, or settled
twice: with several workers the code cannot rule this out (see "Further
observations"). The properties speak of the jobs that were never disputed, in
every regime at once, except `NeverGivenUpEarly`, which holds of all, and
`Undisputed`, which says of one worker that there are no others.

### JobLedger

The queue without clocks, sessions and lock columns. `ClaimLost` is a claim whose
commit took effect while its worker ended without hearing of it. `JobQueue!Ledger`
maps a row's status and attempts and each worker's job to it; `ImplementsLedger`
says that every step of the code, up to the first dispute, is a ledger step or
changes nothing there. With one worker no dispute comes (`Undisputed`).

### DocumentPipeline

Extends the ledger with the documents. The label `pc[w]` is where the holder is
in `run`; `StatusCalls` lists the seven calls of `set_processing_status` with
the label after each and the label its exception leads to. Every step that
touches the database, the storage or a library may raise, before or after its
commit took effect, at any time and without a bound: the attempts bound the
repetitions. `Download` reads the switch `CLASSIFICATION_ENABLED` anew in each
run, for a worker may be restarted with another value; the history variable
`skipped` are the documents a run has parsed without classifying them. They, and
they only, may go from any status to `parsing` or `parsed`, with whatever pages are
there. A document may have no page: `classify_bytes` refuses it, and a run that does
not classify ends it `parsed` (`pdf_pipeline.py:98-100`). `Applied` is
`_apply_processing_status`, with an error column reduced to whether it holds a
text. `Parse` returns an extract for every simple page and for those complex
pages Azure returned. Each save loads the document and commits later; since
only the job's holder and DELETE write that row, and a vanished row makes load
and commit raise alike, each is one step. That the holder is alone is what
`JobQueue` shows of jobs that were never disputed, hence of all jobs of a single
worker, which is the default deployment.

### Library

Each slot of `req` is a request the API is serving and `at` the store call it
makes next: a step is one awaited call. Document rows, files, conversations and
threads are four stores with no transaction in common; the foreign keys give
`Cascade` (jobs and conversations go with the row) and the failing inserts of
`Enqueue` and `InsertConversation`, and the threads have none. A chat loads the
thread when the graph starts (`Ask`), carries the messages and checkpoints them
whole, so `Answer` overwrites what others did meanwhile; a thread is the set of
its messages, each named by its turn. `touch` keeps the title it loaded
(`TouchLoad`) until it writes (`TouchWrite`).

`CallFails` is any store call that raises, `AgentFails` the 502 and the 504,
`CrashApi` the end of the process with every request in flight. A commit that
takes effect and then raises is a call that succeeded and whose answer is lost,
except in `create`, where the upload reacts to it by removing the file
(`CreateRow`, second disjunct). With classification switched off an upload
is answered without a job (`pdf_upload.py:132`).

History variables: `acked` are the uploads answered 201, `shelved` those of them
answered with classification off, `told` the turns whose answer reached the user,
for ever, `wiped` those of them a delete has wiped since, `raced` the conversations
that two requests were busy with at once. The invariants say what holds outside
`raced`, whatever fails; the overlapping pairs that break them are listed below.
`HistoryKeepsAnswers` says that an answered turn is in its thread unless a delete
wiped it, and that a conversation that is live with a wiped turn is being deleted,
or its delete was cut short by a fault.

### AgentLoop

One run of the compiled graph for each question: `StartTurn` applies the inputs
of `answer()` to the thread's latest checkpoint, `AgentNode` and `ToolsNode` are
the two nodes, `Route` the conditional edge, `Checkpoint` what the checkpointer
stores after each. A message is its author ("user", "call" for a message with
tool calls, "tools", "text", "blank"), its turn and the page markers in it; the
model's reply is any of what it may say, and the tools return any set of
markers. `cited_pages` is a list read as a set only, so it is a set. LangGraph
may write a checkpoint while the next node already runs; what is stored is then
what an earlier cut would have left, so storing it with the node loses nothing.
`Library` has the same turns in two steps; here are their insides.

### ChatPanel

The panel of one conversation, for a document that is ready. `panel` is the
state of the mounted component (`messages`, `isSending`, and `hydratedFor` as
the Boolean `hydrated`; `sent` is a history variable), `cache` and `fetch` the
query `['conversation-messages', id]`, `chats[t]` the request of the `t`-th
message and `history` what the server would answer. The component is keyed by
its conversation, so leaving it (`Close`) and coming back (`Open`) mounts a new
one, numbered by `opened`; requests and cache outlive it. `Send` is `send()` up to its
`await`, `ReplyArrives` the rest; a setter of an unmounted component does
nothing, so `AfterReply` compares the number. The effect runs after every
render that could change its outcome and is therefore part of `Open` and
`HistoryArrives`. A reply and a fetch are each two steps (the server's, then the
browser's), so that an old answer may arrive after newer events.

The query library is modelled from its use with default options: data is stale
at once, a mount and a regained focus fetch, one fetch is in flight at most, a
failed one keeps the old data, an unobserved query is dropped in the end
(`Evict`). The server appends a question when the agent starts and its answer
to what it had loaded, as in `Library`. Other tabs, titles, the draft and error
texts are left out.

### Sessions

`accounts` and `session` are the tables `users` and `user_sessions`, `stored` the
token in local storage, which all tabs share, and `tab[b]` what a tab keeps for
itself: `AuthContext`'s `user` and `isLoading`, and the cached list of documents
(`list`, reduced to whose list it is). A request (`req`) carries the token that was
stored when `apiFetch` sent it. The server handles it in the transactions the
code has: `register` looks, inserts and creates a session in three, so two of
them can overlap (`RegisterLook`, `RegisterInsert`, `RegisterSession`); reading
and revoking a session by its token cannot be disturbed and are one. `Fail` is a
5xx, a 429 or a lost reply at any point, before or after an effect. `Receive` is
everything the reply sets off in its tab: the handler of a 401 (`SignsOut`) and
what `bootstrap`, `login`, `register`, `logout` or the query do with it.

An address stands for its user; a wrong password is a login that is refused;
a session's end by revocation or by time is one Boolean. Other tabs see a change
of the token at once, but keep the user they name. "call" stands for any other request, sent with whatever
is stored, or nothing: pages retry failed queries after the token is gone.

### PageRules and PageAnalysis

A page of `doc` is what its rules read: counts of characters, words, lines,
tables, the areas of images and tables, the positions of its words, and `says`,
the terms printed on it. Ratios and scores are whole percentages, so a value
that lies between two of them in the code lies on the lower one here. `PageRules`
has the thresholds of `ClassifierThresholds`, `NativeFeatures` (PyMuPDF),
`LayoutFeatures` (pdfplumber) and the rules; `NoLayout` is what a page gets that
pdfplumber was not asked about.

`PageAnalysis` is one thread: `pc` goes

    native -> layout -> simple -> begin -> poll -> done

or to "raised" from any of them. `ExtractNative` and `ClassifyPages` are the two
halves of `classify_bytes`, `RestartUnclassified` the run of a worker started
with classification off, which finds the classes in the table and no text.
`BeginAnalyze`, `Sleep`, `TimeOut`, `FetchResult` and `AnalysisFailed` are
`_analyze_and_map`; Azure's operation (`AzureEnds`) ends when it likes, with any
of the document's pages in any order. A sleep takes `MaxDelay` longer than asked
at most. `SearchPages` and `GetPage` are the agent's tools. PyMuPDF and pdfplumber
are assumed to agree on the number of pages.

### ApiProcess and Release

`api` is the process: `phase` where `lifespan` is, `open` the resources it holds in
the order it opens and closes them, and tracing: `task` is
`setup_tracing_with_retry`, `thread` whether a thread is inside
`configure_tracing`, which starts by switching `enabled` off, `turn` a chat and
whether it has a root span, `node` what `trace_node` has cached. Cancelling the
task leaves its thread, and a process that gives up or has shut down is "exiting"
until that thread has ended too (`Exit`): `asyncio.run` and the interpreter join it.
Only then can Docker restart it; a kill waits for nothing.

`Release` adds the world: `db` (revision, tables, whether `create_all` made them,
and whether the checkpointer's `setup()` has made its own), `env` (`IMAGE_TAG` in
`.env`), `box` (the container), `deploy` (`deploy.sh`: its `pc`, its tag, the
revision it dumped) and `strays`. Each command is a step and may fail (`Fail`),
which ends the script there (`set -e`); that includes a dropped connection, which at
"migrate" may leave the container of `docker compose run` behind. It becomes a
stray, and ends at any later time, with its migration done or not
(`StrayEnds`); a deploy whose dump is older than what a stray did is `overtaken`.
The health check and the report of success are two commands with the pruning of
images between them. `Restart` is Docker's
policy, `KillApi` anything that ends the process, `DatabaseStopsOrStarts`
PostgreSQL. The revisions are numbered in their order, `HeadOf[t]` is the last one
the image `t` knows; a migration is one transaction (`alembic/env.py`). Deploys go
one at a time, as the workflow's concurrency group has it. Development
(`~cfg.prod`) has `Bootstrap` instead, over databases of any revision or none.

## Runs

| Run | Instance | Shows |
|---|---|---|
| `queue_faults` | 3 workers, 1 job, MaxRun > LockTtl, 1 crash, 1 refusal, lost acknowledgements | the type invariant; of undisputed jobs `HoldersAreExclusive` (one holder, owning its row), `RowsAddUp` (locks, attempts, claims), finality and the ledger; of every job that it is not given up before MaxAttempts claims |
| `queue_one_worker` | 1 worker, 2 jobs, MaxRun > LockTtl, 2 crashes, 1 refusal | alone, a worker disputes no job, whatever happens to it |
| `pipeline` | 2 workers, a document with pages of either class, one without pages, classification on or off in each run | document and job agree through crashes, exceptions, lost acknowledgements and deletes; a settled document stays so; every job settles |
| `library` | 1 document, 2 conversations, 2 requests, 2 questions, 1 fault, classification on or off at each upload | acknowledged uploads are whole; a lost turn, a surviving message or a replaced title has overlapping requests as its cause, or a delete that a fault cut short |
| `agent` | 1 thread, 2 chats at once, 3 questions, 2 iterations | tool budget, paired calls and replies, and founded citations through cuts, overlaps and deletes |
| `panel` | 3 messages, a panel opened 3 times | order of the transcript, in-session turns and readiness through late histories and late replies |
| `panel_reopen` | 1 message, a panel opened twice | *violation*: a reopened panel shows an older history than the server's |
| `sessions` | 2 tabs, 1 address, 2 sessions, 2 requests at once | one account per address, valid tokens kept, bootstraps end |
| `sessions_users` | 2 tabs, 2 addresses, 2 sessions, 2 requests at once | a tab that comes to name a user names the token's |
| `sessions_library` | 1 tab, 2 users, 1 request | *violation*: the library of the user who signed out is shown to the next |
| `pages` | pages on either side of every threshold, documents of 0 to 5 pages, every configuration | the shortcut changes no class, Azure is asked for exactly the complex pages, its answer is filtered and ordered, the wait ends, the search shows the best |
| `release` | 2 tags with different heads, 2 set-up attempts, 1 kill, migrations that outlive their deploy | no deploy migrates without its dump, no untrue success, tracing stays on, the API comes back |

Bounds. Three workers are what a race of two over one job with a bystander needs,
and every fault is in that instance; two jobs are what the order of claims and a
release of several rows need, for which one worker is enough. That jobs do not
interfere among several workers is not in these instances but in the proofs, which
are for any number of both. MaxAttempts is 2
or 3 so that a retry, the last attempt and giving up all happen; the clock runs
past the TTL, the first back-off and a second expiry. One document of the
pipeline's has a page of either class, the other no page at all. Three panels and three messages let a reply meet a
later panel that has sent one of its own and a history from before both. Two
requests are a late reply and what overtakes it; two sessions the one it was for
and the one it meets; two addresses let a tab be signed in as somebody else
meanwhile, in an instance of its own, with symmetry and hence without liveness. The
pages of the pool have each signal just below and just above its threshold, and degenerate
ones (no text, no area, overlapping tables); the longer documents have every
order of three classes, one range, two, and one page too many; `TopK` 2 is less
than the pages a query can find, `MaxWait` 4 with sleeps of 2 or 3 lets the
deadline fall on a poll and between two. Two tags are a release and its
rollback, with and without a migration between them; all orders, repetitions and
failures of their deploys are in the instance. Clock, crash and
fault budgets appear in the guards of `Tick`, `Crash`, `Refused` and `AckLost`
only. Interchangeable sets (workers and jobs of the queue, requests, conversations,
tabs and addresses) are symmetry sets in the runs without liveness; runs with
liveness use none.

Fairness. `PipelineSpec` assumes weak fairness of claiming a waiting job, of
handing back a lost one and of the next step of a run. The code: the worker
polls every second, takes the oldest job first and is restarted by its
container (`docker-compose.prod.yml:43`), and every step of a run ends, Azure's
wait by its deadline. Crashes may go on for ever, so `EventuallySettled` is
conditional on their ceasing. The panel's `FairSpec` assumes that the server
answers every chat, by its own timeout at the latest (`service.py:77`), and that
the browser settles every request, with an error if need be; that of `Sessions`
only the latter. Nothing is assumed of users. A run over a document goes on by
itself (`WF_vars(Own)`); Azure owes nothing. In `Release`, Docker restarts the
container (`docker-compose.prod.yml:23`), the start-up proceeds, its database
calls having timeouts, the thread inside `configure_tracing` ends, because
`tracing.py:25-28` gives MLflow's client a time limit (whatever MLflow answers), and
a process whose thread has ended exits. `ServesAgain` is conditional on a
database that stays up, a schema that fits and a container not told to stop.

`CHECK_DEADLOCK FALSE` is used where the system may really stop: in the
pipeline's runs, once every document is deleted, and in the library's, once its
bounded ids and questions are used up, as in the agent's, and in the panel's, once
no messages are left to send and the panel may not be opened again, and in the
run over a document, which stops when it raises.

## What the violations show

1. A conversation left and opened again is seeded from the cached history, which
   sending does not invalidate; the refetched one is ignored, so turns are
   missing until the page is reloaded, or until the cache entry is dropped, which
   happens some time after nothing shows it any more (`gcTime`).
2. The query `['pdfs']` names no user and nothing clears the query cache, so the
   next user of a tab is shown the list of the one who signed out.

Further observations no run states:

- `worker_lock_ttl_seconds` (300, `settings.py:44`) is less than
  `parsing_max_wait_seconds` (600, `settings.py:50`) and nothing renews a lock, so
  with the "more worker replicas" of `backend.md:237` a long Azure run is given to
  a second worker while the first goes on: the job is disputed. What is checked and
  proved of exclusive holders, agreeing rows and final outcomes holds of a job until
  that happens to it.
- `cited_pages` (`graph.py:27`, `operator.add`) is never reset in the checkpoint:
  the answers of a conversation cite the pages of all its turns so far, while
  `backend.md:266` says "Answers cite the page numbers used".
  `CitationsAreFounded` holds either way: it asks that what is cited was read, and
  that what the turn read is cited.
- `release_stale_locks` counts no attempt: a document that kills its worker is
  tried without end. Even when runs end in time, two replicas that both read a
  dead worker's row may reset it one after the other, the second after a third
  has claimed it, which disputes the job too.
- A lost acknowledgement of the commit of `parsed` is written over by
  `parsing_failed` (`pdf_pipeline.py:111-117`) although the extracts are there.
- Switching classification off has uploads answered without a job, and lets jobs
  queued before end documents `parsed` that were never classified, without pages.
- A delete that wipes a conversation's thread and then fails, or is killed, before
  its row goes leaves a listed conversation without the turns its user was answered.
- A run starts by setting `classifying`, so a crash between the terminal status
  and `complete()` takes a ready document back. A lost acknowledgement of
  `complete`'s commit makes the worker count a failure on a completed job, which
  then runs again.
- A job that fails for good before its first terminal status leaves its document
  `uploaded` or `classifying`, which clients poll for ever; so does an upload
  whose `refresh` raises after the commit of its row: the file is removed and the
  row stays, without a job.
- A chat in flight when its conversation is deleted writes the messages back
  after they were wiped. Two chats in one conversation at once keep only one of
  the two turns, and a rename during the first turn is replaced by the derived
  title.
- A turn cut off between a call of tools and its results leaves the call in the
  thread (`ThreadIsPaired` says only such turns do), and every later turn
  sends it to the model; some providers refuse such a prompt.
- A 401 clears whatever token is stored when it arrives, also one stored after
  its request was sent (`ValidTokenKept` says only such a 401 does so), and the
  bootstrap's answer may name a user who has signed out meanwhile (`UserShown`
  says that only a bootstrap overtaken so does it).
- When another tab replaces the shared token, a tab's `isAuthenticated` follows it
  and its `user` does not (`AuthContext.tsx:32`): the header goes on naming the former
  user, although `session.ts:14-16` says of subscribing that it "Lets the header and
  library stay in sync from a single source". `UserShown` is about the moment a tab comes to name
  a user, and does not cover what it names later.
- `create_app` calls `configure_http_tracing` (`main.py:108`), which waits for MLflow
  for up to two timeouts of five seconds, although `main.py:47` keeps tracing from
  delaying the start; only the agent's tracing is set up beside it.
- `ensure_migrated` stamps a database made by `create_all` at the head, also one
  that has only the tables of the first revision: `conversations` is then missing
  while the check calls the schema current. `DatabaseOK` excepts such databases.
- Deploying an older tag after a newer revision was applied fails at
  `alembic upgrade head`, which does not know it, and leaves the older tag in
  `.env`. Between the migration and `up -d` the old API runs on the new schema, and
  if it ends there it cannot start again. Success does not ask about the worker.
- A deploy that is cut off at its migration may leave the container running it
  behind, which then migrates under a later deploy, after that one's dump or after
  an older release has been started: that release cannot start again.
- `trace_node` keeps the wrapper it made first, also one whose making failed, for
  the life of the process; tracing that turns on during a chat gives its later
  nodes spans without a root.

## Proofs

`JobQueue_proofs` proves, from `JobQueueAssumption` only, hence in every regime (any
number of jobs and workers, crashes, refusals, lost acknowledgements, overruns),

- `TypeCorrect`: `Spec => []TypeOK`;
- `Exclusivity`, `Bookkeeping` and `Finality`: `HoldersAreExclusive`, `RowsAddUp` and
  `SettledIsFinal`, of jobs that were never disputed;
- `Refinement`: up to the first dispute each step is a step of `JobLedger` or changes
  nothing there.

The inductive invariant is `QueueInv`, and it speaks of one job at a time, so that a
dispute over one job costs nothing that is said of the others. `Owns`: who has the
job is alone, owns its row (running, under the lock it took with the claim) and, in
an open `complete` or `fail_or_retry`, has loaded the row as it still is; without
the last a write-back could undo columns. `RowOK`: the columns agree, and the claims
without an outcome number no more than the crashes and faults, one fewer if the row
is running without a holder (`Lost`): the release of that row uses it up. Every step
is first shown to be one of few kinds of change (`StepChanges`: it `Rests`, `Takes`,
`Loses`, `Settles`, `Leaves`, `Resets` or `Strays`), from which all four theorems
follow. That a release found the row stale while a worker was alone with it, and
writes when another has claimed it, is where the code needs the exception: such a
step disputes the job.

With one worker (`Alone`: any number of crashes and refused statements, any length of
a run, but no lost acknowledgement of a commit) nothing is excepted:
`AloneUndisputed` is `Undisputed`, and `RefinementAlone` says the table then implements
`JobLedger!SafeSpec` from end to end. Locks do expire here, under a worker that is
still busy as well as under one that has ended, and what matters is that the only
process to look for stale locks is the one that might hold them (`AloneInv`). A lost
acknowledgement is excluded because the ledger then fails: the worker counts a
failure on a job it has completed.

`NoEarlyFailure`, in the same module, is `NeverGivenUpEarly` in every regime, for a
finite set of workers. `FailuresHaveClaims` counts: the failures in
the row plus the workers that have the job never exceed its claims, and the same
holds of the failures an open `fail_or_retry` loaded. The second part is what
two holders need: one may load the row before the other's failure is written,
and overwrite it.

`PageAnalysis_proofs` proves `NativeDecides` and `ConfidenceTellsClass` of the rules,
for every value of the features, and `ShortcutIsSound`: `ShortcutAgrees` for every
set of documents and every limit. Its invariant `Progress` says which features
`native` holds and which class follows from them, step by step; what needs an
argument is that `chars`, `quality`, `image` and `columns` do not change when
pdfplumber's two signals are added, and that a simple page's quality is high.

The same module proves the other safety properties of `PageAnalysis`, from
`AnalysisAssumption` (the documents are sequences of pages, the terms finitely
many): `AnalysisTyped` (`AnalysisTypeOK`), `PagesHonoured` (`PagesAreHonoured`) and
`SearchShowsBest` (`SearchIsBest`).

- The operators first. `Sorted` and the fold of `FormatPages` are defined by what
  they are, so that there is something of the kind must be shown, and the
  library's induction theorems cannot be instantiated here. `InOrder` gives each
  element of a finite set its rank (how many come before it) and shows that the
  ranks are an order; `FoldExists` builds the fold up to the least length for
  which there is none, and finds one (`LeastNumber`). `Covers` is the invariant of
  `format_azure_pages_parameter`'s loop: the ranges written and the open one have
  the pages so far, in order, with a gap between any two. From it follows
  `FormatPagesCovers`, for any finite set of pages.
- Then the run. `Honest` is the inductive invariant: the types, `Progress`, and
  `Stages`, which says of every `pc` what the extracts are by then. Before Azure
  answers they are those of the simple pages, all of them; without that
  the merge could meet a page twice or leave one out. Its answer may bring any of
  the document's pages: that none of them is a simple one rests on the filter by
  the pages asked for, and those on `class`, which has not changed since.
- `SearchShowsBest` needs that no two extracts have a page in common
  (`ExtractsDiffer`): only then does a page that is not shown mean an extract that
  ranks behind `TopK` others.
- `WaitIsBounded`: the wait ends one late sleep past the deadline at most,
  so the bound `MaxClock` stops no run. `StepsRunOut`: a run's steps bring it to a
  later stage or nearer to the deadline, and nothing takes it back.

`Release_proofs` proves all safety properties of `Release` (`ReleaseTypeCorrect`,
`PreparedMigrations`, `SuccessIsTrue`, `TracingIsKept`) from `ApiAssumption` and
`ReleaseAssumption`: for any number of tags, whatever their heads, of set-up
attempts and of kills. The inductive invariant `ReleaseInv` adds three parts to the
types. `MemoryIsThere`: an API that serves has had its checkpointer's tables made.
`TracingInv`: tracing is on only when no thread is inside the set-up and no
attempt is left, without which another attempt could switch it off; it also
bounds the attempts. `DeployInv`: how far a deploy has come can be read from the
database, the dump, `.env` and the container, unless a stray migration has overtaken
it. The prepared migration rests on the dump being of the present revision at
"migrate" (in production only a deploy and the strays of cut-off ones migrate,
`RevisionSteps`), the true success on the revision being the tag's head from "up"
on, and the container the tag's from "nginx" on (`DeployReaches`).

`DocumentPipeline_proofs` proves, from `JobLedgerAssumption` and
`PageClassAssumption`, first `LedgerHolders` of the ledger alone, then
`PipelineTypes`, `DocumentsAgree` (`DocumentIsConsistent`), `StatusIsOrdered`
(`StatusOrder`), `SettledStaysFinal` (`SettledDocumentIsFinal`) and
`PipelineRefinesLedger`: for documents with any pages or none, with classification
switched on or off in each run. `PipelineInv` says of each row what its status implies
(`Sound`), of each document how it agrees with its job (`RowsAgree`), and of each
holder which row it meets at its label (`Meets`): without the last a `parsed`
might be written over pages that were never saved, which only a run that does not
classify may do, and is in `skipped` then. A step of one worker leaves
`Meets` of the others alone because they hold other documents, which is
`HeldByOne`; a delete between two steps makes `Meets` say nothing more.

`Library_proofs` proves, from `LibraryAssumption`, all six safety properties of
`Library`. `LibraryInv` has four parts. `Shape` is the types and what a request's
label says of it. `UploadInv`: a document is one upload's until it is acknowledged,
and at each label the row or the file is there. `AloneInv` is about conversations
outside `raced`: that requests overlapping now are in `raced` already, and what the
only request busy with one may rely on (`AloneOK`: a chat's memory is its thread,
the title it loaded is the row's, a deleted thread is empty until its row goes).
The last covers a delete of the whole document, for which each conversation is on
the list of those to wipe or wiped. `WipedInv` follows a turn that was answered and
wiped: without a fault its delete is still on the way to the row, and what it is on
the way to does not come back (`NoneComesBack`).

`AgentLoop_proofs` proves, from `AgentAssumption`, `AgentTypes`, `BudgetIsKept`
(`ToolBudget`), `CitationsHaveGrounds` (`CitationsAreFounded`) and `ThreadsArePaired`
(`ThreadIsPaired`). `AgentInv` says the same of a checkpoint and of a run's state,
because each becomes the other: what is cited is what the tool messages there marked, and every text comes
after its question with nothing shown between (`Sound`); every unanswered call is
its turn's last message or the turn was cut off or overlapped (`ThreadCalls`,
`RunCalls`). A run in addition counts its rounds (`Going`), which start at zero
because no message of its turn is in the thread it loads: turns are numbered.

`ChatPanel_proofs` proves, from `PanelAssumption`, `PanelTypes`, `PanelsAreHonest`
(`PanelIsHonest`) and `TurnsAreKept` (`InSessionTurnsKept`). The transcript is
seeded from a cache, which a fetch has filled from the server's history, which an
answer has overwritten with what its turn had loaded; so `PanelInv` says of each of
these lists that it tells a true story of turns that were sent (`Story`), and of all
but the transcript that they have nothing of a question the server has not received
(`Heard`), without which that question could be appended twice. A reply is added
to the end of its own panel's transcript; that this is right after its question
needs that a panel ends with its question while it is in flight (`Asking`), which
rests on the locks: one message in flight, and no hydration after sending.
`RepliesNear` adds that nothing puts a reply off: a message in flight is left alone
or gets nearer to it.

`Sessions_proofs` proves, from `SessionsAssumption`, `SessionsTypes`,
`ValidTokensStay` (`ValidTokenKept`) and `UsersAreShown` (`UserShown`). `SessionsInv`
says what a request was made with (`Asked`) and what its answer says, which goes on
being true while it is on its way (`Told`): an owner never changes, and a refused
token never becomes good. `LoadingAwaitsAnswer`: a tab that waits for its bootstrap
has its request on the way, and whatever answers it ends the waiting.

Every invariant and every action property that a passing run checks is stated by
one of these theorems. Only model-checked is the liveness (`EventuallySettled`,
`SendingEnds`, `LoadingEnds`, `AnalysisEnds`, `ServesAgain`): fairness is outside the
prover's reach. `StepsRunOut`, `RepliesNear` and `LoadingAwaitsAnswer` prove the part
of three of them that needs none.

## Plan

1. Two holders of one document (`DocumentPipeline` over a queue that overruns).
2. Polling for a document's progress, the upload form, renaming a PDF.

## Not modelled

- In-memory repositories and queue: doubles for tests and for a development
  server without a database, one process and no failures.
- Rate limiting: slowapi's counters decide which requests are refused; a refusal
  is `Fail` in `Sessions`, and in `Library` a request that is not made.
- The geometry of PyMuPDF and pdfplumber, the LLM, Azure, PostgreSQL,
  SQLAlchemy, LangGraph, MLflow and Docker appear only through what the code
  does with them.
- Of the deployment: the restore of a dump, the monitoring stack, the pruning of
  old dumps, the frontend's container. Of the browser: polling, the upload form,
  renaming a PDF, page layout and styling.
