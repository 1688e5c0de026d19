----------------------------- MODULE ApiProcess -----------------------------
(***************************************************************************)
(* One process of the API from its import to its end: the lifespan that    *)
(* opens and closes what requests need, MLflow's tracing, which is set up  *)
(* by a task and a thread beside it, and a chat that is traced if tracing  *)
(* is on by then.  What a traced call reports to MLflow, and that a report *)
(* that raises is swallowed, is left out.                                  *)
(*                                                                         *)
(* The process is one record, api; the database and whoever starts and     *)
(* stops the process are the environment's (Release).                      *)
(***************************************************************************)
EXTENDS Integers, Sequences

CONSTANT SetupAttempts  \* _SETUP_MAX_ATTEMPTS

ASSUME ApiAssumption == SetupAttempts \in Nat \ {0}

VARIABLES
  cfg,  \* the settings: prod, and whether each tracing is on and has a URI
  api   \* the process

Settings == [prod : BOOLEAN, tracing : BOOLEAN, requests : BOOLEAN]

Resources == {"engine", "storage", "model", "memory"}

Dead ==
  [phase |-> "down",      \* where the lifespan is
   open |-> {},           \* the resources it holds
   ready |-> FALSE,       \* app.state.ready
   task |-> "none",       \* setup_tracing_with_retry
   attempt |-> 0,
   thread |-> FALSE,      \* a thread is in configure_tracing
   enabled |-> FALSE,     \* agent tracing's _enabled
   http |-> FALSE,        \* request tracing's _enabled
   turn |-> "none",       \* a chat, and whether it has a root span
   node |-> "fresh"]      \* what trace_node has cached

Starting == {"connect", "schema", "memory"}

\* The server gives up, or is done: its task is cancelled with the loop.
Exiting == [api EXCEPT !.phase = "exiting", !.task = "ended"]

-----------------------------------------------------------------------------
\* Start.

\* configure_http_tracing asks MLflow for an experiment, once and with a timeout.
HttpOutcomes == IF cfg.requests THEN BOOLEAN ELSE {FALSE}

\* create_app, which waits for that answer, then the lifespan's first lines.
Import ==
  /\ api.phase = "down"
  /\ \E http \in HttpOutcomes :
       api' = [api EXCEPT !.phase = "connect", !.http = http, !.task = "created"]

\* init_database: a query, then a look at the revision, which only stops prod.
Connect(up) ==
  /\ api.phase = "connect"
  /\ api' = IF up THEN [api EXCEPT !.phase = "schema", !.open = {"engine"}] ELSE Exiting

\* The look, and all up to the next await.
CheckSchema(up, fits) ==
  /\ api.phase = "schema"
  /\ api' = IF up /\ (fits \/ ~cfg.prod)
            THEN [api EXCEPT !.phase = "memory", !.open = @ \cup {"storage", "model"}]
            ELSE Exiting

\* init_chat_checkpointer; its own except closes the pool it has opened.
OpenMemory(up) ==
  /\ api.phase = "memory"
  /\ api' = IF up THEN [api EXCEPT !.phase = "serving", !.open = Resources, !.ready = TRUE]
            ELSE Exiting

-----------------------------------------------------------------------------
\* Tracing.  A task awaits configure_tracing in a thread, again and again.

CallSetup ==
  /\ api.task \in {"created", "sleeping"}
  /\ api' = [api EXCEPT !.task = "calling", !.attempt = @ + 1, !.thread = TRUE,
                        !.enabled = FALSE]

SetupOutcomes == IF cfg.tracing THEN BOOLEAN ELSE {FALSE}

ThreadEnds ==
  /\ api.thread
  /\ \E enabled \in SetupOutcomes : api' = [api EXCEPT !.thread = FALSE, !.enabled = enabled]

\* Mutant of AfterSetup: the loop makes all its attempts.
AfterSetupAgain ==
  /\ api.task = "calling" /\ ~api.thread
  /\ api' = [api EXCEPT !.task =
               IF ~cfg.tracing \/ api.attempt = SetupAttempts THEN "ended" ELSE "sleeping"]

AfterSetup ==
  /\ api.task = "calling" /\ ~api.thread
  /\ api' = [api EXCEPT !.task =
               IF api.enabled \/ ~cfg.tracing \/ api.attempt = SetupAttempts
               THEN "ended" ELSE "sleeping"]

\* agent_trace: without a span when tracing is off, or when starting one raises.
StartTurn ==
  /\ api.phase = "serving" /\ api.turn = "none"
  /\ \E turn \in {"traced", "untraced"} :
       /\ turn = "traced" => api.enabled
       /\ api' = [api EXCEPT !.turn = turn]

\* trace_node: the first call that finds tracing on decides for all later ones.
CallNode ==
  /\ api.turn # "none" /\ api.enabled /\ api.node = "fresh"
  /\ \E node \in {"traced", "untraced"} : api' = [api EXCEPT !.node = node]

EndTurn == api.turn # "none" /\ api' = [api EXCEPT !.turn = "none"]

-----------------------------------------------------------------------------
\* End.

\* Mutant of BeginShutdown: the flag stays as it is.
BeginShutdownReady ==
  /\ api.phase = "serving" /\ api.turn = "none"
  /\ api' = [api EXCEPT !.phase = "closing", !.task = "ended"]

\* The server has let its requests end; cancelling the task leaves its thread.
BeginShutdown ==
  /\ api.phase = "serving" /\ api.turn = "none"
  /\ api' = [api EXCEPT !.phase = "closing", !.ready = FALSE, !.task = "ended"]

CloseOrder == <<"storage", "model", "memory", "engine">>

StillOpen == SelectSeq(CloseOrder, LAMBDA r : r \in api.open)

CloseNext ==
  /\ api.phase = "closing" /\ api.open # {}
  /\ api' = [api EXCEPT !.open = @ \ {Head(StillOpen)}]

\* The end of the lifespan, or a close that raises and leaves the rest open.
Leave == api.phase = "closing" /\ api' = Exiting

\* Mutant of Exit: what was left open, the pool of the memory for one, holds up
\* the end of the process.
ExitWhenClosed == api.phase = "exiting" /\ ~api.thread /\ api.open = {} /\ api' = Dead

\* The loop and the interpreter join the threads of asyncio.to_thread first.
Exit == api.phase = "exiting" /\ ~api.thread /\ api' = Dead

Kill == api.phase # "down" /\ api' = Dead

-----------------------------------------------------------------------------
Trace == CallSetup \/ ThreadEnds \/ AfterSetup \/ StartTurn \/ CallNode \/ EndTurn

Processes ==
  [phase : {"down", "serving", "closing", "exiting"} \cup Starting, open : SUBSET Resources,
   ready : BOOLEAN, task : {"none", "created", "calling", "sleeping", "ended"},
   attempt : 0..SetupAttempts, thread : BOOLEAN, enabled : BOOLEAN, http : BOOLEAN,
   turn : {"none", "traced", "untraced"}, node : {"fresh", "traced", "untraced"}]

\* What the process is made of.  Requests meet an API that is whole: it is
\* ready, or in the middle of a chat, only while every resource is open.
\* (The order of lifespan, main.py.)
ApiTypeOK ==
  /\ cfg \in Settings
  /\ api \in Processes
  /\ api.ready \/ api.turn # "none" => api.phase = "serving"
  /\ api.phase = "serving" => api.open = Resources
  /\ api.phase = "down" => api = Dead

\* Tracing is on only when the last attempt has ended, and no attempt is left
\* to be made; an attempt to be made is one of SetupAttempts.
TracingInv ==
  /\ api.enabled => ~api.thread /\ api.task \in {"calling", "ended"}
  /\ api.thread => api.task \in {"calling", "ended"}
  /\ api.task = "created" => api.attempt = 0
  /\ api.task = "sleeping" => api.attempt < SetupAttempts
=============================================================================
