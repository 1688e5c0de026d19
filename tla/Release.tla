------------------------------- MODULE Release -------------------------------
(***************************************************************************)
(* A release reaches production: deploy.sh, command by command, over the   *)
(* database and its Alembic revision, the .env file, nginx and the API's   *)
(* container, whose process (ApiProcess) Docker restarts whenever it ends  *)
(* and which refuses a revision other than its own head.  At home the API  *)
(* is strict about nothing and dev.sh calls ensure_migrated.               *)
(*                                                                         *)
(* The revisions are numbered in their order; 0 is none.  A migration is   *)
(* one transaction (alembic/env.py).  Releases go out one at a time (the   *)
(* workflow's concurrency group).                                          *)
(***************************************************************************)
EXTENDS ApiProcess

CONSTANTS
  Tags,     \* image tags
  HeadOf,   \* the last revision each tag's image knows
  NoTag,    \* no container, or nothing in .env
  MaxKills  \* bound: how often the API is killed

VARIABLES
  db,      \* up, revision, tables, whether create_all made them, and whether the
           \* checkpointer's setup() has made its own
  env,     \* IMAGE_TAG in .env
  box,     \* the API's container: its tag, told to stop, resolved by nginx
  deploy,  \* deploy.sh: where it is, its IMAGE_TAG, the revision it has dumped, and
           \* (history) whether a stray has migrated the database since
  strays,  \* the tags of migrations whose deploy was cut off, and which may go on
  kills

vars == <<cfg, api, db, env, box, deploy, strays, kills>>

NoDump == -1

-----------------------------------------------------------------------------
\* alembic/versions: the tables each revision adds.
Creates ==
  <<{"users", "pdf_documents", "user_sessions", "pdf_pages", "pdf_page_extracts", "pdf_jobs"},
    {"conversations"}>>

Revisions == 0 .. Len(Creates)

ASSUME ReleaseAssumption ==
  /\ HeadOf \in [Tags -> Revisions \ {0}] /\ NoTag \notin Tags
  /\ MaxKills \in Nat

TablesAt(r) == UNION {Creates[i] : i \in 1..r}

Database(r) ==
  [up |-> TRUE, revision |-> r, tables |-> TablesAt(r), legacy |-> FALSE, memory |-> FALSE]

LegacyDatabase == [Database(Len(Creates)) EXCEPT !.revision = 0, !.legacy = TRUE]

Init ==
  /\ cfg \in Settings
  /\ api = Dead
  /\ env = NoTag
  /\ deploy = [pc |-> "idle", tag |-> NoTag, dump |-> NoDump, overtaken |-> FALSE]
  /\ strays = {}
  /\ kills = 0
  /\ IF cfg.prod
     THEN db = Database(0) /\ box = [tag |-> NoTag, stop |-> FALSE, routed |-> FALSE]
     ELSE /\ db \in {Database(r) : r \in Revisions} \cup {LegacyDatabase}
          /\ \E t \in Tags : box = [tag |-> t, stop |-> FALSE, routed |-> FALSE]

-----------------------------------------------------------------------------
\* Migrations.

\* alembic upgrade head: a revision it does not know, or a table that is there
\* already, makes it raise.
CanUpgrade(head) ==
  /\ db.up
  /\ db.revision <= head
  /\ (TablesAt(head) \ TablesAt(db.revision)) \cap db.tables = {}

Upgraded(head) == [db EXCEPT !.revision = head, !.tables = @ \cup TablesAt(head)]

\* ensure_migrated: tables without a revision are taken for the newest schema.
EnsureMigrated(head) ==
  /\ db.up /\ db.revision # head
  /\ IF db.revision = 0 /\ "users" \in db.tables
     THEN db' = [db EXCEPT !.revision = head]
     ELSE CanUpgrade(head) /\ db' = Upgraded(head)

\* scripts/dev.sh
Bootstrap ==
  /\ ~cfg.prod
  /\ EnsureMigrated(HeadOf[box.tag])
  /\ UNCHANGED <<cfg, api, env, box, deploy, strays, kills>>

-----------------------------------------------------------------------------
\* deploy.sh.  Any of its commands may fail, and the connection it runs in may
\* drop: set -e ends it where it is.

Goto(label) == deploy' = [deploy EXCEPT !.pc = label]

Steps ==
  {"env", "pull", "postgres", "backup", "migrate", "up", "replace", "nginx", "check", "prune"}

StartDeploy(t) ==
  /\ cfg.prod
  /\ deploy.pc \notin Steps
  /\ deploy' = [pc |-> "env", tag |-> t, dump |-> NoDump, overtaken |-> FALSE]
  /\ UNCHANGED <<cfg, api, db, env, box, strays, kills>>

\* The container of `docker compose run` may outlive it.
Fail ==
  /\ deploy.pc \in Steps
  /\ Goto("failed")
  /\ strays' \in {strays, IF deploy.pc = "migrate" THEN strays \cup {env} ELSE strays}
  /\ UNCHANGED <<cfg, api, db, env, box, kills>>

\* It upgrades what it finds, or raises.
StrayEnds(t) ==
  /\ t \in strays
  /\ strays' = strays \ {t}
  /\ \/ UNCHANGED <<db, deploy>>
     \/ /\ CanUpgrade(HeadOf[t])
        /\ db' = Upgraded(HeadOf[t])
        /\ deploy' = [deploy EXCEPT !.overtaken =
                        @ \/ (deploy.dump # NoDump /\ db'.revision # db.revision)]
  /\ UNCHANGED <<cfg, api, env, box, kills>>

WriteEnv ==
  /\ deploy.pc = "env"
  /\ env' = deploy.tag
  /\ Goto("pull")
  /\ UNCHANGED <<cfg, api, db, box, kills>>

Pull ==
  /\ deploy.pc = "pull"
  /\ Goto("postgres")
  /\ UNCHANGED <<cfg, api, db, env, box, kills>>

WaitForPostgres ==
  /\ deploy.pc = "postgres"
  /\ db.up
  /\ Goto("backup")
  /\ UNCHANGED <<cfg, api, db, env, box, kills>>

\* Mutant of BackUp: a dump that fails does not end the script.
BackUpIfPossible ==
  /\ deploy.pc = "backup"
  /\ deploy' = [deploy EXCEPT !.pc = "migrate", !.dump = IF db.up THEN db.revision ELSE @]
  /\ UNCHANGED <<cfg, api, db, env, box, kills>>

\* backup.sh: the dump gets its name when it is complete.
BackUp ==
  /\ deploy.pc = "backup"
  /\ db.up
  /\ deploy' = [deploy EXCEPT !.pc = "migrate", !.dump = db.revision]
  /\ UNCHANGED <<cfg, api, db, env, box, kills>>

\* In a container of its own, of the image .env names.
Migrate ==
  /\ deploy.pc = "migrate"
  /\ CanUpgrade(HeadOf[env])
  /\ db' = Upgraded(HeadOf[env])
  /\ Goto("up")
  /\ UNCHANGED <<cfg, api, env, box, kills>>

\* Mutant of UpServices: up -d --no-recreate.
UpServicesThatAreMissing ==
  /\ deploy.pc = "up"
  /\ box' = IF box.tag = NoTag THEN [box EXCEPT !.tag = env] ELSE box
  /\ Goto("nginx")
  /\ UNCHANGED <<cfg, api, db, env, kills>>

\* docker compose up -d: a container of this tag stays, another one is told to
\* stop and is then replaced.
UpServices ==
  /\ deploy.pc = "up"
  /\ IF box.tag \in {env, NoTag} /\ ~box.stop
     THEN box' = [box EXCEPT !.tag = env] /\ Goto("nginx")
     ELSE box' = [box EXCEPT !.stop = TRUE] /\ Goto("replace")
  /\ UNCHANGED <<cfg, api, db, env, kills>>

Replace ==
  /\ deploy.pc = "replace"
  /\ api' = Dead
  /\ box' = [tag |-> env, stop |-> FALSE, routed |-> FALSE]
  /\ Goto("nginx")
  /\ UNCHANGED <<cfg, db, env, kills>>

RecreateNginx ==
  /\ deploy.pc = "nginx"
  /\ box' = [box EXCEPT !.routed = TRUE]
  /\ Goto("check")
  /\ UNCHANGED <<cfg, api, db, env, kills>>

\* GET /ready from inside the container
Ready == api.ready /\ db.up

CheckReady ==
  /\ deploy.pc = "check"
  /\ Ready
  /\ Goto("prune")
  /\ UNCHANGED <<cfg, api, db, env, box, kills>>

\* docker image prune, which may fail, and the line SUCCESS
Report ==
  /\ deploy.pc = "prune"
  /\ Goto("success")
  /\ UNCHANGED <<cfg, api, db, env, box, kills>>

Command ==
  /\ \/ WriteEnv \/ Pull \/ WaitForPostgres \/ BackUp \/ Migrate \/ UpServices
     \/ Replace \/ RecreateNginx \/ CheckReady \/ Report
  /\ UNCHANGED strays

DeployStep == Command \/ Fail

-----------------------------------------------------------------------------
\* The API's container.

outside == <<cfg, db, env, box, deploy, strays, kills>>

Fits == box.tag # NoTag /\ db.revision = HeadOf[box.tag]

\* restart: unless-stopped
Restart == box.tag # NoTag /\ ~box.stop /\ Import /\ UNCHANGED outside

StartStep ==
  \/ (Connect(db.up) \/ CheckSchema(db.up, Fits)) /\ UNCHANGED outside
  \/ /\ OpenMemory(db.up)
     /\ db' = [db EXCEPT !.memory = @ \/ db.up]
     /\ UNCHANGED <<cfg, env, box, deploy, strays, kills>>

StopStep == ((box.stop /\ BeginShutdown) \/ CloseNext \/ Leave) /\ UNCHANGED outside

ExitStep == Exit /\ UNCHANGED outside

TraceStep == Trace /\ UNCHANGED outside

ThreadStep == ThreadEnds /\ UNCHANGED outside

KillApi ==
  /\ kills < MaxKills
  /\ Kill
  /\ kills' = kills + 1
  /\ UNCHANGED <<cfg, db, env, box, deploy, strays>>

DatabaseStopsOrStarts ==
  /\ db' = [db EXCEPT !.up = ~@]
  /\ UNCHANGED <<cfg, api, env, box, deploy, strays, kills>>

Next ==
  \/ \E t \in Tags : StartDeploy(t) \/ StrayEnds(t)
  \/ DeployStep \/ Bootstrap
  \/ Restart \/ StartStep \/ StopStep \/ ExitStep \/ TraceStep \/ KillApi
  \/ DatabaseStopsOrStarts

Spec == Init /\ [][Next]_vars

\* Docker restarts what ends, the start-up goes on, and the MLflow client's time
\* limit (tracing.py sets it) ends the thread that calls it, whatever MLflow does.
FairSpec ==
  Spec /\ WF_vars(Restart) /\ WF_vars(StartStep) /\ WF_vars(ExitStep) /\ WF_vars(ThreadStep)

-----------------------------------------------------------------------------
DatabaseOK ==
  /\ db \in [up : BOOLEAN, revision : Revisions, tables : SUBSET TablesAt(Len(Creates)),
             legacy : BOOLEAN, memory : BOOLEAN]
  /\ ~db.legacy => db.tables = TablesAt(db.revision)

\* Every variable keeps its type, a database Alembic has made has the tables of
\* its revision, and an API that serves finds those of the checkpointer.
ReleaseTypeOK ==
  /\ ApiTypeOK
  /\ DatabaseOK
  /\ api.phase = "serving" => db.memory
  /\ env \in Tags \cup {NoTag}
  /\ box \in [tag : Tags \cup {NoTag}, stop : BOOLEAN, routed : BOOLEAN]
  /\ deploy \in [pc : Steps \cup {"idle", "failed", "success"}, tag : Tags \cup {NoTag},
                 dump : Revisions \cup {NoDump}, overtaken : BOOLEAN]
  /\ strays \subseteq Tags
  /\ kills \in 0..MaxKills

\* How far a deploy has come is to be seen in the database, the dump, .env and
\* the container, whatever else has happened since, unless a stray migration
\* has overtaken it.
DeployInv ==
  /\ ~cfg.prod => deploy.pc \notin Steps /\ box.tag \in Tags /\ strays = {}
  /\ deploy.pc \in Steps => deploy.tag \in Tags
  /\ deploy.pc \in Steps \ {"env"} => env = deploy.tag
  /\ deploy.pc = "migrate" => deploy.dump = db.revision \/ deploy.overtaken
  /\ deploy.pc \in {"migrate", "up", "replace", "nginx", "check", "prune"} =>
       deploy.dump # NoDump
  /\ deploy.pc \in {"up", "replace", "nginx", "check", "prune"} =>
       db.revision = HeadOf[deploy.tag] \/ deploy.overtaken
  /\ deploy.pc \in {"nginx", "check", "prune"} => box.tag = deploy.tag
  /\ deploy.pc \in {"check", "prune"} => box.routed

\* In production Alembic's revision changes only forwards, and only by the
\* migration of a deploy to the head of its release: of the present deploy, which
\* has dumped the database as it was unless a stray has overtaken it since, or
\* of one that was cut off. (The order of deploy.sh; backend.md's rules.)
MigrationIsPrepared ==
  [][cfg.prod /\ db'.revision # db.revision =>
       /\ db'.revision > db.revision
       /\ \/ /\ deploy.pc = "migrate" /\ db'.revision = HeadOf[deploy.tag]
             /\ deploy.dump = db.revision \/ deploy.overtaken
          \/ \E t \in strays \ strays' : db'.revision = HeadOf[t]]_vars

\* What nginx talks to is the release the deploy was asked for, on its schema
\* unless a stray has overtaken the deploy.
Delivered == box.tag = deploy.tag /\ box.routed /\ (Fits \/ deploy.overtaken)

\* A deploy passes its health check only while the release it was asked for is
\* ready and delivered, and delivered it still is when success is reported:
\* whatever earlier deploys left behind, and whatever was killed meanwhile.
\* (deploy.sh: the check, and the report after it.)
SuccessMeansServing ==
  [][/\ deploy.pc = "check" /\ deploy'.pc = "prune" =>
          Delivered /\ api.phase = "serving" /\ db.up
     /\ deploy.pc # "success" /\ deploy'.pc = "success" => deploy.pc = "prune" /\ Delivered]_vars

\* Tracing, once on, stays on as long as the process: the retries must not
\* switch it off under a chat that has begun to be traced.
\* (setup_tracing_with_retry and the reset in configure_tracing, tracing.py.)
TracingStaysOn ==
  [][api.enabled => api'.enabled \/ api'.phase = "down"]_vars

\* With a database that stays up and a schema that fits, the API gets ready and
\* stays so, whatever MLflow answers and however often the process gave up while
\* it was asking. (lifespan and its comment, main.py; asyncio.to_thread, tracing.py.)
ServesAgain ==
  <>[](db.up /\ Fits /\ ~box.stop) => <>[]api.ready
=============================================================================
