--------------------------- MODULE Release_proofs ---------------------------
(***************************************************************************)
(* Theorems about Release: the types, that tracing stays on, that no       *)
(* migration goes unprepared, and that a deploy that reports success is    *)
(* right, for any number of tags and of retries.                           *)
(***************************************************************************)
EXTENDS Release, TLAPS

-----------------------------------------------------------------------------
\* The process.  Each of its steps keeps ApiTypeOK and TracingInv, whatever the
\* database and the revision say to it.

ApiInv == ApiTypeOK /\ TracingInv

LEMMA DeadIsProcess == Dead \in Processes
  BY ApiAssumption DEF Dead, Processes, Starting, Resources

LEMMA DeadKeepsApiInv == ASSUME cfg \in Settings, cfg' = cfg, api' = Dead PROVE ApiInv'
  BY DeadIsProcess DEF ApiInv, ApiTypeOK, TracingInv, Dead

LEMMA ImportStep == ASSUME ApiInv, Import, cfg' = cfg PROVE ApiInv'
<1>1. PICK http \in HttpOutcomes :
        api' = [api EXCEPT !.phase = "connect", !.http = http, !.task = "created"]
  BY DEF Import
<1>2. http \in BOOLEAN /\ api = Dead /\ api \in Processes
  BY DEF HttpOutcomes, Import, ApiInv, ApiTypeOK
<1>3. api' \in Processes
  BY <1>1, <1>2 DEF Processes, Starting
<1>4. QED
  BY <1>1, <1>2, <1>3 DEF ApiInv, ApiTypeOK, TracingInv, Dead, Processes

\* A process that ends, from wherever no request can be served.
LEMMA ExitingKeepsApiInv ==
  ASSUME ApiInv, api.phase \in Starting \cup {"closing"}, cfg' = cfg, api' = Exiting PROVE ApiInv'
  BY DEF ApiInv, ApiTypeOK, TracingInv, Exiting, Processes, Starting

LEMMA StartKeeps ==
  ASSUME ApiInv, NEW up, NEW fits, cfg' = cfg,
         Connect(up) \/ CheckSchema(up, fits) \/ OpenMemory(up)
  PROVE  ApiInv'
<1>1. api \in Processes /\ (api.ready \/ api.turn # "none" => api.phase = "serving")
  BY DEF ApiInv, ApiTypeOK
<1>2. CASE api' = Exiting
  <2>1. api.phase \in Starting
    BY DEF Connect, CheckSchema, OpenMemory, Starting
  <2>2. QED
    BY <1>2, <2>1, ExitingKeepsApiInv
<1>3. CASE api.phase = "connect" /\ api' = [api EXCEPT !.phase = "schema", !.open = {"engine"}]
  BY <1>1, <1>3 DEF ApiInv, ApiTypeOK, TracingInv, Processes, Starting, Resources
<1>4. CASE /\ api.phase = "schema"
           /\ api' = [api EXCEPT !.phase = "memory", !.open = @ \cup {"storage", "model"}]
  BY <1>1, <1>4 DEF ApiInv, ApiTypeOK, TracingInv, Processes, Starting, Resources
<1>5. CASE /\ api.phase = "memory"
           /\ api' = [api EXCEPT !.phase = "serving", !.open = Resources, !.ready = TRUE]
  BY <1>1, <1>5 DEF ApiInv, ApiTypeOK, TracingInv, Processes, Starting, Resources
<1>6. QED
  BY <1>2, <1>3, <1>4, <1>5 DEF Connect, CheckSchema, OpenMemory

LEMMA TraceKeeps == ASSUME ApiInv, Trace, cfg' = cfg PROVE ApiInv'
<1>1. api \in Processes /\ api.phase # "down"
  <2>1. api \in Processes /\ (api.phase = "down" => api = Dead)
    BY DEF ApiInv, ApiTypeOK
  <2>2. api # Dead
    <3>1. api.task # "none" \/ api.thread \/ api.phase = "serving" \/ api.turn # "none"
      BY DEF Trace, CallSetup, ThreadEnds, AfterSetup, StartTurn, CallNode, EndTurn
    <3>2. QED
      BY <3>1 DEF Dead
  <2>3. QED
    BY <2>1, <2>2
<1>2. CASE CallSetup
  <2>1. api.attempt \in Nat /\ api.attempt + 1 \in 0..SetupAttempts
    <3>1. api.attempt \in 0..SetupAttempts
      BY <1>1 DEF Processes
    <3>2. api.attempt < SetupAttempts
      BY <1>2, <3>1, ApiAssumption DEF CallSetup, ApiInv, TracingInv
    <3>3. QED
      BY <3>1, <3>2, ApiAssumption
  <2>2. api' \in Processes
    BY <1>1, <1>2, <2>1 DEF CallSetup, Processes
  <2>3. QED
    BY <1>1, <1>2, <2>2 DEF CallSetup, ApiInv, ApiTypeOK, TracingInv, Processes
<1>3. CASE ThreadEnds
  <2>1. PICK enabled \in SetupOutcomes :
          api' = [api EXCEPT !.thread = FALSE, !.enabled = enabled]
    BY <1>3 DEF ThreadEnds
  <2>2. enabled \in BOOLEAN
    BY DEF SetupOutcomes
  <2>3. QED
    BY <1>1, <1>3, <2>1, <2>2 DEF ThreadEnds, ApiInv, ApiTypeOK, TracingInv, Processes
<1>4. CASE AfterSetup
  <2>1. PICK task \in {"ended", "sleeping"} :
          /\ api' = [api EXCEPT !.task = task]
          /\ task = "sleeping" => ~api.enabled /\ api.attempt # SetupAttempts
    BY <1>4 DEF AfterSetup
  <2>2. api' \in Processes
    BY <1>1, <2>1 DEF Processes
  <2>3. task = "sleeping" => api.attempt < SetupAttempts
    BY <1>1, <2>1, ApiAssumption DEF Processes
  <2>4. api.task = "calling" /\ ~api.thread
    BY <1>4 DEF AfterSetup
  <2>5. ApiTypeOK'
    BY <1>1, <2>1, <2>2 DEF ApiInv, ApiTypeOK, Processes
  <2>6. api'.enabled = api.enabled /\ api'.thread = api.thread /\ api'.attempt = api.attempt
        /\ api'.task = task
    BY <1>1, <2>1 DEF Processes
  <2>7. TracingInv'
    BY <2>1, <2>3, <2>4, <2>6 DEF TracingInv
  <2>8. QED
    BY <2>5, <2>7 DEF ApiInv
<1>5. CASE StartTurn
  BY <1>1, <1>5 DEF StartTurn, ApiInv, ApiTypeOK, TracingInv, Processes
<1>6. CASE CallNode
  BY <1>1, <1>6 DEF CallNode, ApiInv, ApiTypeOK, TracingInv, Processes
<1>7. CASE EndTurn
  BY <1>1, <1>7 DEF EndTurn, ApiInv, ApiTypeOK, TracingInv, Processes
<1>8. QED
  BY <1>2, <1>3, <1>4, <1>5, <1>6, <1>7 DEF Trace

LEMMA StopKeeps ==
  ASSUME ApiInv, BeginShutdown \/ CloseNext \/ Leave \/ Exit \/ Kill, cfg' = cfg PROVE ApiInv'
<1>1. api \in Processes
  BY DEF ApiInv, ApiTypeOK
<1>2. CASE BeginShutdown
  BY <1>1, <1>2 DEF BeginShutdown, ApiInv, ApiTypeOK, TracingInv, Processes
<1>3. CASE CloseNext
  <2>1. PICK r : api' = [api EXCEPT !.open = @ \ {r}]
    BY <1>3 DEF CloseNext
  <2>2. QED
    BY <1>1, <1>3, <2>1 DEF CloseNext, ApiInv, ApiTypeOK, TracingInv, Processes
<1>4. CASE Leave
  BY <1>4, ExitingKeepsApiInv DEF Leave
<1>5. CASE Exit \/ Kill
  BY <1>5, DeadKeepsApiInv DEF Exit, Kill, ApiInv, ApiTypeOK
<1>6. QED
  BY <1>2, <1>3, <1>4, <1>5

-----------------------------------------------------------------------------
\* The revisions.

LEMMA RevisionsAre == Revisions = 0..2
  BY DEF Revisions, Creates

LEMMA NoTables == TablesAt(0) = {}
  BY DEF TablesAt

\* A later revision has the tables of an earlier one.
LEMMA TablesGrow ==
  ASSUME NEW q \in Revisions, NEW r \in Revisions, q <= r
  PROVE  TablesAt(q) \cup TablesAt(r) = TablesAt(r)
<1>1. 1..q \subseteq 1..r
  BY RevisionsAre
<1>2. QED
  BY <1>1 DEF TablesAt

LEMMA TablesAreKnown == ASSUME NEW r \in Revisions PROVE TablesAt(r) \subseteq TablesAt(Len(Creates))
<1>1. Len(Creates) \in Revisions /\ r <= Len(Creates)
  BY RevisionsAre DEF Creates
<1>2. QED
  BY <1>1, TablesGrow

LEMMA HeadIsRevision == ASSUME NEW t \in Tags PROVE HeadOf[t] \in Revisions \ {0}
  BY ReleaseAssumption

\* A migration leaves a database whose tables are those of its revision.
LEMMA UpgradeType ==
  ASSUME DatabaseOK, NEW t \in Tags, CanUpgrade(HeadOf[t]), db' = Upgraded(HeadOf[t])
  PROVE  DatabaseOK' /\ db'.revision = HeadOf[t]
<1>1. HeadOf[t] \in Revisions /\ db.revision \in Revisions /\ db.revision <= HeadOf[t]
  BY HeadIsRevision DEF DatabaseOK, CanUpgrade
<1>2. TablesAt(db.revision) \cup TablesAt(HeadOf[t]) = TablesAt(HeadOf[t])
  BY <1>1, TablesGrow
<1>3. TablesAt(HeadOf[t]) \subseteq TablesAt(Len(Creates))
  BY <1>1, TablesAreKnown
<1>4. QED
  BY <1>1, <1>2, <1>3 DEF DatabaseOK, Upgraded

LEMMA EnsureMigratedType ==
  ASSUME DatabaseOK, NEW t \in Tags, EnsureMigrated(HeadOf[t]) PROVE DatabaseOK'
<1>1. CASE db.revision = 0 /\ "users" \in db.tables /\ db' = [db EXCEPT !.revision = HeadOf[t]]
  <2>1. db.legacy
    BY <1>1, NoTables DEF DatabaseOK
  <2>2. QED
    BY <1>1, <2>1, HeadIsRevision DEF DatabaseOK
<1>2. CASE CanUpgrade(HeadOf[t]) /\ db' = Upgraded(HeadOf[t])
  BY <1>2, UpgradeType
<1>3. QED
  BY <1>1, <1>2 DEF EnsureMigrated

-----------------------------------------------------------------------------
\* The deploy.  Each command keeps the types and DeployInv.

WorldOK ==
  /\ cfg \in Settings
  /\ DatabaseOK
  /\ env \in Tags \cup {NoTag}
  /\ box \in [tag : Tags \cup {NoTag}, stop : BOOLEAN, routed : BOOLEAN]
  /\ deploy \in [pc : Steps \cup {"idle", "failed", "success"}, tag : Tags \cup {NoTag},
                 dump : Revisions \cup {NoDump}, overtaken : BOOLEAN]
  /\ strays \subseteq Tags
  /\ kills \in 0..MaxKills

LEMMA WorldInit == ASSUME Init PROVE WorldOK /\ DeployInv
<1>1. \A r \in Revisions : Database(r) \in [up : BOOLEAN, revision : Revisions,
         tables : SUBSET TablesAt(Len(Creates)), legacy : BOOLEAN, memory : BOOLEAN]
  BY TablesAreKnown DEF Database
<1>2. Len(Creates) \in Revisions /\ 0 \in Revisions
  BY RevisionsAre DEF Creates
<1>3. DatabaseOK
  <2>1. CASE \E r \in Revisions : db = Database(r)
    BY <1>1, <2>1 DEF DatabaseOK, Database
  <2>2. CASE db = LegacyDatabase
    BY <1>1, <1>2, <2>2 DEF DatabaseOK, LegacyDatabase, Database
  <2>3. QED
    BY <1>2, <2>1, <2>2 DEF Init
<1>4. box \in [tag : Tags \cup {NoTag}, stop : BOOLEAN, routed : BOOLEAN]
  <2>1. PICK t \in Tags \cup {NoTag} : box = [tag |-> t, stop |-> FALSE, routed |-> FALSE]
    BY DEF Init
  <2>2. QED
    BY <2>1
<1>5. WorldOK
  BY <1>3, <1>4, ReleaseAssumption DEF Init, WorldOK
<1>6. deploy.pc = "idle" /\ strays = {} /\ (~cfg.prod => box.tag \in Tags)
  BY DEF Init
<1>7. QED
  BY <1>5, <1>6 DEF DeployInv, Steps

LEMMA StartDeployKeeps ==
  ASSUME WorldOK, NEW t \in Tags, StartDeploy(t) PROVE WorldOK' /\ DeployInv'
<1>1. WorldOK'
  BY DEF WorldOK, StartDeploy, DatabaseOK, Steps
<1>2. cfg'.prod /\ deploy'.pc = "env" /\ deploy'.tag \in Tags
  BY DEF StartDeploy
<1>3. QED
  BY <1>1, <1>2 DEF DeployInv, Steps

LEMMA DeployStepKeeps ==
  ASSUME WorldOK, DeployInv, DeployStep PROVE WorldOK' /\ DeployInv'
<1>1. CASE Fail
  <2>1. env \in Tags \/ deploy.pc # "migrate"
    BY DEF WorldOK, DeployInv, Steps
  <2>2. strays' \subseteq Tags
    BY <1>1, <2>1 DEF Fail, WorldOK
  <2>3. QED
    BY <1>1, <2>2 DEF Fail, Goto, WorldOK, DatabaseOK, DeployInv, Steps
<1>2. CASE WriteEnv /\ UNCHANGED strays
  BY <1>2 DEF WriteEnv, Goto, WorldOK, DatabaseOK, DeployInv, Steps
<1>3. CASE Pull /\ UNCHANGED strays
  BY <1>3 DEF Pull, Goto, WorldOK, DatabaseOK, DeployInv, Steps
<1>4. CASE WaitForPostgres /\ UNCHANGED strays
  BY <1>4 DEF WaitForPostgres, Goto, WorldOK, DatabaseOK, DeployInv, Steps
<1>5. CASE BackUp /\ UNCHANGED strays
  <2>1. db.revision # NoDump
    BY RevisionsAre DEF WorldOK, DatabaseOK, NoDump
  <2>2. QED
    BY <1>5, <2>1 DEF BackUp, WorldOK, DatabaseOK, DeployInv, Steps
<1>6. CASE Migrate /\ UNCHANGED strays
  <2>1. env = deploy.tag /\ env \in Tags /\ cfg.prod
    BY <1>6 DEF Migrate, DeployInv, Steps
  <2>2. DatabaseOK' /\ db'.revision = HeadOf[env]
    BY <1>6, <2>1, UpgradeType DEF Migrate, WorldOK
  <2>3. QED
    BY <1>6, <2>1, <2>2 DEF Migrate, Goto, WorldOK, DeployInv, Steps
<1>7. CASE UpServices /\ UNCHANGED strays
  BY <1>7 DEF UpServices, Goto, WorldOK, DatabaseOK, DeployInv, Steps
<1>8. CASE Replace /\ UNCHANGED strays
  BY <1>8 DEF Replace, Goto, WorldOK, DatabaseOK, DeployInv, Steps
<1>9. CASE RecreateNginx /\ UNCHANGED strays
  BY <1>9 DEF RecreateNginx, Goto, WorldOK, DatabaseOK, DeployInv, Steps
<1>10. CASE CheckReady /\ UNCHANGED strays
  BY <1>10 DEF CheckReady, Goto, WorldOK, DatabaseOK, DeployInv, Steps
<1>11. CASE Report /\ UNCHANGED strays
  BY <1>11 DEF Report, Goto, WorldOK, DatabaseOK, DeployInv, Steps
<1>12. QED
  BY <1>1, <1>2, <1>3, <1>4, <1>5, <1>6, <1>7, <1>8, <1>9, <1>10, <1>11 DEF DeployStep, Command

\* A migration that its deploy left behind.
LEMMA StrayKeeps ==
  ASSUME WorldOK, DeployInv, NEW t \in Tags, StrayEnds(t) PROVE WorldOK' /\ DeployInv'
<1>1. cfg.prod /\ strays' \subseteq Tags
  BY DEF StrayEnds, WorldOK, DeployInv
<1>2. CASE UNCHANGED <<db, deploy>>
  BY <1>1, <1>2 DEF StrayEnds, WorldOK, DatabaseOK, DeployInv
<1>3. CASE /\ CanUpgrade(HeadOf[t]) /\ db' = Upgraded(HeadOf[t])
           /\ deploy' = [deploy EXCEPT !.overtaken =
                           @ \/ (deploy.dump # NoDump /\ db'.revision # db.revision)]
  <2>1. DatabaseOK'
    BY <1>3, UpgradeType DEF WorldOK
  <2>2. PICK o \in BOOLEAN :
          /\ deploy' = [deploy EXCEPT !.overtaken = o] /\ (deploy.overtaken => o)
          /\ (deploy.dump # NoDump /\ db'.revision # db.revision => o)
    BY <1>3 DEF WorldOK
  <2>3. WorldOK'
    BY <1>1, <2>1, <2>2 DEF StrayEnds, WorldOK
  <2>4. /\ deploy'.pc = deploy.pc /\ deploy'.tag = deploy.tag /\ deploy'.dump = deploy.dump
        /\ deploy'.overtaken = o
    BY <2>2 DEF WorldOK
  <2>5. UNCHANGED <<cfg, env, box>>
    BY DEF StrayEnds
  <2>6. QED
    BY <1>1, <2>2, <2>3, <2>4, <2>5 DEF DeployInv, Steps
<1>4. QED
  BY <1>2, <1>3 DEF StrayEnds

-----------------------------------------------------------------------------
\* The inductive invariant: the types, and how far tracing and deploy have come.

MemoryIsThere == api.phase = "serving" => db.memory

ReleaseInv == ApiInv /\ WorldOK /\ DeployInv /\ MemoryIsThere

LEMMA WorldUnchanged ==
  ASSUME WorldOK, DeployInv, UNCHANGED <<cfg, db, env, box, deploy, strays, kills>>
  PROVE  WorldOK' /\ DeployInv'
  BY DEF WorldOK, DatabaseOK, DeployInv

\* What else happens leaves the deploy and, in production, the revision alone.
LEMMA OthersKeepWorld ==
  ASSUME WorldOK, DeployInv, Bootstrap \/ KillApi \/ DatabaseStopsOrStarts
  PROVE  WorldOK' /\ DeployInv'
<1>1. CASE Bootstrap
  <2>1. ~cfg.prod /\ ~cfg'.prod /\ deploy.pc \notin Steps /\ deploy' = deploy
    BY <1>1 DEF Bootstrap, DeployInv
  <2>2. box.tag \in Tags
    BY <2>1 DEF DeployInv
  <2>3. DatabaseOK'
    BY <1>1, <2>2, EnsureMigratedType DEF Bootstrap, WorldOK
  <2>4. QED
    BY <1>1, <2>1, <2>2, <2>3 DEF Bootstrap, WorldOK, DeployInv, Steps
<1>2. CASE KillApi
  <2>1. kills' \in 0..MaxKills
    BY <1>2, ReleaseAssumption DEF KillApi, WorldOK
  <2>2. QED
    BY <1>2, <2>1 DEF KillApi, WorldOK, DatabaseOK, DeployInv
<1>3. CASE DatabaseStopsOrStarts
  <2>1. DatabaseOK' /\ db'.revision = db.revision
    BY <1>3 DEF DatabaseStopsOrStarts, WorldOK, DatabaseOK
  <2>2. QED
    BY <1>3, <2>1 DEF DatabaseStopsOrStarts, WorldOK, DeployInv
<1>4. QED
  BY <1>1, <1>2, <1>3

\* The checkpointer has made its tables by the time the API starts to serve.
LEMMA MemoryStepKeepsWorld ==
  ASSUME WorldOK, DeployInv, db' = [db EXCEPT !.memory = @ \/ db.up],
         UNCHANGED <<cfg, env, box, deploy, strays, kills>>
  PROVE  WorldOK' /\ DeployInv'
<1>1. PICK m \in BOOLEAN : db' = [db EXCEPT !.memory = m]
  BY DEF WorldOK, DatabaseOK
<1>2. DatabaseOK' /\ db'.revision = db.revision
  BY <1>1 DEF WorldOK, DatabaseOK
<1>3. QED
  BY <1>2 DEF WorldOK, DeployInv

\* A step of the process sees the rest of the world and leaves it as it is, but
\* for the tables of its checkpointer.
LEMMA ProcessKeeps ==
  ASSUME ReleaseInv, Restart \/ StartStep \/ StopStep \/ ExitStep \/ TraceStep PROVE ReleaseInv'
<1>1. CASE OpenMemory(db.up) /\ db' = [db EXCEPT !.memory = @ \/ db.up]
           /\ UNCHANGED <<cfg, env, box, deploy, strays, kills>>
  <2>1. WorldOK' /\ DeployInv'
    BY <1>1, MemoryStepKeepsWorld DEF ReleaseInv
  <2>2. ApiInv'
    BY <1>1, StartKeeps DEF ReleaseInv
  <2>3. db \in [up : BOOLEAN, revision : Revisions, tables : SUBSET TablesAt(Len(Creates)),
                legacy : BOOLEAN, memory : BOOLEAN]
    BY DEF ReleaseInv, WorldOK, DatabaseOK
  <2>4. ASSUME db.up PROVE MemoryIsThere'
    BY <1>1, <2>3, <2>4 DEF MemoryIsThere
  <2>5. ASSUME ~db.up PROVE MemoryIsThere'
    <3>1. api' = Exiting /\ api \in Processes
      BY <1>1, <2>5 DEF OpenMemory, ReleaseInv, ApiInv, ApiTypeOK
    <3>2. api'.phase = "exiting"
      BY <3>1 DEF Exiting, Processes
    <3>3. QED
      BY <3>2 DEF MemoryIsThere
  <2>6. MemoryIsThere'
    BY <2>4, <2>5
  <2>7. QED
    BY <2>1, <2>2, <2>6 DEF ReleaseInv
<1>2. CASE /\ UNCHANGED <<cfg, db, env, box, deploy, strays, kills>>
           /\ \/ Import \/ Connect(db.up) \/ CheckSchema(db.up, Fits)
              \/ BeginShutdown \/ CloseNext \/ Leave \/ Exit \/ Trace
  <2>1. WorldOK' /\ DeployInv'
    BY <1>2, WorldUnchanged DEF ReleaseInv
  <2>2. ApiInv'
    BY <1>2, ImportStep, StartKeeps, StopKeeps, TraceKeeps DEF ReleaseInv
  <2>3. api'.phase = "serving" => api.phase = "serving"
    <3>1. api \in Processes
      BY DEF ReleaseInv, ApiInv, ApiTypeOK
    <3>2. CASE Import
      BY <3>1, <3>2 DEF Import, Processes
    <3>3. CASE Connect(db.up) \/ CheckSchema(db.up, Fits)
      BY <3>1, <3>3 DEF Connect, CheckSchema, Exiting, Processes
    <3>4. CASE BeginShutdown \/ Leave \/ Exit
      <4>1. ASSUME Exit PROVE api'.phase = "down"
        BY <4>1 DEF Exit, Dead
      <4>2. ASSUME BeginShutdown \/ Leave PROVE api'.phase \in {"closing", "exiting"}
        BY <3>1, <4>2 DEF BeginShutdown, Leave, Exiting, Processes
      <4>3. QED
        BY <3>4, <4>1, <4>2
    <3>5. CASE CloseNext
      <4>1. PICK r : api' = [api EXCEPT !.open = @ \ {r}]
        BY <3>5 DEF CloseNext
      <4>2. QED
        BY <3>1, <4>1 DEF Processes
    <3>6. CASE Trace
      BY <3>1, <3>6 DEF Trace, CallSetup, ThreadEnds, AfterSetup, StartTurn, CallNode, EndTurn,
                        Processes
    <3>7. QED
      BY <1>2, <3>2, <3>3, <3>4, <3>5, <3>6
  <2>4. QED
    BY <1>2, <2>1, <2>2, <2>3 DEF ReleaseInv, MemoryIsThere
<1>3. QED
  BY <1>1, <1>2 DEF Restart, StartStep, StopStep, ExitStep, TraceStep, outside

\* Replace and KillApi end the process; all else outside leaves it alone.
LEMMA OutsideKeepsProcess ==
  ASSUME ReleaseInv, cfg' = cfg, api' = api \/ api' = Dead, db'.memory = db.memory
  PROVE  ApiInv' /\ MemoryIsThere'
<1>1. CASE api' = api
  BY <1>1 DEF ReleaseInv, ApiInv, ApiTypeOK, TracingInv, MemoryIsThere
<1>2. CASE api' = Dead
  BY <1>2, DeadKeepsApiInv DEF ReleaseInv, WorldOK, MemoryIsThere, Dead
<1>3. QED
  BY <1>1, <1>2

LEMMA MigrationsKeepMemory ==
  ASSUME WorldOK, NEW head, db' = Upgraded(head) \/ EnsureMigrated(head)
  PROVE  db'.memory = db.memory
  BY DEF WorldOK, DatabaseOK, Upgraded, EnsureMigrated

LEMMA Inductive == Spec => []ReleaseInv
<1>1. Init => ReleaseInv
  <2>1. SUFFICES ASSUME Init PROVE ReleaseInv
    OBVIOUS
  <2>2. cfg \in Settings /\ api = Dead
    BY <2>1 DEF Init
  <2>3. ApiInv /\ MemoryIsThere
    BY <2>2, DeadIsProcess DEF ApiInv, ApiTypeOK, TracingInv, Dead, MemoryIsThere
  <2>4. QED
    BY <2>1, <2>3, WorldInit DEF ReleaseInv
<1>2. ReleaseInv /\ [Next]_vars => ReleaseInv'
  <2>1. SUFFICES ASSUME ReleaseInv, [Next]_vars PROVE ReleaseInv'
    OBVIOUS
  <2>2. CASE \E t \in Tags : StartDeploy(t) \/ StrayEnds(t)
    <3>1. cfg' = cfg /\ api' = api /\ db'.memory = db.memory
      BY <2>1, <2>2, MigrationsKeepMemory DEF StartDeploy, StrayEnds, ReleaseInv
    <3>2. WorldOK' /\ DeployInv'
      BY <2>1, <2>2, StartDeployKeeps, StrayKeeps DEF ReleaseInv
    <3>3. QED
      BY <2>1, <3>1, <3>2, OutsideKeepsProcess DEF ReleaseInv
  <2>3. CASE DeployStep
    <3>1. cfg' = cfg /\ (api' = api \/ api' = Dead)
      BY <2>3 DEF DeployStep, Command, Fail, WriteEnv, Pull, WaitForPostgres, BackUp, Migrate,
                  UpServices, Replace, RecreateNginx, CheckReady, Report
    <3>2. db'.memory = db.memory
      BY <2>1, <2>3, MigrationsKeepMemory
      DEF DeployStep, Command, Fail, WriteEnv, Pull, WaitForPostgres, BackUp, Migrate,
          UpServices, Replace, RecreateNginx, CheckReady, Report, ReleaseInv
    <3>3. QED
      BY <2>1, <2>3, <3>1, <3>2, DeployStepKeeps, OutsideKeepsProcess DEF ReleaseInv
  <2>4. CASE Bootstrap \/ KillApi \/ DatabaseStopsOrStarts
    <3>1. cfg' = cfg /\ (api' = api \/ api' = Dead)
      BY <2>4 DEF Bootstrap, KillApi, Kill, DatabaseStopsOrStarts
    <3>2. db'.memory = db.memory
      BY <2>1, <2>4, MigrationsKeepMemory
      DEF Bootstrap, KillApi, DatabaseStopsOrStarts, ReleaseInv, WorldOK, DatabaseOK
    <3>3. QED
      BY <2>1, <2>4, <3>1, <3>2, OthersKeepWorld, OutsideKeepsProcess DEF ReleaseInv
  <2>5. CASE Restart \/ StartStep \/ StopStep \/ ExitStep \/ TraceStep
    BY <2>1, <2>5, ProcessKeeps
  <2>6. CASE UNCHANGED vars
    <3>1. UNCHANGED <<cfg, db, env, box, deploy, strays, kills>> /\ api' = api
      BY <2>6 DEF vars
    <3>2. QED
      BY <2>1, <3>1, WorldUnchanged, OutsideKeepsProcess DEF ReleaseInv
  <2>7. QED
    BY <2>1, <2>2, <2>3, <2>4, <2>5, <2>6 DEF Next
<1>3. QED
  BY <1>1, <1>2, PTL DEF Spec

\* The types of Release, for every number of tags, of retries and of kills: an
\* API that is ready, or in a chat, has all its resources open, and a database
\* Alembic has made has the tables of its revision.
THEOREM ReleaseTypeCorrect == Spec => []ReleaseTypeOK
<1>1. ReleaseInv => ReleaseTypeOK
  BY DEF ReleaseInv, ApiInv, WorldOK, MemoryIsThere, ReleaseTypeOK
<1>2. QED
  BY <1>1, Inductive, PTL

-----------------------------------------------------------------------------
\* What one step may do, given the invariant.

\* Besides Migrate and the strays, only dev.sh touches the revision, and not in
\* production.
LEMMA RevisionSteps ==
  ASSUME ReleaseInv, [Next]_vars, cfg.prod, db'.revision # db.revision
  PROVE  Migrate \/ \E t \in Tags : StrayEnds(t)
<1>1. db \in [up : BOOLEAN, revision : Revisions, tables : SUBSET TablesAt(Len(Creates)),
              legacy : BOOLEAN, memory : BOOLEAN]
  BY DEF ReleaseInv, WorldOK, DatabaseOK
<1>2. ASSUME DatabaseStopsOrStarts PROVE FALSE
  BY <1>1, <1>2 DEF DatabaseStopsOrStarts
<1>3. ASSUME StartStep PROVE FALSE
  BY <1>1, <1>3 DEF StartStep, outside
<1>4. QED
  BY <1>2, <1>3 DEF Next, vars, StartDeploy, DeployStep, Command, Fail, WriteEnv, Pull,
    WaitForPostgres, BackUp, UpServices, Replace, RecreateNginx, CheckReady, Report, Bootstrap,
    Restart, StopStep, ExitStep, TraceStep, KillApi, outside

\* In production the schema changes only by a deploy, forwards, to its release's
\* head, and after that deploy has dumped it as it was, or else by a migration
\* that was cut off from its deploy.
THEOREM PreparedMigrations == Spec => MigrationIsPrepared
<1>1. ReleaseInv /\ [Next]_vars =>
        [cfg.prod /\ db'.revision # db.revision =>
           /\ db'.revision > db.revision
           /\ \/ /\ deploy.pc = "migrate" /\ db'.revision = HeadOf[deploy.tag]
                 /\ deploy.dump = db.revision \/ deploy.overtaken
              \/ \E t \in strays \ strays' : db'.revision = HeadOf[t]]_vars
  <2>1. SUFFICES ASSUME ReleaseInv, [Next]_vars, cfg.prod, db'.revision # db.revision
                 PROVE  /\ db'.revision > db.revision
                        /\ \/ /\ deploy.pc = "migrate" /\ db'.revision = HeadOf[deploy.tag]
                              /\ deploy.dump = db.revision \/ deploy.overtaken
                           \/ \E t \in strays \ strays' : db'.revision = HeadOf[t]
    OBVIOUS
  <2>2. ASSUME NEW t \in Tags, CanUpgrade(HeadOf[t]), db' = Upgraded(HeadOf[t])
        PROVE  db'.revision = HeadOf[t] /\ db'.revision > db.revision
    <3>1. db'.revision = HeadOf[t] /\ db.revision <= HeadOf[t]
      BY <2>1, <2>2, UpgradeType DEF CanUpgrade, ReleaseInv, WorldOK
    <3>2. db.revision \in Nat /\ HeadOf[t] \in Nat
      BY <2>1, HeadIsRevision, RevisionsAre DEF ReleaseInv, WorldOK, DatabaseOK
    <3>3. QED
      BY <2>1, <3>1, <3>2
  <2>3. CASE Migrate
    <3>1. /\ deploy.pc = "migrate" /\ env = deploy.tag /\ env \in Tags
          /\ deploy.dump = db.revision \/ deploy.overtaken
      BY <2>1, <2>3 DEF Migrate, ReleaseInv, DeployInv, Steps
    <3>2. QED
      BY <2>2, <2>3, <3>1 DEF Migrate
  <2>4. CASE \E t \in Tags : StrayEnds(t)
    <3>1. PICK t \in Tags : StrayEnds(t)
      BY <2>4
    <3>2. t \in strays \ strays' /\ CanUpgrade(HeadOf[t]) /\ db' = Upgraded(HeadOf[t])
      BY <2>1, <3>1 DEF StrayEnds
    <3>3. QED
      BY <2>2, <3>2
  <2>5. QED
    BY <2>1, <2>3, <2>4, RevisionSteps
<1>2. QED
  BY <1>1, Inductive, PTL DEF Spec, MigrationIsPrepared

\* What a step of the deploy leads to.
LEMMA DeployReaches ==
  ASSUME ReleaseInv, [Next]_vars, deploy'.pc # deploy.pc
  PROVE  /\ deploy'.pc = "prune" => CheckReady
         /\ deploy'.pc = "success" => Report
<1>1. deploy \in [pc : Steps \cup {"idle", "failed", "success"}, tag : Tags \cup {NoTag},
                  dump : Revisions \cup {NoDump}, overtaken : BOOLEAN]
  BY DEF ReleaseInv, WorldOK
<1>2. ASSUME NEW t \in Tags, StrayEnds(t) PROVE FALSE
  BY <1>1, <1>2 DEF StrayEnds
<1>3. (\E t \in Tags : StartDeploy(t)) \/ Command \/ Fail
  BY <1>2 DEF Next, vars, DeployStep, Bootstrap, Restart, StartStep, StopStep, ExitStep, TraceStep,
              KillApi, DatabaseStopsOrStarts, outside
<1>4. ASSUME NEW label, Goto(label) PROVE deploy'.pc = label
  BY <1>1, <1>4 DEF Goto
<1>5. CASE \E t \in Tags : StartDeploy(t)
  BY <1>5 DEF StartDeploy
<1>6. CASE BackUp
  BY <1>1, <1>6 DEF BackUp
<1>7. CASE UpServices
  BY <1>4, <1>7 DEF UpServices
<1>8. CASE Fail \/ WriteEnv \/ Pull \/ WaitForPostgres \/ Migrate \/ Replace \/ RecreateNginx
  BY <1>4, <1>8 DEF Fail, WriteEnv, Pull, WaitForPostgres, Migrate, Replace, RecreateNginx
<1>9. CASE CheckReady \/ Report
  BY <1>4, <1>9 DEF CheckReady, Report
<1>10. QED
  BY <1>3, <1>5, <1>6, <1>7, <1>8, <1>9 DEF Command

\* A deploy passes its check only while the release it was asked for serves, on
\* its own schema, behind nginx, and reports success only for what is still there.
THEOREM SuccessIsTrue == Spec => SuccessMeansServing
<1> DEFINE Passes == deploy.pc = "check" /\ deploy'.pc = "prune" =>
                       Delivered /\ api.phase = "serving" /\ db.up
           Reports == deploy.pc # "success" /\ deploy'.pc = "success" =>
                        deploy.pc = "prune" /\ Delivered
<1>1. ASSUME ReleaseInv, deploy.pc \in {"check", "prune"} PROVE Delivered
  <2>1. box.tag = deploy.tag /\ box.routed /\ deploy.tag \in Tags
        /\ (db.revision = HeadOf[deploy.tag] \/ deploy.overtaken)
    BY <1>1 DEF ReleaseInv, DeployInv, Steps
  <2>2. QED
    BY <2>1, ReleaseAssumption DEF Fits, Delivered
<1>2. ReleaseInv /\ [Next]_vars => [Passes]_vars
  <2>1. SUFFICES ASSUME ReleaseInv, [Next]_vars, deploy.pc = "check", deploy'.pc = "prune"
                 PROVE  Delivered /\ api.phase = "serving" /\ db.up
    OBVIOUS
  <2>2. api.ready /\ db.up
    BY <2>1, DeployReaches DEF CheckReady, Ready
  <2>3. api.phase = "serving"
    BY <2>1, <2>2 DEF ReleaseInv, ApiInv, ApiTypeOK
  <2>4. QED
    BY <1>1, <2>1, <2>2, <2>3
<1>3. ReleaseInv /\ [Next]_vars => [Reports]_vars
  <2>1. SUFFICES ASSUME ReleaseInv, [Next]_vars, deploy.pc # "success", deploy'.pc = "success"
                 PROVE  deploy.pc = "prune" /\ Delivered
    OBVIOUS
  <2>2. deploy.pc = "prune"
    BY <2>1, DeployReaches DEF Report
  <2>3. QED
    BY <1>1, <2>1, <2>2
<1>4. ReleaseInv /\ [Next]_vars => [Passes /\ Reports]_vars
  BY <1>2, <1>3
<1>5. QED
  BY <1>4, Inductive, PTL DEF Spec, SuccessMeansServing

\* Tracing that is on stays on until the process ends.
THEOREM TracingIsKept == Spec => TracingStaysOn
<1>1. ReleaseInv /\ [Next]_vars => [api.enabled => api'.enabled \/ api'.phase = "down"]_vars
  <2>1. SUFFICES ASSUME ReleaseInv, [Next]_vars, api.enabled
                 PROVE  api'.enabled \/ api'.phase = "down"
    OBVIOUS
  <2>2. api \in Processes /\ ~api.thread /\ api.task \in {"calling", "ended"}
    BY <2>1 DEF ReleaseInv, ApiInv, ApiTypeOK, TracingInv
  <2>3. CASE api' = api \/ api' = Dead
    BY <2>1, <2>3 DEF Dead
  <2>4. CASE Restart
    BY <2>1, <2>4 DEF Restart, Import, ReleaseInv, ApiInv, ApiTypeOK, Dead
  <2>5. CASE StartStep
    <3>1. CASE api' = Exiting
      BY <2>1, <2>2, <3>1 DEF Exiting, Processes
    <3>2. CASE \/ api' = [api EXCEPT !.phase = "schema", !.open = {"engine"}]
               \/ api' = [api EXCEPT !.phase = "memory", !.open = @ \cup {"storage", "model"}]
               \/ api' = [api EXCEPT !.phase = "serving", !.open = Resources, !.ready = TRUE]
      BY <2>1, <2>2, <3>2 DEF Processes
    <3>3. QED
      BY <2>5, <3>1, <3>2 DEF StartStep, Connect, CheckSchema, OpenMemory
  <2>6. CASE StopStep
    <3>1. CASE BeginShutdown
      BY <2>1, <2>2, <3>1 DEF BeginShutdown, Processes
    <3>2. CASE CloseNext
      <4>1. PICK r : api' = [api EXCEPT !.open = @ \ {r}]
        BY <3>2 DEF CloseNext
      <4>2. QED
        BY <2>1, <2>2, <4>1 DEF Processes
    <3>3. CASE Leave
      BY <2>1, <2>2, <3>3 DEF Leave, Exiting, Processes
    <3>4. QED
      BY <2>6, <3>1, <3>2, <3>3 DEF StopStep
  <2>7. CASE TraceStep
    BY <2>1, <2>2, <2>7 DEF TraceStep, Trace, CallSetup, ThreadEnds, AfterSetup, StartTurn,
                            CallNode, EndTurn, Processes
  <2>8. CASE ExitStep
    BY <2>8 DEF ExitStep, Exit, Dead
  <2>9. QED
    BY <2>1, <2>3, <2>4, <2>5, <2>6, <2>7, <2>8 DEF Next, vars, StartDeploy, StrayEnds, DeployStep,
      Command, Fail, WriteEnv, Pull, WaitForPostgres, BackUp, Migrate, UpServices, Replace,
      RecreateNginx, CheckReady, Report, Bootstrap, KillApi, Kill, DatabaseStopsOrStarts
<1>2. QED
  BY <1>1, Inductive, PTL DEF Spec, TracingStaysOn
=============================================================================
