------------------------------ MODULE Library ------------------------------
(***************************************************************************)
(* The API's requests over a user's PDFs and conversations: upload and     *)
(* delete of a PDF, create, chat, rename and delete of a conversation.     *)
(*                                                                         *)
(* Four stores take part and share no transaction: the document's row, its *)
(* blob, the conversation's row (which goes with the document's, by ON     *)
(* DELETE CASCADE) and the conversation's thread of messages in the        *)
(* checkpointer (which does not).  Every await that reaches a store is a   *)
(* step, with other requests' steps in between; a chat carries the thread  *)
(* it loaded in memory and writes it back whole.                           *)
(***************************************************************************)
EXTENDS Integers, FiniteSets

CONSTANTS
  Pdfs,       \* ids of the documents uploads will ever create
  Convs,      \* ids of the conversations that will ever be created
  Requests,   \* the requests the API can have in flight
  None,       \* no document, no conversation
  MaxTurns,   \* bound: how many questions are ever asked
  MaxFaults   \* bound: how many calls fail and how often the API is killed

ASSUME LibraryAssumption ==
  None \notin Pdfs \cup Convs /\ MaxTurns \in Nat /\ MaxFaults \in Nat

VARIABLES
  row,     \* the table pdf_documents: the status of each document
  queued,  \* the documents that have a job
  blob,    \* the documents whose file is in the storage
  conv,    \* the table conversations
  thread,  \* the messages of each conversation's latest checkpoint
  req,     \* the request in each slot, and how far it is
  turns,   \* how many questions have been asked
  faults,  \* how many calls have failed
  acked,   \* history: the documents whose upload was answered 201
  shelved, \* history: of these, the ones an API that does not classify answered
  told,    \* history: the turns whose answer the user has had
  wiped,   \* history: of these, the turns a delete has wiped
  raced    \* history: conversations that two requests were busy with at once

stores == <<row, queued, blob, conv, thread>>
histories == <<acked, shelved, told, wiped>>

-----------------------------------------------------------------------------
Unborn == [state |-> "unborn", pdf |-> None, title |-> "unset"]

\* at: the next call; todo: threads a PDF's delete has yet to wipe; title: as
\* touch loaded it; memory: the messages a chat carries; turn: its question.
Idle == [at |-> "idle", pdf |-> None, conv |-> None, todo |-> {},
         title |-> "unset", memory |-> {}, turn |-> 0]

Exists(p) == row[p] \in {"uploaded", "parsed"}
Live(c) == conv[c].state = "live"

User(turn) == <<turn, "user">>
Assistant(turn) == <<turn, "assistant">>

Init ==
  /\ row = [p \in Pdfs |-> "none"]
  /\ queued = {}
  /\ blob = {}
  /\ conv = [c \in Convs |-> Unborn]
  /\ thread = [c \in Convs |-> {}]
  /\ req = [r \in Requests |-> Idle]
  /\ turns = 0
  /\ faults = 0
  /\ acked = {}
  /\ shelved = {}
  /\ told = {}
  /\ wiped = {}
  /\ raced = {}

Begin(r, label, p, c) ==
  /\ req[r] = Idle
  /\ req' = [req EXCEPT ![r] = [Idle EXCEPT !.at = label, !.pdf = p, !.conv = c]]

Goto(r, label) == req' = [req EXCEPT ![r].at = label]

Done(r) == req' = [req EXCEPT ![r] = Idle]

-----------------------------------------------------------------------------
(* POST /pdfs *)

\* build_storage_key and the row's id are fresh: no other upload shares them.
StoreFile(r, p) ==
  /\ row[p] = "none"
  /\ p \notin blob
  /\ \A q \in Requests : req[q].pdf # p
  /\ Begin(r, "create", p, None)
  /\ blob' = blob \cup {p}
  /\ UNCHANGED <<row, queued, conv, thread, turns, faults, histories>>

CreateRow(r) ==
  /\ req[r].at = "create"
  /\ row' = [row EXCEPT ![req[r].pdf] = "uploaded"]
  /\ \/ Goto(r, "enqueue") /\ UNCHANGED faults
     \/ \* the refresh after the commit raises: the row is there all the same
        /\ faults < MaxFaults
        /\ faults' = faults + 1
        /\ Goto(r, "discard")
  /\ UNCHANGED <<queued, blob, conv, thread, turns, histories>>

\* _remove_stored_file
DiscardFile(r) ==
  /\ req[r].at = "discard"
  /\ blob' = blob \ {req[r].pdf}
  /\ Done(r)
  /\ UNCHANGED <<row, queued, conv, thread, turns, faults, histories>>

\* The job's foreign key needs the row; the refresh after the commit may raise.
\* An API started with classification_enabled off answers without a job.
Enqueue(r) ==
  /\ req[r].at = "enqueue"
  /\ \/ /\ Exists(req[r].pdf)
        /\ queued' = queued \cup {req[r].pdf}
        /\ \/ acked' = acked \cup {req[r].pdf} /\ UNCHANGED faults
           \/ faults < MaxFaults /\ faults' = faults + 1 /\ UNCHANGED acked
        /\ UNCHANGED shelved
     \/ ~Exists(req[r].pdf) /\ UNCHANGED <<queued, faults, acked, shelved>>
     \/ /\ acked' = acked \cup {req[r].pdf}
        /\ shelved' = shelved \cup {req[r].pdf}
        /\ UNCHANGED <<queued, faults>>
  /\ Done(r)
  /\ UNCHANGED <<row, blob, conv, thread, turns, told, wiped>>

\* What the worker makes of the document: it becomes parsed, or a repeated run
\* takes it back.
Process(p) ==
  /\ p \in queued
  /\ \/ row[p] = "uploaded" /\ row' = [row EXCEPT ![p] = "parsed"]
     \/ row[p] = "parsed" /\ row' = [row EXCEPT ![p] = "uploaded"]
  /\ UNCHANGED <<queued, blob, conv, thread, req, turns, faults, histories>>

-----------------------------------------------------------------------------
(* DELETE /pdfs/{id} *)

\* Mutant of DeletePdf: the file goes first.
DeletePdfFileFirst(r, p) ==
  /\ Exists(p)
  /\ Begin(r, "list", p, None)
  /\ blob' = blob \ {p}
  /\ UNCHANGED <<row, queued, conv, thread, turns, faults, histories>>

DeletePdf(r, p) ==
  /\ Exists(p)
  /\ Begin(r, "list", p, None)
  /\ UNCHANGED <<stores, turns, faults, histories>>

ListConversations(r) ==
  /\ req[r].at = "list"
  /\ LET found == {c \in Convs : Live(c) /\ conv[c].pdf = req[r].pdf}
     IN  req' = [req EXCEPT ![r].at = IF found = {} THEN "delete_row" ELSE "wipe_all",
                            ![r].todo = found]
  /\ UNCHANGED <<stores, turns, faults, histories>>

\* delete_thread
Wipe(c) ==
  /\ thread' = [thread EXCEPT ![c] = {}]
  /\ wiped' = wiped \cup {t \in told : t[1] = c}

\* Mutant of WipeOne: nothing tells that the last thread was wiped.
WipeOneForever(r, c) ==
  /\ req[r].at = "wipe_all"
  /\ c \in req[r].todo
  /\ Wipe(c)
  /\ req' = [req EXCEPT ![r].todo = @ \ {c}]
  /\ UNCHANGED <<row, queued, blob, conv, turns, faults, acked, shelved, told>>

WipeOne(r, c) ==
  /\ req[r].at = "wipe_all"
  /\ c \in req[r].todo
  /\ Wipe(c)
  /\ req' = [req EXCEPT ![r].todo = @ \ {c},
                        ![r].at = IF req[r].todo = {c} THEN "delete_row" ELSE @]
  /\ UNCHANGED <<row, queued, blob, conv, turns, faults, acked, shelved, told>>

\* The row goes, and the job and the conversations with it.
Cascade(p) ==
  /\ row' = [row EXCEPT ![p] = "gone"]
  /\ queued' = queued \ {p}
  /\ conv' = [c \in Convs |-> IF conv[c].pdf = p
                              THEN [conv[c] EXCEPT !.state = "gone"] ELSE conv[c]]

\* Mutant of DeleteRow: the file is forgotten.
DeleteRowOnly(r) ==
  /\ req[r].at = "delete_row"
  /\ Cascade(req[r].pdf)
  /\ Done(r)
  /\ UNCHANGED <<blob, thread, turns, faults, histories>>

DeleteRow(r) ==
  /\ req[r].at = "delete_row"
  /\ Cascade(req[r].pdf)
  /\ Goto(r, "unlink")
  /\ UNCHANGED <<blob, thread, turns, faults, histories>>

DeleteFile(r) ==
  /\ req[r].at = "unlink"
  /\ blob' = blob \ {req[r].pdf}
  /\ Done(r)
  /\ UNCHANGED <<row, queued, conv, thread, turns, faults, histories>>

-----------------------------------------------------------------------------
(* POST /pdfs/{id}/conversations, PATCH and DELETE /conversations/{id} *)

CreateConversation(r, p) ==
  /\ row[p] = "parsed"
  /\ Begin(r, "insert", p, None)
  /\ UNCHANGED <<stores, turns, faults, histories>>

\* The insert fails its foreign key when the document has gone meanwhile.
InsertConversation(r, c) ==
  /\ req[r].at = "insert"
  /\ conv[c] = Unborn
  /\ IF Exists(req[r].pdf)
     THEN conv' = [conv EXCEPT ![c] = [Unborn EXCEPT !.state = "live", !.pdf = req[r].pdf]]
     ELSE UNCHANGED conv
  /\ Done(r)
  /\ UNCHANGED <<row, queued, blob, thread, turns, faults, histories>>

RenameConversation(r, c) ==
  /\ Live(c)
  /\ Begin(r, "retitle", None, c)
  /\ UNCHANGED <<stores, turns, faults, histories>>

\* The flush of a loaded conversation; of a row that is gone it raises.
SetTitle(c, title) ==
  conv' = IF Live(c) THEN [conv EXCEPT ![c].title = title] ELSE conv

WriteRename(r) ==
  /\ req[r].at = "retitle"
  /\ SetTitle(req[r].conv, "given")
  /\ Done(r)
  /\ UNCHANGED <<row, queued, blob, thread, turns, faults, histories>>

\* Mutant of DeleteConversation: the memory is left to the database.
DeleteConversationRow(r, c) ==
  /\ Live(c)
  /\ Begin(r, "delete_conversation", None, c)
  /\ UNCHANGED <<stores, turns, faults, histories>>

DeleteConversation(r, c) ==
  /\ Live(c)
  /\ Begin(r, "wipe", None, c)
  /\ UNCHANGED <<stores, turns, faults, histories>>

WipeThread(r) ==
  /\ req[r].at = "wipe"
  /\ Wipe(req[r].conv)
  /\ Goto(r, "delete_conversation")
  /\ UNCHANGED <<row, queued, blob, conv, turns, faults, acked, shelved, told>>

DropConversation(r) ==
  /\ req[r].at = "delete_conversation"
  /\ conv' = [conv EXCEPT ![req[r].conv].state = "gone"]
  /\ Done(r)
  /\ UNCHANGED <<row, queued, blob, thread, turns, faults, histories>>

-----------------------------------------------------------------------------
(* POST /conversations/{id}/chat *)

Chat(r, c) ==
  /\ Live(c)
  /\ Begin(r, "check_pdf", conv[c].pdf, c)
  /\ UNCHANGED <<stores, turns, faults, histories>>

\* 404 when the document is gone, 409 when it is not parsed.
CheckPdf(r) ==
  /\ req[r].at = "check_pdf"
  /\ IF row[req[r].pdf] = "parsed" THEN Goto(r, "ask") ELSE Done(r)
  /\ UNCHANGED <<stores, turns, faults, histories>>

\* A document without extracts has a fixed answer that is not recorded.
AnswerEmptyDocument(r) ==
  /\ req[r].at = "ask"
  /\ Done(r)
  /\ UNCHANGED <<stores, turns, faults, histories>>

\* Mutant of Ask: the graph starts from the question alone.
AskAfresh(r) ==
  /\ req[r].at = "ask"
  /\ turns < MaxTurns
  /\ Exists(req[r].pdf)
  /\ LET messages == {User(turns + 1)}
     IN  /\ thread' = [thread EXCEPT ![req[r].conv] = messages]
         /\ req' = [req EXCEPT ![r].at = "answer", ![r].memory = messages,
                               ![r].turn = turns + 1]
  /\ turns' = turns + 1
  /\ UNCHANGED <<row, queued, blob, conv, faults, histories>>

\* The graph loads the thread, appends the question and checkpoints.
Ask(r) ==
  /\ req[r].at = "ask"
  /\ turns < MaxTurns
  /\ Exists(req[r].pdf)
  /\ LET messages == thread[req[r].conv] \cup {User(turns + 1)}
     IN  /\ thread' = [thread EXCEPT ![req[r].conv] = messages]
         /\ req' = [req EXCEPT ![r].at = "answer", ![r].memory = messages,
                               ![r].turn = turns + 1]
  /\ turns' = turns + 1
  /\ UNCHANGED <<row, queued, blob, conv, faults, histories>>

\* The last checkpoint of the turn holds the messages the graph has in memory.
Answer(r) ==
  /\ req[r].at = "answer"
  /\ thread' = [thread EXCEPT ![req[r].conv] = req[r].memory \cup {Assistant(req[r].turn)}]
  /\ Goto(r, "touch")
  /\ UNCHANGED <<row, queued, blob, conv, turns, faults, histories>>

\* 504 after the timeout, 502 when the model or a tool raises.
AgentFails(r) ==
  /\ req[r].at = "answer"
  /\ Done(r)
  /\ UNCHANGED <<stores, turns, faults, histories>>

TouchLoad(r) ==
  /\ req[r].at = "touch"
  /\ IF Live(req[r].conv)
     THEN req' = [req EXCEPT ![r].at = "touch_write", ![r].title = conv[req[r].conv].title]
     ELSE Done(r)
  /\ UNCHANGED <<stores, turns, faults, histories>>

\* Mutant of TouchWrite: every turn sets the title.
TouchWriteAlways(r) ==
  /\ req[r].at = "touch_write"
  /\ SetTitle(req[r].conv, "derived")
  /\ told' = IF Live(req[r].conv) THEN told \cup {<<req[r].conv, req[r].turn>>} ELSE told
  /\ Done(r)
  /\ UNCHANGED <<row, queued, blob, thread, turns, faults, acked, shelved, wiped>>

\* title_if_unset goes by the title as it was loaded.
TouchWrite(r) ==
  /\ req[r].at = "touch_write"
  /\ IF req[r].title = "unset" THEN SetTitle(req[r].conv, "derived") ELSE UNCHANGED conv
  /\ told' = IF Live(req[r].conv) THEN told \cup {<<req[r].conv, req[r].turn>>} ELSE told
  /\ Done(r)
  /\ UNCHANGED <<row, queued, blob, thread, turns, faults, acked, shelved, wiped>>

-----------------------------------------------------------------------------
\* A call of a store raises: the upload removes its file, any other request
\* is answered 500 (a delete that cannot remove the file, 204 all the same).
CallFails(r) ==
  /\ req[r] # Idle
  /\ faults < MaxFaults
  /\ faults' = faults + 1
  /\ IF req[r].at = "create" THEN Goto(r, "discard") ELSE Done(r)
  /\ UNCHANGED <<stores, turns, histories>>

\* The API process is killed: what its requests had in memory is lost.
CrashApi ==
  /\ faults < MaxFaults
  /\ faults' = faults + 1
  /\ req' = [r \in Requests |-> Idle]
  /\ UNCHANGED <<stores, turns, histories>>

UploadStep(r) == (\E p \in Pdfs : StoreFile(r, p)) \/ CreateRow(r) \/ DiscardFile(r) \/ Enqueue(r)

DeletePdfStep(r) ==
  \/ \E p \in Pdfs : DeletePdf(r, p)
  \/ ListConversations(r)
  \/ \E c \in Convs : WipeOne(r, c)
  \/ DeleteRow(r)
  \/ DeleteFile(r)

ConversationStep(r) ==
  \/ \E p \in Pdfs : CreateConversation(r, p)
  \/ \E c \in Convs :
       InsertConversation(r, c) \/ RenameConversation(r, c) \/ DeleteConversation(r, c)
  \/ WriteRename(r)
  \/ WipeThread(r)
  \/ DropConversation(r)

ChatStep(r) ==
  \/ \E c \in Convs : Chat(r, c)
  \/ CheckPdf(r)
  \/ AnswerEmptyDocument(r)
  \/ Ask(r)
  \/ Answer(r)
  \/ AgentFails(r)
  \/ TouchLoad(r)
  \/ TouchWrite(r)

\* Request r is busy with conversation c: it chats in it, renames it, deletes
\* it or deletes its document.
BusyWith(r, c) ==
  \/ req[r].conv = c
  \/ req[r].pdf = conv[c].pdf /\ req[r].at \in {"list", "wipe_all", "delete_row"}

Overlapping == {c \in Convs : \E q, r \in Requests : q # r /\ BusyWith(q, c) /\ BusyWith(r, c)}

Next ==
  /\ \/ \E r \in Requests :
          UploadStep(r) \/ DeletePdfStep(r) \/ ConversationStep(r) \/ ChatStep(r) \/ CallFails(r)
     \/ \E p \in Pdfs : Process(p)
     \/ CrashApi
  /\ raced' = raced \cup Overlapping'

vars == <<stores, req, turns, faults, histories, raced>>

Spec == Init /\ [][Next]_vars

-----------------------------------------------------------------------------
Labels == {"idle", "create", "enqueue", "discard", "list", "wipe_all", "delete_row", "unlink",
           "insert", "retitle", "wipe", "delete_conversation", "check_pdf", "ask", "answer",
           "touch", "touch_write"}

Messages == (1 .. MaxTurns) \X {"user", "assistant"}

\* Every variable keeps its type, and a PDF's delete leaves the wiping of
\* threads when none is left to wipe.
TypeOK ==
  /\ row \in [Pdfs -> {"none", "uploaded", "parsed", "gone"}]
  /\ queued \subseteq Pdfs
  /\ blob \subseteq Pdfs
  /\ conv \in [Convs -> [state : {"unborn", "live", "gone"}, pdf : Pdfs \cup {None},
                         title : {"unset", "derived", "given"}]]
  /\ thread \in [Convs -> SUBSET Messages]
  /\ \A r \in Requests :
       /\ req[r].at \in Labels
       /\ req[r].pdf \in Pdfs \cup {None} /\ req[r].conv \in Convs \cup {None}
       /\ req[r].todo \subseteq Convs /\ req[r].memory \subseteq Messages
       /\ req[r].at = "idle" => req[r] = Idle
       /\ req[r].at = "wipe_all" <=> req[r].todo # {}
  /\ turns \in 0 .. MaxTurns /\ faults \in 0 .. MaxFaults
  /\ acked \subseteq Pdfs /\ shelved \subseteq acked
  /\ told \subseteq Convs \X (1 .. MaxTurns) /\ wiped \subseteq told /\ raced \subseteq Convs

\* A document whose upload was answered 201 has its file as long as it has its
\* row, and its job, or none at all if an API that does not classify took it:
\* the worker never meets a document it cannot read, and a document waits for
\* a job that never comes only with the switch as its cause.
AckedIsStored ==
  \A p \in acked : Exists(p) => p \in blob /\ (p \in queued <=> p \notin shelved)

\* Unless a call fails or the API is killed, a file whose document has no row
\* is one that a request is about to give a row, or to remove.
BlobLeaksOnlyByFault ==
  faults = 0 =>
    \A p \in blob : Exists(p) \/ \E r \in Requests :
                                   req[r].pdf = p /\ req[r].at \in {"create", "unlink"}

\* Whatever failed on the way, a deleted conversation that no two requests
\* were busy with at once has left no messages behind.
MemoryDiesWithConversation ==
  \A c \in Convs : conv[c].state = "gone" /\ c \notin raced => thread[c] = {}

\* Nor does such a conversation lose a turn its user has seen, while failed
\* turns come and go, but to a delete.
AnswersStay ==
  \A t \in told \ wiped :
    t[1] \notin raced => {User(t[2]), Assistant(t[2])} \subseteq thread[t[1]]

\* Request r has wiped threads of c's, or is about to, and goes on to its row.
Deleting(r, c) ==
  \/ req[r].at = "delete_conversation" /\ req[r].conv = c
  \/ req[r].at \in {"wipe_all", "delete_row"} /\ req[r].pdf = conv[c].pdf

\* A delete that fails between the thread and the row leaves a conversation
\* without its turns; unless a call fails or the API is killed, one that has
\* lost turns to a delete has that delete still to come at its row.
WipedGoAway ==
  faults = 0 =>
    \A t \in wiped : Live(t[1]) => \E r \in Requests : Deleting(r, t[1])

HistoryKeepsAnswers == AnswersStay /\ WipedGoAway

\* Nor is a title the user gave replaced by one derived from a question.
RenameIsKept ==
  [][\A c \in Convs : conv[c].title = "given" /\ c \notin raced' => conv'[c].title = "given"]_vars
=============================================================================
