--------------------------- MODULE Library_proofs ---------------------------
(***************************************************************************)
(* Theorems about Library: whatever requests the API has in flight, for    *)
(* any number of documents and conversations, an acknowledged upload keeps *)
(* its file and, where the API classifies, its job, and conversations that *)
(* one request at a time is busy with neither leave messages behind nor    *)
(* lose any but to their own delete.                                       *)
(***************************************************************************)
EXTENDS Library, TLAPS

-----------------------------------------------------------------------------
\* What the label of a request says of it.

Request ==
  [at : Labels, pdf : Pdfs \cup {None}, conv : Convs \cup {None}, todo : SUBSET Convs,
   title : {"unset", "derived", "given"}, memory : SUBSET Messages, turn : 0 .. MaxTurns]

PdfLabels == {"create", "enqueue", "discard", "list", "wipe_all", "delete_row", "unlink", "insert"}

ConvLabels == {"retitle", "wipe", "delete_conversation", "check_pdf", "ask", "answer", "touch",
               "touch_write"}

Born(c) == conv[c].state # "unborn"

Right(request) ==
  /\ request \in Request
  /\ request.at = "idle" => request = Idle
  /\ request.at = "wipe_all" <=> request.todo # {}
  /\ request.at \in PdfLabels => request.pdf \in Pdfs /\ request.conv = None
  /\ request.at \in ConvLabels => request.conv \in Convs /\ Born(request.conv)
  /\ \A c \in request.todo : Born(c) /\ conv[c].pdf = request.pdf
  /\ request.at \in {"answer", "touch", "touch_write"} => request.turn \in 1 .. turns

Conversation ==
  [state : {"unborn", "live", "gone"}, pdf : Pdfs \cup {None},
   title : {"unset", "derived", "given"}]

StoreShape ==
  /\ row \in [Pdfs -> {"none", "uploaded", "parsed", "gone"}]
  /\ queued \in SUBSET Pdfs /\ blob \in SUBSET Pdfs /\ acked \in SUBSET Pdfs
  /\ shelved \in SUBSET acked
  /\ raced \in SUBSET Convs /\ told \in SUBSET (Convs \X (1 .. MaxTurns))
  /\ wiped \in SUBSET told
  /\ conv \in [Convs -> Conversation]
  /\ thread \in [Convs -> SUBSET Messages]
  /\ turns \in 0 .. MaxTurns /\ faults \in 0 .. MaxFaults
  /\ \A c \in Convs : ~Born(c) => conv[c] = Unborn /\ thread[c] = {}

RequestShape == req \in [Requests -> Request] /\ \A r \in Requests : Right(req[r])

Shape == StoreShape /\ RequestShape

\* The uploads: a document is one upload's until it is acknowledged.
Uploading(r) == req[r].at \in {"create", "enqueue", "discard"}

UploadOK(r) ==
  LET p == req[r].pdf
  IN  /\ req[r].at = "create" => row[p] = "none" /\ p \in blob
      /\ req[r].at = "enqueue" => row[p] # "none" /\ (Exists(p) => p \in blob)
      /\ Uploading(r) => p \notin acked \cup queued
      /\ Uploading(r) => \A q \in Requests \ {r} : Uploading(q) => req[q].pdf # p
      /\ req[r].at = "discard" => faults > 0
      /\ req[r].at = "unlink" => row[p] = "gone"
      /\ req[r].at \in {"list", "wipe_all", "delete_row"} => row[p] # "none"

UploadInv ==
  /\ \A r \in Requests : UploadOK(r)
  /\ \A p \in acked \cup queued : row[p] # "none"
  /\ AckedIsStored
  /\ BlobLeaksOnlyByFault

\* What a request that has had conversation c to itself may rely on.
AloneOK(r, c) ==
  LET request == req[r]
      turn == request.turn
  IN  /\ request.conv = c =>
           /\ Live(c)
           /\ request.at = "delete_conversation" => thread[c] = {}
           /\ request.at = "answer" => request.memory = thread[c] /\ User(turn) \in thread[c]
           /\ request.at \in {"touch", "touch_write"} =>
                {User(turn), Assistant(turn)} \subseteq thread[c]
           /\ request.at = "touch_write" => request.title = conv[c].title
      /\ request.pdf = conv[c].pdf /\ Live(c) =>
           /\ request.at = "wipe_all" => c \in request.todo \/ thread[c] = {}
           /\ request.at = "delete_row" => thread[c] = {}

Lone(c) ==
  /\ conv[c].state = "gone" => thread[c] = {}
  /\ \A t \in told \ wiped : t[1] = c => {User(t[2]), Assistant(t[2])} \subseteq thread[c]
  /\ \A r \in Requests : AloneOK(r, c)

AloneInv == Overlapping \subseteq raced /\ \A c \in Convs \ raced : Lone(c)

\* The delete that wiped turns is still to come at the row.
WipedInv == (\A t \in wiped : Born(t[1])) /\ WipedGoAway

LibraryInv == Shape /\ UploadInv /\ AloneInv /\ WipedInv

LEMMA LibraryStart == ASSUME Init PROVE LibraryInv
<1>1. Shape
  BY LibraryAssumption DEF Init, Shape, RequestShape, StoreShape, Right, Request,
     Idle, Labels, PdfLabels, ConvLabels, Conversation, Unborn, Born
<1>2. UploadInv
  BY DEF Init, UploadInv, UploadOK, Uploading, Idle, BlobLeaksOnlyByFault, AckedIsStored
<1>3. AloneInv
  BY LibraryAssumption
     DEF Init, AloneInv, Lone, Overlapping, BusyWith, AloneOK, Idle, Unborn, Live
<1>4. WipedInv
  BY DEF Init, WipedInv, WipedGoAway
<1>5. QED
  BY <1>1, <1>2, <1>3, <1>4 DEF LibraryInv

-----------------------------------------------------------------------------
\* The shape of the state.

\* What requests rely on only grows.
Grows ==
  /\ turns' \in turns .. MaxTurns
  /\ \A c \in Convs : Born(c) => conv'[c].state # "unborn" /\ conv'[c].pdf = conv[c].pdf

\* A request moves on.
LEMMA Moves ==
  ASSUME Shape, Grows, NEW r \in Requests, NEW new, req' = [req EXCEPT ![r] = new], Right(new)'
  PROVE  RequestShape'
<1>1. new \in Request
  BY DEF Right
<1>2. ASSUME NEW q \in Requests PROVE Right(req[q])'
  <2>1. CASE q = r
    BY <2>1 DEF Shape, RequestShape, StoreShape
  <2>2. CASE q # r
    <3>1. Right(req[q]) /\ req'[q] = req[q] /\ turns \in Nat /\ turns' \in Nat /\ turns' >= turns
      BY <2>2, LibraryAssumption DEF Shape, RequestShape, StoreShape, Grows
    <3>2. req[q].todo \subseteq Convs
      BY <3>1 DEF Right, Request
    <3>3. req[q].turn \in 1 .. turns => req[q].turn \in 1 .. turns'
      BY <3>1
    <3>4. QED
      BY <3>1, <3>2, <3>3 DEF Right, Grows, Born
  <2>3. QED
    BY <2>1, <2>2
<1>3. QED
  BY <1>1, <1>2 DEF Shape, RequestShape, StoreShape

LEMMA Begins ==
  ASSUME Shape, Grows, NEW r \in Requests, NEW label, NEW p, NEW c, Begin(r, label, p, c),
         \/ label \in PdfLabels \ {"wipe_all"} /\ p \in Pdfs /\ c = None
         \/ label \in {"retitle", "wipe", "check_pdf"} /\ p \in Pdfs \cup {None} /\ c \in Convs
            /\ Born(c)
  PROVE  RequestShape'
<1> DEFINE new == [Idle EXCEPT !.at = label, !.pdf = p, !.conv = c]
<1>1. new.at = label /\ new.pdf = p /\ new.conv = c /\ new.todo = {}
  BY DEF Idle
<1>2. label \in Labels /\ p \in Pdfs \cup {None} /\ c \in Convs \cup {None}
  BY DEF Labels, PdfLabels
<1>3. Idle \in Request
  BY LibraryAssumption DEF Idle, Request, Labels
<1>4. new \in Request
  BY <1>2, <1>3 DEF Request
<1>5. Right(new)'
  BY <1>1, <1>4 DEF Right, Grows, Born, PdfLabels, ConvLabels
<1>6. QED
  BY <1>5, Moves DEF Begin

LEMMA GoesOn ==
  ASSUME Shape, Grows, NEW r \in Requests, NEW label, Goto(r, label), req[r].at # "wipe_all",
         \/ req[r].at \in PdfLabels /\ label \in PdfLabels \ {"wipe_all"}
         \/ req[r].at \in ConvLabels /\ label \in ConvLabels \ {"answer", "touch", "touch_write"}
         \/ req[r].at = "answer" /\ label = "touch"
  PROVE  RequestShape'
<1>0. PICK new : new = [req[r] EXCEPT !.at = label]
  OBVIOUS
<1>1. Right(req[r]) /\ req[r].todo = {} /\ label \in Labels \ {"idle"}
  BY DEF Shape, RequestShape, StoreShape, Right, Labels, PdfLabels, ConvLabels
<1>2. /\ new.at = label /\ new.pdf = req[r].pdf /\ new.conv = req[r].conv /\ new.todo = {}
      /\ new.turn = req[r].turn /\ new \in Request
  BY <1>0, <1>1 DEF Right, Request
<1>3. req[r].turn \in 1 .. turns => req[r].turn \in 1 .. turns'
  BY LibraryAssumption DEF Shape, RequestShape, StoreShape, Grows
<1>4. Right(new)'
  <2>1. label # "wipe_all" /\ label # "idle"
    BY <1>1 DEF PdfLabels, ConvLabels
  <2>2. label \in PdfLabels => req[r].pdf \in Pdfs /\ req[r].conv = None
    BY <1>1 DEF Right, PdfLabels, ConvLabels
  <2>3. label \in ConvLabels => req[r].conv \in Convs /\ conv'[req[r].conv].state # "unborn"
    BY <1>1 DEF Right, PdfLabels, ConvLabels, Grows, Born
  <2>4. label \in {"answer", "touch", "touch_write"} => req[r].turn \in 1 .. turns'
    BY <1>1, <1>3 DEF Right, PdfLabels, ConvLabels
  <2>5. QED
    BY <1>2, <2>1, <2>2, <2>3, <2>4 DEF Right, Born
<1>5. req' = [req EXCEPT ![r] = new]
  BY <1>0 DEF Goto
<1>6. QED
  BY <1>4, <1>5, Moves

LEMMA Ends == ASSUME Shape, Grows, NEW r \in Requests, Done(r) PROVE RequestShape'
<1>1. Right(Idle)'
  BY LibraryAssumption DEF Right, Idle, Request, Labels, PdfLabels, ConvLabels
<1>2. QED
  BY <1>1, Moves DEF Done

LEMMA Stays == ASSUME Shape, UNCHANGED <<conv, turns>> PROVE Grows
  BY LibraryAssumption DEF Shape, RequestShape, StoreShape, Grows, Born

LEMMA UploadShape ==
  ASSUME Shape, NEW r \in Requests, UploadStep(r), raced' \in SUBSET Convs PROVE Shape'
<1>1. UNCHANGED <<conv, thread, turns, told, wiped>> /\ Right(req[r])
  BY DEF UploadStep, StoreFile, CreateRow, DiscardFile, Enqueue, Shape,
     RequestShape, StoreShape, histories
<1>2. Grows
  BY <1>1, Stays
<1>3. req[r].at \in {"create", "discard", "enqueue"} =>
        req[r].pdf \in Pdfs /\ req[r].at \in PdfLabels
  BY <1>1 DEF Right, PdfLabels
<1>4. CASE \E p \in Pdfs : StoreFile(r, p)
  <2>1. RequestShape'
    BY <1>2, <1>4, Begins DEF StoreFile, PdfLabels
  <2>2. StoreShape'
    BY <1>1, <1>4 DEF StoreFile, histories, Shape, RequestShape, StoreShape, Born
  <2>3. QED
    BY <2>1, <2>2 DEF Shape, RequestShape, StoreShape
<1>5. CASE CreateRow(r)
  <2>1. RequestShape'
    BY <1>2, <1>3, <1>5, GoesOn DEF CreateRow, PdfLabels
  <2>2. faults' \in 0 .. MaxFaults
    BY <1>5, LibraryAssumption DEF CreateRow, Shape, RequestShape, StoreShape
  <2>3. StoreShape'
    BY <1>1, <1>3, <1>5, <2>2 DEF CreateRow, histories, Shape, RequestShape, StoreShape, Born
  <2>4. QED
    BY <2>1, <2>3 DEF Shape, RequestShape, StoreShape
<1>6. CASE DiscardFile(r) \/ Enqueue(r)
  <2>1. RequestShape'
    BY <1>2, <1>6, Ends DEF DiscardFile, Enqueue
  <2>2. faults' \in 0 .. MaxFaults /\ UNCHANGED row
    BY <1>6, LibraryAssumption DEF DiscardFile, Enqueue, Shape, StoreShape
  <2>3. /\ queued' \in SUBSET Pdfs /\ blob' \in SUBSET Pdfs /\ acked' \in SUBSET Pdfs
        /\ shelved' \in SUBSET acked'
    BY <1>3, <1>6 DEF DiscardFile, Enqueue, histories, Shape, StoreShape
  <2>4. StoreShape'
    BY <1>1, <2>2, <2>3 DEF Shape, StoreShape, Born
  <2>5. QED
    BY <2>1, <2>4 DEF Shape
<1>7. QED
  BY <1>4, <1>5, <1>6 DEF UploadStep

LEMMA DeletePdfShape ==
  ASSUME Shape, NEW r \in Requests, DeletePdfStep(r), raced' \in SUBSET Convs PROVE Shape'
<1>1. UNCHANGED <<turns, faults, acked, shelved, told>> /\ Right(req[r])
  BY DEF DeletePdfStep, DeletePdf, ListConversations, WipeOne, DeleteRow, DeleteFile, Shape,
         RequestShape, stores, histories
<1>2. CASE \E p \in Pdfs : DeletePdf(r, p)
  <2>1. UNCHANGED <<stores, histories>>
    BY <1>2 DEF DeletePdf
  <2>2. RequestShape'
    BY <1>1, <1>2, <2>1, Stays, Begins DEF DeletePdf, PdfLabels, stores
  <2>3. QED
    BY <1>1, <2>1, <2>2 DEF Shape, StoreShape, stores, histories, Born
<1>3. CASE ListConversations(r)
  <2>1. UNCHANGED <<stores, histories>> /\ Grows
    BY <1>1, <1>3, Stays DEF ListConversations, stores
  <2>2. PICK found \in SUBSET Convs : found = {c \in Convs : Live(c) /\ conv[c].pdf = req[r].pdf}
    OBVIOUS
  <2>3. PICK new : new = [req[r] EXCEPT !.at = IF found = {} THEN "delete_row" ELSE "wipe_all",
                                        !.todo = found]
    OBVIOUS
  <2>4. new \in Request
    BY <1>1, <2>3 DEF Right, Request, Labels
  <2>5. req' = [req EXCEPT ![r] = new]
    BY <1>3, <2>2, <2>3 DEF ListConversations
  <2>6. /\ new.at = (IF found = {} THEN "delete_row" ELSE "wipe_all") /\ new.todo = found
        /\ new.pdf = req[r].pdf /\ new.conv = req[r].conv
    BY <1>1, <2>3 DEF Right, Request
  <2>7. req[r].pdf \in Pdfs /\ req[r].conv = None
    BY <1>1, <1>3 DEF ListConversations, Right, PdfLabels
  <2>8. Right(new)'
    BY <2>1, <2>2, <2>4, <2>6, <2>7 DEF Right, stores, Live, Born, PdfLabels, ConvLabels
  <2>9. RequestShape'
    BY <2>1, <2>5, <2>8, Moves
  <2>10. QED
    BY <1>1, <2>1, <2>9 DEF Shape, StoreShape, stores, histories, Born
<1>4. CASE \E c \in Convs : WipeOne(r, c)
  <2>1. PICK c \in Convs : WipeOne(r, c)
    BY <1>4
  <2>2. UNCHANGED conv /\ Grows
    BY <1>1, <2>1, Stays DEF WipeOne
  <2>3. PICK new : new = [req[r] EXCEPT !.todo = @ \ {c},
                                        !.at = IF req[r].todo = {c} THEN "delete_row" ELSE @]
    OBVIOUS
  <2>4. /\ new \in Request /\ new.pdf = req[r].pdf /\ new.conv = req[r].conv
        /\ new.todo = req[r].todo \ {c}
        /\ new.at = IF req[r].todo = {c} THEN "delete_row" ELSE "wipe_all"
    BY <1>1, <2>1, <2>3 DEF WipeOne, Right, Request, Labels
  <2>5. req' = [req EXCEPT ![r] = new]
    BY <2>1, <2>3 DEF WipeOne
  <2>6. c \in req[r].todo /\ req[r].pdf \in Pdfs /\ req[r].conv = None
    BY <1>1, <2>1 DEF WipeOne, Right, PdfLabels
  <2>7. Right(new)'
    BY <1>1, <2>2, <2>4, <2>6 DEF Right, Born, PdfLabels, ConvLabels
  <2>8. RequestShape'
    BY <2>2, <2>5, <2>7, Moves
  <2>9. StoreShape'
    BY <1>1, <2>1 DEF WipeOne, Wipe, Shape, StoreShape, Born
  <2>10. QED
    BY <2>8, <2>9 DEF Shape
<1>5. CASE DeleteRow(r)
  <2>1. /\ UNCHANGED <<blob, thread, told, wiped>> /\ Cascade(req[r].pdf) /\ Goto(r, "unlink")
        /\ req[r].at = "delete_row" /\ req[r].pdf \in Pdfs
    BY <1>1, <1>5 DEF DeleteRow, histories, Right, PdfLabels
  <2>2. ASSUME NEW c \in Convs
        PROVE  /\ conv'[c] = IF conv[c].pdf = req[r].pdf THEN [conv[c] EXCEPT !.state = "gone"]
                                                         ELSE conv[c]
               /\ conv'[c] \in Conversation /\ conv'[c].pdf = conv[c].pdf
               /\ conv[c].state = "unborn" => conv'[c] = conv[c]
               /\ conv'[c].state = "unborn" => conv[c].state = "unborn"
    <3>1. conv[c] \in Conversation /\ (conv[c].state = "unborn" => conv[c].pdf = None)
          /\ None \notin Pdfs
      BY LibraryAssumption DEF Shape, StoreShape, Unborn, Born
    <3>2. QED
      BY <2>1, <3>1 DEF Cascade, Conversation
  <2>3. Grows
    <3>1. turns' \in turns .. MaxTurns
      BY <1>1, LibraryAssumption DEF Shape, StoreShape
    <3>2. QED
      BY <2>2, <3>1 DEF Grows, Born
  <2>4. RequestShape'
    BY <2>1, <2>3, GoesOn DEF PdfLabels
  <2>5. conv' \in [Convs -> Conversation]
    BY <2>1, <2>2 DEF Cascade
  <2>6. \A c \in Convs : ~Born(c)' => conv'[c] = Unborn /\ thread'[c] = {}
    BY <2>1, <2>2 DEF Shape, StoreShape, Born
  <2>7. StoreShape'
    BY <1>1, <2>1, <2>5, <2>6 DEF Cascade, Shape, StoreShape
  <2>8. QED
    BY <2>4, <2>7 DEF Shape
<1>6. CASE DeleteFile(r)
  <2>1. RequestShape'
    BY <1>6, Stays, Ends DEF DeleteFile
  <2>2. StoreShape'
    BY <1>6 DEF DeleteFile, histories, Shape, StoreShape, Born
  <2>3. QED
    BY <2>1, <2>2 DEF Shape
<1>7. QED
  BY <1>2, <1>3, <1>4, <1>5, <1>6 DEF DeletePdfStep

\* A title or a state is written to a conversation that has a row.
LEMMA ConversationWritten ==
  ASSUME Shape, NEW c \in Convs, Born(c), UNCHANGED <<thread, turns>>,
         NEW new \in Conversation, new.state # "unborn", new.pdf = conv[c].pdf,
         conv' = [conv EXCEPT ![c] = new]
  PROVE  /\ Grows /\ conv' \in [Convs -> Conversation]
         /\ \A d \in Convs : ~Born(d)' => conv'[d] = Unborn /\ thread'[d] = {}
<1>1. \A d \in Convs : conv'[d] = IF d = c THEN new ELSE conv[d]
  BY DEF Shape, StoreShape
<1>2. turns' \in turns .. MaxTurns
  BY LibraryAssumption DEF Shape, StoreShape
<1>3. QED
  BY <1>1, <1>2 DEF Grows, Shape, StoreShape, Born

LEMMA TitleWritten ==
  ASSUME Shape, NEW c \in Convs, UNCHANGED <<thread, turns>>, NEW title \in {"derived", "given"},
         SetTitle(c, title)
  PROVE  /\ Grows /\ conv' \in [Convs -> Conversation]
         /\ \A d \in Convs : ~Born(d)' => conv'[d] = Unborn /\ thread'[d] = {}
<1>1. CASE Live(c)
  <2>1. PICK new : new = [conv[c] EXCEPT !.title = title]
    OBVIOUS
  <2>2. conv' = [conv EXCEPT ![c] = new]
    BY <1>1, <2>1 DEF SetTitle
  <2>3. conv[c] \in Conversation /\ conv[c].state = "live"
    BY <1>1 DEF Shape, StoreShape, Live
  <2>4. new \in Conversation /\ new.state = "live" /\ new.pdf = conv[c].pdf
    BY <2>1, <2>3 DEF Conversation
  <2>5. QED
    BY <2>2, <2>3, <2>4, ConversationWritten DEF Born
<1>2. CASE ~Live(c)
  BY <1>2, Stays DEF SetTitle, Shape, StoreShape, Born
<1>3. QED
  BY <1>1, <1>2

LEMMA ConversationShape ==
  ASSUME Shape, NEW r \in Requests, ConversationStep(r), raced' \in SUBSET Convs PROVE Shape'
<1>1. UNCHANGED <<row, queued, blob, acked, shelved, turns, faults>> /\ Right(req[r])
  BY DEF ConversationStep, CreateConversation, InsertConversation, RenameConversation,
         DeleteConversation, WriteRename, WipeThread, DropConversation, Shape, RequestShape,
         stores, histories
<1>2. CASE \/ \E p \in Pdfs : CreateConversation(r, p)
           \/ \E c \in Convs : RenameConversation(r, c) \/ DeleteConversation(r, c)
  <2>1. UNCHANGED <<stores, histories>>
    BY <1>2 DEF CreateConversation, RenameConversation, DeleteConversation
  <2>2. RequestShape'
    BY <1>1, <1>2, <2>1, Stays, Begins DEF CreateConversation, RenameConversation,
       DeleteConversation, PdfLabels, stores, Live, Born
  <2>3. QED
    BY <1>1, <2>1, <2>2 DEF Shape, StoreShape, stores, histories, Born
<1>3. CASE \E c \in Convs : InsertConversation(r, c)
  <2>1. PICK c \in Convs : InsertConversation(r, c)
    BY <1>3
  <2>2. UNCHANGED <<thread, told, wiped>> /\ Done(r) /\ conv[c] = Unborn /\ req[r].pdf \in Pdfs
    BY <1>1, <2>1 DEF InsertConversation, histories, Right, PdfLabels
  <2>3. PICK new : new = [Unborn EXCEPT !.state = "live", !.pdf = req[r].pdf]
    OBVIOUS
  <2>4. new \in Conversation /\ new.state = "live"
    BY <2>2, <2>3 DEF Unborn, Conversation
  <2>5. conv' = [conv EXCEPT ![c] = new] \/ UNCHANGED conv
    BY <2>1, <2>3 DEF InsertConversation
  <2>6. conv[c].state = "unborn"
    BY <2>2 DEF Unborn
  <2>7. /\ conv' \in [Convs -> Conversation]
        /\ \A d \in Convs : conv'[d] = conv[d] \/ (d = c /\ conv'[d] = new)
    BY <2>4, <2>5 DEF Shape, StoreShape
  <2>8. turns' \in turns .. MaxTurns
    BY <1>1, LibraryAssumption DEF Shape, StoreShape
  <2>9. Grows
    BY <2>6, <2>7, <2>8 DEF Grows, Born
  <2>10. StoreShape'
    BY <1>1, <2>2, <2>4, <2>7 DEF Shape, StoreShape, Born
  <2>11. QED
    BY <2>2, <2>9, <2>10, Ends DEF Shape
<1>4. CASE WriteRename(r)
  <2>1. req[r].conv \in Convs /\ SetTitle(req[r].conv, "given") /\ UNCHANGED <<thread, told, wiped>>
        /\ Done(r)
    BY <1>1, <1>4 DEF WriteRename, histories, Right, ConvLabels
  <2>2. /\ Grows /\ conv' \in [Convs -> Conversation]
        /\ \A d \in Convs : ~Born(d)' => conv'[d] = Unborn /\ thread'[d] = {}
    BY <1>1, <2>1, TitleWritten
  <2>3. StoreShape'
    BY <1>1, <2>1, <2>2 DEF Shape, StoreShape
  <2>4. QED
    BY <2>1, <2>2, <2>3, Ends DEF Shape
<1>5. CASE WipeThread(r)
  <2>1. RequestShape'
    BY <1>1, <1>5, Stays, GoesOn DEF WipeThread, ConvLabels
  <2>2. StoreShape'
    BY <1>1, <1>5 DEF WipeThread, Wipe, Shape, StoreShape, Born
  <2>3. QED
    BY <2>1, <2>2 DEF Shape
<1>6. CASE DropConversation(r)
  <2>1. /\ req[r].conv \in Convs /\ Born(req[r].conv) /\ UNCHANGED <<thread, told, wiped>> /\ Done(r)
        /\ conv' = [conv EXCEPT ![req[r].conv].state = "gone"]
    BY <1>1, <1>6 DEF DropConversation, histories, Right, ConvLabels
  <2>2. PICK new : new = [conv[req[r].conv] EXCEPT !.state = "gone"]
    OBVIOUS
  <2>3. new \in Conversation /\ new.state = "gone" /\ new.pdf = conv[req[r].conv].pdf
    BY <2>1, <2>2 DEF Shape, StoreShape, Conversation
  <2>4. conv' = [conv EXCEPT ![req[r].conv] = new]
    BY <2>1, <2>2
  <2>5. /\ Grows /\ conv' \in [Convs -> Conversation]
        /\ \A d \in Convs : ~Born(d)' => conv'[d] = Unborn /\ thread'[d] = {}
    BY <1>1, <2>1, <2>3, <2>4, ConversationWritten
  <2>6. StoreShape'
    BY <1>1, <2>1, <2>5 DEF Shape, StoreShape
  <2>7. QED
    BY <2>1, <2>5, <2>6, Ends DEF Shape
<1>7. QED
  BY <1>2, <1>3, <1>4, <1>5, <1>6 DEF ConversationStep

LEMMA MessageTypes ==
  ASSUME NEW turn \in 1 .. MaxTurns PROVE User(turn) \in Messages /\ Assistant(turn) \in Messages
  BY DEF User, Assistant, Messages

LEMMA ChatShape ==
  ASSUME Shape, NEW r \in Requests, ChatStep(r), raced' \in SUBSET Convs PROVE Shape'
<1>1. UNCHANGED <<row, queued, blob, acked, shelved, faults>> /\ Right(req[r])
  BY DEF ChatStep, Chat, CheckPdf, AnswerEmptyDocument, Ask, Answer, AgentFails, TouchLoad,
         TouchWrite, Shape, RequestShape, stores, histories
<1>2. CASE (\E c \in Convs : Chat(r, c)) \/ CheckPdf(r) \/ AnswerEmptyDocument(r) \/ AgentFails(r)
  <2>1. UNCHANGED <<stores, turns, histories>> /\ Grows
    BY <1>2, Stays DEF Chat, CheckPdf, AnswerEmptyDocument, AgentFails, stores
  <2>2. ASSUME NEW c \in Convs, Chat(r, c) PROVE RequestShape'
    <3>1. conv[c].pdf \in Pdfs \cup {None} /\ Born(c)
      BY <2>2 DEF Chat, Shape, StoreShape, Conversation, Live, Born
    <3>2. QED
      BY <2>1, <2>2, <3>1, Begins DEF Chat
  <2>3. ASSUME CheckPdf(r), Goto(r, "ask") PROVE RequestShape'
    BY <2>1, <2>3, GoesOn DEF CheckPdf, ConvLabels
  <2>4. RequestShape'
    BY <1>2, <2>1, <2>2, <2>3, Ends DEF CheckPdf, AnswerEmptyDocument, AgentFails
  <2>5. QED
    BY <1>1, <2>1, <2>4 DEF Shape, StoreShape, stores, histories, Born
<1>3. CASE Ask(r)
  <2>1. PICK messages : messages = thread[req[r].conv] \cup {User(turns + 1)}
    OBVIOUS
  <2>2. /\ req[r].at = "ask" /\ UNCHANGED <<conv, told, wiped>> /\ turns' = turns + 1
        /\ turns < MaxTurns /\ thread' = [thread EXCEPT ![req[r].conv] = messages]
    BY <1>3, <2>1 DEF Ask, histories
  <2>3. req[r].conv \in Convs /\ Born(req[r].conv) /\ req[r].todo = {}
    BY <1>1, <2>2 DEF Right, ConvLabels
  <2>4. turns + 1 \in 1 .. MaxTurns /\ turns + 1 >= turns /\ turns' \in turns .. MaxTurns
    BY <2>2, LibraryAssumption DEF Shape, StoreShape
  <2>5. messages \in SUBSET Messages
    BY <2>1, <2>3, <2>4, MessageTypes DEF Shape, StoreShape
  <2>6. PICK new : new = [req[r] EXCEPT !.at = "answer", !.memory = messages, !.turn = turns + 1]
    OBVIOUS
  <2>7. turns + 1 \in 0 .. MaxTurns
    BY <2>4
  <2>8. /\ new \in Request /\ new.at = "answer" /\ new.turn = turns' /\ new.todo = {}
        /\ new.conv = req[r].conv
    BY <1>1, <2>2, <2>3, <2>5, <2>6, <2>7 DEF Right, Request, Labels
  <2>9. req' = [req EXCEPT ![r] = new]
    BY <1>3, <2>1, <2>6 DEF Ask
  <2>10. Grows
    BY <2>2, <2>4 DEF Grows, Born
  <2>11. turns' \in 1 .. turns'
    BY <2>2, <2>4
  <2>12. Right(new)'
    BY <2>2, <2>3, <2>8, <2>11 DEF Right, Born, PdfLabels, ConvLabels
  <2>13. RequestShape'
    BY <2>9, <2>10, <2>12, Moves
  <2>14. StoreShape'
    BY <1>1, <2>2, <2>3, <2>5, <2>7 DEF Shape, StoreShape, Born
  <2>15. QED
    BY <2>13, <2>14 DEF Shape
<1>4. CASE Answer(r)
  <2>1. /\ UNCHANGED <<conv, turns, told, wiped>> /\ req[r].conv \in Convs /\ Born(req[r].conv)
        /\ req[r].memory \subseteq Messages /\ req[r].turn \in 1 .. turns
    BY <1>1, <1>4 DEF Answer, histories, Right, Request, ConvLabels
  <2>2. req[r].turn \in 1 .. MaxTurns
    BY <2>1, LibraryAssumption DEF Shape, StoreShape
  <2>3. req[r].memory \cup {Assistant(req[r].turn)} \in SUBSET Messages
    BY <2>1, <2>2, MessageTypes
  <2>4. RequestShape'
    BY <1>4, <2>1, Stays, GoesOn DEF Answer
  <2>5. StoreShape'
    BY <1>1, <1>4, <2>1, <2>3 DEF Answer, Shape, StoreShape, Born
  <2>6. QED
    BY <2>4, <2>5 DEF Shape
<1>5. CASE TouchLoad(r)
  <2>1. UNCHANGED <<stores, turns, histories>> /\ Grows /\ req[r].at = "touch"
    BY <1>5, Stays DEF TouchLoad, stores
  <2>2. /\ req[r].conv \in Convs /\ Born(req[r].conv) /\ req[r].todo = {}
        /\ req[r].turn \in 1 .. turns
    BY <1>1, <2>1 DEF Right, ConvLabels
  <2>3. PICK new : new = [req[r] EXCEPT !.at = "touch_write", !.title = conv[req[r].conv].title]
    OBVIOUS
  <2>4. conv[req[r].conv].title \in {"unset", "derived", "given"}
    BY <2>2 DEF Shape, StoreShape, Conversation
  <2>5. /\ new \in Request /\ new.at = "touch_write" /\ new.turn = req[r].turn
        /\ new.todo = {} /\ new.conv = req[r].conv
    BY <1>1, <2>2, <2>3, <2>4 DEF Right, Request, Labels
  <2>6. Right(new)'
    BY <2>1, <2>2, <2>5 DEF Right, Born, PdfLabels, ConvLabels, stores
  <2>7. req' = [req EXCEPT ![r] = new] \/ Done(r)
    BY <1>5, <2>3 DEF TouchLoad
  <2>8. RequestShape'
    BY <2>1, <2>6, <2>7, Moves, Ends
  <2>9. QED
    BY <1>1, <2>1, <2>8 DEF Shape, StoreShape, stores, histories, Born
<1>6. CASE TouchWrite(r)
  <2>1. /\ UNCHANGED <<thread, turns>> /\ Done(r) /\ req[r].conv \in Convs
        /\ req[r].turn \in 1 .. turns
        /\ SetTitle(req[r].conv, "derived") \/ UNCHANGED conv
        /\ told' \in {told, told \cup {<<req[r].conv, req[r].turn>>}} /\ UNCHANGED wiped
    BY <1>1, <1>6 DEF TouchWrite, Right, ConvLabels
  <2>2. req[r].turn \in 1 .. MaxTurns
    BY <2>1, LibraryAssumption DEF Shape, StoreShape
  <2>3. /\ Grows /\ conv' \in [Convs -> Conversation]
        /\ \A d \in Convs : ~Born(d)' => conv'[d] = Unborn /\ thread'[d] = {}
    BY <2>1, TitleWritten, Stays DEF Shape, StoreShape, Born
  <2>4. StoreShape'
    BY <1>1, <2>1, <2>2, <2>3 DEF Shape, StoreShape
  <2>5. QED
    BY <2>1, <2>3, <2>4, Ends DEF Shape
<1>7. QED
  BY <1>2, <1>3, <1>4, <1>5, <1>6 DEF ChatStep

LEMMA FaultShape ==
  ASSUME Shape, raced' \in SUBSET Convs,
         CrashApi \/ (\E r \in Requests : CallFails(r)) \/ \E p \in Pdfs : Process(p)
  PROVE  Shape'
<1>1. Grows /\ UNCHANGED <<queued, blob, conv, thread, turns, histories>>
  BY Stays DEF CrashApi, CallFails, Process, stores
<1>2. faults' \in 0 .. MaxFaults
  BY LibraryAssumption DEF CrashApi, CallFails, Process, Shape, StoreShape
<1>3. row' \in [Pdfs -> {"none", "uploaded", "parsed", "gone"}]
  BY DEF CrashApi, CallFails, Process, stores, Shape, StoreShape
<1>4. StoreShape'
  BY <1>1, <1>2, <1>3 DEF histories, Shape, StoreShape, Born
<1>5. CASE CrashApi
  <2>1. Idle \in Request /\ Right(Idle)'
    BY LibraryAssumption DEF Right, Idle, Request, Labels, PdfLabels, ConvLabels
  <2>2. req' = [r \in Requests |-> Idle]
    BY <1>5 DEF CrashApi
  <2>3. RequestShape'
    BY <2>1, <2>2 DEF RequestShape
  <2>4. QED
    BY <1>4, <2>3 DEF Shape
<1>6. ASSUME NEW r \in Requests, CallFails(r) PROVE Shape'
  <2>1. req[r].at = "create" => "create" \in PdfLabels /\ "discard" \in PdfLabels
    BY DEF PdfLabels
  <2>2. RequestShape'
    BY <1>1, <1>6, <2>1, GoesOn, Ends DEF CallFails
  <2>3. QED
    BY <1>4, <2>2 DEF Shape
<1>7. ASSUME NEW p \in Pdfs, Process(p) PROVE Shape'
  BY <1>1, <1>4, <1>7 DEF Process, Shape, RequestShape, Right, Born
<1>8. QED
  BY <1>5, <1>6, <1>7

LEMMA OverlappingType == ASSUME Shape, Next PROVE raced' \in SUBSET Convs
  BY DEF Next, Overlapping, Shape, StoreShape

LEMMA ShapeStep == ASSUME Shape, [Next]_vars PROVE Shape'
<1>1. CASE UNCHANGED vars
  BY <1>1 DEF vars, stores, histories, Shape, StoreShape, RequestShape, Right, Born
<1>2. CASE Next
  BY <1>2, OverlappingType, UploadShape, DeletePdfShape, ConversationShape, ChatShape, FaultShape
     DEF Next
<1>3. QED
  BY <1>1, <1>2

-----------------------------------------------------------------------------
\* What the ways on do to the requests.

LEMMA BeginEffect ==
  ASSUME Shape, NEW r \in Requests, NEW label, NEW p, NEW c, Begin(r, label, p, c)
  PROVE  /\ req[r] = Idle /\ req[r].at = "idle" /\ \A q \in Requests \ {r} : req'[q] = req[q]
         /\ req'[r].at = label /\ req'[r].pdf = p /\ req'[r].conv = c /\ req'[r].todo = {}
  BY DEF Begin, Idle, Shape, RequestShape

LEMMA GotoEffect ==
  ASSUME Shape, NEW r \in Requests, NEW label, Goto(r, label)
  PROVE  /\ \A q \in Requests \ {r} : req'[q] = req[q]
         /\ req'[r].at = label /\ req'[r].pdf = req[r].pdf /\ req'[r].conv = req[r].conv
         /\ req'[r].todo = req[r].todo /\ req'[r].memory = req[r].memory
         /\ req'[r].turn = req[r].turn
  BY DEF Goto, Shape, RequestShape, Request

LEMMA DoneEffect ==
  ASSUME Shape, NEW r \in Requests, Done(r)
  PROVE  /\ \A q \in Requests \ {r} : req'[q] = req[q]
         /\ req'[r].at = "idle" /\ req'[r].pdf = None /\ req'[r].conv = None
  BY DEF Done, Idle, Shape, RequestShape

LEMMA ListEffect ==
  ASSUME Shape, NEW r \in Requests, ListConversations(r)
  PROVE  /\ \A q \in Requests \ {r} : req'[q] = req[q]
         /\ req'[r].todo = {c \in Convs : Live(c) /\ conv[c].pdf = req[r].pdf}
         /\ req'[r].at = IF req'[r].todo = {} THEN "delete_row" ELSE "wipe_all"
         /\ req'[r].pdf = req[r].pdf /\ req'[r].conv = req[r].conv
<1>1. PICK found : found = {c \in Convs : Live(c) /\ conv[c].pdf = req[r].pdf}
  OBVIOUS
<1>2. req' = [req EXCEPT ![r].at = IF found = {} THEN "delete_row" ELSE "wipe_all",
                         ![r].todo = found]
  BY <1>1 DEF ListConversations
<1>3. QED
  BY <1>1, <1>2 DEF Shape, RequestShape, Request

LEMMA WipeEffect ==
  ASSUME Shape, NEW r \in Requests, NEW c \in Convs, WipeOne(r, c)
  PROVE  /\ \A q \in Requests \ {r} : req'[q] = req[q]
         /\ req'[r].todo = req[r].todo \ {c}
         /\ req'[r].at = IF req[r].todo = {c} THEN "delete_row" ELSE "wipe_all"
         /\ req'[r].pdf = req[r].pdf /\ req'[r].conv = req[r].conv
  BY DEF WipeOne, Shape, RequestShape, Request

-----------------------------------------------------------------------------
\* Uploads and deletes.

Watched == {"create", "enqueue", "discard", "list", "wipe_all", "delete_row", "unlink"}

LEMMA WatchedPdfs ==
  ASSUME Shape, NEW r \in Requests, req[r].at \in Watched
  PROVE  req[r].pdf \in Pdfs /\ req[r].at \in PdfLabels
  BY DEF Shape, RequestShape, Right, Watched, PdfLabels

\* Requests about conversations leave the documents as they are.
LEMMA OtherRequests ==
  ASSUME Shape, UploadInv, NEW r \in Requests, UNCHANGED <<row, queued, blob, acked, shelved, faults>>,
         \A q \in Requests \ {r} : req'[q] = req[q],
         req[r].at \notin {"create", "unlink"}, req'[r].at \notin Watched
  PROVE  UploadInv'
<1>1. \A q \in Requests : UploadOK(q)'
  BY DEF UploadInv, UploadOK, Uploading, Exists, Watched
<1>2. BlobLeaksOnlyByFault'
  BY DEF UploadInv, BlobLeaksOnlyByFault, Exists
<1>3. QED
  BY <1>1, <1>2 DEF UploadInv, AckedIsStored, Exists

LEMMA ConversationUploads ==
  ASSUME Shape, UploadInv, NEW r \in Requests, ConversationStep(r) \/ ChatStep(r)
  PROVE  UploadInv'
<1>1. UNCHANGED <<row, queued, blob, acked, shelved, faults>>
  BY DEF ConversationStep, CreateConversation, InsertConversation, RenameConversation,
         DeleteConversation, WriteRename, WipeThread, DropConversation, ChatStep, Chat, CheckPdf,
         AnswerEmptyDocument, Ask, Answer, AgentFails, TouchLoad, TouchWrite, stores, histories
<1> DEFINE Good == /\ req[r].at \notin {"create", "unlink"} /\ req'[r].at \notin Watched
                   /\ \A q \in Requests \ {r} : req'[q] = req[q]
<1>2. ASSUME NEW label \in {"insert", "retitle", "wipe", "check_pdf"}, NEW p, NEW c,
             Begin(r, label, p, c)
      PROVE  Good
  BY <1>2, BeginEffect DEF Watched
<1>3. ASSUME Done(r), req[r].at \notin {"create", "unlink"} PROVE Good
  BY <1>3, DoneEffect DEF Watched
<1>4. ASSUME NEW label \in {"delete_conversation", "ask", "touch"}, Goto(r, label),
             req[r].at \notin {"create", "unlink"}
      PROVE  Good
  BY <1>4, GotoEffect DEF Watched
<1>5. ASSUME Ask(r) PROVE Good
  BY <1>5 DEF Ask, Watched, Shape, RequestShape, Request
<1>6. ASSUME TouchLoad(r) PROVE Good
  <2>1. CASE Done(r)
    BY <1>3, <1>6, <2>1 DEF TouchLoad
  <2>2. CASE ~Done(r)
    BY <1>6, <2>2 DEF TouchLoad, Watched, Shape, RequestShape, Request
  <2>3. QED
    BY <2>1, <2>2
<1>7. CASE ConversationStep(r)
  <2>1. ASSUME NEW p \in Pdfs, CreateConversation(r, p) PROVE Good
    BY <1>2, <2>1 DEF CreateConversation
  <2>2. ASSUME NEW c \in Convs, RenameConversation(r, c) \/ DeleteConversation(r, c) PROVE Good
    BY <1>2, <2>2 DEF RenameConversation, DeleteConversation
  <2>3. ASSUME (\E c \in Convs : InsertConversation(r, c)) \/ WriteRename(r) \/ DropConversation(r)
        PROVE  Good
    BY <1>3, <2>3 DEF InsertConversation, WriteRename, DropConversation
  <2>4. ASSUME WipeThread(r) PROVE Good
    BY <1>4, <2>4 DEF WipeThread
  <2>5. Good
    BY <1>7, <2>1, <2>2, <2>3, <2>4 DEF ConversationStep
  <2>6. QED
    BY <1>1, <2>5, OtherRequests
<1>8. CASE ChatStep(r)
  <2>1. ASSUME NEW c \in Convs, Chat(r, c) PROVE Good
    BY <1>2, <2>1 DEF Chat
  <2>2. ASSUME \/ CheckPdf(r) \/ AnswerEmptyDocument(r) \/ AgentFails(r) \/ TouchWrite(r)
               \/ Answer(r)
        PROVE  Good
    BY <1>3, <1>4, <2>2 DEF CheckPdf, AnswerEmptyDocument, AgentFails, TouchWrite, Answer
  <2>3. Good
    BY <1>5, <1>6, <1>8, <2>1, <2>2 DEF ChatStep
  <2>4. QED
    BY <1>1, <2>3, OtherRequests
<1>9. QED
  BY <1>7, <1>8

LEMMA StoreFileUploads ==
  ASSUME Shape, UploadInv, NEW r \in Requests, NEW p \in Pdfs, StoreFile(r, p)
  PROVE  UploadInv'
<1>1. /\ \A q \in Requests \ {r} : req'[q] = req[q]
      /\ req'[r].at = "create" /\ req'[r].pdf = p /\ req[r].at = "idle"
      /\ row[p] = "none" /\ p \notin acked \cup queued /\ \A q \in Requests : req[q].pdf # p
      /\ blob' = blob \cup {p} /\ UNCHANGED <<row, queued, acked, shelved, faults>>
  BY BeginEffect DEF StoreFile, histories, UploadInv
<1>2. ASSUME NEW q \in Requests PROVE UploadOK(q)'
  BY <1>1 DEF UploadInv, UploadOK, Uploading, Exists
<1>3. BlobLeaksOnlyByFault'
  BY <1>1 DEF UploadInv, BlobLeaksOnlyByFault, Exists
<1>4. QED
  BY <1>1, <1>2, <1>3 DEF UploadInv, AckedIsStored, Exists

LEMMA CreateRowUploads ==
  ASSUME Shape, UploadInv, NEW r \in Requests, CreateRow(r) PROVE UploadInv'
<1> DEFINE p == req[r].pdf
<1>1. /\ \A q \in Requests \ {r} : req'[q] = req[q]
      /\ req[r].at = "create" /\ req'[r].at \in {"enqueue", "discard"} /\ req'[r].pdf = req[r].pdf
      /\ req'[r].at = "discard" => faults' > 0
      /\ faults' >= faults /\ faults \in Nat /\ faults' \in Nat
      /\ row' = [row EXCEPT ![p] = "uploaded"] /\ UNCHANGED <<queued, blob, acked, shelved>>
  BY GotoEffect, LibraryAssumption DEF CreateRow, histories, Shape, StoreShape
<1>2. p \in Pdfs /\ p \in blob /\ row[p] = "none" /\ p \notin acked \cup queued
  BY <1>1 DEF Shape, RequestShape, Right, PdfLabels, UploadInv, UploadOK, Uploading
<1>3. \A o \in Pdfs : row'[o] = IF o = p THEN "uploaded" ELSE row[o]
  BY <1>1 DEF Shape, StoreShape
<1>4. ASSUME NEW q \in Requests PROVE UploadOK(q)'
  <2>1. UploadOK(q) /\ UploadOK(r)
    BY DEF UploadInv
  <2>2. CASE q = r
    BY <1>1, <1>2, <1>3, <2>1, <2>2 DEF UploadOK, Uploading, Exists
  <2>3. CASE q # r
    <3>1. req'[q] = req[q] /\ (req[q].at \in Watched => req[q].pdf \in Pdfs)
      BY <1>1, <2>3, WatchedPdfs
    <3>2. Uploading(q) => req[q].pdf # p
      BY <1>1, <2>1, <2>3 DEF UploadOK, Uploading
    <3>3. \A o \in Requests \ {q} : (Uploading(o)' => Uploading(o)) /\ req'[o].pdf = req[o].pdf
      BY <1>1 DEF Uploading
    <3>4. row[p] = "none"
      BY <1>2
    <3>5. QED
      BY <1>1, <1>3, <2>1, <3>1, <3>2, <3>3, <3>4 DEF UploadOK, Uploading, Exists, Watched
  <2>4. QED
    BY <2>2, <2>3
<1>5. BlobLeaksOnlyByFault'
  <2>1. ASSUME faults' = 0, NEW b \in blob
        PROVE  Exists(b)'
               \/ \E q \in Requests : req'[q].pdf = b /\ req'[q].at \in {"create", "unlink"}
    <3>1. CASE b = p
      BY <1>2, <1>3, <3>1 DEF Exists
    <3>2. CASE b # p
      <4>1. b \in Pdfs /\ row'[b] = row[b] /\ faults = 0
        BY <1>1, <1>3, <2>1, <3>2 DEF Shape, StoreShape
      <4>2. \A q \in Requests : req[q].pdf = b => req'[q] = req[q]
        BY <1>1, <3>2
      <4>3. QED
        BY <2>1, <4>1, <4>2 DEF UploadInv, BlobLeaksOnlyByFault, Exists
    <3>3. QED
      BY <3>1, <3>2
  <2>2. QED
    BY <1>1, <2>1 DEF BlobLeaksOnlyByFault
<1>6. (\A o \in acked \cup queued : row[o] # "none")' /\ AckedIsStored'
  BY <1>1, <1>2, <1>3 DEF UploadInv, AckedIsStored, Exists, Shape, StoreShape
<1>7. QED
  BY <1>1, <1>4, <1>5, <1>6 DEF UploadInv

\* No step but CreateRow gives a document its row; a file goes with its upload
\* or after its row.
RowsMoveOn(r) ==
  /\ \A p \in Pdfs : /\ row[p] = "none" <=> row'[p] = "none"
                     /\ row[p] = "gone" => row'[p] = "gone"
                     /\ Exists(p)' => Exists(p)
  /\ \A p \in blob : p \in blob' \/ row'[p] = "gone" \/ (req[r].at = "discard" /\ req[r].pdf = p)
  /\ \A p \in acked' \cup queued' : p \in acked \cup queued \/ (Uploading(r) /\ req[r].pdf = p)

\* The other requests rely on nothing that such a step of r changes.
LEMMA OthersUpload ==
  ASSUME Shape, UploadInv, NEW r \in Requests, NEW q \in Requests, q # r,
         \A o \in Requests \ {r} : req'[o] = req[o],
         Uploading(r)' => Uploading(r) /\ req'[r].pdf = req[r].pdf,
         faults' \in Nat, faults' >= faults, RowsMoveOn(r)
  PROVE  UploadOK(q)'
<1>1. UploadOK(q) /\ UploadOK(r) /\ req'[q] = req[q] /\ faults \in Nat
  BY LibraryAssumption DEF UploadInv, Shape, StoreShape
<1>2. CASE req[q].at \notin Watched
  BY <1>1, <1>2 DEF UploadOK, Uploading, Watched
<1>3. CASE req[q].at \in Watched
  <2>0. PICK p : p = req[q].pdf
    OBVIOUS
  <2>1. p \in Pdfs
    BY <1>3, <2>0, WatchedPdfs
  <2>2. Uploading(q) =>
          ~(Uploading(r) /\ req[r].pdf = p)
          /\ \A o \in Requests \ {q} : Uploading(o)' => req'[o].pdf # p
    BY <1>1, <2>0 DEF UploadOK, Uploading
  <2>3. Uploading(q) => (p \in blob => p \in blob' \/ row'[p] = "gone") /\ p \notin acked' \cup queued'
    BY <1>1, <2>0, <2>2 DEF RowsMoveOn, UploadOK, Uploading
  <2>4. /\ row[p] = "none" <=> row'[p] = "none"
        /\ row[p] = "gone" => row'[p] = "gone"
        /\ Exists(p)' => Exists(p) /\ row'[p] # "gone"
    BY <2>1 DEF RowsMoveOn, Exists
  <2>5. req'[q].pdf = p
    BY <1>1, <2>0
  <2>6. p \in blob /\ req[q].at = "create" => p \in blob'
    BY <1>1, <2>0, <2>3, <2>4, <2>5 DEF Uploading, UploadOK
  <2>7. QED
    BY <1>1, <2>0, <2>2, <2>3, <2>4, <2>5, <2>6 DEF UploadOK, Uploading, Exists
<1>4. QED
  BY <1>2, <1>3

LEMMA UploadUploads ==
  ASSUME Shape, UploadInv, NEW r \in Requests, DiscardFile(r) \/ Enqueue(r) PROVE UploadInv'
<1>1. /\ \A q \in Requests \ {r} : req'[q] = req[q]
      /\ req'[r].at = "idle" /\ UNCHANGED row
      /\ faults \in Nat /\ faults' \in Nat /\ faults' >= faults
      /\ Uploading(r) /\ req[r].at \in {"discard", "enqueue"} /\ UploadOK(r)
  BY DoneEffect, LibraryAssumption
     DEF DiscardFile, Enqueue, UploadInv, Uploading, Shape, StoreShape
<1>2. \/ /\ req[r].at = "discard" /\ blob' = blob \ {req[r].pdf}
         /\ UNCHANGED <<queued, acked, shelved>>
      \/ /\ req[r].at = "enqueue" /\ UNCHANGED blob
         /\ \/ UNCHANGED <<queued, acked, shelved>>
            \/ /\ Exists(req[r].pdf) /\ queued' = queued \cup {req[r].pdf}
               /\ acked' \in {acked, acked \cup {req[r].pdf}} /\ UNCHANGED shelved
            \/ /\ acked' = acked \cup {req[r].pdf} /\ shelved' = shelved \cup {req[r].pdf}
               /\ UNCHANGED queued
  BY DEF DiscardFile, Enqueue, histories
<1>3. RowsMoveOn(r)
  BY <1>1, <1>2 DEF RowsMoveOn, Exists
<1>4. \A q \in Requests : UploadOK(q)'
  BY <1>1, <1>3, OthersUpload DEF UploadOK, Uploading
<1>5. /\ req[r].pdf \notin acked \cup queued /\ req[r].pdf \notin shelved
      /\ req[r].at = "enqueue" => row[req[r].pdf] # "none"
      /\ req[r].at = "enqueue" /\ Exists(req[r].pdf) => req[r].pdf \in blob
  BY <1>1 DEF UploadOK, Shape, StoreShape
<1>6. (\A p \in acked \cup queued : row[p] # "none")'
  BY <1>1, <1>2, <1>5 DEF UploadInv
<1>7. AckedIsStored'
  BY <1>1, <1>2, <1>5 DEF UploadInv, AckedIsStored, Exists
<1>8. BlobLeaksOnlyByFault'
  <2>1. CASE req[r].at = "discard"
    BY <1>1, <2>1 DEF UploadOK, BlobLeaksOnlyByFault
  <2>2. CASE req[r].at = "enqueue"
    <3>1. faults' = 0 => faults = 0
      BY <1>1
    <3>2. QED
      BY <1>1, <1>2, <2>2, <3>1 DEF UploadInv, BlobLeaksOnlyByFault, Exists
  <2>3. QED
    BY <1>1, <2>1, <2>2
<1>9. QED
  BY <1>4, <1>6, <1>7, <1>8 DEF UploadInv

LEMMA DeleteUploads ==
  ASSUME Shape, UploadInv, NEW r \in Requests, DeletePdfStep(r) PROVE UploadInv'
<1>1. UNCHANGED <<acked, shelved, faults>> /\ faults \in Nat
  <2>1. UNCHANGED <<acked, shelved, faults>>
    BY DEF DeletePdfStep, DeletePdf, ListConversations, WipeOne, DeleteRow, DeleteFile, histories
  <2>2. QED
    BY <2>1, LibraryAssumption DEF Shape, StoreShape
<1>2. ASSUME UNCHANGED <<row, queued, blob>>, \A q \in Requests \ {r} : req'[q] = req[q],
             req[r].at \notin {"create", "unlink"},
             req'[r].at \in {"list", "wipe_all", "delete_row"},
             row[req'[r].pdf] # "none"
      PROVE  UploadInv'
  <2>1. RowsMoveOn(r)
    BY <1>1, <1>2 DEF RowsMoveOn, Exists
  <2>2. \A q \in Requests : UploadOK(q)'
    BY <1>1, <1>2, <2>1, OthersUpload DEF UploadOK, Uploading
  <2>3. BlobLeaksOnlyByFault'
    BY <1>1, <1>2 DEF UploadInv, BlobLeaksOnlyByFault, Exists
  <2>4. QED
    BY <1>1, <1>2, <2>2, <2>3 DEF UploadInv, AckedIsStored, Exists
<1>3. ASSUME NEW p \in Pdfs, DeletePdf(r, p) PROVE UploadInv'
  BY <1>2, <1>3, BeginEffect DEF DeletePdf, stores, Exists
<1>4. CASE ListConversations(r) \/ \E c \in Convs : WipeOne(r, c)
  <2>1. UNCHANGED <<row, queued, blob>> /\ req[r].at \in {"list", "wipe_all"}
    BY <1>4 DEF ListConversations, WipeOne, stores
  <2>2. row[req[r].pdf] # "none"
    BY <2>1 DEF UploadInv, UploadOK
  <2>3. /\ \A q \in Requests \ {r} : req'[q] = req[q]
        /\ req'[r].at \in {"wipe_all", "delete_row"} /\ req'[r].pdf = req[r].pdf
    BY <1>4, ListEffect, WipeEffect DEF ListConversations
  <2>4. QED
    BY <1>2, <2>1, <2>2, <2>3
<1>5. CASE DeleteRow(r)
  <2>1. PICK p : p = req[r].pdf
    OBVIOUS
  <2>2. /\ req[r].at = "delete_row" /\ row' = [row EXCEPT ![p] = "gone"] /\ UNCHANGED blob
        /\ queued' = queued \ {p} /\ \A q \in Requests \ {r} : req'[q] = req[q]
        /\ req'[r].at = "unlink" /\ req'[r].pdf = p
    BY <1>5, <2>1, GotoEffect DEF DeleteRow, Cascade
  <2>3. p \in Pdfs /\ row[p] # "none"
    BY <2>1, <2>2, WatchedPdfs DEF UploadInv, UploadOK, Watched
  <2>4. \A o \in Pdfs : row'[o] = IF o = p THEN "gone" ELSE row[o]
    BY <2>2 DEF Shape, StoreShape
  <2>5. RowsMoveOn(r)
    BY <1>1, <2>2, <2>3, <2>4 DEF RowsMoveOn, Exists
  <2>6. UploadOK(r)'
    BY <2>2, <2>3, <2>4 DEF UploadOK, Uploading
  <2>7. \A q \in Requests : UploadOK(q)'
    BY <1>1, <2>2, <2>5, <2>6, OthersUpload DEF Uploading
  <2>8. BlobLeaksOnlyByFault'
    BY <1>1, <2>1, <2>2, <2>3, <2>4 DEF UploadInv, BlobLeaksOnlyByFault, Exists, Shape, StoreShape
  <2>9. (\A o \in acked \cup queued : row[o] # "none")' /\ AckedIsStored'
    BY <1>1, <2>2, <2>4 DEF UploadInv, AckedIsStored, Exists, Shape, StoreShape
  <2>10. QED
    BY <2>7, <2>8, <2>9 DEF UploadInv
<1>6. CASE DeleteFile(r)
  <2>1. /\ req[r].at = "unlink" /\ blob' = blob \ {req[r].pdf} /\ UNCHANGED <<row, queued>>
        /\ \A q \in Requests \ {r} : req'[q] = req[q]
        /\ req'[r].at = "idle"
    BY <1>6, DoneEffect DEF DeleteFile
  <2>2. row[req[r].pdf] = "gone"
    BY <2>1 DEF UploadInv, UploadOK
  <2>3. RowsMoveOn(r)
    BY <1>1, <2>1, <2>2 DEF RowsMoveOn, Exists
  <2>4. \A q \in Requests : UploadOK(q)'
    BY <1>1, <2>1, <2>3, OthersUpload DEF UploadOK, Uploading
  <2>5. BlobLeaksOnlyByFault'
    BY <1>1, <2>1 DEF UploadInv, BlobLeaksOnlyByFault, Exists
  <2>6. (\A o \in acked \cup queued : row[o] # "none")' /\ AckedIsStored'
    BY <1>1, <2>1, <2>2 DEF UploadInv, AckedIsStored, Exists
  <2>7. QED
    BY <2>4, <2>5, <2>6 DEF UploadInv
<1>7. QED
  BY <1>3, <1>4, <1>5, <1>6 DEF DeletePdfStep

LEMMA FaultUploads ==
  ASSUME Shape, UploadInv,
         CrashApi \/ (\E r \in Requests : CallFails(r)) \/ \E p \in Pdfs : Process(p)
  PROVE  UploadInv'
<1>1. UNCHANGED <<queued, blob, acked, shelved>> /\ faults \in Nat
  BY LibraryAssumption
     DEF CrashApi, CallFails, Process, stores, histories, Shape, StoreShape
<1>2. CASE CrashApi
  <2>1. faults' > 0 /\ UNCHANGED row /\ req' = [r \in Requests |-> Idle]
    BY <1>1, <1>2 DEF CrashApi, stores
  <2>2. QED
    BY <1>1, <2>1
       DEF UploadInv, UploadOK, Uploading, Idle, BlobLeaksOnlyByFault, AckedIsStored, Exists
<1>3. ASSUME NEW r \in Requests, CallFails(r) PROVE UploadInv'
  <2>1. /\ faults' > 0 /\ faults' \in Nat /\ faults' >= faults /\ UNCHANGED row
        /\ \A q \in Requests \ {r} : req'[q] = req[q]
        /\ \/ req'[r].at = "idle"
           \/ req[r].at = "create" /\ req'[r].at = "discard" /\ req'[r].pdf = req[r].pdf
    BY <1>1, <1>3, GotoEffect, DoneEffect DEF CallFails, stores
  <2>2. RowsMoveOn(r)
    BY <1>1, <2>1 DEF RowsMoveOn, Exists
  <2>3. UploadOK(r)'
    BY <1>1, <2>1 DEF UploadInv, UploadOK, Uploading
  <2>4. \A q \in Requests : UploadOK(q)'
    BY <2>1, <2>2, <2>3, OthersUpload DEF Uploading
  <2>5. QED
    BY <1>1, <2>1, <2>4 DEF UploadInv, BlobLeaksOnlyByFault, AckedIsStored, Exists
<1>4. ASSUME NEW p \in Pdfs, Process(p) PROVE UploadInv'
  <2>1. /\ UNCHANGED <<req, faults>>
        /\ \A o \in Pdfs : row'[o] = row[o] \/ (Exists(o) /\ Exists(o)')
    BY <1>4 DEF Process, Exists, Shape, StoreShape
  <2>2. ASSUME NEW r \in Requests PROVE UploadOK(r)'
    <3>1. UploadOK(r) /\ (req[r].at \in Watched => req[r].pdf \in Pdfs)
      BY WatchedPdfs DEF UploadInv
    <3>2. QED
      BY <1>1, <2>1, <3>1 DEF UploadOK, Uploading, Exists, Watched
  <2>3. BlobLeaksOnlyByFault'
    BY <1>1, <2>1 DEF UploadInv, BlobLeaksOnlyByFault, Exists, Shape, StoreShape
  <2>4. (\A o \in acked \cup queued : row[o] # "none")' /\ AckedIsStored'
    BY <1>1, <2>1 DEF UploadInv, AckedIsStored, Exists, Shape, StoreShape
  <2>5. QED
    BY <2>2, <2>3, <2>4 DEF UploadInv
<1>5. QED
  BY <1>2, <1>3, <1>4

LEMMA UploadInvStep == ASSUME Shape, UploadInv, [Next]_vars PROVE UploadInv'
<1>1. CASE UNCHANGED vars
  BY <1>1 DEF vars, stores, histories, UploadInv, UploadOK, Uploading, BlobLeaksOnlyByFault, AckedIsStored,
              Exists
<1>2. CASE Next
  BY <1>2, StoreFileUploads, CreateRowUploads, UploadUploads, DeleteUploads, ConversationUploads,
     FaultUploads DEF Next, UploadStep
<1>3. QED
  BY <1>1, <1>2

-----------------------------------------------------------------------------
\* Conversations that one request at a time is busy with.

\* Nothing about conversation c changes but how far requests are.
Same(c) ==
  /\ conv'[c] = conv[c] /\ thread'[c] = thread[c]
  /\ \A t \in told' \ wiped' : t[1] = c => t \in told \ wiped

OthersStay(r) == \A q \in Requests \ {r} : req'[q] = req[q]

LEMMA StaysLone ==
  ASSUME NEW r \in Requests, NEW c \in Convs, Lone(c), OthersStay(r), Same(c), AloneOK(r, c)'
  PROVE  Lone(c)'
<1>1. ASSUME NEW q \in Requests, q # r PROVE AloneOK(q, c)'
  BY <1>1 DEF Lone, OthersStay, Same, AloneOK, Live
<1>2. QED
  BY <1>1 DEF Lone, Same

\* While r is busy with c, nobody else is, and so nobody relies on c.
LEMMA BusyAlone ==
  ASSUME Shape, NEW r \in Requests, NEW c \in Convs, Born(c), c \notin Overlapping, BusyWith(r, c),
         OthersStay(r), conv'[c].pdf = conv[c].pdf, AloneOK(r, c)',
         conv'[c].state = "gone" => thread'[c] = {},
         \A t \in told' \ wiped' : t[1] = c => {User(t[2]), Assistant(t[2])} \subseteq thread'[c]
  PROVE  Lone(c)'
<1>1. ASSUME NEW q \in Requests, q # r PROVE AloneOK(q, c)'
  <2>1. ~BusyWith(q, c)
    BY <1>1 DEF Overlapping
  <2>2. req'[q] = req[q]
    BY <1>1 DEF OthersStay
  <2>3. QED
    BY <2>1, <2>2 DEF BusyWith, AloneOK
<1>2. QED
  BY <1>1 DEF Lone

LEMMA UploadLone ==
  ASSUME Shape, NEW r \in Requests, NEW c \in Convs, Lone(c), UploadStep(r) PROVE Lone(c)'
<1>1. Same(c)
  BY DEF UploadStep, StoreFile, CreateRow, DiscardFile, Enqueue, histories, Same
<1>2. OthersStay(r) /\ req'[r].at \in {"create", "enqueue", "discard", "idle"}
      /\ (req'[r].conv = None \/ (req'[r].conv = req[r].conv /\ req[r].at = "create"))
  <2>1. ASSUME NEW p \in Pdfs, StoreFile(r, p)
        PROVE  OthersStay(r) /\ req'[r].at = "create" /\ req'[r].conv = None
    BY <2>1, BeginEffect DEF StoreFile, OthersStay
  <2>2. ASSUME CreateRow(r)
        PROVE  /\ OthersStay(r) /\ req'[r].at \in {"enqueue", "discard"}
               /\ req'[r].conv = req[r].conv /\ req[r].at = "create"
    BY <2>2, GotoEffect DEF CreateRow, OthersStay
  <2>3. ASSUME DiscardFile(r) \/ Enqueue(r)
        PROVE  OthersStay(r) /\ req'[r].at = "idle" /\ req'[r].conv = None
    BY <2>3, DoneEffect DEF DiscardFile, Enqueue, OthersStay
  <2>4. QED
    BY <2>1, <2>2, <2>3 DEF UploadStep
<1>3. req'[r].conv = None
  BY <1>2 DEF Shape, RequestShape, Right, PdfLabels
<1>4. AloneOK(r, c)'
  BY <1>2, <1>3, LibraryAssumption DEF AloneOK
<1>5. QED
  BY <1>1, <1>2, <1>4, StaysLone

\* A request about a document relies on conversations only once it has listed them.
LEMMA PdfRequestRelies ==
  ASSUME Shape', NEW r \in Requests, NEW c \in Convs, req'[r].at \in PdfLabels,
         req'[r].at \in {"wipe_all", "delete_row"} /\ req'[r].pdf = conv'[c].pdf /\ Live(c)' =>
           (req'[r].at = "wipe_all" /\ c \in req'[r].todo) \/ thread'[c] = {}
  PROVE  AloneOK(r, c)'
<1>1. req'[r].conv = None /\ None \notin Convs
  BY LibraryAssumption DEF Shape, RequestShape, Right
<1>2. QED
  BY <1>1 DEF AloneOK

LEMMA DeletePdfLone ==
  ASSUME Shape, Shape', NEW r \in Requests, NEW c \in Convs, Lone(c), c \notin Overlapping,
         DeletePdfStep(r)
  PROVE  Lone(c)'
<1>1. AloneOK(r, c) /\ (req[r].at \in PdfLabels => req[r].conv = None /\ req[r].pdf \in Pdfs)
  BY DEF Lone, Shape, RequestShape, Right
<1>2. ASSUME NEW p \in Pdfs, DeletePdf(r, p) PROVE Lone(c)'
  <2>1. Same(c) /\ OthersStay(r) /\ req'[r].at = "list"
    BY <1>2, BeginEffect DEF DeletePdf, stores, histories, Same, OthersStay
  <2>2. AloneOK(r, c)'
    BY <2>1, PdfRequestRelies DEF PdfLabels
  <2>3. QED
    BY <2>1, <2>2, StaysLone
<1>3. CASE ListConversations(r)
  <2>1. Same(c) /\ OthersStay(r)
    BY <1>3, ListEffect DEF ListConversations, stores, histories, Same, OthersStay
  <2>2. /\ req'[r].todo = {d \in Convs : Live(d) /\ conv[d].pdf = req[r].pdf}
        /\ req'[r].at = IF req'[r].todo = {} THEN "delete_row" ELSE "wipe_all"
        /\ req'[r].pdf = req[r].pdf
    BY <1>3, ListEffect
  <2>3. req'[r].pdf = conv'[c].pdf /\ Live(c)' => req'[r].at = "wipe_all" /\ c \in req'[r].todo
    BY <2>1, <2>2 DEF Same, Live
  <2>4. AloneOK(r, c)'
    BY <2>2, <2>3, PdfRequestRelies DEF PdfLabels
  <2>5. QED
    BY <2>1, <2>4, StaysLone
<1>4. ASSUME NEW d \in Convs, WipeOne(r, d) PROVE Lone(c)'
  <2>1. /\ OthersStay(r) /\ req'[r].at \in {"wipe_all", "delete_row"}
        /\ req'[r].todo = req[r].todo \ {d} /\ req'[r].pdf = req[r].pdf
        /\ req'[r].at = "delete_row" => req[r].todo = {d}
    BY <1>4, WipeEffect DEF OthersStay
  <2>2. /\ UNCHANGED conv /\ req[r].at = "wipe_all" /\ d \in req[r].todo
        /\ \A e \in Convs : thread'[e] = IF e = d THEN {} ELSE thread[e]
        /\ \A t \in told' \ wiped' : t \in told \ wiped /\ t[1] # d
    BY <1>4 DEF WipeOne, Wipe, Shape, StoreShape
  <2>3. req[r].pdf = conv[c].pdf /\ Live(c) => c \in req[r].todo \/ thread[c] = {}
    BY <1>1, <2>2 DEF AloneOK
  <2>4. req'[r].pdf = conv'[c].pdf /\ Live(c)' =>
          (req'[r].at = "wipe_all" /\ c \in req'[r].todo) \/ thread'[c] = {}
    BY <2>1, <2>2, <2>3 DEF Live
  <2>5. AloneOK(r, c)'
    BY <2>1, <2>4, PdfRequestRelies DEF PdfLabels
  <2>6. CASE c # d
    <3>1. Same(c)
      BY <2>2, <2>6 DEF Same
    <3>2. QED
      BY <2>1, <2>5, <3>1, StaysLone
  <2>7. CASE c = d
    <3>1. Born(c) /\ conv[c].pdf = req[r].pdf /\ BusyWith(r, c)
      BY <2>2, <2>7 DEF Shape, RequestShape, Right, BusyWith
    <3>2. thread'[c] = {} /\ \A t \in told' \ wiped' : t[1] # c
      BY <2>2, <2>7
    <3>3. QED
      BY <2>1, <2>2, <2>5, <3>1, <3>2, BusyAlone
  <2>8. QED
    BY <2>6, <2>7
<1>5. CASE DeleteRow(r)
  <2>1. OthersStay(r) /\ req'[r].at = "unlink" /\ UNCHANGED <<thread, told, wiped>>
        /\ req[r].at = "delete_row" /\ Cascade(req[r].pdf)
    BY <1>5, GotoEffect DEF DeleteRow, histories, OthersStay
  <2>2. AloneOK(r, c)'
    BY <2>1, PdfRequestRelies DEF PdfLabels
  <2>3. CASE conv[c].pdf # req[r].pdf
    <3>1. Same(c)
      BY <2>1, <2>3 DEF Cascade, Same
    <3>2. QED
      BY <2>1, <2>2, <3>1, StaysLone
  <2>4. CASE conv[c].pdf = req[r].pdf
    <3>1. Born(c) /\ BusyWith(r, c)
      BY <1>1, <2>1, <2>4, LibraryAssumption
         DEF Shape, StoreShape, Unborn, BusyWith, PdfLabels
    <3>2. thread[c] = {}
      BY <1>1, <2>1, <2>4, <3>1
         DEF Lone, AloneOK, Live, Born, Shape, StoreShape, Conversation
    <3>3. conv'[c].pdf = conv[c].pdf
      BY <2>1, <2>4 DEF Cascade, Shape, StoreShape, Conversation
    <3>4. \A t \in told' \ wiped' : t[1] = c => {User(t[2]), Assistant(t[2])} \subseteq thread'[c]
      BY <2>1 DEF Lone
    <3>5. QED
      BY <2>1, <2>2, <3>1, <3>2, <3>3, <3>4, BusyAlone
  <2>5. QED
    BY <2>3, <2>4
<1>6. CASE DeleteFile(r)
  <2>1. Same(c) /\ OthersStay(r) /\ req'[r].at = "idle" /\ req'[r].conv = None
    BY <1>6, DoneEffect DEF DeleteFile, histories, Same, OthersStay
  <2>2. AloneOK(r, c)'
    BY <2>1, LibraryAssumption DEF AloneOK
  <2>3. QED
    BY <2>1, <2>2, StaysLone
<1>7. QED
  BY <1>2, <1>3, <1>4, <1>5, <1>6 DEF DeletePdfStep

LEMMA Elsewhere ==
  ASSUME NEW r \in Requests, NEW c \in Convs, req'[r].conv # c,
         req'[r].at \notin {"wipe_all", "delete_row"}
  PROVE  AloneOK(r, c)'
  BY DEF AloneOK

LEMMA TitleEffect ==
  ASSUME Shape, NEW d \in Convs, NEW title, SetTitle(d, title)
  PROVE  /\ \A c \in Convs : conv'[c].state = conv[c].state /\ conv'[c].pdf = conv[c].pdf
         /\ \A c \in Convs \ {d} : conv'[c] = conv[c]
  BY DEF SetTitle, Shape, StoreShape, Conversation

LEMMA ConversationLone ==
  ASSUME Shape, Shape', NEW r \in Requests, NEW c \in Convs, Lone(c), c \notin Overlapping,
         ConversationStep(r)
  PROVE  Lone(c)'
<1>1. AloneOK(r, c) /\ (req[r].at \in ConvLabels => req[r].conv \in Convs /\ Born(req[r].conv))
      /\ None \notin Convs
  BY LibraryAssumption DEF Lone, Shape, RequestShape, Right
<1>2. ASSUME NEW p \in Pdfs, CreateConversation(r, p) PROVE Lone(c)'
  <2>1. Same(c) /\ OthersStay(r) /\ req'[r].at = "insert"
    BY <1>2, BeginEffect DEF CreateConversation, stores, histories, Same, OthersStay
  <2>2. AloneOK(r, c)'
    BY <2>1, PdfRequestRelies DEF PdfLabels
  <2>3. QED
    BY <2>1, <2>2, StaysLone
<1>3. ASSUME NEW d \in Convs, InsertConversation(r, d) PROVE Lone(c)'
  <2>1. /\ OthersStay(r) /\ req'[r].at = "idle" /\ req'[r].conv = None
        /\ UNCHANGED <<thread, told, wiped>> /\ conv[d] = Unborn
        /\ \A e \in Convs \ {d} : conv'[e] = conv[e]
        /\ conv'[d] = conv[d] \/ conv'[d].state = "live"
    <3>1. /\ OthersStay(r) /\ req'[r].at = "idle" /\ req'[r].conv = None
          /\ UNCHANGED <<thread, told, wiped>> /\ conv[d] = Unborn
      BY <1>3, DoneEffect DEF InsertConversation, histories, OthersStay
    <3>2. CASE UNCHANGED conv
      BY <3>1, <3>2
    <3>3. CASE conv' = [conv EXCEPT ![d] = [Unborn EXCEPT !.state = "live", !.pdf = req[r].pdf]]
      BY <3>1, <3>3 DEF Shape, StoreShape, Unborn
    <3>4. QED
      BY <1>3, <3>2, <3>3 DEF InsertConversation
  <2>2. CASE conv'[c] = conv[c]
    <3>1. Same(c)
      BY <2>1, <2>2 DEF Same
    <3>2. QED
      BY <1>1, <2>1, <3>1, Elsewhere, StaysLone
  <2>3. CASE conv'[c] # conv[c]
    <3>1. c = d /\ conv'[c].state = "live" /\ ~Born(c) /\ thread[c] = {} /\ thread'[c] = {}
      BY <2>1, <2>3 DEF Shape, StoreShape, Born, Unborn
    <3>2. ASSUME NEW q \in Requests PROVE AloneOK(q, c)'
      <4>1. req[q].conv # c
        <5>1. req[q].conv \in Convs => req[q].at \in ConvLabels
          BY LibraryAssumption
             DEF Shape, RequestShape, Right, Request, Labels, PdfLabels, ConvLabels, Idle
        <5>2. QED
          BY <3>1, <5>1 DEF Shape, RequestShape, Right
      <4>2. req'[q].conv # c
        BY <1>1, <2>1, <4>1 DEF OthersStay
      <4>3. QED
        BY <3>1, <4>2 DEF AloneOK
    <3>3. \A t \in told' \ wiped' : t[1] # c
      BY <2>1, <3>1 DEF Lone
    <3>4. QED
      BY <3>1, <3>2, <3>3 DEF Lone
  <2>4. QED
    BY <2>2, <2>3
<1>4. ASSUME NEW d \in Convs, RenameConversation(r, d) \/ DeleteConversation(r, d) PROVE Lone(c)'
  <2>1. /\ Same(c) /\ OthersStay(r) /\ req'[r].at \in {"retitle", "wipe"} /\ req'[r].conv = d
        /\ Live(d) /\ UNCHANGED conv
    BY <1>4, BeginEffect
       DEF RenameConversation, DeleteConversation, stores, histories, Same, OthersStay
  <2>2. AloneOK(r, c)'
    BY <2>1 DEF AloneOK, Live
  <2>3. QED
    BY <2>1, <2>2, StaysLone
<1>5. CASE WriteRename(r) \/ WipeThread(r) \/ DropConversation(r)
  <2>1. PICK d \in Convs : d = req[r].conv /\ Born(d)
    BY <1>1, <1>5 DEF WriteRename, WipeThread, DropConversation, ConvLabels
  <2>2. /\ OthersStay(r)
        /\ \/ req'[r].at = "idle" /\ req'[r].conv = None
           \/ req'[r].at = "delete_conversation" /\ req'[r].conv = d /\ WipeThread(r)
    BY <1>5, <2>1, DoneEffect, GotoEffect DEF WriteRename, WipeThread, DropConversation, OthersStay
  <2>3. /\ \A e \in Convs : conv'[e].pdf = conv[e].pdf
        /\ \A e \in Convs \ {d} : conv'[e] = conv[e] /\ thread'[e] = thread[e]
        /\ \A t \in told' \ wiped' : t \in told \ wiped
    BY <1>5, <2>1, TitleEffect DEF WriteRename, WipeThread, DropConversation, Wipe, histories,
       Shape, StoreShape, Conversation
  <2>4. CASE c # d
    <3>1. Same(c)
      BY <2>3, <2>4 DEF Same
    <3>2. AloneOK(r, c)'
      BY <1>1, <2>2, <2>4, Elsewhere
    <3>3. QED
      BY <2>2, <3>1, <3>2, StaysLone
  <2>5. CASE c = d
    <3>1. BusyWith(r, c) /\ Live(c) /\ Born(c)
      BY <1>1, <2>1, <2>5 DEF BusyWith, AloneOK
    <3>2. WriteRename(r) => conv'[c].state = "live" /\ UNCHANGED <<thread, told, wiped>>
      BY <2>1, <2>5, <3>1, TitleEffect DEF WriteRename, Live, histories
    <3>3. WipeThread(r) => thread'[c] = {} /\ UNCHANGED conv /\ \A t \in told' \ wiped' : t[1] # c
      BY <2>1, <2>5 DEF WipeThread, Wipe, Shape, StoreShape
    <3>4. DropConversation(r) => thread[c] = {} /\ UNCHANGED <<thread, told, wiped>>
      BY <1>1, <2>1, <2>5 DEF DropConversation, AloneOK, histories
    <3>5. AloneOK(r, c)'
      BY <1>1, <2>2, <3>1, <3>3 DEF AloneOK, Live
    <3>6. /\ conv'[c].state = "gone" => thread'[c] = {}
          /\ \A t \in told' \ wiped' : t[1] = c => {User(t[2]), Assistant(t[2])} \subseteq thread'[c]
      BY <1>5, <3>2, <3>3, <3>4 DEF Lone
    <3>7. QED
      BY <2>2, <2>3, <3>1, <3>5, <3>6, BusyAlone
  <2>6. QED
    BY <2>4, <2>5
<1>6. QED
  BY <1>2, <1>3, <1>4, <1>5 DEF ConversationStep

LEMMA ChatLone ==
  ASSUME Shape, Shape', NEW r \in Requests, NEW c \in Convs, Lone(c), c \notin Overlapping,
         ChatStep(r)
  PROVE  Lone(c)'
<1>1. AloneOK(r, c) /\ (req[r].at \in ConvLabels => req[r].conv \in Convs /\ Born(req[r].conv))
      /\ None \notin Convs
  BY LibraryAssumption DEF Lone, Shape, RequestShape, Right
<1>2. ASSUME NEW d \in Convs, Chat(r, d) PROVE Lone(c)'
  <2>1. /\ Same(c) /\ OthersStay(r) /\ req'[r].at = "check_pdf" /\ req'[r].conv = d
        /\ Live(d) /\ UNCHANGED conv
    BY <1>2, BeginEffect DEF Chat, stores, histories, Same, OthersStay
  <2>2. AloneOK(r, c)'
    BY <2>1 DEF AloneOK, Live
  <2>3. QED
    BY <2>1, <2>2, StaysLone
<1>3. CASE CheckPdf(r) \/ AnswerEmptyDocument(r) \/ AgentFails(r) \/ (TouchLoad(r) /\ Done(r))
  <2>1. Same(c) /\ UNCHANGED conv
    BY <1>3 DEF CheckPdf, AnswerEmptyDocument, AgentFails, TouchLoad, stores, histories, Same
  <2>2. /\ OthersStay(r)
        /\ \/ req'[r].at = "idle" /\ req'[r].conv = None
           \/ req'[r].at = "ask" /\ req'[r].conv = req[r].conv
    BY <1>3, DoneEffect, GotoEffect DEF CheckPdf, AnswerEmptyDocument, AgentFails, OthersStay
  <2>3. AloneOK(r, c)'
    BY <1>1, <2>1, <2>2 DEF AloneOK, Live
  <2>4. QED
    BY <2>1, <2>2, <2>3, StaysLone
<1>4. CASE TouchLoad(r) /\ ~Done(r)
  <2>1. Same(c) /\ UNCHANGED <<conv, thread>> /\ req[r].at = "touch"
    BY <1>4 DEF TouchLoad, stores, histories, Same
  <2>2. /\ OthersStay(r) /\ req'[r].at = "touch_write" /\ req'[r].conv = req[r].conv
        /\ req'[r].turn = req[r].turn /\ req'[r].title = conv[req[r].conv].title
    BY <1>4 DEF TouchLoad, OthersStay, Shape, RequestShape, Request
  <2>3. AloneOK(r, c)'
    BY <1>1, <2>1, <2>2 DEF AloneOK, Live
  <2>4. QED
    BY <2>1, <2>2, <2>3, StaysLone
<1>5. CASE Ask(r) \/ Answer(r) \/ TouchWrite(r)
  <2>1. PICK d \in Convs : d = req[r].conv /\ Born(d)
    BY <1>1, <1>5 DEF Ask, Answer, TouchWrite, ConvLabels
  <2>2. /\ Ask(r) => /\ OthersStay(r) /\ req'[r].at = "answer" /\ req'[r].conv = d
                     /\ req'[r].turn = turns + 1 /\ UNCHANGED <<conv, told, wiped>>
                     /\ req'[r].memory = thread[d] \cup {User(turns + 1)}
                     /\ thread' = [thread EXCEPT ![d] = thread[d] \cup {User(turns + 1)}]
    BY <2>1 DEF Ask, OthersStay, histories, Shape, RequestShape, Request
  <2>3. /\ Answer(r) => /\ OthersStay(r) /\ req'[r].at = "touch" /\ req'[r].conv = d
                        /\ req'[r].turn = req[r].turn /\ UNCHANGED <<conv, told, wiped>>
                        /\ req[r].at = "answer"
                        /\ thread' = [thread EXCEPT ![d] = req[r].memory
                                                          \cup {Assistant(req[r].turn)}]
    BY <2>1, GotoEffect DEF Answer, OthersStay, histories
  <2>4. /\ TouchWrite(r) => /\ OthersStay(r) /\ req'[r].at = "idle" /\ req'[r].conv = None
                            /\ UNCHANGED thread /\ req[r].at = "touch_write"
                            /\ told' \subseteq told \cup {<<d, req[r].turn>>} /\ UNCHANGED wiped
                            /\ \A e \in Convs \ {d} : conv'[e] = conv[e]
                            /\ \A e \in Convs : conv'[e].state = conv[e].state
                                                /\ conv'[e].pdf = conv[e].pdf
    BY <2>1, DoneEffect, TitleEffect DEF TouchWrite, OthersStay
  <2>5. CASE c # d
    <3>1. Same(c)
      BY <1>5, <2>2, <2>3, <2>4, <2>5 DEF Same, Shape, StoreShape
    <3>2. AloneOK(r, c)'
      BY <1>1, <1>5, <2>2, <2>3, <2>4, <2>5, Elsewhere
    <3>3. QED
      BY <1>5, <2>2, <2>3, <2>4, <3>1, <3>2, StaysLone
  <2>6. CASE c = d
    <3>1. BusyWith(r, c) /\ Live(c) /\ Born(c)
      BY <1>1, <2>1, <2>6 DEF BusyWith, AloneOK
    <3>2. Ask(r) => /\ AloneOK(r, c)' /\ thread[c] \subseteq thread'[c]
      <4>1. ASSUME Ask(r)
            PROVE  thread'[c] = thread[c] \cup {User(turns + 1)}
        BY <2>2, <2>6, <4>1 DEF Shape, StoreShape
      <4>2. QED
        BY <2>2, <2>6, <3>1, <4>1 DEF AloneOK, Live
    <3>3. Answer(r) => /\ AloneOK(r, c)' /\ thread[c] \subseteq thread'[c]
      <4>1. ASSUME Answer(r)
            PROVE  thread'[c] = thread[c] \cup {Assistant(req[r].turn)}
                   /\ User(req[r].turn) \in thread[c]
        BY <1>1, <2>1, <2>3, <2>6, <4>1 DEF AloneOK, Shape, StoreShape
      <4>2. QED
        BY <2>3, <2>6, <3>1, <4>1 DEF AloneOK, Live
    <3>4. TouchWrite(r) =>
            /\ AloneOK(r, c)'
            /\ {User(req[r].turn), Assistant(req[r].turn)} \subseteq thread[c]
      BY <1>1, <2>1, <2>4, <2>6 DEF AloneOK
    <3>5. conv'[c].state = "live" /\ conv'[c].pdf = conv[c].pdf
      BY <1>5, <2>2, <2>3, <2>4, <3>1 DEF Live
    <3>6. \A t \in told' \ wiped' : t[1] = c => {User(t[2]), Assistant(t[2])} \subseteq thread'[c]
      BY <1>5, <2>2, <2>3, <2>4, <3>2, <3>3, <3>4 DEF Lone
    <3>7. OthersStay(r) /\ AloneOK(r, c)'
      BY <1>5, <2>2, <2>3, <2>4, <3>2, <3>3, <3>4
    <3>8. QED
      BY <3>1, <3>5, <3>6, <3>7, BusyAlone
  <2>7. QED
    BY <2>5, <2>6
<1>6. QED
  BY <1>2, <1>3, <1>4, <1>5 DEF ChatStep

LEMMA FaultLone ==
  ASSUME Shape, Shape', NEW c \in Convs, Lone(c),
         CrashApi \/ (\E r \in Requests : CallFails(r)) \/ \E p \in Pdfs : Process(p)
  PROVE  Lone(c)'
<1>1. Same(c) /\ UNCHANGED <<conv, thread>>
  BY DEF CrashApi, CallFails, Process, stores, histories, Same
<1>2. CASE CrashApi
  BY <1>1, <1>2, LibraryAssumption DEF CrashApi, Idle, Lone, AloneOK, Same
<1>3. ASSUME NEW r \in Requests, CallFails(r) PROVE Lone(c)'
  <2>1. OthersStay(r) /\ (req'[r].at = "discard" \/ (req'[r].at = "idle" /\ req'[r].conv = None))
    BY <1>3, GotoEffect, DoneEffect DEF CallFails, OthersStay
  <2>2. AloneOK(r, c)'
    BY <2>1, PdfRequestRelies, Elsewhere, LibraryAssumption DEF PdfLabels
  <2>3. QED
    BY <1>1, <2>1, <2>2, StaysLone
<1>4. ASSUME NEW p \in Pdfs, Process(p) PROVE Lone(c)'
  BY <1>1, <1>4 DEF Process, Lone, AloneOK, Live, Same
<1>5. QED
  BY <1>2, <1>3, <1>4

LEMMA AloneStep == ASSUME Shape, AloneInv, [Next]_vars PROVE AloneInv'
<1>1. CASE UNCHANGED vars
  BY <1>1 DEF vars, stores, histories, AloneInv, Lone, AloneOK, Live, Overlapping, BusyWith
<1>2. CASE Next
  <2>1. raced' = raced \cup Overlapping'
    BY <1>2 DEF Next
  <2>2. ASSUME NEW c \in Convs \ raced' PROVE Lone(c)'
    <3>1. Shape' /\ c \in Convs /\ Lone(c) /\ c \notin Overlapping
      BY <1>2, <2>1, <2>2, ShapeStep DEF AloneInv
    <3>2. QED
      BY <1>2, <3>1, UploadLone, DeletePdfLone, ConversationLone, ChatLone, FaultLone DEF Next
  <2>3. QED
    BY <2>1, <2>2 DEF AloneInv
<1>3. QED
  BY <1>1, <1>2

-----------------------------------------------------------------------------
\* The turns a delete has wiped.

\* No conversation comes back.
Steady ==
  \A c \in Convs :
    Born(c) => /\ conv'[c].state # "unborn" /\ conv'[c].pdf = conv[c].pdf
               /\ conv'[c].state = "live" => conv[c].state = "live"

LEMMA NoneComesBack == ASSUME Shape, Next PROVE Steady
<1>1. CASE UNCHANGED conv
  BY <1>1 DEF Steady, Born
<1>2. ASSUME NEW r \in Requests, NEW c \in Convs, InsertConversation(r, c) PROVE Steady
  BY <1>2 DEF InsertConversation, Steady, Born, Unborn, Shape, StoreShape
<1>3. ASSUME NEW c, NEW title, SetTitle(c, title) PROVE Steady
  BY <1>3 DEF SetTitle, Steady, Born, Live, Shape, StoreShape, Conversation
<1>4. ASSUME NEW r \in Requests, DropConversation(r) PROVE Steady
  BY <1>4 DEF DropConversation, Steady, Born, Shape, StoreShape, Conversation
<1>5. ASSUME NEW r \in Requests, DeleteRow(r) PROVE Steady
  BY <1>5 DEF DeleteRow, Cascade, Steady, Born, Shape, StoreShape, Conversation
<1>6. ASSUME NEW r \in Requests, UploadStep(r) \/ CallFails(r) PROVE UNCHANGED conv
  BY <1>6 DEF UploadStep, StoreFile, CreateRow, DiscardFile, Enqueue, CallFails, stores
<1>7. ASSUME NEW r \in Requests, DeletePdfStep(r), ~DeleteRow(r) PROVE UNCHANGED conv
  BY <1>7 DEF DeletePdfStep, DeletePdf, ListConversations, WipeOne, DeleteFile, stores
<1>8. ASSUME NEW r \in Requests, ConversationStep(r), ~WriteRename(r), ~DropConversation(r),
             \A c \in Convs : ~InsertConversation(r, c)
      PROVE  UNCHANGED conv
  BY <1>8 DEF ConversationStep, CreateConversation, RenameConversation, DeleteConversation,
     WipeThread, stores
<1>9. ASSUME NEW r \in Requests, ChatStep(r), ~TouchWrite(r) PROVE UNCHANGED conv
  BY <1>9 DEF ChatStep, Chat, CheckPdf, AnswerEmptyDocument, Ask, Answer, AgentFails, TouchLoad,
     stores
<1>10. ASSUME NEW r \in Requests, WriteRename(r) \/ TouchWrite(r) PROVE Steady
  BY <1>1, <1>3, <1>10 DEF WriteRename, TouchWrite
<1>11. CASE CrashApi \/ \E p \in Pdfs : Process(p)
  BY <1>1, <1>11 DEF CrashApi, Process, stores
<1>12. QED
  BY <1>1, <1>2, <1>4, <1>5, <1>6, <1>7, <1>8, <1>9, <1>10, <1>11 DEF Next

\* A delete that has wiped a conversation goes on to its row.
LEMMA DeletesGoOn ==
  ASSUME Shape, NEW r \in Requests, NEW c \in Convs, Born(c), Deleting(r, c), Steady,
         conv'[c].state = "live",
         UploadStep(r) \/ DeletePdfStep(r) \/ ConversationStep(r) \/ ChatStep(r)
  PROVE  Deleting(r, c)'
<1>1. /\ req[r].at \in {"delete_conversation", "wipe_all", "delete_row"}
      /\ conv'[c].pdf = conv[c].pdf /\ conv[c].state = "live"
  BY DEF Deleting, Steady
<1>2. req[r] # Idle
  BY <1>1 DEF Idle
<1>3. \/ \E d \in Convs : WipeOne(r, d)
      \/ DeleteRow(r) \/ DropConversation(r)
  BY <1>1, <1>2
     DEF UploadStep, StoreFile, CreateRow, DiscardFile, Enqueue, DeletePdfStep, DeletePdf,
         ListConversations, DeleteFile, ConversationStep, CreateConversation, InsertConversation,
         RenameConversation, DeleteConversation, WriteRename, WipeThread, ChatStep, Chat, CheckPdf,
         AnswerEmptyDocument, Ask, Answer, AgentFails, TouchLoad, TouchWrite, Begin
<1>4. ASSUME NEW d \in Convs, WipeOne(r, d) PROVE Deleting(r, c)'
  BY <1>1, <1>4, WipeEffect DEF WipeOne, Deleting
<1>5. ASSUME DeleteRow(r) PROVE FALSE
  BY <1>1, <1>5 DEF DeleteRow, Cascade, Deleting, Shape, StoreShape, Conversation
<1>6. ASSUME DropConversation(r) PROVE FALSE
  BY <1>1, <1>6 DEF DropConversation, Deleting, Shape, StoreShape, Conversation
<1>7. QED
  BY <1>3, <1>4, <1>5, <1>6

\* What is wiped is wiped by such a delete.
LEMMA WipedByDelete ==
  ASSUME Shape, NEW r \in Requests, NEW t \in wiped' \ wiped,
         UploadStep(r) \/ DeletePdfStep(r) \/ ConversationStep(r) \/ ChatStep(r)
  PROVE  Born(t[1]) /\ Deleting(r, t[1])'
<1>1. (\E d \in Convs : WipeOne(r, d)) \/ WipeThread(r)
  BY DEF UploadStep, StoreFile, CreateRow, DiscardFile, Enqueue, DeletePdfStep, DeletePdf,
         ListConversations, DeleteRow, DeleteFile, ConversationStep, CreateConversation,
         InsertConversation, RenameConversation, DeleteConversation, WriteRename, DropConversation,
         ChatStep, Chat, CheckPdf, AnswerEmptyDocument, Ask, Answer, AgentFails, TouchLoad,
         TouchWrite, histories
<1>2. ASSUME NEW d \in Convs, WipeOne(r, d) PROVE Born(t[1]) /\ Deleting(r, t[1])'
  <2>1. t[1] = d /\ d \in req[r].todo /\ UNCHANGED conv
    BY <1>2 DEF WipeOne, Wipe
  <2>2. Born(d) /\ conv[d].pdf = req[r].pdf
    BY <2>1 DEF Shape, RequestShape, Right
  <2>3. req'[r].at \in {"wipe_all", "delete_row"} /\ req'[r].pdf = conv'[d].pdf
    BY <1>2, <2>1, <2>2, WipeEffect
  <2>4. QED
    BY <2>1, <2>2, <2>3 DEF Deleting
<1>3. ASSUME WipeThread(r) PROVE Born(t[1]) /\ Deleting(r, t[1])'
  <2>1. t[1] = req[r].conv /\ req[r].at = "wipe"
    BY <1>3 DEF WipeThread, Wipe
  <2>2. Born(t[1])
    BY <2>1 DEF Shape, RequestShape, Right, ConvLabels
  <2>3. req'[r].at = "delete_conversation" /\ req'[r].conv = t[1]
    BY <1>3, <2>1, GotoEffect DEF WipeThread
  <2>4. QED
    BY <2>2, <2>3 DEF Deleting
<1>4. QED
  BY <1>1, <1>2, <1>3

LEMMA OneMoves ==
  ASSUME Shape, NEW r \in Requests,
         UploadStep(r) \/ DeletePdfStep(r) \/ ConversationStep(r) \/ ChatStep(r)
  PROVE  OthersStay(r) /\ faults' \in Nat /\ (faults' = 0 => faults = 0)
<1>1. faults \in Nat
  BY LibraryAssumption DEF Shape, StoreShape
<1>2. UploadStep(r) => faults' = faults \/ faults' = faults + 1
  BY DEF UploadStep, StoreFile, CreateRow, DiscardFile, Enqueue
<1>3. DeletePdfStep(r) \/ ConversationStep(r) \/ ChatStep(r) => UNCHANGED faults
  BY DEF DeletePdfStep, DeletePdf, ListConversations, WipeOne, DeleteRow, DeleteFile,
         ConversationStep, CreateConversation, InsertConversation, RenameConversation,
         DeleteConversation, WriteRename, WipeThread, DropConversation, ChatStep, Chat, CheckPdf,
         AnswerEmptyDocument, Ask, Answer, AgentFails, TouchLoad, TouchWrite
<1>4. OthersStay(r)
  BY DEF UploadStep, StoreFile, CreateRow, DiscardFile, Enqueue, DeletePdfStep, DeletePdf,
         ListConversations, WipeOne, DeleteRow, DeleteFile, ConversationStep, CreateConversation,
         InsertConversation, RenameConversation, DeleteConversation, WriteRename, WipeThread,
         DropConversation, ChatStep, Chat, CheckPdf, AnswerEmptyDocument, Ask, Answer, AgentFails,
         TouchLoad, TouchWrite, Begin, Goto, Done, OthersStay, Shape, RequestShape
<1>5. QED
  BY <1>1, <1>2, <1>3, <1>4

LEMMA WipedStep == ASSUME Shape, WipedInv, [Next]_vars PROVE WipedInv'
<1>1. CASE UNCHANGED vars
  BY <1>1 DEF vars, stores, histories, WipedInv, WipedGoAway, Deleting, Live, Born
<1>2. ASSUME Next, NEW r \in Requests,
             UploadStep(r) \/ DeletePdfStep(r) \/ ConversationStep(r) \/ ChatStep(r)
      PROVE  WipedInv'
  <2>1. Steady /\ Shape' /\ OthersStay(r) /\ (faults' = 0 => faults = 0)
    BY <1>2, NoneComesBack, ShapeStep, OneMoves
  <2>2. ASSUME NEW t \in wiped'
        PROVE  /\ t[1] \in Convs /\ Born(t[1]) /\ conv'[t[1]].state # "unborn"
               /\ (t \in wiped \/ Deleting(r, t[1])')
    BY <1>2, <2>1, WipedByDelete DEF WipedInv, Shape, StoreShape, Steady
  <2>3. ASSUME NEW t \in wiped', conv'[t[1]].state = "live", faults' = 0
        PROVE  \E q \in Requests : Deleting(q, t[1])'
    <3>1. CASE t \in wiped
      <4>1. PICK q \in Requests : Deleting(q, t[1])
        BY <2>1, <2>2, <2>3, <3>1 DEF WipedInv, WipedGoAway, Live, Steady
      <4>2. CASE q = r
        BY <1>2, <2>1, <2>2, <2>3, <4>1, <4>2, DeletesGoOn
      <4>3. CASE q # r
        <5>1. req'[q] = req[q] /\ conv'[t[1]].pdf = conv[t[1]].pdf
          BY <2>1, <2>2, <4>3 DEF OthersStay, Steady
        <5>2. QED
          BY <4>1, <5>1 DEF Deleting
      <4>4. QED
        BY <4>2, <4>3
    <3>2. QED
      BY <2>2, <3>1
  <2>4. QED
    BY <2>2, <2>3 DEF WipedInv, WipedGoAway, Live, Born
<1>3. ASSUME NEW p \in Pdfs, Process(p) PROVE WipedInv'
  BY <1>3 DEF Process, histories, WipedInv, WipedGoAway, Deleting, Live, Born
<1>4. CASE CrashApi \/ \E r \in Requests : CallFails(r)
  <2>1. faults' # 0 /\ UNCHANGED <<wiped, conv>>
    BY <1>4, LibraryAssumption DEF CrashApi, CallFails, stores, histories, Shape, StoreShape
  <2>2. QED
    BY <2>1 DEF WipedInv, WipedGoAway, Born
<1>5. QED
  BY <1>1, <1>2, <1>3, <1>4 DEF Next

LEMMA LibraryStep == ASSUME LibraryInv, [Next]_vars PROVE LibraryInv'
  BY ShapeStep, UploadInvStep, AloneStep, WipedStep DEF LibraryInv

-----------------------------------------------------------------------------
\* The properties.

LEMMA LibraryAlways == Spec => []LibraryInv
  BY LibraryStart, LibraryStep, PTL DEF Spec

\* Every variable keeps its type, and the delete of a document leaves the
\* wiping of threads when none is left to wipe.
THEOREM LibraryTypes == Spec => []TypeOK
<1>1. LibraryInv => TypeOK
  <2>1. ASSUME Shape PROVE TypeOK
    <3>1. conv \in [Convs -> [state : {"unborn", "live", "gone"}, pdf : Pdfs \cup {None},
                              title : {"unset", "derived", "given"}]]
      BY <2>1 DEF Shape, StoreShape, Conversation
    <3>2. ASSUME NEW r \in Requests
          PROVE  /\ req[r].at \in Labels
                 /\ req[r].pdf \in Pdfs \cup {None} /\ req[r].conv \in Convs \cup {None}
                 /\ req[r].todo \subseteq Convs /\ req[r].memory \subseteq Messages
                 /\ req[r].at = "idle" => req[r] = Idle
                 /\ req[r].at = "wipe_all" <=> req[r].todo # {}
      BY <2>1 DEF Shape, RequestShape, Right, Request
    <3>3. QED
      BY <2>1, <3>1, <3>2 DEF TypeOK, Shape, StoreShape
  <2>2. QED
    BY <2>1 DEF LibraryInv
<1>2. QED
  BY <1>1, LibraryAlways, PTL

\* A document whose upload was answered 201 has its file as long as it has its
\* row, and its job, or none if the API that took it does not classify: no failed
\* upload, no refresh that raises and no delete makes it otherwise.
THEOREM AckedUploadsAreStored == Spec => []AckedIsStored
<1>1. LibraryInv => AckedIsStored
  BY DEF LibraryInv, UploadInv, AckedIsStored
<1>2. QED
  BY <1>1, LibraryAlways, PTL

\* Unless a call fails or the API is killed, a file without a row is one that a
\* request in flight is about to give a row or to remove.
THEOREM FilesHaveRows == Spec => []BlobLeaksOnlyByFault
<1>1. LibraryInv => BlobLeaksOnlyByFault
  BY DEF LibraryInv, UploadInv
<1>2. QED
  BY <1>1, LibraryAlways, PTL

\* A deleted conversation that no two requests were busy with at once has left
\* no messages, although its row and its thread share no transaction.
THEOREM MemoryDies == Spec => []MemoryDiesWithConversation
<1>1. LibraryInv => MemoryDiesWithConversation
  BY DEF LibraryInv, AloneInv, Lone, MemoryDiesWithConversation
<1>2. QED
  BY <1>1, LibraryAlways, PTL

\* Such a conversation keeps every turn its user has seen but for those a delete
\* wiped, as the memory a chat writes back whole is the thread it has loaded;
\* and a delete that wiped some is, unless it fails, still to come at the row.
THEOREM AnswersAreKept == Spec => []HistoryKeepsAnswers
<1>1. LibraryInv => HistoryKeepsAnswers
  BY DEF LibraryInv, Shape, StoreShape, AloneInv, Lone, WipedInv, HistoryKeepsAnswers, AnswersStay
<1>2. QED
  BY <1>1, LibraryAlways, PTL

\* Only a chat that holds a title older than the user's replaces it, and only
\* beside another request is a chat's title that old.
LEMMA TitleStays ==
  ASSUME Shape, Next, NEW c \in Convs, Lone(c), conv[c].title = "given"
  PROVE  conv'[c].title = "given"
<1>1. ASSUME NEW d \in Convs, NEW title, SetTitle(d, title), title = "given" \/ c # d
      PROVE  conv'[c].title = "given"
  BY <1>1 DEF SetTitle, Shape, StoreShape, Conversation
<1>2. ASSUME NEW r \in Requests, TouchWrite(r) PROVE conv'[c].title = "given"
  <2>1. req[r].conv \in Convs /\ req[r].at = "touch_write"
    BY <1>2 DEF TouchWrite, Shape, RequestShape, Right, ConvLabels
  <2>2. req[r].conv = c => req[r].title = "given"
    BY <2>1 DEF Lone, AloneOK
  <2>3. QED
    BY <1>1, <1>2, <2>1, <2>2 DEF TouchWrite
<1>3. ASSUME NEW r \in Requests, WriteRename(r) PROVE conv'[c].title = "given"
  <2>1. req[r].conv \in Convs
    BY <1>3 DEF WriteRename, Shape, RequestShape, Right, ConvLabels
  <2>2. QED
    BY <1>1, <1>3, <2>1 DEF WriteRename
<1>4. ASSUME NEW r \in Requests, DropConversation(r) PROVE conv'[c].title = "given"
  BY <1>4 DEF DropConversation, Shape, StoreShape, Conversation
<1>5. ASSUME NEW r \in Requests, NEW d \in Convs, InsertConversation(r, d)
      PROVE  conv'[c].title = "given"
  <2>1. c # d
    BY <1>5 DEF InsertConversation, Unborn
  <2>2. QED
    BY <1>5, <2>1 DEF InsertConversation, Shape, StoreShape
<1>6. ASSUME NEW r \in Requests, DeleteRow(r) PROVE conv'[c].title = "given"
  BY <1>6 DEF DeleteRow, Cascade, Shape, StoreShape, Conversation
<1>7. \/ UNCHANGED conv
      \/ \E r \in Requests : \/ TouchWrite(r) \/ WriteRename(r) \/ DropConversation(r)
                             \/ DeleteRow(r) \/ \E d \in Convs : InsertConversation(r, d)
  BY DEF Next, UploadStep, StoreFile, CreateRow, DiscardFile, Enqueue, DeletePdfStep, DeletePdf,
         ListConversations, WipeOne, DeleteFile, ConversationStep, CreateConversation,
         RenameConversation, DeleteConversation, WipeThread, ChatStep, Chat, CheckPdf,
         AnswerEmptyDocument, Ask, Answer, AgentFails, TouchLoad, CallFails, Process, CrashApi,
         stores
<1>8. QED
  BY <1>2, <1>3, <1>4, <1>5, <1>6, <1>7

\* A title the user gave to such a conversation is not replaced by one derived
\* from a question.
THEOREM TitlesAreKept == Spec => RenameIsKept
<1>1. ASSUME LibraryInv, [Next]_vars
      PROVE  [\A c \in Convs :
                conv[c].title = "given" /\ c \notin raced' => conv'[c].title = "given"]_vars
  <2>1. CASE UNCHANGED vars
    BY <2>1
  <2>2. CASE Next
    <3>1. ASSUME NEW c \in Convs, conv[c].title = "given", c \notin raced'
          PROVE  conv'[c].title = "given"
      <4>1. Shape /\ Lone(c)
        BY <1>1, <2>2, <3>1 DEF LibraryInv, AloneInv, Next
      <4>2. QED
        BY <2>2, <3>1, <4>1, TitleStays
    <3>2. QED
      BY <3>1
  <2>3. QED
    BY <1>1, <2>1, <2>2
<1>2. QED
  BY <1>1, LibraryAlways, PTL DEF Spec, RenameIsKept
=============================================================================
