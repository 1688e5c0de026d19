--------------------------- MODULE Sessions_proofs ---------------------------
(***************************************************************************)
(* Theorems about Sessions: for any number of tabs, users, sessions and    *)
(* requests in flight, no valid token is dropped for a failure that was    *)
(* not its own, a tab names the user whose token is stored, and one that   *)
(* waits for its bootstrap has asked.                                      *)
(***************************************************************************)
EXTENDS Sessions, TLAPS

-----------------------------------------------------------------------------
\* The inductive invariant.

SessionType == [owner : Emails, live : BOOLEAN]
TabType == [open : BOOLEAN, loading : BOOLEAN, user : Emails \cup {NoOne},
            list : Emails \cup {NoOne}]

\* A request of a browser while there are sessions s and the tabs in open.
RequestType(s, open) ==
  [kind : SignIns \cup Reads \cup {"logout", "none"}, tab : open \cup {NoOne},
   email : Emails \cup {NoOne}, token : {NoToken} \cup DOMAIN s,
   at : {"free", "sent", "looked", "inserted", "done"}, answer : {"none", "ok", "401", "error"},
   owner : Emails \cup {NoOne}, issued : {NoToken} \cup DOMAIN s]

\* What a request is made with.
Asked(q) ==
  /\ q.kind = "none" => q = NoRequest
  /\ q.at = "free" => q.kind = "none"
  /\ q.kind \in SignIns => q.email \in Emails /\ q.token = NoToken
  /\ q.kind = "logout" => q.token # NoToken
  /\ q.at \in {"looked", "inserted"} => q.kind = "register"

\* What its answer says of the sessions, and goes on being true: a token that was
\* issued, or that was good, has the owner the answer names, and a token that was
\* refused is not good any more.
Told(q, s) ==
  /\ q.at # "done" => q.answer = "none"
  /\ q.answer = "ok" /\ q.kind \in SignIns => q.issued # NoToken /\ s[q.issued].owner = q.owner
  /\ q.answer = "ok" /\ q.kind = "me" => q.token # NoToken /\ s[q.token].owner = q.owner
  /\ q.answer = "401" /\ q.token # NoToken => ~s[q.token].live

RequestOK(q, s, open) == q \in RequestType(s, open) /\ Asked(q) /\ Told(q, s)

OpenTabs == {b \in Tabs : tab[b].open}

Store ==
  /\ accounts \in [Emails -> 0 .. 1]
  /\ session \in Seq(SessionType) /\ Len(session) <= MaxTokens
  /\ stored \in {NoToken} \cup DOMAIN session

TabsOK == tab \in [Tabs -> TabType] /\ \A b \in Tabs : tab[b].open \/ tab[b] = ClosedTab

RequestsOK == DOMAIN req = Requests /\ \A r \in Requests : RequestOK(req[r], session, OpenTabs)

SessionsInv == Store /\ TabsOK /\ RequestsOK

-----------------------------------------------------------------------------
\* Sessions are only added, and die for good.
Kept(s, z) ==
  /\ s \in Seq(SessionType) /\ z \in Seq(SessionType)
  /\ DOMAIN s \subseteq DOMAIN z
  /\ \A t \in DOMAIN s : z[t].owner = s[t].owner /\ (z[t].live => s[t].live)

LEMMA NoTokenIsNone == ASSUME NEW s \in Seq(SessionType) PROVE NoToken \notin DOMAIN s
  BY DEF NoToken

LEMMA RequestKept ==
  ASSUME NEW s, NEW z, Kept(s, z), NEW open, NEW q, RequestOK(q, s, open)
  PROVE  RequestOK(q, z, open)
<1>1. q \in RequestType(z, open)
  BY DEF Kept, RequestOK, RequestType
<1>2. q.token \in {NoToken} \cup DOMAIN s /\ q.issued \in {NoToken} \cup DOMAIN s
  BY DEF RequestOK, RequestType
<1>3. Told(q, z)
  BY <1>2 DEF Kept, RequestOK, Told
<1>4. QED
  BY <1>1, <1>3 DEF RequestOK

LEMMA SomeoneIs == NoOne \notin Tabs /\ NoOne \notin Emails
  BY SessionsAssumption

LEMMA NoRequestOK == ASSUME NEW s, NEW open PROVE RequestOK(NoRequest, s, open)
<1>1. NoRequest \in RequestType(s, open)
  BY DEF NoRequest, RequestType, SignIns, Reads
<1>2. QED
  BY <1>1 DEF NoRequest, RequestOK, Asked, Told, SignIns

\* A step that changes one request, whatever it does to the sessions.
LEMMA OneRequestKeeps ==
  ASSUME SessionsInv, NEW r \in Requests, NEW p, RequestOK(p, session', OpenTabs),
         req' = [req EXCEPT ![r] = p], Kept(session, session'), OpenTabs' = OpenTabs
  PROVE  RequestsOK'
<1>1. req'[r] = p /\ \A o \in Requests \ {r} : req'[o] = req[o]
  BY DEF SessionsInv, RequestsOK
<1>2. ASSUME NEW o \in Requests PROVE RequestOK(req[o], session', OpenTabs)
  BY RequestKept DEF SessionsInv, RequestsOK
<1>3. QED
  BY <1>1, <1>2 DEF SessionsInv, RequestsOK

LEMMA SameSessions == ASSUME SessionsInv, session' = session PROVE Kept(session, session')
  BY DEF SessionsInv, Store, Kept

-----------------------------------------------------------------------------
\* The tabs send requests.

LEMMA SentIsOK ==
  ASSUME SessionsInv, NEW b, NEW open, b \in open, NEW kind \in Reads \cup {"logout"},
         kind = "logout" => stored # NoToken
  PROVE  RequestOK(Sent(kind, b), session, open)
<1>1. PICK q : q = Sent(kind, b)
  OBVIOUS
<1>2. q = [NoRequest EXCEPT !.kind = kind, !.tab = b, !.at = "sent", !.token = stored]
  BY <1>1 DEF Sent, SignIns, Reads
<1>3. /\ q \in RequestType(session, open) /\ q.kind = kind /\ q.at = "sent"
      /\ q.answer = "none" /\ q.token = stored
  BY <1>2 DEF SessionsInv, Store, NoRequest, RequestType, SignIns, Reads
<1>4. QED
  BY <1>1, <1>3 DEF RequestOK, Asked, Told, SignIns, Reads

LEMMA SentSignInIsOK ==
  ASSUME SessionsInv, NEW b \in OpenTabs, NEW kind \in SignIns, NEW e \in Emails
  PROVE  RequestOK([Sent(kind, b) EXCEPT !.email = e], session, OpenTabs)
<1>1. PICK q : q = [Sent(kind, b) EXCEPT !.email = e]
  OBVIOUS
<1>2. q = [NoRequest EXCEPT !.kind = kind, !.tab = b, !.at = "sent", !.token = NoToken, !.email = e]
  BY <1>1 DEF Sent, NoRequest
<1>3. /\ q \in RequestType(session, OpenTabs) /\ q.kind = kind /\ q.at = "sent"
      /\ q.answer = "none" /\ q.token = NoToken /\ q.email = e
  BY <1>2 DEF NoRequest, RequestType, SignIns, Reads
<1>4. QED
  BY <1>1, <1>3 DEF RequestOK, Asked, Told, SignIns, Reads

\* A request that an open tab sends.
LEMMA SendKeeps ==
  ASSUME SessionsInv, NEW r \in Requests, NEW q, RequestOK(q, session, OpenTabs), Send(r, q),
         UNCHANGED <<accounts, session, stored, tab>>
  PROVE  SessionsInv'
<1>1. OpenTabs' = OpenTabs /\ Store' /\ TabsOK'
  BY DEF SessionsInv, Store, TabsOK, OpenTabs
<1>2. RequestsOK'
  BY <1>1, SameSessions, OneRequestKeeps DEF Send
<1>3. QED
  BY <1>1, <1>2 DEF SessionsInv

LEMMA SendingKeeps ==
  ASSUME SessionsInv, NEW b \in Tabs, NEW r \in Requests,
         \/ SignOut(b, r) \/ List(b, r) \/ Call(b, r)
         \/ \E kind \in SignIns, e \in Emails : SignIn(b, r, kind, e)
  PROVE  SessionsInv'
<1>1. b \in OpenTabs
  BY DEF SignOut, List, Call, SignIn, OpenTabs
<1>2. UNCHANGED <<accounts, session, stored, tab>>
  BY DEF SignOut, List, Call, SignIn
<1>3. CASE SignOut(b, r)
  BY <1>1, <1>2, <1>3, SentIsOK, SendKeeps DEF SignOut
<1>4. CASE List(b, r)
  BY <1>1, <1>2, <1>4, SentIsOK, SendKeeps DEF List, Reads
<1>5. CASE Call(b, r)
  BY <1>1, <1>2, <1>5, SentIsOK, SendKeeps DEF Call, Reads
<1>6. ASSUME NEW kind \in SignIns, NEW e \in Emails, SignIn(b, r, kind, e) PROVE SessionsInv'
  BY <1>1, <1>2, <1>6, SentSignInIsOK, SendKeeps DEF SignIn
<1>7. QED
  BY <1>3, <1>4, <1>5, <1>6

LEMMA OpenKeeps ==
  ASSUME SessionsInv, NEW b \in Tabs, NEW r \in Requests, Open(b, r)
  PROVE  SessionsInv'
<1>1. Store'
  BY DEF Open, SessionsInv, Store
<1>2. OpenedTab \in TabType /\ OpenedTab.open
  BY DEF OpenedTab, ClosedTab, TabType
<1>3. tab'[b] = OpenedTab /\ (\A o \in Tabs \ {b} : tab'[o] = tab[o]) /\ tab' \in [Tabs -> TabType]
  BY <1>2 DEF Open, SessionsInv, TabsOK
<1>4. TabsOK'
  BY <1>2, <1>3 DEF SessionsInv, TabsOK
<1>5. OpenTabs' = OpenTabs \cup {b}
  BY <1>2, <1>3 DEF OpenTabs
<1>6. ASSUME NEW q, RequestOK(q, session, OpenTabs) PROVE RequestOK(q, session, OpenTabs')
  BY <1>5, <1>6 DEF RequestOK, RequestType
<1>7. RequestsOK'
  <2>1. CASE UNCHANGED req
    BY <1>6, <2>1 DEF Open, SessionsInv, RequestsOK
  <2>2. CASE stored # NoToken /\ Send(r, Sent("me", b))
    <3>1. RequestOK(Sent("me", b), session, OpenTabs')
      BY <1>5, SentIsOK DEF Reads
    <3>2. req'[r] = Sent("me", b) /\ DOMAIN req' = Requests
          /\ \A o \in Requests \ {r} : req'[o] = req[o]
      BY <2>2 DEF Send, SessionsInv, RequestsOK
    <3>3. session' = session
      BY DEF Open
    <3>4. QED
      BY <1>6, <3>1, <3>2, <3>3 DEF SessionsInv, RequestsOK
  <2>3. QED
    BY <2>1, <2>2 DEF Open
<1>8. QED
  BY <1>1, <1>4, <1>7 DEF SessionsInv

\* Closing a tab: its requests to read are gone, and those that the server
\* carries out have nobody to answer to.
LEMMA CloseKeeps ==
  ASSUME SessionsInv, NEW b \in Tabs, Close(b)
  PROVE  SessionsInv'
<1>1. Store'
  BY DEF Close, SessionsInv, Store
<1>2. ClosedTab \in TabType /\ ~ClosedTab.open
  BY DEF ClosedTab, TabType
<1>3. tab'[b] = ClosedTab /\ (\A o \in Tabs \ {b} : tab'[o] = tab[o]) /\ tab' \in [Tabs -> TabType]
  BY <1>2 DEF Close, SessionsInv, TabsOK
<1>4. TabsOK'
  BY <1>2, <1>3 DEF SessionsInv, TabsOK
<1>5. OpenTabs' = OpenTabs \ {b}
  BY <1>2, <1>3 DEF OpenTabs
<1>6. ASSUME NEW r \in Requests PROVE RequestOK(req'[r], session, OpenTabs')
  <2>1. RequestOK(req[r], session, OpenTabs)
    BY DEF SessionsInv, RequestsOK
  <2>2. CASE req'[r] = NoRequest
    BY <2>2, NoRequestOK
  <2>3. CASE req[r].tab # b /\ req'[r] = req[r]
    BY <1>5, <2>1, <2>3 DEF RequestOK, RequestType
  <2>4. CASE req[r].at # "done" /\ req[r].kind \notin Reads /\ req[r].tab = b
             /\ req'[r] = [req[r] EXCEPT !.tab = NoOne]
    <3>1. PICK q : q = req[r]
      OBVIOUS
    <3>2. PICK p : p = [q EXCEPT !.tab = NoOne]
      OBVIOUS
    <3>3. /\ p \in RequestType(session, OpenTabs')
          /\ p.kind = q.kind /\ p.email = q.email /\ p.token = q.token /\ p.at = q.at
          /\ p.answer = q.answer /\ p.owner = q.owner /\ p.issued = q.issued
      BY <2>1, <3>1, <3>2 DEF RequestOK, RequestType
    <3>4. q.kind # "none"
      BY <2>1, <2>4, <3>1, SomeoneIs DEF RequestOK, Asked, NoRequest
    <3>5. Asked(p) /\ Told(p, session)
      BY <2>1, <3>1, <3>3, <3>4 DEF RequestOK, Asked, Told
    <3>6. QED
      BY <2>4, <3>1, <3>2, <3>3, <3>5 DEF RequestOK
  <2>5. QED
    BY <2>2, <2>3, <2>4 DEF Close
<1>7. QED
  BY <1>1, <1>4, <1>6 DEF Close, SessionsInv, RequestsOK

LEMMA EvictKeeps ==
  ASSUME SessionsInv, NEW b \in Tabs, Evict(b)
  PROVE  SessionsInv'
<1>1. tab[b].open
  BY DEF Evict, SessionsInv, TabsOK, ClosedTab
<1>2. tab' \in [Tabs -> TabType] /\ OpenTabs' = OpenTabs
  BY DEF Evict, SessionsInv, TabsOK, TabType, OpenTabs
<1>3. \A o \in Tabs : tab'[o].open \/ tab'[o] = ClosedTab
  BY <1>1 DEF Evict, SessionsInv, TabsOK, TabType
<1>4. QED
  BY <1>2, <1>3 DEF Evict, SessionsInv, TabsOK, Store, RequestsOK

-----------------------------------------------------------------------------
\* The server answers.  The tabs and the stored token are not its business.

\* A step of the server's: one request, perhaps the accounts, and sessions that
\* are only added or die.
LEMMA ServerKeeps ==
  ASSUME SessionsInv, NEW r \in Requests, NEW p, RequestOK(p, session', OpenTabs),
         req' = [req EXCEPT ![r] = p], Kept(session, session'), Len(session') <= MaxTokens,
         accounts' \in [Emails -> 0 .. 1], UNCHANGED <<stored, tab>>
  PROVE  SessionsInv'
<1>1. OpenTabs' = OpenTabs /\ TabsOK'
  BY DEF SessionsInv, TabsOK, OpenTabs
<1>2. Store'
  BY DEF SessionsInv, Store, Kept
<1>3. RequestsOK'
  BY <1>1, OneRequestKeeps
<1>4. QED
  BY <1>1, <1>2, <1>3 DEF SessionsInv

LEMMA RequestOf ==
  ASSUME SessionsInv, NEW r \in Requests
  PROVE  /\ RequestOK(req[r], session, OpenTabs) /\ r \in DOMAIN req
         /\ req[r] \in RequestType(session, OpenTabs)
  BY DEF SessionsInv, RequestsOK, RequestOK

\* A request that has failed, or was refused.
LEMMA RefusedIsOK ==
  ASSUME NEW q, NEW s, NEW open, RequestOK(q, s, open), q.at # "free",
         NEW answer \in {"401", "error"}, NEW p,
         \/ p = [q EXCEPT !.at = "done", !.answer = answer]
         \/ p = [q EXCEPT !.at = "done", !.answer = answer, !.owner = NoOne, !.issued = NoToken],
         answer = "401" /\ q.token # NoToken => ~s[q.token].live
  PROVE  RequestOK(p, s, open)
<1>1. /\ p \in RequestType(s, open) /\ p.kind = q.kind /\ p.tab = q.tab /\ p.email = q.email
      /\ p.token = q.token /\ p.at = "done" /\ p.answer = answer
  BY DEF RequestOK, RequestType
<1>2. p.kind # "none"
  BY <1>1 DEF RequestOK, Asked, NoRequest
<1>3. QED
  BY <1>1, <1>2 DEF RequestOK, Asked, Told

LEMMA RefusingKeeps ==
  ASSUME SessionsInv, NEW r \in Requests, req[r].at # "free", NEW answer \in {"401", "error"},
         req' = Reply(r, answer), UNCHANGED <<accounts, session, stored, tab>>,
         answer = "401" /\ req[r].token # NoToken => ~session[req[r].token].live
  PROVE  SessionsInv'
<1>1. PICK p : p = [req[r] EXCEPT !.at = "done", !.answer = answer]
  OBVIOUS
<1>2. RequestOK(p, session, OpenTabs)
  BY <1>1, RequestOf, RefusedIsOK
<1>3. req' = [req EXCEPT ![r] = p]
  BY <1>1, RequestOf DEF Reply, RequestType
<1>4. QED
  BY <1>2, <1>3, SameSessions, ServerKeeps DEF SessionsInv, Store

LEMMA FailKeeps == ASSUME SessionsInv, NEW r \in Requests, Fail(r) PROVE SessionsInv'
<1>1. PICK p : p = [req[r] EXCEPT !.at = "done", !.answer = "error", !.owner = NoOne,
                                  !.issued = NoToken]
  OBVIOUS
<1>2. RequestOK(p, session, OpenTabs)
  BY <1>1, RequestOf, RefusedIsOK DEF Fail
<1>3. req' = [req EXCEPT ![r] = p]
  BY <1>1, RequestOf DEF Fail, Reply, RequestType
<1>4. QED
  BY <1>2, <1>3, SameSessions, ServerKeeps DEF Fail, SessionsInv, Store

\* A new session: its token names the user of the request.
LEMMA IssueTokenKeeps ==
  ASSUME SessionsInv, NEW r \in Requests, req[r].at # "free", req[r].kind \in SignIns,
         IssueToken(r),
         UNCHANGED <<accounts, stored, tab>>
  PROVE  SessionsInv'
<1> DEFINE n == Len(session) + 1
<1>1. PICK q : q = req[r]
  OBVIOUS
<1>2. PICK p : p = [q EXCEPT !.at = "done", !.answer = "ok", !.owner = q.email, !.issued = n]
  OBVIOUS
<1>3. RequestOK(q, session, OpenTabs) /\ q \in RequestType(session, OpenTabs) /\ q.email \in Emails
  BY <1>1, RequestOf DEF RequestOK, Asked
<1>4. req' = [req EXCEPT ![r] = p]
  BY <1>1, <1>2, <1>3, RequestOf DEF IssueToken, Reply, RequestType
<1>5. PICK s \in SessionType : s = [owner |-> q.email, live |-> TRUE]
  BY <1>3 DEF SessionType
<1>6. session' = Append(session, s) /\ session \in Seq(SessionType) /\ Len(session) \in Nat
      /\ Len(session) < MaxTokens
  BY <1>1, <1>5 DEF IssueToken, SessionsInv, Store
<1>7. /\ session' \in Seq(SessionType) /\ Len(session') = n /\ session'[n] = s
      /\ DOMAIN session' = 1 .. n /\ DOMAIN session = 1 .. Len(session)
      /\ \A t \in DOMAIN session : session'[t] = session[t]
  BY <1>6
<1>8. Kept(session, session')
  BY <1>6, <1>7 DEF Kept
<1>9. RequestOK(p, session', OpenTabs)
  <2>1. RequestOK(q, session', OpenTabs)
    BY <1>3, <1>8, RequestKept
  <2>2. n \in DOMAIN session' /\ n # NoToken
    BY <1>6, <1>7 DEF NoToken
  <2>3. /\ p \in RequestType(session', OpenTabs) /\ p.kind = q.kind /\ p.email = q.email
        /\ p.token = q.token /\ p.at = "done"
        /\ p.answer = "ok" /\ p.owner = q.email /\ p.issued = n
    BY <1>2, <1>3, <2>1, <2>2 DEF RequestOK, RequestType
  <2>4. Asked(p)
    BY <1>1, <2>1, <2>3 DEF RequestOK, Asked, SignIns
  <2>5. Told(p, session')
    BY <1>1, <1>5, <1>7, <2>2, <2>3 DEF Told, SignIns
  <2>6. QED
    BY <2>3, <2>4, <2>5 DEF RequestOK
<1>10. Len(session') <= MaxTokens
  BY <1>6, <1>7, SessionsAssumption
<1>11. QED
  BY <1>4, <1>8, <1>9, <1>10, ServerKeeps DEF SessionsInv, Store

LEMMA LoginKeeps == ASSUME SessionsInv, NEW r \in Requests, Login(r) PROVE SessionsInv'
<1>1. req[r].kind = "login" /\ req[r].at = "sent" /\ UNCHANGED <<accounts, stored, tab>>
  BY DEF Login
<1>2. CASE IssueToken(r)
  BY <1>1, <1>2, IssueTokenKeeps DEF SignIns
<1>3. CASE req' = Reply(r, "401") /\ UNCHANGED session
  <2>1. req[r].token = NoToken
    BY <1>1, RequestOf DEF RequestOK, Asked, SignIns
  <2>2. QED
    BY <1>1, <1>3, <2>1, RefusingKeeps
<1>4. QED
  BY <1>2, <1>3 DEF Login

\* A registration goes one step on.
LEMMA RegisteringKeeps ==
  ASSUME SessionsInv, NEW r \in Requests, req[r].kind = "register",
         NEW at \in {"looked", "inserted"}, req[r].at # "done", req' = [req EXCEPT ![r].at = at],
         accounts' \in [Emails -> 0 .. 1], UNCHANGED <<session, stored, tab>>
  PROVE  SessionsInv'
<1>1. PICK q : q = req[r]
  OBVIOUS
<1>2. PICK p : p = [q EXCEPT !.at = at]
  OBVIOUS
<1>3. RequestOK(q, session, OpenTabs) /\ q \in RequestType(session, OpenTabs)
  BY <1>1, RequestOf
<1>4. /\ p \in RequestType(session, OpenTabs) /\ p.kind = q.kind /\ p.email = q.email
      /\ p.token = q.token /\ p.at = at /\ p.answer = q.answer
  BY <1>2, <1>3 DEF RequestType
<1>5. RequestOK(p, session, OpenTabs)
  BY <1>1, <1>3, <1>4 DEF RequestOK, Asked, Told, SignIns
<1>6. req' = [req EXCEPT ![r] = p]
  BY <1>1, <1>2
<1>7. QED
  BY <1>5, <1>6, SameSessions, ServerKeeps DEF SessionsInv, Store

LEMMA RegisterKeeps ==
  ASSUME SessionsInv, NEW r \in Requests,
         RegisterLook(r) \/ RegisterInsert(r) \/ RegisterSession(r)
  PROVE  SessionsInv'
<1>1. RequestOK(req[r], session, OpenTabs) /\ accounts \in [Emails -> 0 .. 1]
  BY RequestOf DEF SessionsInv, Store
<1>2. CASE RegisterLook(r)
  <2>1. CASE req' = Reply(r, "error")
    BY <1>2, <2>1, RefusingKeeps DEF RegisterLook
  <2>2. CASE req' = [req EXCEPT ![r].at = "looked"]
    BY <1>1, <1>2, <2>2, RegisteringKeeps DEF RegisterLook
  <2>3. QED
    BY <1>2, <2>1, <2>2 DEF RegisterLook
<1>3. CASE RegisterInsert(r)
  <2>1. CASE req' = Reply(r, "error") /\ UNCHANGED accounts
    BY <1>3, <2>1, RefusingKeeps DEF RegisterInsert
  <2>2. CASE ~(accounts[req[r].email] > 0)
    <3>1. req[r].kind = "register" /\ req[r].email \in Emails
      BY <1>1, <1>3 DEF RegisterInsert, RequestOK, Asked, SignIns
    <3>2. accounts[req[r].email] = 0
      BY <1>1, <2>2, <3>1
    <3>3. accounts' \in [Emails -> 0 .. 1]
      BY <1>1, <1>3, <2>2, <3>2 DEF RegisterInsert
    <3>4. QED
      BY <1>3, <2>2, <3>1, <3>3, RegisteringKeeps DEF RegisterInsert
  <2>3. QED
    BY <1>3, <2>1, <2>2 DEF RegisterInsert
<1>4. CASE RegisterSession(r)
  BY <1>1, <1>4, IssueTokenKeeps DEF RegisterSession, RequestOK, Asked, SignIns
<1>5. QED
  BY <1>2, <1>3, <1>4

\* A session dies.
LEMMA DyingKeeps ==
  ASSUME SessionsInv, NEW t \in DOMAIN session, session' = [session EXCEPT ![t].live = FALSE]
  PROVE  Kept(session, session') /\ Len(session') <= MaxTokens /\ DOMAIN session' = DOMAIN session
<1>1. session \in Seq(SessionType) /\ Len(session) <= MaxTokens
  BY DEF SessionsInv, Store
<1>2. session[t] \in SessionType
  BY <1>1
<1>3. [session[t] EXCEPT !.live = FALSE] \in SessionType
  BY <1>2 DEF SessionType
<1>4. session' = [session EXCEPT ![t] = [session[t] EXCEPT !.live = FALSE]]
  BY <1>1
<1>5. session' \in Seq(SessionType) /\ Len(session') = Len(session)
      /\ DOMAIN session' = DOMAIN session
  BY <1>1, <1>3, <1>4
<1>6. \A u \in DOMAIN session : session'[u].owner = session[u].owner
                               /\ (session'[u].live => session[u].live)
  BY <1>1, <1>2, <1>4 DEF SessionType
<1>7. QED
  BY <1>1, <1>5, <1>6 DEF Kept

LEMMA LogoutKeeps == ASSUME SessionsInv, NEW r \in Requests, Logout(r) PROVE SessionsInv'
<1>1. PICK q : q = req[r]
  OBVIOUS
<1>2. PICK p : p = [q EXCEPT !.at = "done", !.answer = "ok"]
  OBVIOUS
<1>3. RequestOK(q, session, OpenTabs) /\ q \in RequestType(session, OpenTabs)
      /\ q.kind = "logout" /\ q.token \in DOMAIN session
  BY <1>1, RequestOf DEF Logout, RequestOK, Asked, RequestType
<1>4. Kept(session, session') /\ Len(session') <= MaxTokens
  BY <1>1, <1>3, DyingKeeps DEF Logout
<1>5. RequestOK(q, session', OpenTabs)
  BY <1>3, <1>4, RequestKept
<1>6. /\ p \in RequestType(session', OpenTabs) /\ p.kind = "logout" /\ p.at = "done"
      /\ p.answer = "ok" /\ p.token = q.token
  BY <1>2, <1>3, <1>5 DEF RequestOK, RequestType
<1>7. RequestOK(p, session', OpenTabs)
  BY <1>3, <1>5, <1>6 DEF RequestOK, Asked, Told, SignIns
<1>8. req' = [req EXCEPT ![r] = p]
  BY <1>1, <1>2, <1>3, RequestOf DEF Logout, Reply, RequestType
<1>9. QED
  BY <1>4, <1>7, <1>8, ServerKeeps DEF Logout, SessionsInv, Store

LEMMA ExpireKeeps == ASSUME SessionsInv, NEW t \in Tokens, Expire(t) PROVE SessionsInv'
<1>1. Kept(session, session') /\ Len(session') <= MaxTokens /\ DOMAIN session' = DOMAIN session
  BY DyingKeeps DEF Expire, Live
<1>2. Store' /\ TabsOK' /\ OpenTabs' = OpenTabs
  BY <1>1 DEF Expire, SessionsInv, Store, TabsOK, OpenTabs, Kept
<1>3. RequestsOK'
  BY <1>1, <1>2, RequestKept DEF Expire, SessionsInv, RequestsOK
<1>4. QED
  BY <1>2, <1>3 DEF SessionsInv

LEMMA ReadKeeps == ASSUME SessionsInv, NEW r \in Requests, Read(r) PROVE SessionsInv'
<1>1. UNCHANGED <<accounts, session, stored, tab>> /\ req[r].at = "sent"
  BY DEF Read
<1>2. CASE Live(req[r].token)
  <2>1. PICK q : q = req[r]
    OBVIOUS
  <2>2. PICK p : p = [q EXCEPT !.at = "done", !.answer = "ok", !.owner = session[q.token].owner]
    OBVIOUS
  <2>3. RequestOK(q, session, OpenTabs) /\ q \in RequestType(session, OpenTabs)
        /\ q.kind \in Reads /\ q.token \in DOMAIN session /\ session[q.token].owner \in Emails
        /\ q.token # NoToken
    <3>1. session \in Seq(SessionType)
      BY DEF SessionsInv, Store
    <3>2. q.token \in DOMAIN session /\ q.token # NoToken
      BY <1>2, <2>1, <3>1, NoTokenIsNone DEF Live
    <3>3. session[q.token] \in SessionType
      BY <3>1, <3>2
    <3>4. QED
      BY <2>1, <3>2, <3>3, RequestOf DEF Read, SessionType
  <2>4. /\ p \in RequestType(session, OpenTabs) /\ p.kind = q.kind /\ p.email = q.email
        /\ p.token = q.token /\ p.at = "done" /\ p.answer = "ok"
        /\ p.owner = session[q.token].owner
    BY <2>2, <2>3 DEF RequestType
  <2>5. RequestOK(p, session, OpenTabs)
    BY <2>3, <2>4 DEF RequestOK, Asked, Told, SignIns, Reads
  <2>6. req' = [req EXCEPT ![r] = p]
    BY <1>2, <2>1, <2>2, <2>3, RequestOf DEF Read, Reply, RequestType
  <2>7. QED
    BY <1>1, <2>5, <2>6, SameSessions, ServerKeeps DEF SessionsInv, Store
<1>3. CASE ~Live(req[r].token)
  <2>1. req[r].token # NoToken => ~session[req[r].token].live
    BY <1>3, RequestOf DEF Live, RequestType
  <2>2. QED
    BY <1>1, <1>3, <2>1, RefusingKeeps DEF Read
<1>4. QED
  BY <1>2, <1>3

-----------------------------------------------------------------------------
\* The browser receives the reply.

LEMMA ReceiveKeeps == ASSUME SessionsInv, NEW r \in Requests, Receive(r) PROVE SessionsInv'
<1>1. PICK q : q = req[r]
  OBVIOUS
<1>2. RequestOK(q, session, OpenTabs) /\ q \in RequestType(session, OpenTabs)
  BY <1>1, RequestOf
<1>3. session' = session /\ accounts' = accounts /\ req' = [req EXCEPT ![r] = NoRequest]
  BY DEF Receive
<1>4. stored' \in {NoToken} \cup DOMAIN session
  BY <1>1, <1>2 DEF Receive, StoredAfter, SessionsInv, Store, RequestType
<1>5. tab' \in [Tabs -> TabType] /\ OpenTabs' = OpenTabs
      /\ \A b \in Tabs : tab'[b].open \/ tab'[b] = ClosedTab
  <2>1. CASE q.tab = NoOne
    BY <1>1, <2>1 DEF Receive, SessionsInv, TabsOK, OpenTabs
  <2>2. CASE q.tab # NoOne
    <3>1. q.tab \in Tabs /\ tab[q.tab].open /\ tab[q.tab] \in TabType
      BY <1>2, <2>2 DEF RequestType, OpenTabs, SessionsInv, TabsOK
    <3>2. PICK p : p = TabAfter(tab[q.tab], q)
      OBVIOUS
    <3>3. tab' = [tab EXCEPT ![q.tab] = p]
      BY <1>1, <2>2, <3>2 DEF Receive
    <3>4. q.owner \in Emails \cup {NoOne}
      BY <1>2 DEF RequestType
    <3>5. p \in TabType /\ p.open
      BY <3>1, <3>2, <3>4 DEF TabAfter, TabType
    <3>6. tab'[q.tab] = p /\ \A b \in Tabs \ {q.tab} : tab'[b] = tab[b]
      BY <3>1, <3>3 DEF SessionsInv, TabsOK
    <3>7. tab' \in [Tabs -> TabType]
      BY <3>3, <3>5 DEF SessionsInv, TabsOK
    <3>8. QED
      BY <3>1, <3>5, <3>6, <3>7 DEF SessionsInv, TabsOK, OpenTabs
  <2>3. QED
    BY <2>1, <2>2
<1>6. RequestsOK'
  BY <1>3, <1>5, SameSessions, NoRequestOK, OneRequestKeeps
<1>7. QED
  BY <1>3, <1>4, <1>5, <1>6 DEF SessionsInv, Store, TabsOK

LEMMA SessionsInvInit == Init => SessionsInv
<1> SUFFICES ASSUME Init PROVE SessionsInv
  OBVIOUS
<1>1. ClosedTab \in TabType
  BY DEF ClosedTab, TabType
<1>2. Store /\ TabsOK
  BY <1>1, SessionsAssumption DEF Init, Store, TabsOK
<1>3. RequestsOK
  BY NoRequestOK DEF Init, RequestsOK
<1>4. QED
  BY <1>2, <1>3 DEF SessionsInv

LEMMA SessionsInvStep == SessionsInv /\ [Next]_vars => SessionsInv'
<1> SUFFICES ASSUME SessionsInv, [Next]_vars PROVE SessionsInv'
  OBVIOUS
<1>1. CASE \E b \in Tabs, r \in Requests : Open(b, r)
  BY <1>1, OpenKeeps
<1>2. CASE \E b \in Tabs, r \in Requests :
             \/ SignOut(b, r) \/ List(b, r) \/ Call(b, r)
             \/ \E kind \in SignIns, e \in Emails : SignIn(b, r, kind, e)
  BY <1>2, SendingKeeps
<1>3. CASE \E b \in Tabs : Close(b) \/ Evict(b)
  BY <1>3, CloseKeeps, EvictKeeps
<1>4. CASE \E r \in Requests : Serve(r)
  BY <1>4, LoginKeeps, RegisterKeeps, LogoutKeeps, ReadKeeps DEF Serve
<1>5. CASE \E r \in Requests : Fail(r) \/ Receive(r)
  BY <1>5, FailKeeps, ReceiveKeeps
<1>6. CASE \E t \in Tokens : Expire(t)
  BY <1>6, ExpireKeeps
<1>7. CASE UNCHANGED vars
  BY <1>7 DEF vars, SessionsInv, Store, TabsOK, RequestsOK, OpenTabs
<1>8. QED
  BY <1>1, <1>2, <1>3, <1>4, <1>5, <1>6, <1>7 DEF Next

LEMMA SessionsAlways == Spec => []SessionsInv
  BY SessionsInvInit, SessionsInvStep, PTL DEF Spec

-----------------------------------------------------------------------------
\* What a reply does to the browser.

\* Nothing but a reply changes the stored token or names another user.
LEMMA OnlyReplies ==
  ASSUME SessionsInv, [Next]_vars, ~\E r \in Requests : Receive(r)
  PROVE  stored' = stored /\ \A b \in Tabs : tab'[b].user \in {NoOne, tab[b].user}
<1>1. tab \in [Tabs -> TabType]
  BY DEF SessionsInv, TabsOK
<1>2. ASSUME NEW b \in Tabs, NEW p \in {OpenedTab, ClosedTab, [tab[b] EXCEPT !.list = NoOne]},
             tab' = [tab EXCEPT ![b] = p]
      PROVE  \A o \in Tabs : tab'[o].user \in {NoOne, tab[o].user}
  <2>1. p.user \in {NoOne, tab[b].user}
    <3>1. tab[b] \in TabType
      BY <1>1
    <3>2. OpenedTab.user = NoOne /\ ClosedTab.user = NoOne
          /\ [tab[b] EXCEPT !.list = NoOne].user = tab[b].user
      BY <3>1 DEF OpenedTab, ClosedTab, TabType
    <3>3. QED
      BY <3>2
  <2>2. QED
    BY <1>1, <1>2, <2>1
<1>3. CASE \E b \in Tabs, r \in Requests : Open(b, r)
  BY <1>2, <1>3 DEF Open
<1>4. CASE \E b \in Tabs : Close(b) \/ Evict(b)
  BY <1>2, <1>4 DEF Close, Evict
<1>5. CASE \E b \in Tabs, r \in Requests :
             \/ SignOut(b, r) \/ List(b, r) \/ Call(b, r)
             \/ \E kind \in SignIns, e \in Emails : SignIn(b, r, kind, e)
  BY <1>5 DEF SignOut, List, Call, SignIn
<1>6. CASE \E r \in Requests : Serve(r) \/ Fail(r)
  BY <1>6 DEF Serve, Fail, Login, RegisterLook, RegisterInsert, RegisterSession, Logout, Read
<1>7. CASE (\E t \in Tokens : Expire(t)) \/ UNCHANGED vars
  BY <1>7 DEF Expire, vars
<1>8. QED
  BY <1>3, <1>4, <1>5, <1>6, <1>7 DEF Next

LEMMA ReplyRemoves ==
  ASSUME SessionsInv, NEW r \in Requests, Receive(r)
  PROVE  req[r].at = "done" /\ req'[r] = NoRequest /\ RequestOK(req[r], session, OpenTabs)
  BY RequestOf DEF Receive

\* Types, closed tabs, and one account for an address.
THEOREM SessionsTypes == Spec => []TypeOK
<1>1. ASSUME SessionsInv PROVE TypeOK
  <2>1. ASSUME NEW r \in Requests PROVE req[r] \in RequestType(session, OpenTabs)
    BY <1>1, RequestOf
  <2>2. ASSUME NEW b \in Tabs
        PROVE  /\ tab[b].open \/ tab[b] = ClosedTab
               /\ tab[b].loading \in BOOLEAN
               /\ {tab[b].user, tab[b].list} \subseteq Emails \cup {NoOne}
    BY <1>1 DEF SessionsInv, TabsOK, TabType
  <2>3. QED
    BY <1>1, <2>1, <2>2 DEF TypeOK, SessionsInv, Store, SessionType, RequestType, OpenTabs
<1>2. QED
  BY <1>1, SessionsAlways, PTL

\* A token that is still valid is dropped (clearSession) by a logout, or by a 401
\* that was meant for another token, and by nothing else.
THEOREM ValidTokensStay == Spec => ValidTokenKept
<1>1. ASSUME SessionsInv, [Next]_vars, Live(stored), stored' = NoToken
      PROVE  \E r \in Requests : /\ req[r].at = "done" /\ req'[r] = NoRequest
                                 /\ req[r].kind = "logout" \/ req[r].token # stored
  <2>1. stored \in DOMAIN session /\ stored # NoToken /\ session[stored].live
    BY <1>1, NoTokenIsNone DEF Live, SessionsInv, Store
  <2>2. PICK r \in Requests : Receive(r)
    BY <1>1, <2>1, OnlyReplies
  <2>3. req[r].at = "done" /\ req'[r] = NoRequest /\ Told(req[r], session) /\ Asked(req[r])
    BY <1>1, <2>2, ReplyRemoves DEF RequestOK
  <2>4. SignsOut(req[r])
    BY <1>1, <2>1, <2>2, <2>3 DEF Receive, StoredAfter, SignsIn, Told
  <2>5. req[r].answer = "401" => req[r].token # stored
    BY <2>1, <2>3 DEF Told
  <2>6. QED
    BY <2>3, <2>4, <2>5 DEF SignsOut
<1>2. QED
  BY <1>1, SessionsAlways, PTL DEF Spec, ValidTokenKept

\* A tab that names another user (setUser) names the owner of the stored token, or
\* has just been told of a token that is not the stored one any more.
THEOREM UsersAreShown == Spec => UserShown
<1>1. ASSUME SessionsInv, [Next]_vars, NEW b \in Tabs, tab'[b].user \notin {NoOne, tab[b].user}
      PROVE  \/ stored' # NoToken /\ session[stored'].owner = tab'[b].user
             \/ \E r \in Requests : /\ req[r].kind = "me" /\ req'[r] = NoRequest
                                    /\ req[r].token # stored /\ req[r].owner = tab'[b].user
  <2>1. PICK r \in Requests : Receive(r)
    BY <1>1, OnlyReplies
  <2>2. PICK q : q = req[r]
    OBVIOUS
  <2>3. req'[r] = NoRequest /\ Told(q, session)
    BY <1>1, <2>1, <2>2, ReplyRemoves DEF RequestOK
  <2>4. q.tab = b /\ tab' = [tab EXCEPT ![b] = TabAfter(tab[b], q)] /\ stored' = StoredAfter(q)
    BY <1>1, <2>1, <2>2 DEF Receive, SessionsInv, TabsOK
  <2>5. tab'[b] = TabAfter(tab[b], q) /\ tab[b] \in TabType
    BY <1>1, <2>4 DEF SessionsInv, TabsOK
  <2>6. ~SignsOut(q) /\ q.answer = "ok" /\ q.kind \in SignIns \cup {"me"} /\ tab'[b].user = q.owner
    BY <1>1, <2>5 DEF TabAfter, TabType
  <2>7. CASE q.kind \in SignIns
    BY <2>3, <2>4, <2>6, <2>7 DEF Told, StoredAfter, SignsIn
  <2>8. CASE q.kind = "me"
    <3>1. stored' = stored
      BY <2>4, <2>6, <2>8 DEF StoredAfter, SignsIn, SignIns
    <3>2. QED
      BY <2>2, <2>3, <2>6, <2>8, <3>1 DEF Told
  <2>9. QED
    BY <2>6, <2>7, <2>8
<1>2. ASSUME SessionsInv, [Next]_vars
      PROVE  \A b \in Tabs :
               tab'[b].user \notin {NoOne, tab[b].user} =>
                 \/ stored' # NoToken /\ session[stored'].owner = tab'[b].user
                 \/ \E r \in Requests : /\ req[r].kind = "me" /\ req'[r] = NoRequest
                                       /\ req[r].token # stored /\ req[r].owner = tab'[b].user
  BY <1>1, <1>2
<1>3. QED
  BY <1>2, SessionsAlways, PTL DEF Spec, UserShown

-----------------------------------------------------------------------------
\* The safety half of LoadingEnds: a tab that waits for its bootstrap has asked.

\* The request of tab b's bootstrap is with the server, or its answer on the way.
Asking(b) ==
  \E r \in Requests : req[r].kind = "me" /\ req[r].tab = b /\ req[r].at \in {"sent", "done"}

LoadingIsAsked == \A b \in Tabs : tab[b].loading => Asking(b)

\* A bootstrap's request is there until it is received or its tab is closed.
LEMMA AskingStays ==
  ASSUME SessionsInv, [Next]_vars, NEW b \in Tabs, NEW r \in Requests,
         req[r].kind = "me", req[r].tab = b, ~Receive(r), ~Close(b)
  PROVE  req'[r].kind = "me" /\ req'[r].tab = b
<1>1. r \in DOMAIN req /\ req[r] \in RequestType(session, OpenTabs) /\ Asked(req[r])
  BY RequestOf DEF RequestOK
<1>2. req[r].at # "free"
  BY <1>1 DEF Asked
<1>3. CASE \E c \in Tabs, s \in Requests :
             \/ Open(c, s) \/ SignOut(c, s) \/ List(c, s) \/ Call(c, s)
             \/ \E kind \in SignIns, e \in Emails : SignIn(c, s, kind, e)
  BY <1>1, <1>2, <1>3 DEF Open, SignOut, List, Call, SignIn, Send
<1>4. CASE \E c \in Tabs : Close(c) \/ Evict(c)
  BY <1>1, <1>4 DEF Close, Evict
<1>5. CASE \E s \in Requests : Serve(s)
  BY <1>1, <1>5 DEF Serve, Login, RegisterLook, RegisterInsert, RegisterSession, Logout, Read,
                    IssueToken, Reply, RequestType
<1>6. CASE \E s \in Requests : Fail(s) \/ Receive(s)
  BY <1>1, <1>6 DEF Fail, Receive, Reply, RequestType
<1>7. CASE (\E t \in Tokens : Expire(t)) \/ UNCHANGED vars
  BY <1>7 DEF Expire, vars
<1>8. QED
  BY <1>3, <1>4, <1>5, <1>6, <1>7 DEF Next

\* A tab that is loading was loading before, or has just been opened and has asked.
LEMMA LoadingStarts ==
  ASSUME SessionsInv, [Next]_vars, NEW b \in Tabs, tab'[b].loading
  PROVE  \/ tab[b].loading /\ ~Close(b)
         \/ \E r \in Requests : req'[r] = Sent("me", b)
<1>1. tab \in [Tabs -> TabType]
  BY DEF SessionsInv, TabsOK
<1>2. CASE Close(b)
  BY <1>1, <1>2 DEF Close, ClosedTab
<1>3. CASE \E r \in Requests : Open(b, r)
  <2>1. PICK r \in Requests : Open(b, r)
    BY <1>3
  <2>2. stored # NoToken
    BY <1>1, <2>1 DEF Open, OpenedTab, ClosedTab
  <2>3. QED
    BY <2>1, <2>2 DEF Open, Send, SessionsInv, RequestsOK
<1>4. CASE /\ ~Close(b)
           /\ \E c \in Tabs : \/ Close(c) \/ Evict(c)
                              \/ c # b /\ \E r \in Requests : Open(c, r)
  BY <1>1, <1>4 DEF Close, Evict, Open, TabType
<1>5. CASE tab' = tab /\ ~Close(b)
  BY <1>5
<1>6. CASE (\E r \in Requests : Receive(r)) /\ ~Close(b)
  <2>1. PICK r \in Requests : Receive(r)
    BY <1>6
  <2>2. ASSUME NEW q, NEW p, p = TabAfter(tab[b], q), p.loading
        PROVE  tab[b].loading
    <3>1. tab[b] \in TabType
      BY <1>1
    <3>2. p.loading = (tab[b].loading /\ q.kind # "me")
      BY <2>2, <3>1 DEF TabAfter, TabType
    <3> QED
      BY <2>2, <3>2
  <2>3. tab'[b] = tab[b] \/ tab'[b] = TabAfter(tab[b], req[r])
    BY <1>1, <2>1 DEF Receive
  <2> QED
    BY <1>6, <2>2, <2>3
<1>7. CASE \E c \in Tabs, s \in Requests :
             \/ SignOut(c, s) \/ List(c, s) \/ Call(c, s)
             \/ \E kind \in SignIns, e \in Emails : SignIn(c, s, kind, e)
  BY <1>2, <1>5, <1>7 DEF SignOut, List, Call, SignIn
<1>8. CASE \E s \in Requests : Serve(s) \/ Fail(s)
  BY <1>2, <1>5, <1>8 DEF Serve, Fail, Login, RegisterLook, RegisterInsert, RegisterSession, Logout, Read
<1>9. CASE (\E t \in Tokens : Expire(t)) \/ UNCHANGED vars
  BY <1>2, <1>5, <1>9 DEF Expire, vars
<1>10. QED
  BY <1>2, <1>3, <1>4, <1>6, <1>7, <1>8, <1>9 DEF Next

\* A tab whose pages wait (isLoading) always has the request of its bootstrap on
\* the way, and whatever answers it ends the waiting.  What LoadingEnds adds to
\* this is that the answer comes.
THEOREM LoadingAwaitsAnswer ==
  Spec => /\ []LoadingIsAsked
          /\ [][\A r \in Requests :
                  Receive(r) /\ req[r].kind = "me" /\ req[r].tab \in Tabs
                    => ~tab'[req[r].tab].loading]_vars
<1> DEFINE Ends == \A r \in Requests :
                     Receive(r) /\ req[r].kind = "me" /\ req[r].tab \in Tabs
                       => ~tab'[req[r].tab].loading
<1>1. SessionsInv => [Ends]_vars
  <2> SUFFICES ASSUME SessionsInv, NEW r \in Requests, Receive(r), req[r].kind = "me",
                      req[r].tab \in Tabs
               PROVE  ~tab'[req[r].tab].loading
    OBVIOUS
  <2>1. tab \in [Tabs -> TabType] /\ req[r].tab # NoOne
    BY SomeoneIs DEF SessionsInv, TabsOK
  <2> QED
    BY <2>1 DEF Receive, TabAfter, TabType
<1>2. ASSUME SessionsInv', NEW r \in Requests, NEW b \in Tabs, req'[r].kind = "me", req'[r].tab = b
      PROVE  Asking(b)'
  <2>1. RequestOK(req'[r], session', OpenTabs')
    BY <1>2 DEF SessionsInv, RequestsOK
  <2>2. req'[r].at \in {"sent", "done"}
    BY <1>2, <2>1 DEF RequestOK, RequestType, Asked
  <2> QED
    BY <1>2, <2>2 DEF Asking
<1>3. Init => LoadingIsAsked
  BY DEF Init, LoadingIsAsked, ClosedTab
<1>4. SessionsInv /\ SessionsInv' /\ LoadingIsAsked /\ [Next]_vars => LoadingIsAsked'
  <2> SUFFICES ASSUME SessionsInv, SessionsInv', LoadingIsAsked, [Next]_vars,
                      NEW b \in Tabs, tab'[b].loading
               PROVE  Asking(b)'
    BY DEF LoadingIsAsked
  <2>1. CASE \E r \in Requests : req'[r] = Sent("me", b)
    <3>1. PICK r \in Requests : req'[r] = Sent("me", b)
      BY <2>1
    <3>2. req'[r].kind = "me" /\ req'[r].tab = b
      BY <3>1 DEF Sent, NoRequest
    <3> QED
      BY <1>2, <3>2
  <2>2. CASE tab[b].loading /\ ~Close(b)
    <3>1. PICK r \in Requests : req[r].kind = "me" /\ req[r].tab = b
      BY <2>2 DEF LoadingIsAsked, Asking
    <3>2. ~Receive(r)
      <4> SUFFICES ASSUME Receive(r)
                   PROVE  FALSE
        OBVIOUS
      <4>1. tab \in [Tabs -> TabType] /\ b # NoOne
        BY SomeoneIs DEF SessionsInv, TabsOK
      <4> QED
        BY <3>1, <4>1 DEF Receive, TabAfter, TabType
    <3>3. req'[r].kind = "me" /\ req'[r].tab = b
      BY <2>2, <3>1, <3>2, AskingStays
    <3> QED
      BY <1>2, <3>3
  <2> QED
    BY <2>1, <2>2, LoadingStarts
<1>5. Spec => []LoadingIsAsked
  BY <1>3, <1>4, SessionsAlways, PTL DEF Spec
<1> QED
  BY <1>1, <1>5, SessionsAlways, PTL
=============================================================================
