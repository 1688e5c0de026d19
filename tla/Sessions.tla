------------------------------ MODULE Sessions ------------------------------
(***************************************************************************)
(* Signing in and out: the server's accounts and sessions, and a browser   *)
(* whose tabs share one token in local storage while each keeps a user of  *)
(* its own (AuthContext) and a query cache of its own.                     *)
(*                                                                         *)
(* Every request carries the token that was stored when it was sent.  What *)
(* comes back may meet another token, another user or a closed tab.        *)
(***************************************************************************)
EXTENDS Integers, Sequences

CONSTANTS
  Tabs,       \* browser tabs
  Emails,     \* e-mail addresses, which stand for their users
  Requests,   \* slots for requests in flight
  NoOne,      \* no tab, no user, no data
  MaxTokens   \* bound: how many sessions are ever created

ASSUME SessionsAssumption ==
  /\ MaxTokens \in Nat
  /\ NoOne \notin Tabs \cup Emails

VARIABLES
  accounts,  \* the rows of the table users, counted by e-mail address
  session,   \* the table user_sessions, by token
  stored,    \* the token in local storage
  tab,       \* the state of each tab
  req        \* the requests

vars == <<accounts, session, stored, tab, req>>

-----------------------------------------------------------------------------
\* Tokens are random and never issued twice: the n-th session has token n.
NoToken == 0
Tokens == 1 .. MaxTokens

SignIns == {"login", "register"}
Reads == {"me", "list", "call"}  \* "call": any other call that needs a session

\* A session without revoked_at whose expires_at is still to come.
Live(t) == t \in DOMAIN session /\ session[t].live

ClosedTab == [open |-> FALSE, loading |-> FALSE, user |-> NoOne, list |-> NoOne]

\* AuthProvider as it is mounted: it boots if there is a token.
OpenedTab == [ClosedTab EXCEPT !.open = TRUE, !.loading = (stored # NoToken)]

NoRequest == [kind |-> "none", tab |-> NoOne, email |-> NoOne, token |-> NoToken,
              at |-> "free", answer |-> "none", owner |-> NoOne, issued |-> NoToken]

Init ==
  /\ accounts = [e \in Emails |-> 0]
  /\ session = <<>>
  /\ stored = NoToken
  /\ tab = [b \in Tabs |-> ClosedTab]
  /\ req = [r \in Requests |-> NoRequest]

\* apiFetch: the token is read from the storage as the request is sent.
Sent(kind, b) ==
  [NoRequest EXCEPT !.kind = kind, !.tab = b, !.at = "sent",
                    !.token = IF kind \in SignIns THEN NoToken ELSE stored]

Send(r, q) ==
  /\ req[r].at = "free"
  /\ req' = [req EXCEPT ![r] = q]

-----------------------------------------------------------------------------
\* The tabs.

Open(b, r) ==
  /\ ~tab[b].open
  /\ tab' = [tab EXCEPT ![b] = OpenedTab]
  /\ IF stored # NoToken THEN Send(r, Sent("me", b)) ELSE UNCHANGED req
  /\ UNCHANGED <<accounts, session, stored>>

\* Closing or reloading.  The server goes on with what the tab had asked it to
\* change; the replies find nobody.
Close(b) ==
  /\ tab[b].open
  /\ tab' = [tab EXCEPT ![b] = ClosedTab]
  /\ req' = [r \in Requests |->
               IF req[r].tab # b THEN req[r]
               ELSE IF req[r].kind \in Reads \/ req[r].at = "done" THEN NoRequest
               ELSE [req[r] EXCEPT !.tab = NoOne]]
  /\ UNCHANGED <<accounts, session, stored>>

\* The forms are shown while no token is stored.
SignIn(b, r, kind, e) ==
  /\ tab[b].open
  /\ stored = NoToken
  /\ Send(r, [Sent(kind, b) EXCEPT !.email = e])
  /\ UNCHANGED <<accounts, session, stored, tab>>

SignOut(b, r) ==
  /\ tab[b].open
  /\ stored # NoToken
  /\ Send(r, Sent("logout", b))
  /\ UNCHANGED <<accounts, session, stored, tab>>

\* The library: mounted while there is a token, and fetched one at a time.
List(b, r) ==
  /\ tab[b].open
  /\ stored # NoToken
  /\ \A s \in Requests : ~(req[s].kind = "list" /\ req[s].tab = b)
  /\ Send(r, Sent("list", b))
  /\ UNCHANGED <<accounts, session, stored, tab>>

\* Any other call of the API, which a page may also send (or retry) when the
\* token is gone already.
Call(b, r) ==
  /\ tab[b].open
  /\ Send(r, Sent("call", b))
  /\ UNCHANGED <<accounts, session, stored, tab>>

\* The cached list is dropped when it has had no observer for its gcTime.
Evict(b) ==
  /\ stored = NoToken
  /\ tab[b].list # NoOne
  /\ tab' = [tab EXCEPT ![b].list = NoOne]
  /\ UNCHANGED <<accounts, session, stored, req>>

-----------------------------------------------------------------------------
\* The server.

Reply(r, answer) == [req EXCEPT ![r].at = "done", ![r].answer = answer]

\* _create_session, and the reply that brings the token.
IssueToken(r) ==
  /\ Len(session) < MaxTokens
  /\ session' = Append(session, [owner |-> req[r].email, live |-> TRUE])
  /\ req' = [Reply(r, "ok") EXCEPT ![r].owner = req[r].email, ![r].issued = Len(session) + 1]

\* The password may be wrong, and the address unknown.
Login(r) ==
  /\ req[r].kind = "login" /\ req[r].at = "sent"
  /\ \/ accounts[req[r].email] > 0 /\ IssueToken(r)
     \/ req' = Reply(r, "401") /\ UNCHANGED session
  /\ UNCHANGED <<accounts, stored, tab>>

\* register: a look, an insert and a session, each in a transaction of its own.
RegisterLook(r) ==
  /\ req[r].kind = "register" /\ req[r].at = "sent"
  /\ req' = IF accounts[req[r].email] > 0 THEN Reply(r, "error")
            ELSE [req EXCEPT ![r].at = "looked"]
  /\ UNCHANGED <<accounts, session, stored, tab>>

\* Mutant of RegisterInsert: the column email is not unique.
RegisterInsertAnyway(r) ==
  /\ req[r].at = "looked"
  /\ accounts' = [accounts EXCEPT ![req[r].email] = @ + 1]
  /\ req' = [req EXCEPT ![r].at = "inserted"]
  /\ UNCHANGED <<session, stored, tab>>

RegisterInsert(r) ==
  /\ req[r].at = "looked"
  /\ IF accounts[req[r].email] > 0
     THEN req' = Reply(r, "error") /\ UNCHANGED accounts
     ELSE /\ accounts' = [accounts EXCEPT ![req[r].email] = @ + 1]
          /\ req' = [req EXCEPT ![r].at = "inserted"]
  /\ UNCHANGED <<session, stored, tab>>

RegisterSession(r) ==
  /\ req[r].at = "inserted"
  /\ IssueToken(r)
  /\ UNCHANGED <<accounts, stored, tab>>

Logout(r) ==
  /\ req[r].kind = "logout" /\ req[r].at = "sent"
  /\ session' = [session EXCEPT ![req[r].token].live = FALSE]
  /\ req' = Reply(r, "ok")
  /\ UNCHANGED <<accounts, stored, tab>>

\* get_current_user, and what belongs to that user.
Read(r) ==
  /\ req[r].kind \in Reads /\ req[r].at = "sent"
  /\ req' = IF Live(req[r].token)
            THEN [Reply(r, "ok") EXCEPT ![r].owner = session[req[r].token].owner]
            ELSE Reply(r, "401")
  /\ UNCHANGED <<accounts, session, stored, tab>>

\* 5xx, 429, or a reply that never comes, before or after the server did it.
Fail(r) ==
  /\ req[r].at # "free"
  /\ req[r].answer # "error"
  /\ req' = [Reply(r, "error") EXCEPT ![r].owner = NoOne, ![r].issued = NoToken]
  /\ UNCHANGED <<accounts, session, stored, tab>>

Expire(t) ==
  /\ Live(t)
  /\ session' = [session EXCEPT ![t].live = FALSE]
  /\ UNCHANGED <<accounts, stored, tab, req>>

-----------------------------------------------------------------------------
\* The reply.

\* Mutant of SignsOut: every failure of a call does, as a network error would.
SignsOutOnAnyError(q) == q.answer # "ok" \/ q.kind = "logout"

\* The handler of a 401, whichever request it answers, and the finally of
\* logout(), however the request ended, call clearSession.
SignsOut(q) == q.answer = "401" \/ q.kind = "logout"

SignsIn(q) == q.answer = "ok" /\ q.kind \in SignIns

\* Mutant of TabAfter: bootstrap has no finally.
TabAfterSuccessOnly(p, q) ==
  [p EXCEPT !.loading = @ /\ ~(q.kind = "me" /\ q.answer = "ok"),
            !.user = IF SignsOut(q) THEN NoOne
                     ELSE IF q.answer = "ok" /\ q.kind \in SignIns \cup {"me"} THEN q.owner ELSE @,
            !.list = IF q.answer = "ok" /\ q.kind = "list" THEN q.owner ELSE @]

\* The user is set by whatever sign-in or bootstrap is answered last.
TabAfter(p, q) ==
  [p EXCEPT !.loading = @ /\ q.kind # "me",
            !.user = IF SignsOut(q) THEN NoOne
                     ELSE IF q.answer = "ok" /\ q.kind \in SignIns \cup {"me"} THEN q.owner ELSE @,
            !.list = IF q.answer = "ok" /\ q.kind = "list" THEN q.owner ELSE @]

\* Mutant of StoredAfter: a token that is there is not written over.
StoredAfterFirst(q) ==
  IF SignsOut(q) THEN NoToken ELSE IF SignsIn(q) /\ stored = NoToken THEN q.issued ELSE stored

StoredAfter(q) ==
  IF SignsOut(q) THEN NoToken ELSE IF SignsIn(q) THEN q.issued ELSE stored

Receive(r) ==
  /\ req[r].at = "done"
  /\ IF req[r].tab = NoOne
     THEN UNCHANGED <<stored, tab>>
     ELSE /\ stored' = StoredAfter(req[r])
          /\ tab' = [tab EXCEPT ![req[r].tab] = TabAfter(@, req[r])]
  /\ req' = [req EXCEPT ![r] = NoRequest]
  /\ UNCHANGED <<accounts, session>>

Serve(r) ==
  Login(r) \/ RegisterLook(r) \/ RegisterInsert(r) \/ RegisterSession(r) \/ Logout(r) \/ Read(r)

Next ==
  \/ \E b \in Tabs, r \in Requests :
       \/ Open(b, r) \/ SignOut(b, r) \/ List(b, r) \/ Call(b, r)
       \/ \E kind \in SignIns, e \in Emails : SignIn(b, r, kind, e)
  \/ \E b \in Tabs : Close(b) \/ Evict(b)
  \/ \E r \in Requests : Serve(r) \/ Fail(r) \/ Receive(r)
  \/ \E t \in Tokens : Expire(t)

Spec == Init /\ [][Next]_vars

\* The browser settles every request, with an error if it must.
FairSpec ==
  Spec /\ \A r \in Requests : WF_vars(Serve(r) \/ Fail(r)) /\ WF_vars(Receive(r))

-----------------------------------------------------------------------------
\* Every variable keeps its type, a closed tab has no state, and an address has
\* one account at most, however registrations race.
TypeOK ==
  /\ accounts \in [Emails -> 0..1]
  /\ session \in Seq([owner : Emails, live : BOOLEAN]) /\ Len(session) <= MaxTokens
  /\ stored \in {NoToken} \cup DOMAIN session
  /\ \A b \in Tabs : /\ tab[b].open \/ tab[b] = ClosedTab
                     /\ tab[b].loading \in BOOLEAN
                     /\ {tab[b].user, tab[b].list} \subseteq Emails \cup {NoOne}
  /\ \A r \in Requests :
       /\ req[r].kind \in SignIns \cup Reads \cup {"logout", "none"}
       /\ req[r].tab \in {NoOne} \cup {b \in Tabs : tab[b].open}
       /\ req[r].email \in Emails \cup {NoOne}
       /\ req[r].token \in {NoToken} \cup DOMAIN session
       /\ req[r].at \in {"free", "sent", "looked", "inserted", "done"}
       /\ req[r].answer \in {"none", "ok", "401", "error"}
       /\ req[r].owner \in Emails \cup {NoOne}
       /\ req[r].issued \in {NoToken} \cup DOMAIN session

\* What the comment in bootstrap() asks for: no token that is still valid is
\* dropped because a request made with it failed.  Only a logout drops it, or a
\* 401 that was meant for another token.
ValidTokenKept ==
  [][Live(stored) /\ stored' = NoToken =>
       \E r \in Requests : /\ req[r].at = "done" /\ req'[r] = NoRequest
                           /\ req[r].kind = "logout" \/ req[r].token # stored]_vars

\* At the moment a tab comes to name a user, that user is the owner of the token
\* requests carry, however the sign-ins of several tabs race; the one exception
\* is a bootstrap whose token was replaced or dropped while it was asked about.
\* What the tab goes on to show when another tab replaces the token is not in it.
\* (setAuthToken and setUser, AuthContext.tsx.)
UserShown ==
  [][\A b \in Tabs :
       tab'[b].user \notin {NoOne, tab[b].user} =>
         \/ stored' # NoToken /\ session[stored'].owner = tab'[b].user
         \/ \E r \in Requests : /\ req[r].kind = "me" /\ req'[r] = NoRequest
                               /\ req[r].token # stored /\ req[r].owner = tab'[b].user]_vars

\* The pages that wait for the bootstrap (isLoading) do not wait for ever.
LoadingEnds == \A b \in Tabs : tab[b].loading ~> ~tab[b].loading

\* What the documentation says of the library: it lists the caller's documents,
\* the caller being the owner of the token.
LibraryIsCallers ==
  \A b \in Tabs :
    tab[b].open /\ stored # NoToken /\ tab[b].list # NoOne =>
      tab[b].list = session[stored].owner
=============================================================================
