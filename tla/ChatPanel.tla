----------------------------- MODULE ChatPanel -----------------------------
(***************************************************************************)
(* The chat panel of one conversation in the browser: the transcript it    *)
(* shows, the cached query it is hydrated from, and the messages it sends. *)
(*                                                                         *)
(* The panel can be closed and opened again at any time.  The query cache  *)
(* outlives it, and so do its requests, whose replies then find no panel,  *)
(* or another one.                                                         *)
(***************************************************************************)
EXTENDS Integers, Sequences

CONSTANTS
  NoData,    \* a query that has never had an answer
  MaxTurns,  \* bound: how many messages are ever sent
  MaxOpens   \* bound: how often the panel is opened

ASSUME PanelAssumption == MaxTurns \in Nat /\ MaxOpens \in Nat

VARIABLES
  history,  \* what the server would answer to GET /messages
  cache,    \* the data of the query ['conversation-messages', id]
  fetch,    \* the fetch of that query, and what the server answered it
  panel,    \* the panel and the state of its component
  opened,   \* how often it has been opened: the number of the present one
  chats,    \* the chat requests, by turn
  turns     \* how many messages have been sent

vars == <<history, cache, fetch, panel, opened, chats, turns>>

-----------------------------------------------------------------------------
User(t) == <<t, "user">>
Assistant(t) == <<t, "assistant">>

Turns == 1 .. MaxTurns

NoFetch == [at |-> "none", data |-> <<>>]

\* The state of a component that has just been mounted.  sent is history: the
\* user has sent a message from this panel.
FreshPanel == [open |-> TRUE, hydrated |-> FALSE, messages |-> <<>>,
               sending |-> FALSE, sent |-> FALSE]

NoPanel == [FreshPanel EXCEPT !.open = FALSE]

NoChat == [at |-> "none", by |-> 0, memory |-> <<>>]

Init ==
  /\ history = <<>>
  /\ cache = NoData
  /\ fetch = NoFetch
  /\ panel = NoPanel
  /\ opened = 0
  /\ chats = [t \in Turns |-> NoChat]
  /\ turns = 0

\* The effect that seeds the transcript, run after every render: once for each
\* panel, and never after a message was sent from it.
Hydrated(p, data) ==
  IF p.open /\ ~p.hydrated /\ data # NoData
  THEN [p EXCEPT !.hydrated = TRUE, !.messages = data] ELSE p

\* useQuery fetches when it mounts and, as its data is always stale, when the
\* window is focused or the network comes back; two fetches are never in flight.
Fetching == IF fetch = NoFetch THEN [NoFetch EXCEPT !.at = "sent"] ELSE fetch

Open ==
  /\ ~panel.open
  /\ opened < MaxOpens
  /\ opened' = opened + 1
  /\ panel' = Hydrated(FreshPanel, cache)
  /\ fetch' = Fetching
  /\ UNCHANGED <<history, cache, chats, turns>>

\* The overlay is dismissed or another conversation is chosen: the component,
\* keyed by its conversation, is unmounted.
Close ==
  /\ panel.open
  /\ panel' = NoPanel
  /\ UNCHANGED <<history, cache, fetch, opened, chats, turns>>

Refocus ==
  /\ panel.open
  /\ fetch = NoFetch
  /\ fetch' = Fetching
  /\ UNCHANGED <<history, cache, panel, opened, chats, turns>>

\* A query that nothing observes is dropped after its gcTime.
Evict ==
  /\ ~panel.open
  /\ cache # NoData
  /\ fetch = NoFetch
  /\ cache' = NoData
  /\ UNCHANGED <<history, fetch, panel, opened, chats, turns>>

ServeHistory ==
  /\ fetch.at = "sent"
  /\ fetch' = [at |-> "served", data |-> history]
  /\ UNCHANGED <<history, cache, panel, opened, chats, turns>>

\* The answer of the fetch is cached, and the panel is rendered with it.
HistoryArrives ==
  /\ fetch.at = "served"
  /\ cache' = fetch.data
  /\ panel' = Hydrated(panel, fetch.data)
  /\ fetch' = NoFetch
  /\ UNCHANGED <<history, opened, chats, turns>>

\* The retries are used up: the query keeps the data it had.
FetchFails ==
  /\ fetch # NoFetch
  /\ fetch' = NoFetch
  /\ UNCHANGED <<history, cache, panel, opened, chats, turns>>

-----------------------------------------------------------------------------
\* Mutant of Sending: hydration is not locked.
SendingUnlocked(p, t) ==
  [p EXCEPT !.messages = Append(@, User(t)), !.sending = TRUE, !.sent = TRUE]

Sending(p, t) ==
  [p EXCEPT !.messages = Append(@, User(t)), !.sending = TRUE, !.hydrated = TRUE, !.sent = TRUE]

\* send(), up to its await.
Send ==
  /\ panel.open
  /\ ~panel.sending
  /\ turns < MaxTurns
  /\ turns' = turns + 1
  /\ panel' = Sending(panel, turns + 1)
  /\ chats' = [chats EXCEPT ![turns + 1] = [at |-> "sent", by |-> opened, memory |-> <<>>]]
  /\ UNCHANGED <<history, cache, fetch, opened>>

\* The server loads the thread and records the question...
Ask(t) ==
  /\ chats[t].at = "sent"
  /\ chats' = [chats EXCEPT ![t].at = "asked", ![t].memory = Append(history, User(t))]
  /\ history' = Append(history, User(t))
  /\ UNCHANGED <<cache, fetch, panel, opened, turns>>

\* ... and then the answer, after what it had loaded.
Answer(t) ==
  /\ chats[t].at = "asked"
  /\ chats' = [chats EXCEPT ![t].at = "answered"]
  /\ history' = Append(chats[t].memory, Assistant(t))
  /\ UNCHANGED <<cache, fetch, panel, opened, turns>>

\* A document without text has an answer that is not recorded.
AnswerUnrecorded(t) ==
  /\ chats[t].at = "sent"
  /\ chats' = [chats EXCEPT ![t].at = "answered"]
  /\ UNCHANGED <<history, cache, fetch, panel, opened, turns>>

\* 401, 404, 409, 429, 502, 504, or no reply at all.
Fail(t) ==
  /\ chats[t].at \in {"sent", "asked"}
  /\ chats' = [chats EXCEPT ![t].at = "failed"]
  /\ UNCHANGED <<history, cache, fetch, panel, opened, turns>>

\* Mutants of AfterReply: the reply is shown in whatever panel is open; only an
\* answer makes the panel ready again.
AfterReplyAnywhere(p, chat, t) ==
  IF p.open
  THEN [p EXCEPT !.sending = FALSE,
                 !.messages = IF chat.at = "answered" THEN Append(@, Assistant(t)) ELSE @]
  ELSE p

AfterReplyWithoutFinally(p, chat, t) ==
  IF p.open /\ chat.by = opened /\ chat.at = "answered"
  THEN [p EXCEPT !.sending = FALSE, !.messages = Append(@, Assistant(t))] ELSE p

\* What follows the await: the setters of a panel that was closed do nothing.
AfterReply(p, chat, t) ==
  IF p.open /\ chat.by = opened
  THEN [p EXCEPT !.sending = FALSE,
                 !.messages = IF chat.at = "answered" THEN Append(@, Assistant(t)) ELSE @]
  ELSE p

\* The queries it invalidates are the titles' and the list's, not the messages'.
ReplyArrives(t) ==
  /\ chats[t].at \in {"answered", "failed"}
  /\ panel' = AfterReply(panel, chats[t], t)
  /\ chats' = [chats EXCEPT ![t] = NoChat]
  /\ UNCHANGED <<history, cache, fetch, opened, turns>>

Next ==
  \/ Open \/ Close \/ Refocus \/ Evict
  \/ ServeHistory \/ HistoryArrives \/ FetchFails
  \/ Send
  \/ \E t \in Turns : Ask(t) \/ Answer(t) \/ AnswerUnrecorded(t) \/ Fail(t) \/ ReplyArrives(t)

Spec == Init /\ [][Next]_vars

\* The server answers every chat, by its own timeout at the latest, and the
\* browser settles every request.  Nothing is assumed of the user.
Fairness ==
  \A t \in Turns : WF_vars(Ask(t) \/ Answer(t) \/ Fail(t)) /\ WF_vars(ReplyArrives(t))

FairSpec == Spec /\ Fairness

-----------------------------------------------------------------------------
Messages == Turns \X {"user", "assistant"}

InFlight(t) == chats[t].at # "none"

\* Every variable keeps its type; a closed panel has no state, and one that was
\* sent from is hydrated for good.
TypeOK ==
  /\ history \in Seq(Messages)
  /\ cache = NoData \/ cache \in Seq(Messages)
  /\ fetch.at \in {"none", "sent", "served"} /\ fetch.data \in Seq(Messages)
  /\ panel.messages \in Seq(Messages)
  /\ panel.open \/ panel = NoPanel
  /\ panel.sent => panel.hydrated
  /\ opened \in 0 .. MaxOpens /\ turns \in 0 .. MaxTurns
  /\ \A t \in Turns : /\ chats[t].at \in {"none", "sent", "asked", "answered", "failed"}
                      /\ chats[t].by \in 0 .. opened
                      /\ InFlight(t) => t <= turns

\* What the comment in send() promises: no history that arrives late takes a
\* message away from a panel that shows it, or changes their order.
InSessionTurnsKept ==
  [][panel.open /\ panel'.open =>
       /\ Len(panel.messages) <= Len(panel'.messages)
       /\ panel.messages = SubSeq(panel'.messages, 1, Len(panel.messages))]_vars

\* A transcript tells a true story: no message twice, and every answer right
\* after the question it answers, whichever panel sent it, and however hydration
\* and late replies met.
TranscriptIsOrdered ==
  \A i \in DOMAIN panel.messages :
    /\ \A k \in DOMAIN panel.messages : panel.messages[k] = panel.messages[i] => k = i
    /\ panel.messages[i][2] = "assistant" =>
         i > 1 /\ panel.messages[i - 1] = User(panel.messages[i][1])

\* The composer is disabled exactly while a message sent from this panel waits
\* for its reply, and there is one such message at most.
SendingMatchesFlight ==
  LET own == {t \in Turns : InFlight(t) /\ chats[t].by = opened}
  IN  /\ \A s, t \in own : s = t
      /\ panel.open => (panel.sending <=> own # {})

\* What a panel shows and what it lets the user do agree with what was sent from
\* it and what was answered, in every order of opening, history and replies.
PanelIsHonest == TranscriptIsOrdered /\ SendingMatchesFlight

\* A panel that waits for a reply gets ready again, or is closed.
SendingEnds == panel.sending ~> ~panel.sending

\* What the documentation says of an opened panel: it hydrates prior turns from
\* the server.  Once the fetch is over, and as long as nothing was sent from it,
\* it shows what the server answered.
HydratesPriorTurns ==
  panel.open /\ panel.hydrated /\ ~panel.sent /\ fetch = NoFetch => panel.messages = cache
=============================================================================
