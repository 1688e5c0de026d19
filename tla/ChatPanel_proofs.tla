-------------------------- MODULE ChatPanel_proofs --------------------------
(***************************************************************************)
(* Theorems about ChatPanel: for any number of messages and of panels, a   *)
(* transcript tells a true story, the composer is disabled exactly while a *)
(* reply is awaited, no late history takes anything away, and nothing puts *)
(* a reply off.                                                            *)
(***************************************************************************)
EXTENDS ChatPanel, TLAPS

-----------------------------------------------------------------------------
\* The inductive invariant.

\* A list of messages that tells a true story, about the first n turns only.
Story(m, n) ==
  /\ m \in Seq(Messages)
  /\ \A i \in DOMAIN m :
       /\ m[i][1] <= n
       /\ \A k \in DOMAIN m : m[k] = m[i] => k = i
       /\ m[i][2] = "assistant" => i > 1 /\ m[i - 1] = User(m[i][1])

\* The list ends with the question of turn t, and has nothing else of it.
Asking(m, t) ==
  m # <<>> /\ m[Len(m)] = User(t) /\ \A i \in DOMAIN m : m[i][1] = t => i = Len(m)

\* The list has nothing of a question that has not reached the agent yet.
Heard(m, asked) == \A i \in DOMAIN m : asked[m[i][1]].at # "sent"

\* What the server may know: its history and whatever was copied from it.
Known(m) == Story(m, turns) /\ Heard(m, chats)

ChatType == [at : {"none", "sent", "asked", "answered", "failed"}, by : Nat, memory : Seq(Messages)]

\* A chat is one of the turns there were and of the panels there were, and
\* carries a memory that ends with its question.
ChatsOK ==
  /\ chats \in [Turns -> ChatType]
  /\ \A t \in Turns :
       /\ chats[t].by <= opened
       /\ InFlight(t) => t <= turns
       /\ chats[t].at = "asked" => Known(chats[t].memory) /\ Asking(chats[t].memory, t)

\* The cached query and its fetch hold what the server knew.
QueryOK ==
  /\ cache = NoData \/ Known(cache)
  /\ fetch \in [at : {"none", "sent", "served"}, data : Seq(Messages)] /\ Known(fetch.data)

PanelType == [open : BOOLEAN, hydrated : BOOLEAN, messages : Seq(Messages), sending : BOOLEAN,
              sent : BOOLEAN]

\* A panel that was not hydrated is empty, and one that sent was hydrated.
Shape(p, n) ==
  /\ p \in PanelType /\ Story(p.messages, n)
  /\ p.sent \/ p.sending => p.hydrated
  /\ ~p.hydrated => p.messages = <<>>

\* A panel whose question is in flight ends with it.
PanelOK ==
  /\ Shape(panel, turns)
  /\ panel.open \/ panel = NoPanel
  /\ SendingMatchesFlight
  /\ \A t \in Turns :
       panel.open /\ InFlight(t) /\ chats[t].by = opened => Asking(panel.messages, t)

Counters == opened \in 0 .. MaxOpens /\ turns \in 0 .. MaxTurns

PanelInv == Counters /\ Known(history) /\ ChatsOK /\ QueryOK /\ PanelOK

-----------------------------------------------------------------------------
\* A message added to a list.

LEMMA MessageParts ==
  ASSUME NEW t \in Turns
  PROVE  /\ User(t) \in Messages /\ User(t)[1] = t /\ User(t)[2] = "user"
         /\ Assistant(t) \in Messages /\ Assistant(t)[1] = t /\ Assistant(t)[2] = "assistant"
  BY DEF User, Assistant, Messages

LEMMA MessageOf ==
  ASSUME NEW m \in Seq(Messages), NEW i \in DOMAIN m
  PROVE  m[i] \in Messages /\ m[i][1] \in Turns /\ m[i][1] \in Nat /\ m[i] = <<m[i][1], m[i][2]>>
<1>1. m[i] \in Turns \X {"user", "assistant"}
  BY DEF Messages
<1>2. m[i][1] \in Turns /\ m[i] = <<m[i][1], m[i][2]>>
  BY <1>1
<1>3. QED
  BY <1>1, <1>2, PanelAssumption DEF Turns, Messages

LEMMA Added ==
  ASSUME NEW m \in Seq(Messages), NEW x \in Messages
  PROVE  /\ Append(m, x) \in Seq(Messages) /\ Append(m, x) # <<>>
         /\ Len(m) \in Nat /\ Len(Append(m, x)) = Len(m) + 1
         /\ DOMAIN m = 1 .. Len(m) /\ DOMAIN Append(m, x) = 1 .. Len(m) + 1
         /\ \A i \in DOMAIN m : Append(m, x)[i] = m[i]
         /\ Append(m, x)[Len(m) + 1] = x
  OBVIOUS

\* A question nobody has put yet.
LEMMA QuestionAdded ==
  ASSUME NEW n \in Nat, NEW m, Story(m, n), NEW t \in Turns, \A i \in DOMAIN m : m[i][1] # t,
         NEW k \in Nat, n <= k, t <= k
  PROVE  Story(Append(m, User(t)), k) /\ Asking(Append(m, User(t)), t)
<1> DEFINE mm == Append(m, User(t))
<1>1. m \in Seq(Messages) /\ User(t) \in Messages /\ User(t)[1] = t /\ User(t)[2] = "user"
  BY MessageParts DEF Story
<1>2. \A i \in DOMAIN m : m[i][1] \in Nat
  BY <1>1, MessageOf
<1>3. mm \in Seq(Messages) /\ mm # <<>> /\ mm[Len(mm)] = User(t)
  BY <1>1, Added
<1>4. ASSUME NEW i \in DOMAIN mm
      PROVE  /\ mm[i][1] <= k
             /\ \A o \in DOMAIN mm : mm[o] = mm[i] => o = i
             /\ mm[i][2] = "assistant" => i > 1 /\ mm[i - 1] = User(mm[i][1])
             /\ mm[i][1] = t => i = Len(mm)
  <2>1. CASE i \in DOMAIN m
    <3>1. mm[i] = m[i] /\ m[i][1] <= k
      BY <1>1, <1>2, <2>1, Added DEF Story
    <3>2. \A o \in DOMAIN mm : mm[o] = mm[i] => o = i
      BY <1>1, <2>1, Added DEF Story
    <3>3. mm[i][2] = "assistant" => i > 1 /\ mm[i - 1] = User(mm[i][1])
      <4>1. m[i][2] = "assistant" => i > 1 /\ m[i - 1] = User(m[i][1]) /\ i - 1 \in DOMAIN m
        BY <1>1, <2>1, Added DEF Story
      <4>2. QED
        BY <1>1, <2>1, <3>1, <4>1, Added
    <3>4. QED
      BY <2>1, <3>1, <3>2, <3>3
  <2>2. CASE i = Len(m) + 1
    BY <1>1, <2>2, Added
  <2>3. QED
    BY <1>1, <2>1, <2>2, Added
<1>5. QED
  BY <1>3, <1>4 DEF Story, Asking

\* The answer to the question the list ends with.
LEMMA AnswerAdded ==
  ASSUME NEW n \in Nat, NEW m, Story(m, n), NEW t \in Turns, Asking(m, t)
  PROVE  Story(Append(m, Assistant(t)), n)
<1> DEFINE mm == Append(m, Assistant(t))
<1>1. m \in Seq(Messages) /\ Assistant(t) \in Messages
      /\ Assistant(t)[1] = t /\ Assistant(t)[2] = "assistant" /\ User(t)[1] = t /\ User(t)[2] = "user"
  BY MessageParts DEF Story
<1>2. Len(m) \in DOMAIN m /\ m[Len(m)] = User(t) /\ t <= n
  <2>1. Len(m) \in DOMAIN m /\ m[Len(m)] = User(t)
    BY <1>1, Added DEF Asking
  <2>2. QED
    BY <1>1, <2>1 DEF Story
<1>3. \A i \in DOMAIN m : m[i] # Assistant(t)
  BY <1>1, <1>2 DEF Asking
<1>4. ASSUME NEW i \in DOMAIN mm
      PROVE  /\ mm[i][1] <= n
             /\ \A o \in DOMAIN mm : mm[o] = mm[i] => o = i
             /\ mm[i][2] = "assistant" => i > 1 /\ mm[i - 1] = User(mm[i][1])
  <2>1. CASE i \in DOMAIN m
    <3>1. mm[i] = m[i] /\ m[i][1] <= n
      BY <1>1, <2>1, Added DEF Story
    <3>2. \A o \in DOMAIN mm : mm[o] = mm[i] => o = i
      BY <1>1, <1>3, <2>1, Added DEF Story
    <3>3. m[i][2] = "assistant" => i > 1 /\ m[i - 1] = User(m[i][1]) /\ i - 1 \in DOMAIN m
      BY <1>1, <2>1, Added DEF Story
    <3>4. QED
      BY <1>1, <2>1, <3>1, <3>2, <3>3, Added
  <2>2. CASE i = Len(m) + 1
    BY <1>1, <1>2, <1>3, <2>2, Added
  <2>3. QED
    BY <1>1, <2>1, <2>2, Added
<1>5. QED
  BY <1>1, <1>4, Added DEF Story

LEMMA HeardAdded ==
  ASSUME NEW m \in Seq(Messages), NEW asked, Heard(m, asked), NEW x \in Messages,
         asked[x[1]].at # "sent"
  PROVE  Heard(Append(m, x), asked)
  BY Added DEF Heard

LEMMA EmptyIsKnown == ASSUME NEW n, NEW asked PROVE Story(<<>>, n) /\ Heard(<<>>, asked)
  BY DEF Story, Heard

\* What the server knew stays true as turns are begun and questions heard.
LEMMA KnownLater ==
  ASSUME NEW m, Known(m), turns \in Nat, turns' \in Nat, turns <= turns',
         \A t \in Turns : chats'[t].at = "sent" => chats[t].at = "sent" \/ t > turns
  PROVE  Story(m, turns') /\ Heard(m, chats')
<1>1. m \in Seq(Messages)
  BY DEF Known, Story
<1>2. \A i \in DOMAIN m : m[i][1] \in Turns /\ m[i][1] \in Nat /\ m[i][1] <= turns
                          /\ chats[m[i][1]].at # "sent"
  BY <1>1, MessageOf DEF Known, Story, Heard
<1>3. Story(m, turns')
  BY <1>2 DEF Known, Story
<1>4. Heard(m, chats')
  <2>1. \A i \in DOMAIN m : ~(m[i][1] > turns)
    BY <1>2
  <2>2. QED
    BY <1>2, <2>1 DEF Heard
<1>5. QED
  BY <1>3, <1>4

-----------------------------------------------------------------------------
\* The steps of the panel and of the query: no chat moves.

Own(t) == InFlight(t) /\ chats[t].by = opened

LEMMA Facts ==
  ASSUME PanelInv
  PROVE  /\ turns \in Nat /\ opened \in Nat /\ panel \in PanelType
         /\ \A s, t \in Turns : Own(s) /\ Own(t) => s = t
         /\ panel.open => (panel.sending <=> \E t \in Turns : Own(t))
<1>1. panel.open => (panel.sending <=> {t \in Turns : Own(t)} # {})
  BY DEF PanelInv, PanelOK, SendingMatchesFlight, Own
<1>2. QED
  BY <1>1, PanelAssumption DEF PanelInv, PanelOK, Shape, Counters, SendingMatchesFlight, Own

LEMMA ChatsStay ==
  ASSUME PanelInv, UNCHANGED <<history, chats, turns>>, opened' \in Nat, opened <= opened'
  PROVE  Known(history)' /\ ChatsOK'
<1>1. ASSUME NEW t \in Turns
      PROVE  /\ chats'[t].by <= opened'
             /\ InFlight(t)' => t <= turns'
             /\ chats'[t].at = "asked" => Known(chats[t].memory)' /\ Asking(chats'[t].memory, t)
  <2>1. chats[t].by \in Nat /\ chats[t].by <= opened
    BY DEF PanelInv, ChatsOK, ChatType
  <2>2. QED
    BY <2>1, Facts DEF PanelInv, ChatsOK, InFlight, Known
<1>2. QED
  BY <1>1 DEF PanelInv, ChatsOK, Known

LEMMA QueryStays ==
  ASSUME PanelInv, UNCHANGED <<chats, turns>>, cache' \in {cache, NoData, fetch.data},
         fetch' \in {fetch, Fetching, NoFetch, [at |-> "served", data |-> history]},
         cache' = NoData \/ Known(cache')
  PROVE  QueryOK'
<1>1. Story(<<>>, turns) /\ Heard(<<>>, chats) /\ <<>> \in Seq(Messages)
  BY EmptyIsKnown
<1>2. history \in Seq(Messages)
  BY DEF PanelInv, Known, Story
<1>3. fetch' \in [at : {"none", "sent", "served"}, data : Seq(Messages)] /\ Known(fetch'.data)
  <2>1. CASE fetch' = fetch
    BY <2>1 DEF PanelInv, QueryOK
  <2>2. CASE fetch' = [at |-> "served", data |-> history]
    BY <1>2, <2>2 DEF PanelInv
  <2>3. NoFetch \in [at : {"none", "sent", "served"}, data : Seq(Messages)] /\ NoFetch.data = <<>>
    BY <1>1 DEF NoFetch
  <2>4. CASE fetch' = NoFetch
    BY <1>1, <2>3, <2>4 DEF Known
  <2>5. CASE fetch' = [NoFetch EXCEPT !.at = "sent"]
    <3>1. fetch' \in [at : {"none", "sent", "served"}, data : Seq(Messages)]
          /\ fetch'.data = NoFetch.data
      BY <2>3, <2>5
    <3>2. QED
      BY <1>1, <2>3, <3>1 DEF Known
  <2>6. QED
    BY <2>1, <2>2, <2>4, <2>5 DEF Fetching
<1>4. QED
  BY <1>3 DEF QueryOK, Known

LEMMA FreshIsOK ==
  ASSUME NEW n
  PROVE  /\ Shape(FreshPanel, n) /\ FreshPanel.open /\ ~FreshPanel.sending /\ ~FreshPanel.hydrated
         /\ Shape(NoPanel, n) /\ ~NoPanel.open
<1>1. <<>> \in Seq(Messages) /\ Story(<<>>, n)
  BY EmptyIsKnown
<1>2. FreshPanel \in PanelType /\ FreshPanel.messages = <<>> /\ FreshPanel.open
      /\ ~FreshPanel.sending /\ ~FreshPanel.hydrated /\ ~FreshPanel.sent
  BY <1>1 DEF FreshPanel, PanelType
<1>3. NoPanel \in PanelType /\ NoPanel.messages = <<>> /\ ~NoPanel.open
      /\ ~NoPanel.sending /\ ~NoPanel.hydrated /\ ~NoPanel.sent
  BY <1>2 DEF NoPanel, PanelType
<1>4. QED
  BY <1>1, <1>2, <1>3 DEF Shape

\* Hydration replaces what an unhydrated panel shows, which is nothing.
LEMMA HydratedIsOK ==
  ASSUME NEW p, NEW n, Shape(p, n), NEW data, data = NoData \/ Story(data, n)
  PROVE  /\ Shape(Hydrated(p, data), n)
         /\ Hydrated(p, data).open = p.open /\ Hydrated(p, data).sending = p.sending
         /\ ~p.open \/ p.hydrated => Hydrated(p, data) = p
<1>1. CASE p.open /\ ~p.hydrated /\ data # NoData
  <2>1. PICK h : h = [p EXCEPT !.hydrated = TRUE, !.messages = data]
    OBVIOUS
  <2>2. data \in Seq(Messages) /\ Story(data, n)
    BY <1>1 DEF Story
  <2>3. /\ h \in PanelType /\ h.messages = data /\ h.hydrated = TRUE /\ h.open = p.open
        /\ h.sending = p.sending /\ h.sent = p.sent
    BY <2>1, <2>2 DEF Shape, PanelType
  <2>4. Hydrated(p, data) = h
    BY <1>1, <2>1 DEF Hydrated
  <2>5. QED
    BY <1>1, <2>2, <2>3, <2>4 DEF Shape
<1>2. CASE ~(p.open /\ ~p.hydrated /\ data # NoData)
  BY <1>2 DEF Hydrated
<1>3. QED
  BY <1>1, <1>2

\* A panel that sends and is sent to as before.
LEMMA PanelStays ==
  ASSUME PanelInv, UNCHANGED <<chats, opened, turns>>, Shape(panel', turns),
         panel'.open \/ panel' = NoPanel,
         panel'.open => panel.open /\ panel'.sending = panel.sending,
         panel'.open /\ panel.hydrated => panel' = panel
  PROVE  PanelOK'
<1>1. SendingMatchesFlight'
  BY DEF PanelInv, PanelOK, SendingMatchesFlight, InFlight
<1>2. ASSUME NEW t \in Turns, panel'.open, InFlight(t)', chats'[t].by = opened'
      PROVE  Asking(panel'.messages, t)
  <2>1. Own(t)
    BY <1>2 DEF Own, InFlight
  <2>2. panel.hydrated
    BY <1>2, <2>1, Facts DEF PanelInv, PanelOK, Shape
  <2>3. QED
    BY <1>2, <2>1, <2>2 DEF PanelInv, PanelOK, Own
<1>3. QED
  BY <1>1, <1>2 DEF PanelOK

LEMMA QueryStepsKeep ==
  ASSUME PanelInv, Refocus \/ Evict \/ ServeHistory \/ FetchFails
  PROVE  PanelInv'
<1>1. UNCHANGED <<history, panel, opened, chats, turns>>
  BY DEF Refocus, Evict, ServeHistory, FetchFails
<1>2. Known(history)' /\ ChatsOK' /\ Counters'
  BY <1>1, Facts, ChatsStay DEF PanelInv, Counters
<1>3. QueryOK'
  <2>1. cache' \in {cache, NoData}
        /\ fetch' \in {fetch, Fetching, NoFetch, [at |-> "served", data |-> history]}
    BY DEF Refocus, Evict, ServeHistory, FetchFails
  <2>2. cache' = NoData \/ Known(cache')
    BY <2>1 DEF PanelInv, QueryOK
  <2>3. QED
    BY <1>1, <2>1, <2>2, QueryStays
<1>4. PanelOK'
  BY <1>1, PanelStays DEF PanelInv, PanelOK
<1>5. QED
  BY <1>2, <1>3, <1>4 DEF PanelInv

LEMMA HistoryArrivesKeeps == ASSUME PanelInv, HistoryArrives PROVE PanelInv'
<1>1. UNCHANGED <<history, opened, chats, turns>> /\ panel' = Hydrated(panel, fetch.data)
      /\ cache' = fetch.data /\ fetch' = NoFetch
  BY DEF HistoryArrives
<1>2. Known(history)' /\ ChatsOK' /\ Counters'
  BY <1>1, Facts, ChatsStay DEF PanelInv, Counters
<1>3. QueryOK'
  BY <1>1, QueryStays DEF PanelInv, QueryOK
<1>4. PanelOK'
  <2>1. Story(fetch.data, turns) /\ Shape(panel, turns)
    BY DEF PanelInv, QueryOK, Known, PanelOK
  <2>2. Shape(panel', turns) /\ panel'.open = panel.open /\ panel'.sending = panel.sending
        /\ (~panel.open \/ panel.hydrated => panel' = panel)
    BY <1>1, <2>1, HydratedIsOK
  <2>3. panel'.open \/ panel' = NoPanel
    BY <2>2 DEF PanelInv, PanelOK
  <2>4. QED
    BY <1>1, <2>2, <2>3, PanelStays
<1>5. QED
  BY <1>2, <1>3, <1>4 DEF PanelInv

LEMMA CloseKeeps == ASSUME PanelInv, Close PROVE PanelInv'
<1>1. UNCHANGED <<history, cache, fetch, opened, chats, turns>> /\ panel' = NoPanel
  BY DEF Close
<1>2. Known(history)' /\ ChatsOK' /\ Counters'
  BY <1>1, Facts, ChatsStay DEF PanelInv, Counters
<1>3. QueryOK'
  BY <1>1, QueryStays DEF PanelInv, QueryOK
<1>4. PanelOK'
  BY <1>1, FreshIsOK, PanelStays
<1>5. QED
  BY <1>2, <1>3, <1>4 DEF PanelInv

\* No question in flight is the new panel's.
LEMMA OpenKeeps == ASSUME PanelInv, Open PROVE PanelInv'
<1>1. UNCHANGED <<history, cache, chats, turns>> /\ panel' = Hydrated(FreshPanel, cache)
      /\ fetch' = Fetching /\ opened' = opened + 1 /\ opened < MaxOpens
  BY DEF Open
<1>2. opened' \in Nat /\ opened <= opened' /\ opened' \in 0 .. MaxOpens
  BY <1>1, Facts, PanelAssumption
<1>3. Known(history)' /\ ChatsOK' /\ Counters'
  BY <1>1, <1>2, ChatsStay DEF PanelInv, Counters
<1>4. QueryOK'
  BY <1>1, QueryStays DEF PanelInv, QueryOK
<1>5. PanelOK'
  <2>1. cache = NoData \/ Story(cache, turns)
    BY DEF PanelInv, QueryOK, Known
  <2>2. Shape(panel', turns) /\ panel'.open /\ ~panel'.sending
    BY <1>1, <2>1, FreshIsOK, HydratedIsOK
  <2>5. \A t \in Turns : chats[t].by \in Nat /\ chats[t].by <= opened
    BY DEF PanelInv, ChatsOK, ChatType
  <2>6. \A t \in Turns : chats'[t].by # opened'
    BY <1>1, <2>5, Facts
  <2>7. SendingMatchesFlight'
    BY <2>2, <2>6 DEF SendingMatchesFlight
  <2>8. QED
    BY <1>1, <2>2, <2>6, <2>7 DEF PanelOK
<1>6. QED
  BY <1>3, <1>4, <1>5 DEF PanelInv

-----------------------------------------------------------------------------
\* The steps of the chats.

\* A chat moves on, and what was known stays known.
LEMMA ChatMoves ==
  ASSUME PanelInv, UNCHANGED <<cache, fetch, opened, turns>>, NEW t \in Turns, InFlight(t),
         NEW c \in ChatType, chats' = [chats EXCEPT ![t] = c], c.at # "sent", c.by <= opened,
         c.at = "asked" => Story(c.memory, turns) /\ Heard(c.memory, chats') /\ Asking(c.memory, t)
  PROVE  /\ ChatsOK' /\ QueryOK' /\ Counters'
         /\ \A m : Known(m) => Story(m, turns') /\ Heard(m, chats')
<1>1. \A m : Known(m) => Story(m, turns) /\ Heard(m, chats')
  <2>1. \A s \in Turns : chats'[s].at = "sent" => chats[s].at = "sent" \/ s > turns
    BY DEF PanelInv, ChatsOK
  <2>2. ASSUME NEW m, Known(m) PROVE Story(m, turns') /\ Heard(m, chats')
    <3>1. turns \in Nat /\ turns' = turns /\ turns <= turns'
      BY Facts
    <3>2. QED
      BY <2>1, <2>2, <3>1, KnownLater
  <2>3. QED
    BY <2>2
<1>2. chats' \in [Turns -> ChatType] /\ chats'[t] = c
      /\ \A s \in Turns : s # t => chats'[s] = chats[s]
  BY DEF PanelInv, ChatsOK
<1>3. ASSUME NEW s \in Turns
      PROVE  /\ chats'[s].by <= opened'
             /\ InFlight(s)' => s <= turns'
             /\ chats'[s].at = "asked" =>
                  /\ Story(chats'[s].memory, turns') /\ Heard(chats'[s].memory, chats')
                  /\ Asking(chats'[s].memory, s)
  <2>1. CASE s = t
    BY <1>2, <2>1 DEF PanelInv, ChatsOK, InFlight
  <2>2. CASE s # t
    BY <1>1, <1>2, <2>2 DEF PanelInv, ChatsOK, InFlight
  <2>3. QED
    BY <2>1, <2>2
<1>4. ChatsOK'
  BY <1>2, <1>3 DEF ChatsOK, Known
<1>5. QueryOK'
  BY <1>1 DEF PanelInv, QueryOK, Known
<1>6. QED
  BY <1>1, <1>4, <1>5 DEF PanelInv, Counters

\* No panel notices what the server does.
LEMMA ServerStepKeeps ==
  ASSUME PanelInv, UNCHANGED <<cache, fetch, panel, opened, turns>>, NEW t \in Turns, InFlight(t),
         NEW c \in ChatType, chats' = [chats EXCEPT ![t] = c], c.at \notin {"none", "sent"},
         c.by = chats[t].by, Story(history', turns), Heard(history', chats'),
         c.at = "asked" => Story(c.memory, turns) /\ Heard(c.memory, chats') /\ Asking(c.memory, t)
  PROVE  PanelInv'
<1>1. ChatsOK' /\ QueryOK' /\ Counters'
  BY ChatMoves DEF PanelInv, ChatsOK
<1>2. \A s \in Turns : (InFlight(s)' <=> InFlight(s)) /\ chats'[s].by = chats[s].by
  BY DEF PanelInv, ChatsOK, InFlight
<1>3. SendingMatchesFlight'
  BY <1>2 DEF PanelInv, PanelOK, SendingMatchesFlight
<1>4. PanelOK'
  BY <1>2, <1>3 DEF PanelInv, PanelOK
<1>5. QED
  BY <1>1, <1>4 DEF PanelInv, Known

LEMMA AskKeeps == ASSUME PanelInv, NEW t \in Turns, Ask(t) PROVE PanelInv'
<1>1. UNCHANGED <<cache, fetch, panel, opened, turns>> /\ chats[t].at = "sent"
      /\ history' = Append(history, User(t)) /\ chats[t] \in ChatType
  BY DEF Ask, PanelInv, ChatsOK
<1>2. history \in Seq(Messages) /\ Story(history, turns) /\ t <= turns /\ InFlight(t)
      /\ User(t) \in Messages /\ User(t)[1] = t /\ turns \in Nat /\ t \in Nat
  BY <1>1, Facts, MessageParts, PanelAssumption
     DEF PanelInv, Known, Story, ChatsOK, InFlight, Turns
<1>3. \A i \in DOMAIN history : history[i][1] # t
  BY <1>1 DEF PanelInv, Known, Heard
<1>4. Story(history', turns) /\ Asking(history', t) /\ history' \in Seq(Messages)
  BY <1>1, <1>2, <1>3, QuestionAdded, Added
<1>5. PICK c : c = [[chats[t] EXCEPT !.at = "asked"] EXCEPT !.memory = Append(history, User(t))]
  OBVIOUS
<1>6. c \in ChatType /\ c.at = "asked" /\ c.by = chats[t].by /\ c.memory = history'
  BY <1>1, <1>4, <1>5 DEF ChatType
<1>7. chats' = [chats EXCEPT ![t] = c]
  BY <1>5 DEF Ask, PanelInv, ChatsOK
<1>8. Heard(history', chats')
  <2>1. Heard(history, chats')
    BY <1>3, <1>6, <1>7 DEF PanelInv, Known, Heard, ChatsOK
  <2>2. chats'[User(t)[1]].at # "sent"
    BY <1>2, <1>6, <1>7 DEF PanelInv, ChatsOK
  <2>3. QED
    BY <1>1, <1>2, <2>1, <2>2, HeardAdded
<1>9. QED
  BY <1>1, <1>2, <1>4, <1>6, <1>7, <1>8, ServerStepKeeps

LEMMA AnswerKeeps == ASSUME PanelInv, NEW t \in Turns, Answer(t) PROVE PanelInv'
<1>1. UNCHANGED <<cache, fetch, panel, opened, turns>> /\ chats[t].at = "asked" /\ InFlight(t)
      /\ history' = Append(chats[t].memory, Assistant(t)) /\ chats[t] \in ChatType
  BY DEF Answer, PanelInv, ChatsOK, InFlight
<1>2. Known(chats[t].memory) /\ Asking(chats[t].memory, t) /\ turns \in Nat
      /\ Assistant(t) \in Messages /\ Assistant(t)[1] = t
  BY <1>1, Facts, MessageParts DEF PanelInv, ChatsOK
<1>3. PICK c : c = [chats[t] EXCEPT !.at = "answered"]
  OBVIOUS
<1>4. c \in ChatType /\ c.at = "answered" /\ c.by = chats[t].by
  BY <1>1, <1>3 DEF ChatType
<1>5. chats' = [chats EXCEPT ![t] = c]
  BY <1>3 DEF Answer, PanelInv, ChatsOK
<1>6. c.by <= opened
  BY <1>4 DEF PanelInv, ChatsOK
<1>7. Heard(chats[t].memory, chats')
  BY <1>1, <1>2, <1>4, <1>5, <1>6, ChatMoves
<1>8. Story(history', turns)
  BY <1>1, <1>2, AnswerAdded DEF Known
<1>9. Heard(history', chats')
  <2>1. chats'[Assistant(t)[1]].at # "sent"
    BY <1>2, <1>4, <1>5 DEF PanelInv, ChatsOK
  <2>2. QED
    BY <1>1, <1>2, <1>7, <2>1, HeardAdded DEF Known, Story
<1>10. QED
  BY <1>1, <1>4, <1>5, <1>8, <1>9, ServerStepKeeps

LEMMA EndsKeep == ASSUME PanelInv, NEW t \in Turns, AnswerUnrecorded(t) \/ Fail(t) PROVE PanelInv'
<1>1. UNCHANGED <<history, cache, fetch, panel, opened, turns>> /\ InFlight(t)
      /\ chats[t] \in ChatType
  BY DEF AnswerUnrecorded, Fail, PanelInv, ChatsOK, InFlight
<1>2. PICK at \in {"answered", "failed"} : chats' = [chats EXCEPT ![t].at = at]
  BY DEF AnswerUnrecorded, Fail
<1>3. PICK c : c = [chats[t] EXCEPT !.at = at]
  OBVIOUS
<1>4. c \in ChatType /\ c.at = at /\ c.by = chats[t].by
  BY <1>1, <1>3 DEF ChatType
<1>5. chats' = [chats EXCEPT ![t] = c]
  BY <1>2, <1>3 DEF PanelInv, ChatsOK
<1>6. c.by <= opened
  BY <1>4 DEF PanelInv, ChatsOK
<1>7. Story(history', turns) /\ Heard(history', chats')
  BY <1>1, <1>4, <1>5, <1>6, ChatMoves DEF PanelInv
<1>8. QED
  BY <1>1, <1>4, <1>5, <1>7, ServerStepKeeps

\* The new question is the only one of the panel in flight.
LEMMA SendKeeps == ASSUME PanelInv, Send PROVE PanelInv'
<1>1. PICK t : t = turns + 1
  OBVIOUS
<1>2. /\ t \in Turns /\ t \in Nat /\ turns \in Nat /\ turns < t /\ turns' = t /\ t \in 0 .. MaxTurns
      /\ UNCHANGED <<history, cache, fetch, opened>> /\ panel.open /\ ~panel.sending
  BY <1>1, Facts, PanelAssumption DEF Send, Turns
<1>3. PICK c : c = [at |-> "sent", by |-> opened, memory |-> <<>>]
  OBVIOUS
<1>4. c \in ChatType /\ c.at = "sent" /\ c.by = opened /\ opened <= opened
  BY <1>3, Facts, EmptyIsKnown DEF ChatType, Story
<1>5. /\ chats' \in [Turns -> ChatType] /\ chats'[t] = c
      /\ \A s \in Turns : s # t => chats'[s] = chats[s]
  BY <1>1, <1>2, <1>3, <1>4 DEF Send, PanelInv, ChatsOK
<1>6. ASSUME NEW m, Known(m) PROVE Story(m, turns') /\ Heard(m, chats')
  <2>1. \A s \in Turns : chats'[s].at = "sent" => chats[s].at = "sent" \/ s > turns
    BY <1>2, <1>5
  <2>2. turns' \in Nat /\ turns <= turns'
    BY <1>2
  <2>3. QED
    BY <1>2, <1>6, <2>1, <2>2, KnownLater
<1>7. ChatsOK'
  <2>1. ASSUME NEW s \in Turns
        PROVE  /\ chats'[s].by <= opened'
               /\ InFlight(s)' => s <= turns'
               /\ chats'[s].at = "asked" =>
                    /\ Story(chats'[s].memory, turns') /\ Heard(chats'[s].memory, chats')
                    /\ Asking(chats'[s].memory, s)
    <3>1. CASE s = t
      BY <1>2, <1>4, <1>5, <3>1
    <3>2. CASE s # t
      <4>1. s \in Nat /\ (s <= turns => s <= turns')
        BY <1>2 DEF Turns
      <4>2. QED
        BY <1>2, <1>5, <1>6, <3>2, <4>1 DEF PanelInv, ChatsOK, InFlight
    <3>3. QED
      BY <3>1, <3>2
  <2>2. QED
    BY <1>5, <2>1 DEF ChatsOK, Known
<1>8. QueryOK'
  BY <1>2, <1>6 DEF PanelInv, QueryOK, Known
<1>9. PanelOK'
  <2>1. Story(panel.messages, turns) /\ panel \in PanelType /\ panel.messages \in Seq(Messages)
    BY DEF PanelInv, PanelOK, Shape, Story
  <2>2. ASSUME NEW i \in DOMAIN panel.messages PROVE panel.messages[i][1] # t
    <3>1. panel.messages[i][1] \in Nat
      BY <2>1, MessageOf
    <3>2. panel.messages[i][1] <= turns
      BY <2>1 DEF Story
    <3>3. QED
      BY <1>2, <3>1, <3>2
  <2>3. PICK mm : mm = Append(panel.messages, User(t))
    OBVIOUS
  <2>4. Story(mm, t) /\ Asking(mm, t) /\ mm \in Seq(Messages)
    <3>1. t <= t /\ turns <= t
      BY <1>2
    <3>2. Story(mm, t) /\ Asking(mm, t)
      BY <1>2, <2>1, <2>2, <2>3, <3>1, QuestionAdded
    <3>3. QED
      BY <3>2 DEF Story
  <2>5. panel' = [panel EXCEPT !.messages = mm, !.sending = TRUE, !.hydrated = TRUE, !.sent = TRUE]
    BY <1>1, <2>3 DEF Send, Sending
  <2>6. panel' \in PanelType /\ panel'.messages = mm /\ panel'.sending = TRUE
        /\ panel'.hydrated = TRUE /\ panel'.sent = TRUE /\ panel'.open = TRUE
    BY <1>2, <2>1, <2>4, <2>5 DEF PanelType
  <2>7. Shape(panel', turns')
    BY <1>2, <2>4, <2>6 DEF Shape
  <2>8. \A s \in Turns : InFlight(s)' /\ chats'[s].by = opened' <=> s = t
    <3>1. \A s \in Turns : ~Own(s)
      BY <1>2, Facts
    <3>2. QED
      BY <1>2, <1>4, <1>5, <3>1 DEF Own, InFlight
  <2>9. SendingMatchesFlight'
    BY <1>2, <2>6, <2>8 DEF SendingMatchesFlight
  <2>10. QED
    BY <2>4, <2>6, <2>7, <2>8, <2>9 DEF PanelOK
<1>10. QED
  BY <1>2, <1>6, <1>7, <1>8, <1>9 DEF PanelInv, Counters, Known

\* What follows the await, in the panel that sent the message.
LEMMA OwnReply ==
  ASSUME NEW p, NEW n \in Nat, Shape(p, n), NEW t \in Turns, Asking(p.messages, t), p.hydrated,
         NEW answered \in BOOLEAN, NEW q,
         q = [p EXCEPT !.sending = FALSE,
                       !.messages = IF answered THEN Append(@, Assistant(t)) ELSE @]
  PROVE  Shape(q, n) /\ q.open = p.open /\ ~q.sending
<1>1. PICK mm : mm = IF answered THEN Append(p.messages, Assistant(t)) ELSE p.messages
  OBVIOUS
<1>2. Story(mm, n) /\ mm \in Seq(Messages)
  <2>1. Story(mm, n)
    BY <1>1, AnswerAdded DEF Shape
  <2>2. QED
    BY <2>1 DEF Story
<1>3. q = [p EXCEPT !.sending = FALSE, !.messages = mm]
  BY <1>1
<1>4. q \in PanelType /\ q.messages = mm /\ q.sending = FALSE /\ q.hydrated /\ q.open = p.open
  BY <1>2, <1>3 DEF Shape, PanelType
<1>5. QED
  BY <1>2, <1>4 DEF Shape

LEMMA ReplyArrivesKeeps == ASSUME PanelInv, NEW t \in Turns, ReplyArrives(t) PROVE PanelInv'
<1>1. UNCHANGED <<history, cache, fetch, opened, turns>> /\ InFlight(t)
      /\ panel' = AfterReply(panel, chats[t], t)
      /\ chats' = [chats EXCEPT ![t] = NoChat]
  BY DEF ReplyArrives, InFlight
<1>2. NoChat \in ChatType /\ NoChat.at = "none" /\ NoChat.by <= opened
  BY Facts, EmptyIsKnown DEF NoChat, ChatType, Story
<1>3. ChatsOK' /\ QueryOK' /\ Counters' /\ Known(history)'
  BY <1>1, <1>2, ChatMoves DEF PanelInv, Known
<1>4. chats'[t] = NoChat /\ \A s \in Turns : s # t => chats'[s] = chats[s]
  BY <1>1 DEF PanelInv, ChatsOK
<1>5. \A s \in Turns : InFlight(s)' /\ chats'[s].by = opened' <=> s # t /\ Own(s)
  BY <1>1, <1>2, <1>4 DEF Own, InFlight
<1>6. PanelOK'
  <2>1. CASE panel.open /\ Own(t)
    <3>1. Asking(panel.messages, t) /\ Shape(panel, turns) /\ panel.hydrated /\ panel.sending
      BY <2>1, Facts DEF PanelInv, PanelOK, Shape, Own
    <3>2. PICK answered \in BOOLEAN : answered = (chats[t].at = "answered")
      OBVIOUS
    <3>3. panel' = [panel EXCEPT !.sending = FALSE,
                      !.messages = IF answered THEN Append(@, Assistant(t)) ELSE @]
      BY <1>1, <2>1, <3>2 DEF AfterReply, Own
    <3>4. Shape(panel', turns') /\ panel'.open /\ ~panel'.sending
      BY <1>1, <2>1, <3>1, <3>3, Facts, OwnReply
    <3>5. \A s \in Turns : ~(InFlight(s)' /\ chats'[s].by = opened')
      BY <1>5, <2>1, Facts
    <3>6. SendingMatchesFlight'
      BY <3>4, <3>5 DEF SendingMatchesFlight
    <3>7. QED
      BY <3>4, <3>5, <3>6 DEF PanelOK
  <2>2. CASE ~(panel.open /\ Own(t))
    <3>1. panel' = panel
      BY <1>1, <2>2 DEF AfterReply, Own
    <3>2. panel.open => \A s \in Turns : InFlight(s)' /\ chats'[s].by = opened' <=> Own(s)
      BY <1>5, <2>2
    <3>3. \A s, o \in Turns : (InFlight(s)' /\ chats'[s].by = opened')
                              /\ (InFlight(o)' /\ chats'[o].by = opened') => s = o
      BY <1>5, Facts
    <3>4. SendingMatchesFlight'
      BY <3>1, <3>2, <3>3, Facts DEF SendingMatchesFlight
    <3>5. QED
      BY <1>1, <3>1, <3>2, <3>4 DEF PanelInv, PanelOK, Own
  <2>3. QED
    BY <2>1, <2>2
<1>7. QED
  BY <1>3, <1>6 DEF PanelInv

-----------------------------------------------------------------------------
\* The invariant is inductive.

LEMMA PanelInvInit == Init => PanelInv
<1> SUFFICES ASSUME Init PROVE PanelInv
  OBVIOUS
<1>1. Known(<<>>) /\ <<>> \in Seq(Messages)
  BY EmptyIsKnown DEF Known
<1>2. NoChat \in ChatType /\ NoChat.at = "none" /\ NoChat.by = 0
  BY <1>1 DEF NoChat, ChatType
<1>3. ChatsOK
  BY <1>2 DEF Init, ChatsOK, InFlight
<1>4. QueryOK
  BY <1>1 DEF Init, QueryOK, NoFetch
<1>5. PanelOK
  <2>1. \A t \in Turns : ~InFlight(t)
    BY <1>2 DEF Init, InFlight
  <2>2. Shape(panel, turns) /\ panel = NoPanel /\ ~panel.open
    BY FreshIsOK DEF Init
  <2>3. SendingMatchesFlight
    BY <2>1, <2>2 DEF SendingMatchesFlight
  <2>4. QED
    BY <2>1, <2>2, <2>3 DEF PanelOK
<1>6. QED
  BY <1>1, <1>3, <1>4, <1>5, PanelAssumption DEF Init, PanelInv, Counters

LEMMA PanelInvStep == PanelInv /\ [Next]_vars => PanelInv'
<1> SUFFICES ASSUME PanelInv, [Next]_vars PROVE PanelInv'
  OBVIOUS
<1>1. CASE Open
  BY <1>1, OpenKeeps
<1>2. CASE Close
  BY <1>2, CloseKeeps
<1>3. CASE Refocus \/ Evict \/ ServeHistory \/ FetchFails
  BY <1>3, QueryStepsKeep
<1>4. CASE HistoryArrives
  BY <1>4, HistoryArrivesKeeps
<1>5. CASE Send
  BY <1>5, SendKeeps
<1>6. CASE \E t \in Turns : Ask(t) \/ Answer(t) \/ AnswerUnrecorded(t) \/ Fail(t) \/ ReplyArrives(t)
  BY <1>6, AskKeeps, AnswerKeeps, EndsKeep, ReplyArrivesKeeps
<1>7. CASE UNCHANGED vars
  <2>1. UNCHANGED <<history, cache, fetch, panel, opened, chats, turns>>
    BY <1>7 DEF vars
  <2>2. QED
    BY <2>1 DEF PanelInv, Counters, Known, ChatsOK, QueryOK, PanelOK, InFlight,
                SendingMatchesFlight
<1>8. QED
  BY <1>1, <1>2, <1>3, <1>4, <1>5, <1>6, <1>7 DEF Next

LEMMA PanelAlways == Spec => []PanelInv
BY PanelInvInit, PanelInvStep, PTL DEF Spec

-----------------------------------------------------------------------------
\* Theorems.

\* Every variable has its type in every reachable state; a closed panel has
\* nothing left of what its component knew.
THEOREM PanelTypes == Spec => []TypeOK
<1>1. PanelInv => TypeOK
  <2> SUFFICES ASSUME PanelInv PROVE TypeOK
    OBVIOUS
  <2>1. history \in Seq(Messages) /\ (cache = NoData \/ cache \in Seq(Messages))
    BY DEF PanelInv, QueryOK, Known, Story
  <2>2. fetch.at \in {"none", "sent", "served"} /\ fetch.data \in Seq(Messages)
    BY DEF PanelInv, QueryOK
  <2>3. panel.messages \in Seq(Messages) /\ (panel.open \/ panel = NoPanel)
        /\ (panel.sent => panel.hydrated)
    BY DEF PanelInv, PanelOK, Shape, Story
  <2>4. ASSUME NEW t \in Turns
        PROVE  /\ chats[t].at \in {"none", "sent", "asked", "answered", "failed"}
               /\ chats[t].by \in 0 .. opened
               /\ InFlight(t) => t <= turns
    <3>1. chats[t] \in ChatType /\ chats[t].by <= opened /\ (InFlight(t) => t <= turns)
      BY DEF PanelInv, ChatsOK
    <3>2. QED
      BY <3>1, Facts DEF ChatType
  <2>5. QED
    BY <2>1, <2>2, <2>3, <2>4 DEF TypeOK, PanelInv, Counters
<1>2. QED
  BY <1>1, PanelAlways, PTL

\* Whatever panels were opened and closed over whatever replies and histories,
\* the transcript tells a true story and the composer is disabled exactly while
\* a message of this panel is in flight.
THEOREM PanelsAreHonest == Spec => []PanelIsHonest
<1>1. PanelInv => PanelIsHonest
  BY DEF PanelInv, PanelOK, Shape, Story, PanelIsHonest, TranscriptIsOrdered
<1>2. QED
  BY <1>1, PanelAlways, PTL

\* What a message added to a transcript leaves of it.
LEMMA PrefixKept ==
  ASSUME NEW m \in Seq(Messages), NEW x \in Messages
  PROVE  /\ Len(m) <= Len(Append(m, x)) /\ m = SubSeq(Append(m, x), 1, Len(m))
         /\ Len(m) <= Len(m) /\ m = SubSeq(m, 1, Len(m))
  OBVIOUS

\* No render takes a message from an open panel, or changes their order: late
\* histories find it hydrated, and replies add to its end.
THEOREM TurnsAreKept == Spec => InSessionTurnsKept
<1>1. PanelInv /\ [Next]_vars =>
        [panel.open /\ panel'.open =>
           /\ Len(panel.messages) <= Len(panel'.messages)
           /\ panel.messages = SubSeq(panel'.messages, 1, Len(panel.messages))]_vars
  <2> SUFFICES ASSUME PanelInv, Next, panel.open, panel'.open
               PROVE  /\ Len(panel.messages) <= Len(panel'.messages)
                      /\ panel.messages = SubSeq(panel'.messages, 1, Len(panel.messages))
    OBVIOUS
  <2>1. panel.messages \in Seq(Messages) /\ panel'.messages \in Seq(Messages)
    BY PanelInvStep DEF PanelInv, PanelOK, Shape, Story
  <2>2. \/ panel.messages = <<>> \/ panel'.messages = panel.messages
        \/ \E x \in Messages : panel'.messages = Append(panel.messages, x)
    <3>0. panel \in PanelType /\ (~panel.hydrated => panel.messages = <<>>)
      BY DEF PanelInv, PanelOK, Shape
    <3>1. CASE panel' = panel
      BY <3>1
    <3>2. CASE HistoryArrives
      BY <3>0, <3>2 DEF HistoryArrives, Hydrated
    <3>3. CASE Send
      <4>1. turns + 1 \in Turns
        BY <3>3, Facts, PanelAssumption DEF Send, Turns
      <4>2. panel'.messages = Append(panel.messages, User(turns + 1))
        BY <3>0, <3>3 DEF Send, Sending, PanelType
      <4>3. QED
        BY <4>1, <4>2, MessageParts
    <3>4. ASSUME NEW t \in Turns, ReplyArrives(t)
          PROVE  \/ panel'.messages = panel.messages
                 \/ panel'.messages = Append(panel.messages, Assistant(t))
      BY <3>0, <3>4 DEF ReplyArrives, AfterReply, PanelType
    <3>5. \/ panel' = panel \/ HistoryArrives \/ Send \/ \E t \in Turns : ReplyArrives(t)
      <4>1. NoPanel.open = FALSE
        BY FreshIsOK DEF NoPanel, FreshPanel
      <4>2. ~Open /\ ~Close
        BY <4>1 DEF Open, Close
      <4>3. QED
        BY <4>2 DEF Next, Refocus, Evict, ServeHistory, FetchFails, Ask, Answer,
                    AnswerUnrecorded, Fail
    <3>6. QED
      BY <3>1, <3>2, <3>3, <3>4, <3>5, MessageParts
  <2>3. QED
    BY <2>1, <2>2, PrefixKept
<1>2. QED
  BY <1>1, PanelAlways, PTL DEF Spec, InSessionTurnsKept

-----------------------------------------------------------------------------
\* The part of SendingEnds that needs no fairness; the other part is that the
\* server and the browser go on at all.

\* How many steps a chat's reply is away, at most.
StepsToReply(chat) ==
  [sent |-> 3, asked |-> 2, answered |-> 1, failed |-> 1, none |-> 0][chat.at]

\* Whatever else happens, a message on its way is left alone or gets nearer to its
\* reply, and so the number of a turn in flight is never given to another message.
EveryReplyNears ==
  [][\A t \in Turns : InFlight(t) =>
       chats'[t] = chats[t] \/ StepsToReply(chats'[t]) < StepsToReply(chats[t])]_vars

\* Since a panel that sends has a message in flight (PanelsAreHonest), it waits for
\* three steps at most, and none of another chat, of a fetch or of the user's puts
\* its reply further off. (send() and the handler of POST /chat.)
THEOREM RepliesNear == Spec => EveryReplyNears
<1> DEFINE Nears == \A t \in Turns : InFlight(t) =>
                      chats'[t] = chats[t] \/ StepsToReply(chats'[t]) < StepsToReply(chats[t])
<1>1. PanelInv /\ [Next]_vars => [Nears]_vars
  <2> SUFFICES ASSUME PanelInv, Next, NEW t \in Turns, InFlight(t)
               PROVE  chats'[t] = chats[t] \/ StepsToReply(chats'[t]) < StepsToReply(chats[t])
    OBVIOUS
  <2> SUFFICES ASSUME chats'[t] # chats[t]
               PROVE  StepsToReply(chats'[t]) < StepsToReply(chats[t])
    OBVIOUS
  <2>1. /\ DOMAIN chats = Turns /\ chats[t] \in ChatType /\ t <= turns
        /\ turns \in Nat /\ t \in Nat /\ turns + 1 # t
    BY PanelAssumption DEF PanelInv, Counters, ChatsOK, Turns
  <2>2. ~Send
    BY <2>1 DEF Send
  <2>3. PICK s \in Turns : Ask(s) \/ Answer(s) \/ AnswerUnrecorded(s) \/ Fail(s) \/ ReplyArrives(s)
    BY <2>2 DEF Next, Open, Close, Refocus, Evict, ServeHistory, HistoryArrives, FetchFails
  <2>4. s = t
    BY <2>1, <2>3 DEF Ask, Answer, AnswerUnrecorded, Fail, ReplyArrives
  <2>5. CASE Ask(t)
    <3>1. chats[t].at = "sent" /\ chats'[t].at = "asked"
      BY <2>1, <2>5 DEF Ask, ChatType
    <3> QED
      BY <3>1 DEF StepsToReply
  <2>6. CASE Answer(t) \/ AnswerUnrecorded(t) \/ Fail(t)
    <3>1. chats[t].at \in {"sent", "asked"} /\ chats'[t].at \in {"answered", "failed"}
      BY <2>1, <2>6 DEF Answer, AnswerUnrecorded, Fail, ChatType
    <3> QED
      BY <3>1 DEF StepsToReply
  <2>7. CASE ReplyArrives(t)
    <3>1. chats[t].at \in {"answered", "failed"} /\ chats'[t].at = "none"
      BY <2>1, <2>7 DEF ReplyArrives, NoChat
    <3> QED
      BY <3>1 DEF StepsToReply
  <2> QED
    BY <2>3, <2>4, <2>5, <2>6, <2>7
<1>2. EveryReplyNears <=> [][Nears]_vars
  BY DEF EveryReplyNears
<1> QED
  BY <1>1, <1>2, PanelAlways, PTL DEF Spec
=============================================================================
