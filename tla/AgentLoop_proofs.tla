-------------------------- MODULE AgentLoop_proofs --------------------------
(***************************************************************************)
(* Theorems about AgentLoop: for any number of conversations, of chats at  *)
(* once, of pages and of rounds, every turn keeps to a budget of its own   *)
(* and ends in a reply, and whatever turns are cut off or overwrite each   *)
(* other leave in a thread is paired and cited correctly.                  *)
(***************************************************************************)
EXTENDS AgentLoop, FiniteSetTheorems, TLAPS

-----------------------------------------------------------------------------
\* The inductive invariant.

\* Position i of the messages is a call whose results come right after it.
Answered(messages, i) ==
  i < Len(messages) /\ messages[i + 1].from = "tools" /\ messages[i + 1].turn = messages[i].turn

\* Position q is the question of a turn, and nothing up to position i that comes
\* after it is shown to the client.
Asks(messages, q, turn, i) ==
  /\ q \in DOMAIN messages /\ q < i
  /\ messages[q] = Message("user", turn, {})
  /\ \A k \in Shown(messages) : ~(q < k /\ k < i)

\* Every text comes after its question.
Exchanges(messages) ==
  \A i \in DOMAIN messages : messages[i].from = "text" =>
    \E q \in DOMAIN messages : Asks(messages, q, messages[i].turn, i)

StateType == [messages : Seq(MessageType), steps : Nat, cited : SUBSET Pages]

\* A state of the agent, in a run or in a checkpoint, knows of the first n turns
\* only, cites what its tool messages marked, and holds whole exchanges.
Sound(state, n) ==
  /\ state \in StateType
  /\ \A i \in DOMAIN state.messages : state.messages[i].turn <= n
  /\ state.cited = PagesRead(state.messages)
  /\ Exchanges(state.messages)

RunType == [at : {"idle", "agent", "tools", "end"}, thread : Threads \cup {None}, turn : Nat,
            state : StateType]

\* What a run that is going on has done: it has counted its rounds, it is at the
\* tools because of its last message, it has not answered its question before
\* the end, and it ends with its reply.
Going(q, n) ==
  LET messages == q.state.messages IN
  /\ q.at # "idle" /\ q.thread \in Threads /\ q.turn \in 1 .. n
  /\ messages # <<>>
  /\ q.state.steps = Rounds(messages, q.turn) /\ q.state.steps <= MaxIterations
  /\ q.at = "tools" <=> LastOf(messages).from = "call"
  /\ q.at = "tools" => q.state.steps < MaxIterations
  /\ q.at = "end" => LastOf(messages).turn = q.turn /\ LastOf(messages).from \in {"text", "blank"}
  /\ q.at # "end" => \E i \in DOMAIN messages : Asks(messages, i, q.turn, Len(messages) + 1)

\* The calls in a run's memory that nobody has answered: its own last message,
\* or the work of turns that are spoiled: cut off, or run beside another.
RunCalls(q, spoiled) ==
  LET messages == q.state.messages IN
  \A i \in DOMAIN messages : messages[i].from = "call" =>
    \/ Answered(messages, i)
    \/ messages[i].turn \in spoiled
    \/ i = Len(messages) /\ messages[i].turn = q.turn /\ q.at = "tools"

\* The same of a thread, where it may be the work of a turn whose run is at the
\* tools.
ThreadCalls(messages, spoiled, atTools) ==
  \A i \in DOMAIN messages : messages[i].from = "call" =>
    Answered(messages, i) \/ messages[i].turn \in spoiled \cup atTools

AtTools(c) == {run[r].turn : r \in {q \in Requests : run[q].thread = c /\ run[q].at = "tools"}}

RunOK(r) ==
  /\ run[r] \in RunType
  /\ Sound(run[r].state, turns)
  /\ RunCalls(run[r], cut \cup overlapped)
  /\ run[r] # Idle => Going(run[r], turns)

ThreadOK(c) ==
  Sound(thread[c], turns) /\ ThreadCalls(thread[c].messages, cut \cup overlapped, AtTools(c))

History ==
  /\ DOMAIN thread = Threads /\ DOMAIN run = Requests
  /\ turns \in 0 .. MaxTurns /\ cut \subseteq Turns /\ overlapped \subseteq Turns

AgentInv ==
  /\ History
  /\ \A c \in Threads : ThreadOK(c)
  /\ \A r \in Requests : RunOK(r)

-----------------------------------------------------------------------------
\* A message added to a list.

LEMMA Added ==
  ASSUME NEW m \in Seq(MessageType), NEW x \in MessageType
  PROVE  /\ Append(m, x) \in Seq(MessageType) /\ Append(m, x) # <<>>
         /\ Len(m) \in Nat /\ Len(Append(m, x)) = Len(m) + 1
         /\ DOMAIN m = 1 .. Len(m) /\ DOMAIN Append(m, x) = 1 .. Len(m) + 1
         /\ \A i \in DOMAIN m : Append(m, x)[i] = m[i] /\ m[i] \in MessageType
         /\ Append(m, x)[Len(m) + 1] = x /\ LastOf(Append(m, x)) = x
  BY DEF LastOf

\* A message counts as a round when it brings the turn's results.
LEMMA RoundsAdded ==
  ASSUME NEW m \in Seq(MessageType), NEW x \in MessageType, NEW t
  PROVE  /\ Rounds(m, t) \in Nat
         /\ Rounds(Append(m, x), t) = IF x.from = "tools" /\ x.turn = t THEN Rounds(m, t) + 1
                                      ELSE Rounds(m, t)
<1> DEFINE R == {i \in DOMAIN m : m[i].from = "tools" /\ m[i].turn = t}
           RR == {i \in DOMAIN Append(m, x) :
                    Append(m, x)[i].from = "tools" /\ Append(m, x)[i].turn = t}
<1>1. IsFiniteSet(1 .. Len(m))
  BY Added, FS_Interval
<1>2. IsFiniteSet(R)
  BY <1>1, Added, FS_Subset
<1>3. Cardinality(R) \in Nat
  BY <1>2, FS_CardinalityType
<1>4. Len(m) + 1 \notin R
  BY Added
<1>5. Cardinality(R \cup {Len(m) + 1}) = Cardinality(R) + 1
  BY <1>2, <1>4, FS_AddElement
<1>6. RR = IF x.from = "tools" /\ x.turn = t THEN R \cup {Len(m) + 1} ELSE R
  <2>1. DOMAIN Append(m, x) = DOMAIN m \cup {Len(m) + 1}
    BY Added
  <2>2. QED
    BY <2>1, Added
<1>7. QED
  BY <1>3, <1>5, <1>6 DEF Rounds

\* Nothing is counted for a turn that no message is about.
LEMMA NoRoundsYet ==
  ASSUME NEW m \in Seq(MessageType), NEW t, \A i \in DOMAIN m : m[i].turn # t
  PROVE  Rounds(m, t) = 0
<1>1. {i \in DOMAIN m : m[i].from = "tools" /\ m[i].turn = t} = {}
  OBVIOUS
<1>2. QED
  BY <1>1, FS_EmptySet DEF Rounds

LEMMA PagesAdded ==
  ASSUME NEW m \in Seq(MessageType), NEW x \in MessageType
  PROVE  PagesRead(Append(m, x)) = IF x.from = "tools" THEN PagesRead(m) \cup x.pages
                                   ELSE PagesRead(m)
<1>1. ASSUME NEW p PROVE p \in PagesRead(m) <=>
        \E i \in DOMAIN m : m[i].from = "tools" /\ p \in m[i].pages
  BY DEF PagesRead
<1>2. ASSUME NEW p PROVE p \in PagesRead(Append(m, x)) <=>
        \E i \in DOMAIN Append(m, x) : Append(m, x)[i].from = "tools" /\ p \in Append(m, x)[i].pages
  BY DEF PagesRead
<1>3. DOMAIN Append(m, x) = DOMAIN m \cup {Len(m) + 1}
  BY Added
<1>4. ASSUME NEW p PROVE p \in PagesRead(Append(m, x)) <=>
        p \in PagesRead(m) \/ (x.from = "tools" /\ p \in x.pages)
  BY <1>1, <1>2, <1>3, Added
<1>5. QED
  BY <1>4

\* The question that is being answered stays in place while calls, results and
\* empty replies follow it, and a new question is one.
LEMMA StillAsks ==
  ASSUME NEW m \in Seq(MessageType), NEW x \in MessageType, x.from \notin {"user", "text"},
         NEW q \in DOMAIN m, NEW t, Asks(m, q, t, Len(m) + 1)
  PROVE  q \in DOMAIN Append(m, x) /\ Asks(Append(m, x), q, t, Len(m) + 2)
  BY Added DEF Asks, Shown

LEMMA NowAsks ==
  ASSUME NEW m \in Seq(MessageType), NEW t, Message("user", t, {}) \in MessageType
  PROVE  Asks(Append(m, Message("user", t, {})), Len(m) + 1, t, Len(m) + 2)
  BY Added DEF Asks, Shown

LEMMA ExchangesAdded ==
  ASSUME NEW m \in Seq(MessageType), NEW x \in MessageType, Exchanges(m),
         x.from = "text" => \E q \in DOMAIN m : Asks(m, q, x.turn, Len(m) + 1)
  PROVE  Exchanges(Append(m, x))
<1> DEFINE mx == Append(m, x)
<1>1. ASSUME NEW q \in DOMAIN m, NEW t, NEW i \in 1 .. Len(m) + 1, Asks(m, q, t, i)
      PROVE  q \in DOMAIN mx /\ Asks(mx, q, t, i)
  BY <1>1, Added DEF Asks, Shown
<1>2. ASSUME NEW i \in DOMAIN mx, mx[i].from = "text"
      PROVE  \E q \in DOMAIN mx : Asks(mx, q, mx[i].turn, i)
  <2>1. CASE i \in DOMAIN m
    <3>1. PICK q \in DOMAIN m : Asks(m, q, m[i].turn, i)
      BY <1>2, <2>1, Added DEF Exchanges
    <3>2. QED
      BY <1>1, <2>1, <3>1, Added
  <2>2. CASE i = Len(m) + 1
    <3>1. PICK q \in DOMAIN m : Asks(m, q, x.turn, Len(m) + 1)
      BY <1>2, <2>2, Added
    <3>2. QED
      BY <1>1, <2>2, <3>1, Added
  <2>3. QED
    BY <2>1, <2>2, Added
<1>3. QED
  BY <1>2 DEF Exchanges

LEMMA TurnsOf ==
  ASSUME NEW state, NEW n, Sound(state, n)
  PROVE  \A i \in DOMAIN state.messages :
           state.messages[i].turn \in Int /\ state.messages[i].turn <= n
<1>1. state.messages \in Seq(MessageType)
  BY DEF Sound, StateType
<1>2. \A i \in DOMAIN state.messages : state.messages[i] \in MessageType
  BY <1>1
<1>3. \A x \in MessageType : x.turn \in Int
  BY AgentAssumption DEF MessageType, Turns
<1>4. QED
  BY <1>2, <1>3 DEF Sound

\* A node's message joins a state that was sound.
LEMMA AddingIsSound ==
  ASSUME NEW state \in StateType, NEW n \in Nat, Sound(state, n),
         NEW x \in MessageType, x.turn <= n,
         x.from = "text" => \E q \in DOMAIN state.messages :
                              Asks(state.messages, q, x.turn, Len(state.messages) + 1),
         NEW next \in StateType, next.messages = Append(state.messages, x),
         next.cited = IF x.from = "tools" THEN state.cited \cup x.pages ELSE state.cited
  PROVE  Sound(next, n)
<1>1. state.messages \in Seq(MessageType)
  BY DEF StateType
<1>2. \A i \in DOMAIN next.messages : next.messages[i].turn <= n
  BY <1>1, Added DEF Sound
<1>3. next.cited = PagesRead(next.messages)
  BY <1>1, PagesAdded DEF Sound
<1>4. Exchanges(next.messages)
  BY <1>1, ExchangesAdded DEF Sound
<1>5. QED
  BY <1>2, <1>3, <1>4 DEF Sound

LEMMA EmptyIsSound == ASSUME NEW n \in Nat PROVE Sound(Empty, n) /\ Empty.messages = <<>>
  BY DEF Sound, Empty, StateType, PagesRead, Exchanges

LEMMA SoundLater ==
  ASSUME NEW state, NEW n \in Nat, Sound(state, n), NEW k \in Nat, n <= k
  PROVE  Sound(state, k)
  BY TurnsOf DEF Sound

\* A run's message leaves no call of its own unanswered but the one it makes.
LEMMA RunCallsAdded ==
  ASSUME NEW q, NEW p, NEW spoiled, RunCalls(q, spoiled), q.state.messages \in Seq(MessageType),
         NEW x \in MessageType, p.state.messages = Append(q.state.messages, x),
         p.turn = q.turn, x.turn = q.turn,
         q.at = "tools" => x.from = "tools", x.from = "call" => p.at = "tools"
  PROVE  RunCalls(p, spoiled)
<1> DEFINE m == q.state.messages
<1>1. ASSUME NEW i \in DOMAIN p.state.messages, p.state.messages[i].from = "call"
      PROVE  \/ Answered(p.state.messages, i)
             \/ p.state.messages[i].turn \in spoiled
             \/ i = Len(p.state.messages) /\ p.state.messages[i].turn = p.turn /\ p.at = "tools"
  <2>1. CASE i \in DOMAIN m /\ Answered(m, i)
    BY <2>1, Added DEF Answered
  <2>2. CASE i \in DOMAIN m /\ m[i].turn \in spoiled
    BY <2>2, Added
  <2>3. CASE i \in DOMAIN m /\ i = Len(m) /\ m[i].turn = q.turn /\ q.at = "tools"
    BY <2>3, Added DEF Answered
  <2>4. CASE i = Len(m) + 1
    BY <1>1, <2>4, Added
  <2>5. QED
    BY <1>1, <2>1, <2>2, <2>3, <2>4, Added DEF RunCalls
<1>2. QED
  BY <1>1 DEF RunCalls

LEMMA RunCallsLater ==
  ASSUME NEW q, NEW spoiled, NEW more, RunCalls(q, spoiled), spoiled \subseteq more
  PROVE  RunCalls(q, more)
  BY DEF RunCalls

LEMMA ThreadCallsLater ==
  ASSUME NEW m, NEW spoiled, NEW more, NEW at, NEW now, ThreadCalls(m, spoiled, at),
         spoiled \subseteq more, at \subseteq more \cup now
  PROVE  ThreadCalls(m, more, now)
  BY DEF ThreadCalls

LEMMA GoingLater ==
  ASSUME NEW q \in RunType, NEW n \in Nat, Going(q, n), NEW k \in Nat, n <= k
  PROVE  Going(q, k)
<1>1. q.turn \in 1 .. k
  BY DEF Going
<1>2. QED
  BY <1>1 DEF Going

-----------------------------------------------------------------------------
\* The steps.

LEMMA IdleIsFree == Idle.at = "idle" /\ Idle.thread \notin Threads /\ Idle.state = Empty
  BY AgentAssumption DEF Idle

LEMMA IdleOK == ASSUME NEW n \in Nat, NEW spoiled
                PROVE  Idle \in RunType /\ Sound(Idle.state, n) /\ RunCalls(Idle, spoiled)
<1>1. Sound(Empty, n) /\ Empty.messages = <<>>
  BY EmptyIsSound
<1>2. Idle \in RunType
  BY <1>1 DEF Idle, RunType, Sound
<1>3. RunCalls(Idle, spoiled)
  BY <1>1, IdleIsFree DEF RunCalls
<1>4. QED
  BY <1>1, <1>2, <1>3, IdleIsFree

\* A node of the graph: the run goes on to p, and what p remembers becomes the
\* latest checkpoint of its thread.
LEMMA NodeKeeps ==
  ASSUME AgentInv, NEW r \in Requests, NEW p \in RunType, Going(p, turns), Sound(p.state, turns),
         RunCalls(p, cut \cup overlapped), p.thread = run[r].thread, p.turn = run[r].turn,
         run' = [run EXCEPT ![r] = p], Checkpoint(r, p.state), UNCHANGED <<turns, cut, overlapped>>
  PROVE  AgentInv'
<1> DEFINE d == run[r].thread
<1>1. d \in Threads /\ run'[r] = p /\ \A q \in Requests \ {r} : run'[q] = run[q]
  BY DEF AgentInv, History, Going
<1>2. thread'[d] = p.state /\ \A c \in Threads \ {d} : thread'[c] = thread[c]
  BY <1>1 DEF Checkpoint, AgentInv, History
<1>3. History'
  BY DEF AgentInv, History, Checkpoint
<1>4. ASSUME NEW c \in Threads PROVE ThreadOK(c)'
  <2>1. CASE c = d
    <3>1. p.at = "tools" => p.turn \in AtTools(c)'
      BY <1>1, <2>1 DEF AtTools
    <3>2. ThreadCalls(p.state.messages, cut \cup overlapped, AtTools(c)')
      BY <3>1 DEF RunCalls, ThreadCalls
    <3>3. QED
      BY <1>2, <2>1, <3>2 DEF ThreadOK
  <2>2. CASE c # d
    <3>1. AtTools(c)' = AtTools(c)
      BY <1>1, <2>2 DEF AtTools
    <3>2. QED
      BY <1>2, <2>2, <3>1 DEF ThreadOK, AgentInv
  <2>3. QED
    BY <2>1, <2>2
<1>5. ASSUME NEW q \in Requests PROVE RunOK(q)'
  BY <1>1 DEF RunOK, AgentInv
<1>6. QED
  BY <1>3, <1>4, <1>5 DEF AgentInv

LEMMA Working ==
  ASSUME AgentInv, NEW r \in Requests, run[r].at # "idle"
  PROVE  /\ Going(run[r], turns) /\ run[r] \in RunType /\ Sound(run[r].state, turns)
         /\ RunCalls(run[r], cut \cup overlapped)
         /\ turns \in Nat /\ run[r].turn \in 1 .. turns /\ run[r].turn \in Turns
         /\ run[r].state \in StateType /\ run[r].state.messages \in Seq(MessageType)
<1>1. run[r] # Idle /\ RunOK(r) /\ turns \in 0 .. MaxTurns
  BY IdleIsFree DEF AgentInv, History
<1>2. run[r].turn \in 1 .. turns
  BY <1>1 DEF RunOK, Going
<1>3. QED
  BY <1>1, <1>2, AgentAssumption DEF RunOK, Sound, StateType, Turns

\* One more message of the turn, x, and a run that has room for what it does next.
LEMMA MessageKeeps ==
  ASSUME AgentInv, NEW r \in Requests, run[r].at \in {"agent", "tools"},
         NEW x \in MessageType, x.turn = run[r].turn, x.from # "user",
         run[r].at = "tools" => x.from = "tools",
         NEW p \in RunType, p.thread = run[r].thread, p.turn = run[r].turn, p.at # "idle",
         p.at = "tools" <=> x.from = "call",
         p.at = "end" <=> x.from \in {"text", "blank"},
         p.state.messages = Append(run[r].state.messages, x),
         p.state.steps = run[r].state.steps + (IF x.from = "tools" THEN 1 ELSE 0),
         p.state.cited = IF x.from = "tools" THEN run[r].state.cited \cup x.pages
                         ELSE run[r].state.cited,
         x.from \in {"tools", "call"} => run[r].state.steps < MaxIterations,
         run' = [run EXCEPT ![r] = p], Checkpoint(r, p.state), UNCHANGED <<turns, cut, overlapped>>
  PROVE  AgentInv'
<1>1. /\ Going(run[r], turns) /\ run[r] \in RunType /\ Sound(run[r].state, turns)
      /\ RunCalls(run[r], cut \cup overlapped)
      /\ turns \in Nat /\ run[r].turn \in 1 .. turns /\ run[r].turn \in Turns
      /\ run[r].state \in StateType /\ run[r].state.messages \in Seq(MessageType)
  BY Working
<1>2. PICK m \in Seq(MessageType) : m = run[r].state.messages
  BY <1>1
<1>3. PICK q \in DOMAIN m : Asks(m, q, x.turn, Len(m) + 1)
  BY <1>1, <1>2 DEF Going
<1>4. LastOf(p.state.messages) = x /\ p.state.messages # <<>>
      /\ Len(p.state.messages) + 1 = Len(m) + 2
  BY <1>2, Added
<1>5. p.state \in StateType
  BY DEF RunType
<1>6. Sound(p.state, turns)
  <2>1. x.turn <= turns
    BY <1>1
  <2>2. PICK s \in StateType, z \in StateType : s = run[r].state /\ z = p.state
    BY <1>1, <1>5
  <2>3. \E k \in DOMAIN s.messages : Asks(s.messages, k, x.turn, Len(s.messages) + 1)
    BY <1>2, <1>3, <2>2
  <2>4. Sound(s, turns) /\ z.messages = Append(s.messages, x)
        /\ z.cited = IF x.from = "tools" THEN s.cited \cup x.pages ELSE s.cited
    BY <1>1, <2>2
  <2>5. Sound(z, turns)
    BY <1>1, <2>1, <2>3, <2>4, AddingIsSound
  <2>6. QED
    BY <2>2, <2>5
<1>7. RunCalls(p, cut \cup overlapped)
  BY <1>1, RunCallsAdded
<1>8. Going(p, turns)
  <2>1. p.state.steps = Rounds(p.state.messages, p.turn) /\ p.state.steps <= MaxIterations
        /\ (p.at = "tools" => p.state.steps < MaxIterations)
    <3>1. run[r].state.steps = Rounds(m, x.turn) /\ run[r].state.steps <= MaxIterations
          /\ run[r].state.steps \in Nat
      BY <1>1, <1>2 DEF Going, StateType
    <3>2. Rounds(p.state.messages, x.turn) =
            IF x.from = "tools" THEN Rounds(m, x.turn) + 1 ELSE Rounds(m, x.turn)
      BY <1>2, RoundsAdded
    <3>3. QED
      BY <3>1, <3>2, AgentAssumption
  <2>2. p.at # "end" =>
          \E i \in DOMAIN p.state.messages : Asks(p.state.messages, i, p.turn, Len(m) + 2)
    <3>1. ASSUME x.from \notin {"user", "text"}
          PROVE  q \in DOMAIN Append(m, x) /\ Asks(Append(m, x), q, x.turn, Len(m) + 2)
      BY <1>3, <3>1, StillAsks
    <3>2. QED
      BY <1>2, <3>1
  <2>3. p.thread \in Threads /\ p.turn \in 1 .. turns
    BY <1>1 DEF Going
  <2>4. QED
    BY <1>4, <2>1, <2>2, <2>3 DEF Going
<1>9. QED
  BY <1>6, <1>7, <1>8, NodeKeeps

\* The model's reply: text that answers the question, nothing, or a call that
\* the budget still has room for.
LEMMA AgentNodeKeeps ==
  ASSUME AgentInv, NEW r \in Requests, NEW reply \in {"text", "blank", "call"}, AgentNode(r, reply)
  PROVE  AgentInv'
<1>1. run[r].at = "agent" /\ run[r] \in RunType /\ r \in DOMAIN run /\ run[r].turn \in Turns
      /\ run[r].state \in StateType
  BY Working DEF AgentNode, AgentInv, History
<1>2. PICK x \in MessageType : x = Message(reply, run[r].turn, {})
  BY <1>1 DEF Message, MessageType
<1>3. PICK next : next = Adding(run[r].state, x)
  OBVIOUS
<1>4. PICK p : p = [run[r] EXCEPT !.state = next, !.at = Route(next)]
  OBVIOUS
<1>5. run' = [run EXCEPT ![r] = p] /\ Checkpoint(r, next) /\ UNCHANGED <<turns, cut, overlapped>>
  BY <1>1, <1>2, <1>3, <1>4 DEF AgentNode, RunType
<1>6. /\ next \in StateType /\ next.messages = Append(run[r].state.messages, x)
      /\ next.steps = run[r].state.steps /\ next.cited = run[r].state.cited
  <2>1. Append(run[r].state.messages, x) \in Seq(MessageType)
    BY <1>1, Added DEF StateType
  <2>2. QED
    BY <1>1, <1>3, <2>1 DEF StateType, Adding
<1>7. LastOf(next.messages) = x
  BY <1>1, <1>6, Added DEF StateType
<1>8. x.from = reply /\ x.turn = run[r].turn
  BY <1>2 DEF Message
<1>9. /\ p \in RunType /\ p.state = next /\ p.thread = run[r].thread /\ p.turn = run[r].turn
      /\ p.at = IF reply = "call" THEN "tools" ELSE "end"
  BY <1>1, <1>4, <1>6, <1>7, <1>8 DEF RunType, Route
<1>10. reply = "call" => run[r].state.steps < MaxIterations
  <2>1. run[r].state.steps \in Nat /\ MaxIterations \in Nat
    BY <1>1, AgentAssumption DEF StateType
  <2>2. QED
    BY <2>1 DEF AgentNode, Exhausted
<1>11. p.state.steps = run[r].state.steps + (IF x.from = "tools" THEN 1 ELSE 0)
  BY <1>1, <1>6, <1>8, <1>9 DEF StateType
<1>12. QED
  BY <1>1, <1>5, <1>6, <1>8, <1>9, <1>10, <1>11, MessageKeeps

\* The results of the last message's calls: one more round.
LEMMA ToolsNodeKeeps ==
  ASSUME AgentInv, NEW r \in Requests, NEW pages \in SUBSET Pages, ToolsNode(r, pages)
  PROVE  AgentInv'
<1>1. run[r].at = "tools" /\ run[r] \in RunType /\ r \in DOMAIN run /\ run[r].turn \in Turns
      /\ run[r].state \in StateType /\ Going(run[r], turns)
  BY Working DEF ToolsNode, AgentInv, History
<1>2. PICK x \in MessageType : x = Message("tools", run[r].turn, pages)
  BY <1>1 DEF Message, MessageType
<1>3. PICK next : next = AfterTools(run[r].state, run[r].turn, pages)
  OBVIOUS
<1>4. PICK p : p = [run[r] EXCEPT !.state = next, !.at = "agent"]
  OBVIOUS
<1>5. run' = [run EXCEPT ![r] = p] /\ Checkpoint(r, next) /\ UNCHANGED <<turns, cut, overlapped>>
  BY <1>1, <1>3, <1>4 DEF ToolsNode, RunType
<1>6. /\ next.messages = Append(run[r].state.messages, x)
      /\ next.steps = run[r].state.steps + 1 /\ next.cited = run[r].state.cited \cup pages
      /\ next = [messages |-> next.messages, steps |-> next.steps, cited |-> next.cited]
  BY <1>1, <1>2, <1>3 DEF StateType, AfterTools, Adding
<1>7. next \in StateType
  <2>1. next.messages \in Seq(MessageType)
    BY <1>1, <1>6, Added DEF StateType
  <2>2. next.steps \in Nat /\ next.cited \in SUBSET Pages
    BY <1>1, <1>6 DEF StateType
  <2>3. QED
    BY <1>6, <2>1, <2>2 DEF StateType
<1>8. x.from = "tools" /\ x.turn = run[r].turn /\ x.pages = pages
  BY <1>2 DEF Message
<1>9. /\ p \in RunType /\ p.state = next /\ p.thread = run[r].thread /\ p.turn = run[r].turn
      /\ p.at = "agent"
  BY <1>1, <1>4, <1>7 DEF RunType
<1>10. run[r].state.steps < MaxIterations
  BY <1>1 DEF Going
<1>11. QED
  BY <1>1, <1>5, <1>6, <1>8, <1>9, <1>10, MessageKeeps

\* A run that ends, with its reply or without one: a call that it leaves
\* unanswered is the work of a turn that was cut off.
LEMMA LeavingKeeps ==
  ASSUME AgentInv, NEW r \in Requests, run' = [run EXCEPT ![r] = Idle],
         UNCHANGED <<thread, turns, overlapped>>, cut \subseteq cut', cut' \subseteq Turns,
         run[r].at = "tools" => run[r].turn \in cut'
  PROVE  AgentInv'
<1>1. run'[r] = Idle /\ \A q \in Requests \ {r} : run'[q] = run[q]
  BY DEF AgentInv, History
<1>2. History' /\ turns \in Nat
  BY AgentAssumption DEF AgentInv, History
<1>3. ASSUME NEW c \in Threads PROVE ThreadOK(c)'
  <2>1. AtTools(c) \subseteq (cut \cup overlapped)' \cup AtTools(c)'
    BY <1>1 DEF AtTools
  <2>2. ThreadCalls(thread[c].messages, (cut \cup overlapped)', AtTools(c)')
    BY <2>1, ThreadCallsLater DEF AgentInv, ThreadOK
  <2>3. QED
    BY <2>2 DEF AgentInv, ThreadOK
<1>4. ASSUME NEW q \in Requests PROVE RunOK(q)'
  <2>1. CASE q = r
    BY <1>1, <1>2, <2>1, IdleOK DEF RunOK
  <2>2. CASE q # r
    <3>1. RunCalls(run[q], (cut \cup overlapped)')
      BY RunCallsLater DEF AgentInv, RunOK
    <3>2. QED
      BY <1>1, <2>2, <3>1 DEF AgentInv, RunOK
  <2>3. QED
    BY <2>1, <2>2
<1>5. QED
  BY <1>2, <1>3, <1>4 DEF AgentInv

\* A question in a thread: the turn's own list starts with no round, and calls
\* that a run beside it has yet to answer are now the work of an overlapped turn.
LEMMA StartTurnKeeps ==
  ASSUME AgentInv, NEW r \in Requests, NEW c \in Threads, StartTurn(r, c)
  PROVE  AgentInv'
<1> DEFINE beside == {run[q].turn : q \in {p \in Requests : run[p].thread = c}}
<1>1. turns \in Nat /\ turns' = turns + 1 /\ turns + 1 \in Turns
      /\ DOMAIN thread = Threads /\ DOMAIN run = Requests /\ Sound(thread[c], turns)
  BY AgentAssumption DEF AgentInv, History, StartTurn, ThreadOK, Turns
<1>2. PICK x \in MessageType : x = Message("user", turns + 1, {})
  BY <1>1 DEF Message, MessageType
<1>3. PICK m \in Seq(MessageType) : m = thread[c].messages
  BY <1>1 DEF Sound, StateType
<1>4. PICK next : next = Inputs(c)
  OBVIOUS
<1>5. PICK p : p = [at |-> "agent", thread |-> c, turn |-> turns + 1, state |-> next]
  OBVIOUS
<1>6. x.from = "user" /\ x.turn = turns + 1 /\ x.pages = {}
  BY <1>2 DEF Message
<1>7. next \in StateType /\ next.messages = Append(m, x) /\ next.steps = 0
      /\ next.cited = thread[c].cited
  <2>1. Append(m, x) \in Seq(MessageType)
    BY Added
  <2>2. thread[c] \in StateType
    BY <1>1 DEF Sound
  <2>3. QED
    BY <1>2, <1>3, <1>4, <2>1, <2>2 DEF StateType, Inputs, Adding
<1>8. thread' = [thread EXCEPT ![c] = next] /\ run' = [run EXCEPT ![r] = p] /\ run[r] = Idle
      /\ cut' = cut
  BY <1>4, <1>5 DEF StartTurn
<1>9. overlapped \cup beside \subseteq overlapped' /\ overlapped' \subseteq Turns
  <2>1. ASSUME NEW q \in Requests, run[q].thread = c PROVE run[q].turn \in Turns
    <3>1. Going(run[q], turns) /\ turns \in 0 .. MaxTurns
      BY <2>1, IdleIsFree DEF AgentInv, RunOK, History
    <3>2. QED
      BY <3>1, AgentAssumption DEF Going, Turns
  <2>2. beside \subseteq Turns /\ overlapped \subseteq Turns
    BY <2>1 DEF AgentInv, History
  <2>3. QED
    BY <1>1, <2>2 DEF StartTurn
<1>10. Sound(next, turns')
  <2>1. PICK s \in StateType : s = thread[c]
    BY <1>1 DEF Sound
  <2>2. Sound(s, turns') /\ turns' \in Nat /\ x.turn <= turns'
    BY <1>1, <1>6, <2>1, SoundLater
  <2>3. next.messages = Append(s.messages, x)
        /\ next.cited = IF x.from = "tools" THEN s.cited \cup x.pages ELSE s.cited
    BY <1>3, <1>6, <1>7, <2>1
  <2>4. QED
    BY <1>6, <1>7, <2>1, <2>2, <2>3, AddingIsSound
<1>11. ASSUME NEW i \in DOMAIN next.messages, next.messages[i].from = "call"
       PROVE  Answered(next.messages, i) \/ next.messages[i].turn \in (cut \cup overlapped)'
  <2>1. i \in DOMAIN m /\ m[i].from = "call" /\ next.messages[i] = m[i]
    BY <1>6, <1>7, <1>11, Added
  <2>2. Answered(m, i) => Answered(next.messages, i)
    BY <1>7, <2>1, Added DEF Answered
  <2>3. Answered(m, i) \/ m[i].turn \in cut \cup overlapped \cup AtTools(c)
    BY <1>3, <2>1 DEF AgentInv, ThreadOK, ThreadCalls
  <2>4. AtTools(c) \subseteq beside
    BY DEF AtTools
  <2>5. QED
    BY <1>8, <1>9, <2>1, <2>2, <2>3, <2>4
<1>12. p \in RunType /\ p.state = next /\ p.at = "agent" /\ p.thread = c /\ p.turn = turns + 1
  BY <1>1, <1>5, <1>7 DEF RunType
<1>13. Going(p, turns')
  <2>1. Rounds(next.messages, turns + 1) = 0
    <3>1. \A i \in DOMAIN m : m[i].turn # turns + 1
      <4>1. \A i \in DOMAIN m : m[i].turn \in Int /\ m[i].turn <= turns
        BY <1>1, <1>3, TurnsOf
      <4>2. QED
        BY <1>1, <4>1
    <3>2. Rounds(m, turns + 1) = 0
      BY <3>1, NoRoundsYet
    <3>3. QED
      BY <1>6, <1>7, <3>2, RoundsAdded
  <2>2. LastOf(next.messages) = x /\ next.messages # <<>> /\ Len(next.messages) = Len(m) + 1
        /\ Len(m) + 1 \in DOMAIN next.messages /\ Len(m) \in Nat
    BY <1>7, Added
  <2>3. Asks(next.messages, Len(m) + 1, turns + 1, Len(m) + 2)
    BY <1>2, <1>7, NowAsks
  <2>4. Len(next.messages) + 1 = Len(m) + 2
    BY <2>2
  <2>5. p.turn \in 1 .. turns'
    BY <1>1, <1>12
  <2>6. \E i \in DOMAIN next.messages : Asks(next.messages, i, p.turn, Len(next.messages) + 1)
    BY <1>12, <2>2, <2>3, <2>4
  <2>7. p.state.steps = Rounds(p.state.messages, p.turn) /\ p.state.steps <= MaxIterations
    <3>1. p.state.steps = 0 /\ Rounds(p.state.messages, p.turn) = 0
      BY <1>7, <1>12, <2>1
    <3>2. 0 <= MaxIterations
      BY AgentAssumption
    <3>3. QED
      BY <3>1, <3>2
  <2>8. LastOf(p.state.messages).from = "user" /\ p.state.messages # <<>>
    BY <1>6, <1>12, <2>2
  <2>9. QED
    BY <1>12, <2>5, <2>6, <2>7, <2>8 DEF Going
<1>14. History'
  BY <1>1, <1>8, <1>9 DEF AgentInv, History, Turns
<1>15. ASSUME NEW d \in Threads PROVE ThreadOK(d)'
  <2>1. CASE d = c
    <3>1. thread'[d] = next
      BY <1>1, <1>8, <2>1
    <3>2. ThreadCalls(next.messages, (cut \cup overlapped)', AtTools(d)')
      BY <1>11 DEF ThreadCalls
    <3>3. QED
      BY <1>10, <3>1, <3>2 DEF ThreadOK
  <2>2. CASE d # c
    <3>1. thread'[d] = thread[d]
      BY <1>1, <1>8, <2>2
    <3>2. AtTools(d) \subseteq AtTools(d)'
      BY <1>1, <1>8, <1>12, IdleIsFree DEF AtTools
    <3>3. ThreadCalls(thread[d].messages, (cut \cup overlapped)', AtTools(d)')
      BY <1>8, <1>9, <3>2, ThreadCallsLater DEF AgentInv, ThreadOK
    <3>4. Sound(thread[d], turns')
      BY <1>1, SoundLater DEF AgentInv, ThreadOK
    <3>5. QED
      BY <3>1, <3>3, <3>4 DEF ThreadOK
  <2>3. QED
    BY <2>1, <2>2
<1>16. ASSUME NEW q \in Requests PROVE RunOK(q)'
  <2>1. CASE q = r
    <3>1. run'[q] = p
      BY <1>1, <1>8, <2>1
    <3>2. RunCalls(p, (cut \cup overlapped)')
      BY <1>11, <1>12 DEF RunCalls
    <3>3. QED
      BY <1>10, <1>12, <1>13, <3>1, <3>2 DEF RunOK
  <2>2. CASE q # r
    <3>1. run'[q] = run[q]
      BY <1>1, <1>8, <2>2
    <3>2. RunOK(q)
      BY DEF AgentInv
    <3>3. RunCalls(run[q], (cut \cup overlapped)')
      BY <1>8, <1>9, <3>2, RunCallsLater DEF RunOK
    <3>4. Sound(run[q].state, turns')
      BY <1>1, <3>2, SoundLater DEF RunOK
    <3>5. run[q] # Idle => Going(run[q], turns')
      BY <1>1, <3>2, GoingLater DEF RunOK
    <3>6. QED
      BY <3>1, <3>2, <3>3, <3>4, <3>5 DEF RunOK
  <2>3. QED
    BY <2>1, <2>2
<1>17. QED
  BY <1>14, <1>15, <1>16 DEF AgentInv

LEMMA DeleteThreadKeeps ==
  ASSUME AgentInv, NEW c \in Threads, DeleteThread(c)
  PROVE  AgentInv'
<1>1. turns \in Nat /\ History'
  BY AgentAssumption DEF DeleteThread, AgentInv, History
<1>2. ASSUME NEW r \in Requests PROVE RunOK(r)'
  BY DEF DeleteThread, AgentInv, RunOK
<1>3. ASSUME NEW d \in Threads PROVE ThreadOK(d)'
  <2>1. AtTools(d)' = AtTools(d)
    BY DEF DeleteThread, AtTools
  <2>2. CASE d = c
    <3>1. thread'[d] = Empty
      BY <2>2 DEF DeleteThread, AgentInv, History
    <3>2. Sound(Empty, turns) /\ Empty.messages = <<>>
      BY <1>1, EmptyIsSound
    <3>3. ThreadCalls(Empty.messages, (cut \cup overlapped)', AtTools(d)')
      BY <3>2 DEF ThreadCalls
    <3>4. QED
      BY <3>1, <3>2, <3>3 DEF DeleteThread, ThreadOK
  <2>3. CASE d # c
    BY <2>1, <2>3 DEF DeleteThread, AgentInv, ThreadOK, History
  <2>4. QED
    BY <2>2, <2>3
<1>4. QED
  BY <1>1, <1>2, <1>3 DEF AgentInv

-----------------------------------------------------------------------------
\* The invariant holds, and what it implies.

LEMMA AgentInvInit == Init => AgentInv
<1> SUFFICES ASSUME Init PROVE AgentInv
  OBVIOUS
<1>1. History
  BY AgentAssumption DEF Init, History, Turns
<1>2. turns \in Nat /\ turns = 0
  BY DEF Init
<1>3. ASSUME NEW r \in Requests PROVE RunOK(r)
  BY <1>2, IdleOK DEF Init, RunOK
<1>4. ASSUME NEW c \in Threads PROVE ThreadOK(c)
  BY <1>2, EmptyIsSound DEF Init, ThreadOK, ThreadCalls
<1>5. QED
  BY <1>1, <1>3, <1>4 DEF AgentInv

LEMMA AgentInvStep == AgentInv /\ [Next]_vars => AgentInv'
<1> SUFFICES ASSUME AgentInv, [Next]_vars PROVE AgentInv'
  OBVIOUS
<1>1. CASE \E r \in Requests, c \in Threads : StartTurn(r, c)
  BY <1>1, StartTurnKeeps
<1>2. CASE \E r \in Requests, reply \in {"text", "blank", "call"} : AgentNode(r, reply)
  BY <1>2, AgentNodeKeeps
<1>3. CASE \E r \in Requests, pages \in SUBSET Pages : ToolsNode(r, pages)
  BY <1>3, ToolsNodeKeeps
<1>4. ASSUME NEW r \in Requests, Respond(r) PROVE AgentInv'
  BY <1>4, LeavingKeeps DEF Respond, AgentInv, History
<1>5. ASSUME NEW r \in Requests, CutOff(r) PROVE AgentInv'
  <2>1. run[r].turn \in Turns
    <3>1. run[r].at # "idle"
      BY <1>5 DEF CutOff, AgentInv, RunOK, Going
    <3>2. QED
      BY <3>1, Working
  <2>2. QED
    BY <1>5, <2>1, LeavingKeeps DEF CutOff, AgentInv, History
<1>6. CASE \E c \in Threads : DeleteThread(c)
  BY <1>6, DeleteThreadKeeps
<1>7. CASE UNCHANGED vars
  <2>1. thread' = thread /\ run' = run /\ turns' = turns /\ cut' = cut /\ overlapped' = overlapped
    BY <1>7 DEF vars
  <2>2. ASSUME NEW c \in Threads PROVE ThreadOK(c)'
    BY <2>1 DEF AgentInv, ThreadOK, AtTools
  <2>3. ASSUME NEW r \in Requests PROVE RunOK(r)'
    BY <2>1 DEF AgentInv, RunOK
  <2>4. QED
    BY <2>1, <2>2, <2>3 DEF AgentInv, History
<1>8. QED
  BY <1>1, <1>2, <1>3, <1>4, <1>5, <1>6, <1>7 DEF Next

LEMMA AgentAlways == Spec => []AgentInv
  BY AgentInvInit, AgentInvStep, PTL DEF Spec

\* Types: the states of the agent, and that a run is at the tools exactly when its
\* last message calls them (should_continue).
THEOREM AgentTypes == Spec => []TypeOK
<1>1. ASSUME AgentInv PROVE TypeOK
  <2>1. ASSUME NEW s \in States
        PROVE  s.messages \in Seq(MessageType) /\ s.steps \in Nat /\ s.cited \subseteq Pages
    <3>1. s \in StateType
      BY <1>1, <2>1 DEF States, AgentInv, ThreadOK, RunOK, Sound
    <3>2. QED
      BY <3>1 DEF StateType
  <2>2. ASSUME NEW r \in Requests
        PROVE  /\ run[r].at \in {"idle", "agent", "tools", "end"}
               /\ run[r] # Idle =>
                    /\ run[r].thread \in Threads /\ run[r].turn \in Turns
                    /\ run[r].at = "tools" <=> LastOf(run[r].state.messages).from = "call"
    <3>1. run[r] \in RunType /\ (run[r] # Idle => Going(run[r], turns))
      BY <1>1 DEF AgentInv, RunOK
    <3>2. run[r] # Idle => run[r].turn \in Turns
      BY <1>1, <3>1, Working DEF Going
    <3>3. QED
      BY <3>1, <3>2 DEF RunType, Going
  <2>3. QED
    BY <1>1, <2>1, <2>2 DEF TypeOK, AgentInv, History
<1>2. QED
  BY <1>1, AgentAlways, PTL

\* The budget of a turn (agent_node, should_continue): its steps count its rounds,
\* they never exceed agent_max_tool_iterations, and a turn ends with a reply of
\* its own, not with a call of tools.
THEOREM BudgetIsKept == Spec => []ToolBudget
<1>1. ASSUME AgentInv PROVE ToolBudget
  BY <1>1, IdleIsFree DEF AgentInv, RunOK, Going, ToolBudget, RoundsAreCounted, AnswersAreReplies
<1>2. QED
  BY <1>1, AgentAlways, PTL

\* The cited pages (the reducer of AgentState.cited_pages): every run cites what the
\* tools of its turn marked, and no state cites what no tool message in it did.
THEOREM CitationsHaveGrounds == Spec => []CitationsAreFounded
<1>1. ASSUME AgentInv PROVE CitationsAreFounded
  <2>1. \A s \in States : s.cited = PagesRead(s.messages)
    BY <1>1 DEF AgentInv, ThreadOK, RunOK, Sound, States
  <2>2. \A messages, turn : PagesOfTurn(messages, turn) \subseteq PagesRead(messages)
    BY DEF PagesOfTurn, PagesRead
  <2>3. \A r \in Requests : run[r].state \in States
    BY DEF States
  <2>4. QED
    BY <2>1, <2>2, <2>3 DEF CitationsAreFounded
<1>2. QED
  BY <1>1, AgentAlways, PTL

\* A thread holds whole rounds and whole exchanges, but for the calls of turns that
\* were cut off or overlapped, or are being carried out.
THEOREM ThreadsArePaired == Spec => []ThreadIsPaired
<1>1. ASSUME AgentInv PROVE UnansweredCallsWereCut
  <2>1. ASSUME NEW c \in Threads PROVE
          \A i \in DOMAIN thread[c].messages : thread[c].messages[i].from = "call" =>
            Answered(thread[c].messages, i)
            \/ thread[c].messages[i].turn \in cut \cup overlapped \cup AtTools(c)
    BY <1>1 DEF AgentInv, ThreadOK, ThreadCalls
  <2>2. QED
    BY <2>1 DEF Answered, AtTools, UnansweredCallsWereCut
<1>2. ASSUME AgentInv PROVE AnswersFollowQuestions
  <2>1. ASSUME NEW c \in Threads, NEW i \in Shown(thread[c].messages),
               thread[c].messages[i].from # "user"
        PROVE  \E q \in Shown(thread[c].messages) :
                 /\ q < i /\ thread[c].messages[q] = Message("user", thread[c].messages[i].turn, {})
                 /\ \A k \in Shown(thread[c].messages) : ~(q < k /\ k < i)
    <3>1. i \in DOMAIN thread[c].messages /\ thread[c].messages[i].from = "text"
      BY <2>1 DEF Shown
    <3>2. PICK q \in DOMAIN thread[c].messages :
            Asks(thread[c].messages, q, thread[c].messages[i].turn, i)
      BY <1>2, <3>1 DEF AgentInv, ThreadOK, Sound, Exchanges
    <3>3. q \in Shown(thread[c].messages)
      BY <3>2 DEF Asks, Shown, Message
    <3>4. QED
      BY <3>2, <3>3 DEF Asks
  <2>2. QED
    BY <2>1 DEF AnswersFollowQuestions
<1>3. QED
  BY <1>1, <1>2, AgentAlways, PTL DEF ThreadIsPaired
=============================================================================
