----------------------------- MODULE AgentLoop -----------------------------
(***************************************************************************)
(* The chat agent: the graph of build_agent_graph, run once for every      *)
(* question of a conversation, over a thread that a checkpointer keeps.    *)
(*                                                                         *)
(* A turn loads the thread's latest checkpoint, goes back and forth        *)
(* between the model and the tools, and checkpoints its whole state after  *)
(* every node.  It may be cut off anywhere: by the timeout, by a model or  *)
(* a tool that raises, by the end of the process.  What it has             *)
(* checkpointed stays, and the next turn starts from it.                   *)
(***************************************************************************)
EXTENDS Integers, Sequences, FiniteSets

CONSTANTS
  Threads,        \* the conversations
  Requests,       \* the chat requests that can be in flight
  Pages,          \* the page numbers a tool's text can be marked with
  None,           \* no conversation
  MaxIterations,  \* agent_max_tool_iterations
  MaxTurns        \* bound: how many questions are ever asked

ASSUME AgentAssumption ==
  None \notin Threads /\ MaxIterations \in Nat /\ MaxTurns \in Nat

VARIABLES
  thread,     \* the state in each thread's latest checkpoint
  run,        \* the run of the graph in each request
  turns,      \* how many questions have been asked
  cut,        \* history: the turns that were cut off
  overlapped  \* history: the turns that ran beside another in their thread

vars == <<thread, run, turns, cut, overlapped>>

-----------------------------------------------------------------------------
\* AgentState.  cited_pages is read as a set only, so a set it is.
Empty == [messages |-> <<>>, steps |-> 0, cited |-> {}]

Message(from, turn, pages) == [from |-> from, turn |-> turn, pages |-> pages]

Idle == [at |-> "idle", thread |-> None, turn |-> 0, state |-> Empty]

LastOf(messages) == messages[Len(messages)]

\* The reducer of the messages: a node's messages go to the end.
Adding(state, message) == [state EXCEPT !.messages = Append(@, message)]

\* The rounds of tools a turn has made.
Rounds(messages, turn) ==
  Cardinality({i \in DOMAIN messages : messages[i].from = "tools" /\ messages[i].turn = turn})

PagesRead(messages) ==
  UNION {messages[i].pages : i \in {j \in DOMAIN messages : messages[j].from = "tools"}}

PagesOfTurn(messages, turn) ==
  UNION {messages[i].pages :
           i \in {j \in DOMAIN messages : messages[j].from = "tools" /\ messages[j].turn = turn}}

\* Mutant of Route: it goes by the budget alone.
RouteByBudget(state) == IF state.steps < MaxIterations THEN "tools" ELSE "end"

\* should_continue
Route(state) == IF LastOf(state.messages).from = "call" THEN "tools" ELSE "end"

Init ==
  /\ thread = [c \in Threads |-> Empty]
  /\ run = [r \in Requests |-> Idle]
  /\ turns = 0
  /\ cut = {}
  /\ overlapped = {}

\* Mutant of Checkpoint: it adds the message to what the thread holds by now.
CheckpointMerged(r, state) ==
  thread' = [thread EXCEPT ![run[r].thread] =
               Adding([state EXCEPT !.messages = thread[run[r].thread].messages],
                      LastOf(state.messages))]

\* The whole state of the run becomes the thread's latest checkpoint, whatever
\* other runs have stored since this one loaded it.
Checkpoint(r, state) == thread' = [thread EXCEPT ![run[r].thread] = state]

-----------------------------------------------------------------------------
\* Mutant of Inputs: a question leaves the steps of the turn before it.
InputsKeepSteps(c) == Adding(thread[c], Message("user", turns + 1, {}))

\* The inputs of answer(), applied to the thread: a question is added, the steps
\* start again, and the empty list is added to the cited pages.
Inputs(c) == Adding([thread[c] EXCEPT !.steps = 0], Message("user", turns + 1, {}))

StartTurn(r, c) ==
  /\ run[r] = Idle
  /\ turns < MaxTurns
  /\ thread' = [thread EXCEPT ![c] = Inputs(c)]
  /\ run' = [run EXCEPT ![r] = [at |-> "agent", thread |-> c, turn |-> turns + 1,
                                state |-> Inputs(c)]]
  /\ turns' = turns + 1
  /\ LET beside == {run[q].turn : q \in {p \in Requests : run[p].thread = c}}
     IN  overlapped' = IF beside = {} THEN overlapped
                       ELSE overlapped \cup beside \cup {turns + 1}
  /\ UNCHANGED cut

\* The model is called without tools.
Exhausted(state) == state.steps >= MaxIterations

\* The model replies with text, with nothing, or with a call of tools.
AgentNode(r, reply) ==
  /\ run[r].at = "agent"
  /\ reply \in (IF Exhausted(run[r].state) THEN {"text", "blank"} ELSE {"text", "blank", "call"})
  /\ LET state == Adding(run[r].state, Message(reply, run[r].turn, {}))
     IN  /\ run' = [run EXCEPT ![r].state = state, ![r].at = Route(state)]
         /\ Checkpoint(r, state)
  /\ UNCHANGED <<turns, cut, overlapped>>

\* Mutant of AfterTools: cited_pages without its reducer.
AfterToolsReplaced(state, turn, pages) ==
  Adding([state EXCEPT !.steps = @ + 1, !.cited = pages], Message("tools", turn, pages))

AfterTools(state, turn, pages) ==
  Adding([state EXCEPT !.steps = @ + 1, !.cited = @ \cup pages], Message("tools", turn, pages))

\* All calls of the last message are carried out; pages are the markers in the
\* texts the tools return, none when they find nothing.
ToolsNode(r, pages) ==
  /\ run[r].at = "tools"
  /\ LET state == AfterTools(run[r].state, run[r].turn, pages)
     IN  /\ run' = [run EXCEPT ![r].state = state, ![r].at = "agent"]
         /\ Checkpoint(r, state)
  /\ UNCHANGED <<turns, cut, overlapped>>

\* answer() returns the text of the last message, and cited_pages.
Respond(r) ==
  /\ run[r].at = "end"
  /\ run' = [run EXCEPT ![r] = Idle]
  /\ UNCHANGED <<thread, turns, cut, overlapped>>

\* AgentTimeoutError, AgentUnavailableError, or the end of the process.
CutOff(r) ==
  /\ run[r] # Idle
  /\ run' = [run EXCEPT ![r] = Idle]
  /\ cut' = cut \cup {run[r].turn}
  /\ UNCHANGED <<thread, turns, overlapped>>

\* The conversation is deleted; a run that goes on will not notice.
DeleteThread(c) ==
  /\ thread[c] # Empty
  /\ thread' = [thread EXCEPT ![c] = Empty]
  /\ UNCHANGED <<run, turns, cut, overlapped>>

Next ==
  \/ \E r \in Requests :
       \/ \E c \in Threads : StartTurn(r, c)
       \/ \E reply \in {"text", "blank", "call"} : AgentNode(r, reply)
       \/ \E pages \in SUBSET Pages : ToolsNode(r, pages)
       \/ Respond(r)
       \/ CutOff(r)
  \/ \E c \in Threads : DeleteThread(c)

Spec == Init /\ [][Next]_vars

-----------------------------------------------------------------------------
\* get_messages: the positions of the messages that the client is shown.
Shown(messages) == {i \in DOMAIN messages : messages[i].from \in {"user", "text"}}

\* Every state of the agent there is: in a checkpoint or in a run's memory.
States == {thread[c] : c \in Threads} \cup {run[r].state : r \in Requests}

Turns == 1 .. MaxTurns
MessageType == [from : {"user", "call", "tools", "text", "blank"}, turn : Turns,
                pages : SUBSET Pages]

\* Every variable keeps its type; a run that is going on has a thread and a turn,
\* and is at the tools exactly when its last message calls them.
TypeOK ==
  /\ \A s \in States : /\ s.messages \in Seq(MessageType)
                       /\ s.steps \in Nat /\ s.cited \subseteq Pages
  /\ \A r \in Requests :
       /\ run[r].at \in {"idle", "agent", "tools", "end"}
       /\ run[r] # Idle => 
            /\ run[r].thread \in Threads /\ run[r].turn \in Turns
            /\ run[r].at = "tools" <=> LastOf(run[r].state.messages).from = "call"
  /\ turns \in 0 .. MaxTurns /\ cut \subseteq Turns /\ overlapped \subseteq Turns

\* The steps that decide when the tools are taken away count the rounds of this
\* turn, whatever earlier and cut-off turns left in the checkpoint, and a turn
\* never makes more rounds than agent_max_tool_iterations.
RoundsAreCounted ==
  \A r \in Requests : run[r] # Idle =>
    /\ run[r].state.steps = Rounds(run[r].state.messages, run[r].turn)
    /\ run[r].state.steps <= MaxIterations

\* A call of tools that stays unanswered in a thread is the work of a turn that
\* was cut off, or loaded while such a turn was going on.
UnansweredCallsWereCut ==
  \A c \in Threads : LET messages == thread[c].messages IN
    \A i \in DOMAIN messages : messages[i].from = "call" =>
      \/ i < Len(messages) /\ messages[i + 1].from = "tools"
                           /\ messages[i + 1].turn = messages[i].turn
      \/ messages[i].turn \in cut \cup overlapped
      \/ \E r \in Requests : run[r].turn = messages[i].turn /\ run[r].at = "tools"

\* No user is ever given a call of tools for an answer: the blank box that the
\* comment in agent_node is about.
AnswersAreReplies ==
  \A r \in Requests : run[r].at = "end" =>
    LET last == LastOf(run[r].state.messages)
    IN  last.turn = run[r].turn /\ last.from \in {"text", "blank"}

\* The budget is the turn's own, is never overdrawn, and running out of it still
\* gives the user a reply.
ToolBudget == RoundsAreCounted /\ AnswersAreReplies

\* No page is cited that no tool of the conversation returned, and a turn cites
\* every page its own tools returned, though messages and citations are kept by
\* different reducers, across rounds, turns, cuts and runs that overwrite each
\* other.  It leaves open whether citations of earlier turns stay, as they do:
\* backend.md:266 has an answer cite "the page numbers used".
CitationsAreFounded ==
  /\ \A s \in States : s.cited \subseteq PagesRead(s.messages)
  /\ \A r \in Requests : run[r] # Idle =>
       PagesOfTurn(run[r].state.messages, run[r].turn) \subseteq run[r].state.cited

\* In the history a client is shown, an answer comes right after the question it
\* answers, whatever turns were cut off or ran side by side.
AnswersFollowQuestions ==
  \A c \in Threads : LET messages == thread[c].messages IN
    \A i \in Shown(messages) : messages[i].from # "user" =>
      \E q \in Shown(messages) :
        /\ q < i /\ messages[q] = Message("user", messages[i].turn, {})
        /\ \A k \in Shown(messages) : ~(q < k /\ k < i)

\* What cut-off and overlapping turns leave in a thread is still made of whole
\* rounds and of whole exchanges.
ThreadIsPaired == UnansweredCallsWereCut /\ AnswersFollowQuestions
=============================================================================
