----------------------------- MODULE DocentChat -----------------------------
(***************************************************************************)
(* The docent's chat on the client: UDocentClient, which opens chat        *)
(* sessions, sends questions and receives the answers as a stream of       *)
(* events, and UDocentChatWidget, which shows each answer in a bubble.     *)
(*                                                                         *)
(* All handlers run on the game thread.  What reaches it comes through     *)
(* separate doors whose order nobody fixes: the events of a stream, which  *)
(* the HTTP thread posts one by one as tasks; the completion of a request; *)
(* the answer to a session request.  None of the handlers is told which    *)
(* request it serves.  Of a text the model keeps which questions' answers  *)
(* have pieces in it.                                                      *)
(***************************************************************************)
EXTENDS Naturals, Sequences, FiniteSets

CONSTANTS
    MaxTurns,   \* bound on the questions sent
    MaxOpens,   \* bound on the session requests sent
    MaxPieces   \* bound on the pieces of one answer

ASSUME ChatAssumption ==
    /\ MaxTurns \in Nat
    /\ MaxOpens \in Nat \ {0}
    /\ MaxPieces \in Nat \ {0}

Turn == 1..MaxTurns

VARIABLES
    session,      \* ChatSessionId is not empty
    streaming,    \* bIsChatStreaming
    terminated,   \* bChatTerminated
    accumulated,  \* ChatAccumulated is not empty
    bubbles,      \* the answers' bubbles: the question a bubble was made
                  \* for (0 for none) and the answers with pieces in it
    current,      \* StreamingBubble: the index of a bubble, 0 for none
    input,        \* the input box and the send button are enabled
    turns,        \* how many questions were sent
    opens,        \* how many session requests were sent
    opening,      \* how many of them are unanswered
    link,         \* link[t]: how far the request of question t has got
    tasks,        \* the stream events posted to the game thread
    bStreamReady, \* the platform's HTTP can stream an answer
    disturbed     \* history: a handler ended a turn that was not its own

client == <<session, streaming, terminated, accumulated>>
widget == <<bubbles, current, input>>
net    == <<turns, opens, opening, link, tasks, bStreamReady>>
docVars   == <<client, widget, net, disturbed>>

\* A request: not sent, streaming after so many pieces, waiting for a single
\* answer, over in one of four ways, or over and its completion handled.
Link == [is : {"streamed"}, pieces : 0..MaxPieces]
            \union [is : {"none", "plain", "told", "cut", "refused", "whole",
                          "completed"}]

Event == [turn : Turn, kind : {"delta", "done", "error"}]

DocInit ==
    /\ session = FALSE
    /\ streaming = FALSE
    /\ terminated = FALSE
    /\ accumulated = FALSE
    /\ bubbles = <<>>
    /\ current = 0
    /\ input = FALSE
    /\ turns = 0
    /\ opens = 1
    /\ opening = 1
    /\ link = [t \in Turn |-> [is |-> "none"]]
    /\ tasks = <<>>
    /\ bStreamReady \in BOOLEAN
    /\ disturbed = FALSE

-----------------------------------------------------------------------------
(* The widget's handlers, called by the client's broadcasts *)

HandleDelta(piece) ==
    /\ IF current = 0
       THEN /\ bubbles' = Append(bubbles, [asked |-> 0, text |-> {piece}])
            /\ current' = Len(bubbles) + 1
       ELSE /\ bubbles' = [bubbles EXCEPT ![current].text = @ \union {piece}]
            /\ UNCHANGED current
    /\ UNCHANGED input

HandleCompleted ==
    /\ current' = 0
    /\ input' = TRUE
    /\ UNCHANGED bubbles

\* Fault: the bubble of a failed question is kept for more.
HandleFailedKeeping(partial) ==
    /\ input' = TRUE
    /\ UNCHANGED <<bubbles, current>>

\* A failure without a partial answer replaces the text of the bubble.
HandleFailed(partial) ==
    /\ bubbles' = IF current # 0 /\ ~partial
                  THEN [bubbles EXCEPT ![current].text = {}]
                  ELSE bubbles
    /\ current' = 0
    /\ input' = TRUE

ReportChatFailure(partial) ==
    /\ streaming' = FALSE
    /\ HandleFailed(partial)

-----------------------------------------------------------------------------
(* Sessions *)

StartChatSession ==
    /\ opens < MaxOpens
    /\ opens' = opens + 1
    /\ opening' = opening + 1
    /\ input' = FALSE

\* The exhibit changes: another session, whatever the chat is doing.
OpenChat ==
    /\ StartChatSession
    /\ UNCHANGED <<client, bubbles, current, turns, link, tasks, bStreamReady,
                   disturbed>>

\* The widget is built anew while the client lives on.
NativeConstruct ==
    /\ bubbles' = <<>>
    /\ current' = 0
    /\ IF session
       THEN input' = TRUE /\ UNCHANGED <<opens, opening>>
       ELSE StartChatSession
    /\ UNCHANGED <<client, turns, link, tasks, bStreamReady, disturbed>>

\* Fault: the cleared widget keeps the bubble of the answer under way.
ClearMessagesKeepingBubble ==
    /\ bubbles # <<>>
    /\ bubbles' = <<>>
    /\ UNCHANGED <<client, current, input, net, disturbed>>

ClearMessages ==
    /\ bubbles # <<>>
    /\ bubbles' = <<>>
    /\ current' = 0
    /\ UNCHANGED <<client, input, net, disturbed>>

OnSessionCreated ==
    /\ opening > 0
    /\ opening' = opening - 1
    /\ \/ /\ session' = TRUE
          /\ input' = TRUE
          /\ UNCHANGED <<streaming, bubbles, current, disturbed>>
       \/ /\ ReportChatFailure(FALSE)
          /\ disturbed' = (disturbed \/ streaming)
          /\ UNCHANGED session
    /\ UNCHANGED <<terminated, accumulated, turns, opens, link, tasks,
                   bStreamReady>>

-----------------------------------------------------------------------------
(* Questions *)

\* Fault: a question is taken while an answer is under way.
CanSendAnyTime == session

CanSend == session /\ ~streaming

\* What SendChatMessage does with a question it accepts.
PostQuestion ==
    /\ turns < MaxTurns
    /\ turns' = turns + 1
    /\ streaming' = TRUE
    /\ terminated' = FALSE
    /\ accumulated' = FALSE
    /\ link' = [link EXCEPT ![turns + 1] =
                   IF bStreamReady THEN [is |-> "streamed", pieces |-> 0]
                                   ELSE [is |-> "plain"]]
    /\ UNCHANGED <<session, opens, opening, tasks, bStreamReady, disturbed>>

\* The widget's way in.  Chips and topic rows do not look at the input lock.
SendQuestion ==
    /\ CanSend
    /\ bubbles' = Append(bubbles, [asked |-> turns + 1, text |-> {}])
    /\ current' = Len(bubbles) + 1
    /\ input' = FALSE
    /\ PostQuestion

\* The client's own way in, open to blueprints and the console; the question
\* it refuses may be blank, early or second.
SendChatMessage ==
    \/ CanSend /\ PostQuestion /\ UNCHANGED widget
    \/ /\ ReportChatFailure(FALSE)
       /\ disturbed' = (disturbed \/ streaming)
       /\ UNCHANGED <<session, terminated, accumulated, net>>

-----------------------------------------------------------------------------
(* The network and the HTTP thread *)

Streamed(t) == link[t].is = "streamed"

Post(t, kind) == tasks' = Append(tasks, [turn |-> t, kind |-> kind])

\* A piece of the answer is received and its event posted.
ReceivePiece(t) ==
    /\ Streamed(t)
    /\ link[t].pieces < MaxPieces
    /\ link' = [link EXCEPT ![t].pieces = @ + 1]
    /\ Post(t, "delta")

\* The server's last word.  It never comes without a piece before it: an answer
\* that fails before its first piece is replaced by a prepared text.
ReceiveLast(t) ==
    /\ Streamed(t)
    /\ link[t].pieces > 0
    /\ link' = [link EXCEPT ![t] = [is |-> "told"]]
    /\ \E kind \in {"done", "error"} : Post(t, kind)

\* The request ends otherwise: a lost connection, the time-out or a stream
\* that just stops; a status other than 200; the whole answer at once.
RequestEnds(t) ==
    /\ \E is \in {"cut", "refused", "whole"} :
           /\ CASE is = "cut"     -> link[t].is \in {"streamed", "plain"}
                [] is = "refused" -> \/ link[t].is = "plain"
                                     \/ Streamed(t) /\ link[t].pieces = 0
                [] is = "whole"   -> link[t].is = "plain"
           /\ link' = [link EXCEPT ![t] = [is |-> is]]
    /\ UNCHANGED tasks

Network(t) ==
    /\ ReceivePiece(t) \/ ReceiveLast(t) \/ RequestEnds(t)
    /\ UNCHANGED <<client, widget, turns, opens, opening, bStreamReady, disturbed>>

-----------------------------------------------------------------------------
(* The answer on the game thread *)

\* The next posted event runs.
HandleSseEvent ==
    /\ tasks # <<>>
    /\ tasks' = Tail(tasks)
    /\ LET e == Head(tasks)
       IN  \/ /\ e.kind = "delta"
              /\ accumulated' = TRUE
              /\ HandleDelta(e.turn)
              /\ UNCHANGED <<streaming, terminated>>
           \/ /\ e.kind = "done"
              /\ terminated' = TRUE
              /\ streaming' = FALSE
              /\ HandleCompleted
              /\ UNCHANGED accumulated
           \/ /\ e.kind = "error"
              /\ terminated' = TRUE
              /\ ReportChatFailure(TRUE)
              /\ UNCHANGED accumulated
    /\ UNCHANGED <<session, turns, opens, opening, link, bStreamReady, disturbed>>

\* The completion of request t is out of place: a later question is under way,
\* or events of its own stream have not run yet.
OutOfPlace(t) ==
    ~terminated /\ (t # turns \/ \E i \in DOMAIN tasks : tasks[i].turn = t)

OnChatStreamComplete(t) ==
    /\ link[t].is \in {"told", "cut", "refused", "whole"}
    /\ link' = [link EXCEPT ![t] = [is |-> "completed"]]
    /\ disturbed' = (disturbed \/ OutOfPlace(t))
    /\ \/ /\ terminated
          /\ streaming' = FALSE
          /\ UNCHANGED widget
       \/ /\ ~terminated
          /\ link[t].is \in {"told", "cut"}
          /\ ReportChatFailure(accumulated)
       \/ /\ ~terminated
          /\ link[t].is = "refused"
          /\ ReportChatFailure(FALSE)
       \/ /\ ~terminated
          /\ link[t].is = "whole"
          /\ streaming' = FALSE
          /\ bubbles' = IF current = 0
                        THEN Append(bubbles, [asked |-> 0, text |-> {t}])
                        ELSE [bubbles EXCEPT ![current].text = @ \union {t}]
          /\ current' = 0
          /\ input' = TRUE
    /\ UNCHANGED <<session, terminated, accumulated, turns, opens, opening,
                   tasks, bStreamReady>>

DocNext ==
    \/ OpenChat
    \/ NativeConstruct
    \/ ClearMessages
    \/ OnSessionCreated
    \/ SendQuestion
    \/ SendChatMessage
    \/ HandleSseEvent
    \/ \E t \in Turn : Network(t) \/ OnChatStreamComplete(t)

-----------------------------------------------------------------------------
(* Properties *)

\* The type of the chat's state.
DocTypeOK ==
    /\ \A b \in {session, streaming, terminated, accumulated, input, bStreamReady,
               disturbed} : b \in BOOLEAN
    /\ bubbles \in Seq([asked : 0..MaxTurns, text : SUBSET Turn])
    /\ current \in 0..Len(bubbles)
    /\ turns \in 0..MaxTurns
    /\ opens \in 1..MaxOpens
    /\ opening \in 0..opens
    /\ link \in [Turn -> Link]
    /\ tasks \in Seq(Event)

\* The pieces of two answers are never mixed in one bubble, which the guards of
\* SendQuestion and SendChatMessage are there for (DocentChatWidget.h:69-70,
\* DocentClient.cpp:356).
BubblesHoldOneAnswer ==
    \A i \in DOMAIN bubbles : Cardinality(bubbles[i].text) <= 1

\* As long as no handler has ended a turn that was not its own, the pieces of
\* an answer are all in the bubble made for its question (or in one made for
\* the rest of it, when the widget was cleared), and no other turn's.
AnswersStayApart ==
    ~disturbed =>
        /\ BubblesHoldOneAnswer
        /\ \A i \in DOMAIN bubbles :
               bubbles[i].asked # 0 => bubbles[i].text \subseteq {bubbles[i].asked}

\* The visitor can always go on: the input does not stay locked for ever, and no
\* question's bubble waits for ever, whatever fails and in whatever order the
\* completions and the events of the streams are handled.
EveryQuestionIsClosed ==
    /\ []<>input
    /\ \A t \in Turn : []<>(current = 0 \/ bubbles[current].asked # t)
=============================================================================
