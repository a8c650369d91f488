---------------------------- MODULE MCDocentChat ----------------------------
\* The instance TLC checks.  A behaviour is of one side: the app's client and
\* its widget, the chat service, or the parser between them.  What the client
\* assumes of the answers and what the service gives is the same abstract
\* stream.
EXTENDS DocentChat, ChatService, SseParser, TLC

CONSTANTS rex, tri

MCStreams == {
    <<<<"event: meta", "data: 0">>, <<"event: delta", "data: 1">>, <<"event: done", "data: 2">>>>,
    <<<<": wait">>, <<"event: delta", "data: 1", "data: 2">>>>,
    <<<<": wait">>, <<": wait", "event: done">>>> }

\* What visitors ask for: about nothing, a part against the exhibit named, a
\* part that does not exist.
MCWishes == {[named |-> None, part |-> None, how |-> "stream"], [named |-> tri, part |-> rex, how |-> "whole"],
             [named |-> None, part |-> Unknown, how |-> "stream"]}

VARIABLE side

vars == <<side, docVars, srvVars, sseVars>>

Init ==
    /\ side \in {"client", "service", "one shot", "parser"}
    /\ DocInit /\ (side # "client" => bStreamReady)
    /\ SrvInit /\ (side \notin {"service", "one shot"} => provider = "mock")
    /\ SseInit /\ (side # "parser" => sent = <<<<": wait">>, <<": wait", "event: done">>>> /\ coming[3] = LF)

Client(A) == side = "client" /\ A /\ UNCHANGED <<side, srvVars, sseVars>>
Service(A) == side = "service" /\ A /\ UNCHANGED <<side, docVars, sseVars>>

Next ==
    \/ Client(DocNext) \/ Service(Conversing)
    \/ side = "one shot" /\ AskDocent /\ UNCHANGED <<side, docVars, sseVars>>
    \/ side = "parser" /\ SseNext /\ UNCHANGED <<side, docVars, srvVars>>

\* Every request completes, by its time-out at the latest (RequestTimeoutSec),
\* and the game thread runs what was posted to it.  The language model has a
\* time-out of its own.  Nobody has to do anything with the widget.
Fairness ==
    /\ WF_vars(Client(OnSessionCreated)) /\ WF_vars(Client(HandleSseEvent))
    /\ \A t \in Turn : WF_vars(Client(Network(t))) /\ WF_vars(Client(OnChatStreamComplete(t)))
    /\ \A r \in Asks : WF_vars(Service(Answering(r)))

FairSpec == Init /\ [][Next]_vars /\ Fairness

\* How far an answer has got, as the client sees its request and as the service
\* answers it; a request for a whole answer is no stream.
ClientPhase(t) ==
    IF ~bStreamReady \/ link[t].is = "none" THEN "waiting"
    ELSE IF link[t].is = "streamed" THEN IF link[t].pieces = 0 THEN "asked" ELSE "spoken"
    ELSE IF link[t].is = "completed" THEN "closed" ELSE link[t].is

ServicePhase(r) ==
    CASE asks[r].is \in {"none", "refused"} -> IF asks[r].is = "none" THEN "waiting" ELSE "refused"
      [] OTHER -> IF asks[r].how = "whole" THEN "waiting"
                  ELSE IF asks[r].is = "over" THEN "told"
                  ELSE IF asks[r].is = "lost" THEN "cut"
                  ELSE IF asks[r].said = {} THEN "asked" ELSE "spoken"

Questions == Turn \union Asks
AnswerPhase == [q \in Questions |-> CASE side = "client" /\ q \in Turn -> ClientPhase(q)
                                      [] side = "service" /\ q \in Asks -> ServicePhase(q)
                                      [] OTHER -> "waiting"]

Answer == INSTANCE AnswerStream WITH phase <- AnswerPhase

\* The answers of the service, and those the client reckons with, are streams
\* that are never told to be over before a piece has come, and that all end.
ImplementsAnswerStream == Answer!Spec

\* While a client chats, the promises of DocentChat about it.
ClientQuestionsAreClosed == side = "client" => EveryQuestionIsClosed

\* The types of the three sides.
TypeOK == DocTypeOK /\ SrvTypeOK
=============================================================================
