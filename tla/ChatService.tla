----------------------------- MODULE ChatService -----------------------------
(***************************************************************************)
(* The docent on the server: routers/chat.py and services/chat.py, which   *)
(* keep the conversations and answer questions in a stream of events,      *)
(* services/docent.py, which finds what a question is about and what is    *)
(* said when the language model fails, the adapters of services/llm, and   *)
(* the one-shot question of routers/docent.py.                             *)
(*                                                                         *)
(* A streamed answer runs between awaits: the client may go away, and the  *)
(* request be cancelled, at each of them; the work of a thread goes on.    *)
(* Every exhibit has one part, which is named by the exhibit.  Of a text   *)
(* the model keeps whether it is of the language model, blank, or a        *)
(* prepared one; of a prompt or a prepared text, the blocks it is made of. *)
(***************************************************************************)
EXTENDS Naturals, Sequences, FiniteSets

CONSTANTS
    Exhibits,      \* the exhibits of the database
    Described,     \* those whose part has a docent_text
    None,          \* no exhibit, no part
    Unknown,       \* an id or a key that the database does not have
    MaxChats,      \* bound on the sessions
    MaxAsks,       \* bound on the questions
    Openings,      \* the exhibits a session may be opened about
    Wishes,        \* what a question may name: exhibit, part, stream or whole
    MaxChunks,     \* bound on the pieces of one answer
    HistoryTurns   \* CHAT_HISTORY_TURNS

ASSUME ServiceAssumption ==
    /\ Described \subseteq Exhibits /\ None # Unknown
    /\ {None, Unknown} \intersect Exhibits = {} /\ Openings \subseteq Exhibits \union {None}
    /\ Wishes \subseteq [named : Exhibits \union {None, Unknown}, part : Exhibits \union {None, Unknown},
                          how : {"stream", "whole"}]
    /\ {MaxChats, MaxAsks, MaxChunks, HistoryTurns} \subseteq Nat \ {0}

Chats == 1..MaxChats
Asks == 1..MaxAsks
Named == Exhibits \union {None, Unknown}

VARIABLES
    provider,  \* LLM_PROVIDER
    chats,     \* chats[c]: the exhibit of session c, Unknown if there is none
    stored,    \* chat_messages, by id
    asks,      \* asks[r]: the request that asks question r
    oneShot    \* the last answer to a one-shot question

srvVars == <<provider, chats, stored, asks, oneShot>>

Idle == [is |-> "none"]

---------------------------------------------------------------------------
(* What is said about what                                                 *)

\* The blocks of a prompt, each with the exhibit it speaks of.
Background(e) == {<<"exhibit", e>>, <<"context", e>>}
Prompt(about, part) ==
    {<<"roster", None>>} \union
    IF about = None THEN {<<"general", None>>}
    ELSE Background(about) \union {<<IF part = None THEN "parts" ELSE "focus", IF part = None THEN about ELSE part>>}

\* build_fallback_answer and build_chat_fallback; the context block is for the
\* language model only.
PartText(part) == {<<IF part \in Described THEN "docent_text" ELSE "name", part>>}
Fallback(about, part) ==
    IF about = None THEN {<<"apology", None>>}
    ELSE IF part # None THEN PartText(part) ELSE {<<"exhibit", about>>}

\* What a question is about: the part's exhibit, the one named, the session's.
About(c, named, part) == IF part # None THEN part ELSE IF named # None THEN named ELSE chats[c]

\* The last messages of a conversation that are not blank, by their ids.
BuildHistory(c) ==
    LET turns == {i \in DOMAIN stored : stored[i].chat = c /\ stored[i].text # "blank"}
    IN {i \in turns : Cardinality({j \in turns : j > i}) < HistoryTurns}

---------------------------------------------------------------------------
(* The language models                                                     *)

Texts == {"", "blank", "text"}
Finishes == {"none", "STOP", "MAX_TOKENS", "SAFETY"}
OkFinish == {"none", "STOP", "MAX_TOKENS"}
Chunks == [blocked : BOOLEAN, candidates : BOOLEAN, finish : Finishes, text : Texts]

\* A chunk without candidates only counts tokens; a blocked one is an error.
ChunkRaises(c) == c.blocked \/ (c.candidates /\ c.finish \notin OkFinish)
ResponseRaises(c) == c.blocked \/ ~c.candidates \/ c.finish \notin OkFinish \/ c.text # "text"

\* What an adapter's stream may do next: give a piece, raise, or end.
GeminiYields == {"raises", "ends"} \union {IF ChunkRaises(c) THEN "raises" ELSE c.text : c \in Chunks}
MockYields(given) == {IF given < MaxChunks THEN "text" ELSE "ends"}
Yields(given) ==
    CASE provider = "gemini" -> GeminiYields
      [] provider = "mock" -> MockYields(given)
      [] provider = "failing" -> {"raises"}

\* What its generate returns.
GeminiGenerates == {"raises"} \union {IF ResponseRaises(c) THEN "raises" ELSE c.text : c \in Chunks}
Generates ==
    CASE provider = "gemini" -> GeminiGenerates
      [] provider = "mock" -> {"text"}
      [] provider = "failing" -> {"raises"}

---------------------------------------------------------------------------
(* Sessions, and the question that is taken                                *)

CreateSession == \E c \in Chats, named \in Openings :
    /\ chats[c] = Unknown /\ \A d \in 1..(c - 1) : chats[d] # Unknown
    /\ chats' = [chats EXCEPT ![c] = named]
    /\ UNCHANGED <<provider, stored, asks, oneShot>>

Message(c, r, role, text) == [chat |-> c, ask |-> r, role |-> role, text |-> text]

\* _prepare_turn, for a stream or for a whole answer: 404, or the question is
\* stored before anything is said.
PrepareTurn(r) == \E c \in Chats, wish \in Wishes :
    LET named == wish.named
        part == wish.part
        about == About(c, named, part)
    IN /\ asks[r] = Idle /\ \A q \in 1..(r - 1) : asks[q] # Idle
       /\ IF Unknown \in {chats[c], named, part}
          THEN asks' = [asks EXCEPT ![r] = [is |-> "refused"]] /\ UNCHANGED stored
          ELSE /\ asks' = [asks EXCEPT ![r] =
                      [is |-> "streaming", how |-> wish.how, chat |-> c, part |-> part, prompt |-> Prompt(about, part),
                       fallback |-> Fallback(about, part), history |-> BuildHistory(c),
                       given |-> 0, said |-> {}, final |-> "none"]]
               /\ stored' = Append(stored, Message(c, r, "user", "text"))
       /\ UNCHANGED <<provider, chats, oneShot>>

---------------------------------------------------------------------------
(* The answer                                                              *)

Update(r, a) == asks' = [asks EXCEPT ![r] = a] /\ UNCHANGED <<provider, chats, oneShot>>
FellBack(a) == [a EXCEPT !.is = "final", !.final = "fallback", !.said = @ \union {"prepared"}]

\* Whatever was said (for a mutant).
FailedAlwaysBack(a) == FellBack(a)

\* _handle_stream_failure: what was said stays, and nothing is said twice.
Failed(a) == IF a.said # {} THEN [a EXCEPT !.is = "final", !.final = "error"] ELSE FellBack(a)

\* The pieces are counted, not read (for a mutant).
EndedAsIs(a) == [a EXCEPT !.is = "final", !.final = "llm"]

\* The end of stream_chat: blank pieces are no answer.
Ended(a) == IF "text" \in a.said THEN [a EXCEPT !.is = "final", !.final = "llm"] ELSE FellBack(a)

StreamChat(r) ==
    LET a == asks[r]
    IN /\ a.is = "streaming"
       /\ \E y \in Yields(a.given) \ {""} :
            /\ y \in {"raises", "ends"} \/ a.given < MaxChunks
            /\ Update(r, CASE y = "raises" -> Failed(a)
                           [] y = "ends" -> Ended(a)
                           [] OTHER -> [a EXCEPT !.given = @ + 1, !.said = @ \union {y}])
       /\ UNCHANGED stored

FullText(a) == IF a.final = "fallback" THEN "prepared" ELSE IF "text" \in a.said THEN "text" ELSE "blank"

\* _persist_assistant, in a thread and a database session of its own.
PersistAssistant(r) ==
    /\ asks[r].is = "final"
    /\ Update(r, [asks[r] EXCEPT !.is = "stored", !.given = 0])
    /\ stored' = Append(stored, Message(asks[r].chat, r, "assistant", FullText(asks[r])))

\* The done or error event, or the whole answer.
TellResult(r) ==
    /\ asks[r].is = "stored" /\ Update(r, [asks[r] EXCEPT !.is = "over"]) /\ UNCHANGED stored

\* Nothing is left of a request but what it asked.
Lost(a) == [a EXCEPT !.is = "lost", !.given = 0, !.said = {}, !.final = "none"]

\* The client goes away: a stream is cancelled at its next await, so an answer
\* that is not stored by then is lost; a whole answer is made all the same.
ClientGone(r) ==
    /\ asks[r].is \in {"streaming", "final", "stored"} /\ asks[r].how = "stream"
    /\ Update(r, Lost(asks[r])) /\ UNCHANGED stored

\* The process is stopped and started again: the database is all that stays.
Restart ==
    /\ \E r \in Asks : asks[r].is \in {"streaming", "final", "stored"}
    /\ asks' = [r \in Asks |-> IF asks[r].is \in {"streaming", "final", "stored"}
                               THEN Lost(asks[r]) ELSE asks[r]]
    /\ UNCHANGED <<provider, chats, stored, oneShot>>

\* ask_docent, about a part that exists.
AskDocent == \E part \in Exhibits, text \in Generates :
    /\ oneShot = Idle
    /\ oneShot' = [is |-> "answered", part |-> part, prompt |-> Background(part) \union {<<"focus", part>>},
                   source |-> IF text = "text" THEN "llm" ELSE "fallback",
                   said |-> IF text = "text" THEN {} ELSE PartText(part)]
    /\ UNCHANGED <<provider, chats, stored, asks>>

---------------------------------------------------------------------------

SrvInit ==
    /\ provider \in {"gemini", "mock", "failing"}
    /\ chats = [c \in Chats |-> Unknown] /\ stored = <<>>
    /\ asks = [r \in Asks |-> Idle] /\ oneShot = Idle

Answering(r) == StreamChat(r) \/ PersistAssistant(r) \/ TellResult(r)

Conversing ==
    \/ CreateSession \/ Restart
    \/ \E r \in Asks : PrepareTurn(r) \/ Answering(r) \/ ClientGone(r)

SrvNext == Conversing \/ AskDocent

SrvTypeOK ==
    /\ chats \in [Chats -> Named]
    /\ \A i \in DOMAIN stored : stored[i] \in
           [chat : Chats, ask : Asks, role : {"user", "assistant"}, text : {"text", "blank", "prepared"}]
    /\ \A r \in Asks :
           /\ asks[r].is \in {"none", "refused", "streaming", "final", "stored", "over", "lost"}
           /\ asks[r].is \notin {"none", "refused"} => asks[r].given \in 0..MaxChunks

---------------------------------------------------------------------------
(* Properties                                                              *)

Taken == {r \in Asks : asks[r].is \notin {"none", "refused"}}
Of(r, role) == {i \in DOMAIN stored : stored[i].ask = r /\ stored[i].role = role}

\* Nobody is given a piece of the model's answer and a prepared text, two
\* answers in one bubble (_handle_stream_failure).
OneVoice == \A r \in Taken : ~({"text", "prepared"} \subseteq asks[r].said)

\* The question is in the conversation from the moment it is taken, once and
\* before its answer, even if its client goes away (_prepare_turn); and when the
\* answer is told to be over, it is there, as it was said.
ConversationIsKept == \A r \in Taken :
    /\ \E i \in DOMAIN stored : Of(r, "user") = {i} /\ \A j \in Of(r, "assistant") : i < j
    /\ asks[r].is = "over" => \E j \in DOMAIN stored :
           Of(r, "assistant") = {j} /\ (stored[j].text = "blank" \/ stored[j].text \in asks[r].said)

\* The model is told of the past only: no blank turn, none of another
\* conversation, none since this question, and no more than it may.
HistoryIsThePast == \A r \in Taken :
    /\ Cardinality(asks[r].history) <= HistoryTurns
    /\ \A h \in asks[r].history :
           /\ stored[h].chat = asks[r].chat /\ stored[h].text # "blank"
           /\ \A i \in Of(r, "user") : h < i

\* Prompt and prepared text speak of one exhibit, that of the part the visitor
\* points at, and a prepared text never shows the model's instructions.
OneSubject == \A r \in Taken :
    LET subjects == {b[2] : b \in asks[r].prompt \union asks[r].fallback} \ {None}
    IN /\ Cardinality(subjects) <= 1 /\ (asks[r].part # None => subjects = {asks[r].part})
       /\ \A b \in asks[r].fallback : b[1] # "context"

\* So does the answer to a one-shot question (ask_docent).
OneShotSubject == oneShot # Idle => \A b \in oneShot.prompt \union oneShot.said : b[2] = oneShot.part

ServerKeepsItsWord == OneVoice /\ ConversationIsKept /\ HistoryIsThePast /\ OneSubject /\ OneShotSubject
=============================================================================
