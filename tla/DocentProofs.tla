---------------------------- MODULE DocentProofs ----------------------------
(***************************************************************************)
(* Proofs about the docent: that the client keeps the answers apart and    *)
(* that the service keeps its word, for any number of questions, sessions, *)
(* pieces and exhibits.  The invariants are proved of each side over its   *)
(* own steps, and put together for the specification that TLC checks, a    *)
(* behaviour of which is of one side.  On them rests, at the end, that the *)
(* answers of both sides take the steps of AnswerStream.                   *)
(***************************************************************************)
EXTENDS MCDocentChat, SequenceTheorems, Induction

---------------------------------------------------------------------------
(* The client                                                              *)

Bubble == [asked : 0..MaxTurns, text : SUBSET Turn]

FlagsOK ==
    /\ session \in BOOLEAN /\ streaming \in BOOLEAN /\ terminated \in BOOLEAN
    /\ accumulated \in BOOLEAN /\ input \in BOOLEAN /\ bStreamReady \in BOOLEAN
    /\ disturbed \in BOOLEAN

BubblesOK == bubbles \in Seq(Bubble) /\ current \in 0..Len(bubbles)

NetOK ==
    /\ turns \in 0..MaxTurns /\ opens \in 1..MaxOpens /\ opening \in 0..opens
    /\ link \in [Turn -> Link] /\ tasks \in Seq(Event)

\* A bubble has pieces of one answer, that of its own question if it has one.
OneAnswer(b) == (\A s, t \in b.text : s = t) /\ (b.asked # 0 => b.text \subseteq {b.asked})

ApartOK == \A i \in DOMAIN bubbles : OneAnswer(bubbles[i])

\* Nothing is under way: no bubble is open, no event waits, no request streams.
QuietOK == ~streaming => current = 0 /\ tasks = <<>> /\ \A t \in Turn : ~Streamed(t)

\* An answer is under way: everything is of the last question, and an event
\* that ends the answer is the last that was posted.
BusyOK == streaming =>
    /\ ~terminated /\ turns \in Turn
    /\ \A t \in Turn : Streamed(t) => t = turns
    /\ current # 0 => bubbles[current].asked \in {0, turns} /\ bubbles[current].text \subseteq {turns}
    /\ \A i \in DOMAIN tasks :
           /\ tasks[i].turn = turns
           /\ tasks[i].kind # "delta" => i = Len(tasks) /\ ~Streamed(turns)

Undisturbed == ApartOK /\ QuietOK /\ BusyOK

ChatInv == FlagsOK /\ BubblesOK /\ NetOK /\ (~disturbed => Undisturbed)

LEMMA ChatTypes == DocTypeOK <=> FlagsOK /\ BubblesOK /\ NetOK
<1>1. (\A b \in {session, streaming, terminated, accumulated, input, bStreamReady, disturbed} : b \in BOOLEAN)
      <=> FlagsOK
  BY Zenon DEF FlagsOK
<1> QED BY <1>1, Zenon DEF DocTypeOK, BubblesOK, NetOK, Bubble

LEMMA SmallSets ==
  ASSUME NEW S, \A s, t \in S : s = t
  PROVE  Cardinality(S) <= 1
<1>1. CASE S = {}
  BY <1>1, FS_EmptySet
<1>2. CASE S # {}
  <2>1. PICK x \in S : TRUE
    BY <1>2
  <2>2. S = {x}
    BY <2>1
  <2> QED BY <2>2, FS_Singleton
<1> QED BY <1>1, <1>2

LEMMA AnswersApart == ChatInv => DocTypeOK /\ AnswersStayApart
<1>1. ChatInv => DocTypeOK
  BY ChatTypes, Zenon DEF ChatInv
<1>2. ASSUME ChatInv, ~disturbed
      PROVE  /\ BubblesHoldOneAnswer
             /\ \A i \in DOMAIN bubbles : bubbles[i].asked # 0 => bubbles[i].text \subseteq {bubbles[i].asked}
  <2>1. \A i \in DOMAIN bubbles : OneAnswer(bubbles[i])
    BY <1>2, Zenon DEF ChatInv, Undisturbed, ApartOK
  <2>2. ASSUME NEW i \in DOMAIN bubbles
        PROVE  Cardinality(bubbles[i].text) <= 1
    <3>1. \A s, t \in bubbles[i].text : s = t
      BY <2>1, Zenon DEF OneAnswer
    <3> QED BY <3>1, SmallSets
  <2> QED BY <2>1, <2>2, Zenon DEF OneAnswer, BubblesHoldOneAnswer
<1> QED BY <1>1, <1>2, Zenon DEF AnswersStayApart

LEMMA ChatStart == DocInit => ChatInv
<1> SUFFICES ASSUME DocInit PROVE ChatInv
  OBVIOUS
<1> USE DEF DocInit
<1>1. FlagsOK
  BY DEF FlagsOK
<1>2. BubblesOK
  BY EmptySeq DEF BubblesOK
<1>3. NetOK
  <2>1. link \in [Turn -> Link]
    BY DEF Link
  <2>2. tasks \in Seq(Event)
    BY EmptySeq
  <2> QED BY <2>1, <2>2, ChatAssumption DEF NetOK
<1>4. ApartOK
  BY DEF ApartOK
<1>5. QuietOK
  <2>1. \A t \in Turn : link[t].is = "none"
    OBVIOUS
  <2> QED BY <2>1 DEF QuietOK, Streamed
<1>6. BusyOK
  BY DEF BusyOK
<1> QED BY <1>1, <1>2, <1>3, <1>4, <1>5, <1>6 DEF ChatInv, Undisturbed

\* What a step that leaves the requests and their events alone keeps of them.
LEMMA NetStays ==
  NetOK /\ UNCHANGED <<turns, link, tasks>> /\ opens' \in 1..MaxOpens /\ opening' \in 0..opens' => NetOK'
  BY DEF NetOK

LEMMA Opening == NetOK /\ StartChatSession => opens' \in 1..MaxOpens /\ opening' \in 0..opens'
  BY ChatAssumption DEF NetOK, StartChatSession

LEMMA EmptyBubbles == bubbles' = <<>> /\ current' = 0 => BubblesOK' /\ ApartOK'
  BY EmptySeq DEF BubblesOK, ApartOK

LEMMA OpenChatKeeps == ChatInv /\ OpenChat => ChatInv'
<1> SUFFICES ASSUME ChatInv, OpenChat PROVE ChatInv'
  OBVIOUS
<1>1. UNCHANGED <<client, bubbles, current, turns, link, tasks, bStreamReady, disturbed>> /\ StartChatSession
  BY Zenon DEF OpenChat
<1>2. FlagsOK' /\ BubblesOK'
  BY <1>1 DEF ChatInv, FlagsOK, BubblesOK, client, StartChatSession
<1>3. NetOK'
  BY <1>1, NetStays, Opening, Zenon DEF ChatInv
<1>4. ~disturbed' => Undisturbed'
  BY <1>1 DEF ChatInv, Undisturbed, ApartOK, QuietOK, BusyOK, Streamed, client
<1> QED BY <1>2, <1>3, <1>4, Zenon DEF ChatInv

LEMMA ConstructKeeps == ChatInv /\ NativeConstruct => ChatInv'
<1> SUFFICES ASSUME ChatInv, NativeConstruct PROVE ChatInv'
  OBVIOUS
<1>1. UNCHANGED <<client, turns, link, tasks, bStreamReady, disturbed>> /\ bubbles' = <<>> /\ current' = 0
  BY Zenon DEF NativeConstruct
<1>2. BubblesOK' /\ ApartOK'
  BY <1>1, EmptyBubbles
<1>3. FlagsOK'
  BY <1>1 DEF ChatInv, FlagsOK, client, StartChatSession, NativeConstruct
<1>4. opens' \in 1..MaxOpens /\ opening' \in 0..opens'
  <2>1. CASE session
    BY <2>1 DEF NativeConstruct, ChatInv, NetOK
  <2>2. CASE ~session
    BY <2>2, Opening, Zenon DEF NativeConstruct, ChatInv
  <2> QED BY <2>1, <2>2
<1>5. NetOK'
  BY <1>1, <1>4, NetStays, Zenon DEF ChatInv
<1>6. ~disturbed' => QuietOK' /\ BusyOK'
  BY <1>1 DEF ChatInv, Undisturbed, QuietOK, BusyOK, Streamed, client
<1> QED BY <1>2, <1>3, <1>5, <1>6, Zenon DEF ChatInv, Undisturbed

LEMMA ClearKeeps == ChatInv /\ ClearMessages => ChatInv'
<1> SUFFICES ASSUME ChatInv, ClearMessages PROVE ChatInv'
  OBVIOUS
<1>1. UNCHANGED <<client, input, net, disturbed>> /\ bubbles' = <<>> /\ current' = 0
  BY Zenon DEF ClearMessages
<1>2. BubblesOK' /\ ApartOK'
  BY <1>1, EmptyBubbles
<1>3. FlagsOK' /\ NetOK'
  BY <1>1 DEF ChatInv, FlagsOK, NetOK, client, net
<1>4. ~disturbed' => QuietOK' /\ BusyOK'
  BY <1>1 DEF ChatInv, Undisturbed, QuietOK, BusyOK, Streamed, client, net
<1> QED BY <1>2, <1>3, <1>4, Zenon DEF ChatInv, Undisturbed

\* The open bubble is changed.
LEMMA ChangedBubble ==
  ASSUME BubblesOK, current # 0, NEW b \in Bubble, bubbles' = [bubbles EXCEPT ![current] = b]
  PROVE  /\ current \in DOMAIN bubbles
         /\ bubbles' \in Seq(Bubble) /\ Len(bubbles') = Len(bubbles) /\ DOMAIN bubbles' = DOMAIN bubbles
         /\ bubbles'[current] = b /\ \A i \in DOMAIN bubbles : i # current => bubbles'[i] = bubbles[i]
         /\ ApartOK /\ OneAnswer(b) => ApartOK'
<1>1. current \in DOMAIN bubbles /\ bubbles \in Seq(Bubble)
  BY DEF BubblesOK
<1>2. /\ bubbles' \in Seq(Bubble) /\ Len(bubbles') = Len(bubbles) /\ DOMAIN bubbles' = DOMAIN bubbles
      /\ bubbles'[current] = b /\ \A i \in DOMAIN bubbles : i # current => bubbles'[i] = bubbles[i]
  BY <1>1
<1>3. ASSUME ApartOK, OneAnswer(b) PROVE ApartOK'
  <2>1. ASSUME NEW i \in DOMAIN bubbles' PROVE OneAnswer(bubbles'[i])
    BY <1>2, <1>3, <2>1, Zenon DEF ApartOK
  <2> QED BY <2>1, Zenon DEF ApartOK
<1> QED BY <1>1, <1>2, <1>3, Zenon

\* A failure that is reported closes the bubble; one that is no partial answer
\* leaves it without a text.
LEMMA FailureTypes ==
  ASSUME BubblesOK, NEW partial, HandleFailed(partial)
  PROVE  BubblesOK' /\ current' = 0 /\ (ApartOK => ApartOK')
<1>1. CASE current # 0 /\ ~partial
  <2> DEFINE b == [bubbles[current] EXCEPT !.text = {}]
  <2>1. b \in Bubble /\ OneAnswer(b)
    <3>1. bubbles[current] \in Bubble
      BY <1>1 DEF BubblesOK
    <3> QED BY <3>1 DEF Bubble, OneAnswer
  <2>2. bubbles' = [bubbles EXCEPT ![current] = b] /\ current' = 0
    BY <1>1, Zenon DEF HandleFailed
  <2> HIDE DEF b
  <2>3. bubbles' \in Seq(Bubble) /\ (ApartOK => ApartOK')
    BY <1>1, <2>1, <2>2, ChangedBubble, Zenon
  <2> QED BY <2>2, <2>3 DEF BubblesOK
<1>2. CASE ~(current # 0 /\ ~partial)
  <2>1. bubbles' = bubbles /\ current' = 0
    BY <1>2, Zenon DEF HandleFailed
  <2> QED BY <2>1 DEF BubblesOK, ApartOK
<1> QED BY <1>1, <1>2

LEMMA SessionKeeps == ChatInv /\ OnSessionCreated => ChatInv'
<1> SUFFICES ASSUME ChatInv, OnSessionCreated PROVE ChatInv'
  OBVIOUS
<1>1. UNCHANGED <<terminated, accumulated, turns, opens, link, tasks, bStreamReady>>
      /\ opening > 0 /\ opening' = opening - 1
  BY Zenon DEF OnSessionCreated
<1>2. NetOK'
  BY <1>1 DEF ChatInv, NetOK
<1>3. CASE session' = TRUE /\ input' = TRUE /\ UNCHANGED <<streaming, bubbles, current, disturbed>>
  <2>1. FlagsOK' /\ BubblesOK'
    BY <1>1, <1>3 DEF ChatInv, FlagsOK, BubblesOK
  <2>2. ~disturbed' => Undisturbed'
    BY <1>1, <1>3 DEF ChatInv, Undisturbed, ApartOK, QuietOK, BusyOK, Streamed
  <2> QED BY <1>2, <2>1, <2>2, Zenon DEF ChatInv
<1>4. CASE ReportChatFailure(FALSE) /\ disturbed' = (disturbed \/ streaming) /\ UNCHANGED session
  <2>1. HandleFailed(FALSE) /\ streaming' = FALSE
    BY <1>4, Zenon DEF ReportChatFailure
  <2>2. FlagsOK'
    <3>1. disturbed' \in BOOLEAN
      BY <1>4
    <3> QED BY <1>1, <1>4, <2>1, <3>1 DEF ChatInv, FlagsOK, HandleFailed
  <2>3. BubblesOK' /\ current' = 0
    BY <2>1, FailureTypes, Zenon DEF ChatInv
  <2>4. ASSUME ~disturbed' PROVE Undisturbed'
    <3>1. ~disturbed /\ ~streaming
      BY <1>4, <2>4, Zenon
    <3>2. ApartOK'
      BY <2>1, <3>1, FailureTypes, Zenon DEF ChatInv, Undisturbed
    <3>3. QuietOK'
      BY <1>1, <2>3, <3>1 DEF ChatInv, Undisturbed, QuietOK, Streamed
    <3>4. BusyOK'
      BY <2>1 DEF BusyOK
    <3> QED BY <3>2, <3>3, <3>4, Zenon DEF Undisturbed
  <2> QED BY <1>2, <2>2, <2>3, <2>4, Zenon DEF ChatInv
<1> QED BY <1>3, <1>4, Zenon DEF OnSessionCreated

\* A question is posted when nothing is under way.
LEMMA PostTypes ==
  ASSUME FlagsOK, NetOK, PostQuestion
  PROVE  /\ NetOK' /\ session' \in BOOLEAN /\ streaming' = TRUE /\ terminated' = FALSE /\ accumulated' = FALSE
         /\ bStreamReady' \in BOOLEAN /\ disturbed' = disturbed
         /\ turns' = turns + 1 /\ turns' \in Turn /\ tasks' = tasks
         /\ \A t \in Turn : t # turns' => link'[t] = link[t]
<1>1. turns < MaxTurns /\ turns' = turns + 1 /\ UNCHANGED <<session, opens, opening, tasks, bStreamReady, disturbed>>
      /\ streaming' = TRUE /\ terminated' = FALSE /\ accumulated' = FALSE
  BY Zenon DEF PostQuestion
<1>2. turns' \in Turn /\ turns' \in 0..MaxTurns
  BY <1>1, ChatAssumption DEF NetOK, Turn
<1>3. PICK new : new \in Link /\ link' = [link EXCEPT ![turns + 1] = new]
  <2>1. [is |-> "streamed", pieces |-> 0] \in Link
    BY ChatAssumption DEF Link
  <2>2. [is |-> "plain"] \in Link
    BY DEF Link
  <2>3. CASE bStreamReady
    BY <2>1, <2>3, Zenon DEF PostQuestion
  <2>4. CASE ~bStreamReady
    BY <2>2, <2>4, Zenon DEF PostQuestion
  <2> QED BY <2>3, <2>4
<1>4. link' \in [Turn -> Link] /\ \A t \in Turn : t # turns' => link'[t] = link[t]
  BY <1>1, <1>3 DEF NetOK
<1>5. NetOK'
  BY <1>1, <1>2, <1>4 DEF NetOK
<1> QED BY <1>1, <1>2, <1>4, <1>5 DEF FlagsOK

LEMMA NewBubble ==
  ASSUME BubblesOK, NEW b \in Bubble, bubbles' = Append(bubbles, b), current' \in 0..Len(bubbles')
  PROVE  BubblesOK' /\ bubbles'[Len(bubbles) + 1] = b /\ (ApartOK /\ OneAnswer(b) => ApartOK')
<1>1. bubbles \in Seq(Bubble)
  BY DEF BubblesOK
<1>2. /\ bubbles' \in Seq(Bubble) /\ bubbles'[Len(bubbles) + 1] = b
      /\ \A i \in DOMAIN bubbles' : (i \in DOMAIN bubbles /\ bubbles'[i] = bubbles[i]) \/ bubbles'[i] = b
  BY <1>1
<1>3. BubblesOK'
  BY <1>2 DEF BubblesOK
<1>4. ASSUME ApartOK, OneAnswer(b) PROVE ApartOK'
  <2>1. ASSUME NEW i \in DOMAIN bubbles' PROVE OneAnswer(bubbles'[i])
    BY <1>2, <1>4, <2>1, Zenon DEF ApartOK
  <2> QED BY <2>1, Zenon DEF ApartOK
<1> QED BY <1>2, <1>3, <1>4, Zenon

LEMMA SendKeeps == ChatInv /\ SendQuestion => ChatInv'
<1> SUFFICES ASSUME ChatInv, SendQuestion PROVE ChatInv'
  OBVIOUS
<1>1. PostQuestion /\ CanSend /\ current' = Len(bubbles) + 1 /\ input' = FALSE
      /\ bubbles' = Append(bubbles, [asked |-> turns + 1, text |-> {}])
  BY Zenon DEF SendQuestion
<1>2. /\ NetOK' /\ session' \in BOOLEAN /\ streaming' = TRUE /\ terminated' = FALSE /\ accumulated' = FALSE
      /\ bStreamReady' \in BOOLEAN /\ disturbed' = disturbed
      /\ turns' = turns + 1 /\ turns' \in Turn /\ tasks' = tasks
      /\ \A t \in Turn : t # turns' => link'[t] = link[t]
  BY <1>1, PostTypes, Zenon DEF ChatInv
<1>3. FlagsOK'
  BY <1>1, <1>2 DEF FlagsOK, ChatInv
<1> DEFINE b == [asked |-> turns + 1, text |-> {}]
<1>4. b \in Bubble /\ OneAnswer(b) /\ b.asked = turns' /\ b.text = {}
  BY <1>2, ChatAssumption DEF Bubble, Turn, OneAnswer
<1>5. current' \in 0..Len(bubbles')
  BY <1>1 DEF ChatInv, BubblesOK
<1>6. bubbles' = Append(bubbles, b)
  BY <1>1
<1> HIDE DEF b
<1>7. BubblesOK' /\ bubbles'[Len(bubbles) + 1] = b /\ (ApartOK /\ OneAnswer(b) => ApartOK')
  BY <1>4, <1>5, <1>6, NewBubble, Zenon DEF ChatInv
<1>8. ASSUME ~disturbed' PROVE Undisturbed'
  <2>1. ~disturbed /\ ~streaming /\ Undisturbed
    BY <1>1, <1>2, <1>8, Zenon DEF ChatInv, CanSend
  <2>2. tasks' = <<>> /\ \A t \in Turn : ~Streamed(t)
    BY <1>2, <2>1, Zenon DEF Undisturbed, QuietOK
  <2>3. \A t \in Turn : Streamed(t)' => t = turns'
    BY <1>2, <2>2, Zenon DEF Streamed
  <2>4. bubbles'[current'].asked = turns' /\ bubbles'[current'].text = {}
    BY <1>1, <1>4, <1>7, Zenon
  <2>5. DOMAIN tasks' = {}
    BY <2>2
  <2>6. BusyOK'
    BY <1>2, <2>3, <2>4, <2>5 DEF BusyOK
  <2> QED BY <1>2, <1>4, <1>7, <2>1, <2>6, Zenon DEF Undisturbed, QuietOK
<1> QED BY <1>2, <1>3, <1>7, <1>8, Zenon DEF ChatInv

LEMMA SendMessageKeeps == ChatInv /\ SendChatMessage => ChatInv'
<1> SUFFICES ASSUME ChatInv, SendChatMessage PROVE ChatInv'
  OBVIOUS
<1>1. CASE CanSend /\ PostQuestion /\ UNCHANGED widget
  <2>1. /\ NetOK' /\ session' \in BOOLEAN /\ streaming' = TRUE /\ terminated' = FALSE /\ accumulated' = FALSE
        /\ bStreamReady' \in BOOLEAN /\ disturbed' = disturbed
        /\ turns' = turns + 1 /\ turns' \in Turn /\ tasks' = tasks
        /\ \A t \in Turn : t # turns' => link'[t] = link[t]
    BY <1>1, PostTypes, Zenon DEF ChatInv
  <2>2. UNCHANGED <<bubbles, current, input>>
    BY <1>1 DEF widget
  <2>3. FlagsOK' /\ BubblesOK'
    BY <2>1, <2>2 DEF FlagsOK, BubblesOK, ChatInv
  <2>4. ASSUME ~disturbed' PROVE Undisturbed'
    <3>1. ~disturbed /\ ~streaming /\ Undisturbed
      BY <1>1, <2>1, <2>4, Zenon DEF ChatInv, CanSend
    <3>2. tasks' = <<>> /\ current' = 0 /\ \A t \in Turn : ~Streamed(t)
      BY <2>1, <2>2, <3>1, Zenon DEF Undisturbed, QuietOK
    <3>3. \A t \in Turn : Streamed(t)' => t = turns'
      BY <2>1, <3>2, Zenon DEF Streamed
    <3>4. DOMAIN tasks' = {}
      BY <3>2
    <3>5. BusyOK'
      BY <2>1, <3>2, <3>3, <3>4 DEF BusyOK
    <3>6. ApartOK'
      BY <2>2, <3>1 DEF Undisturbed, ApartOK
    <3> QED BY <2>1, <3>5, <3>6, Zenon DEF Undisturbed, QuietOK
  <2> QED BY <2>1, <2>3, <2>4, Zenon DEF ChatInv
<1>2. CASE ReportChatFailure(FALSE) /\ disturbed' = (disturbed \/ streaming)
           /\ UNCHANGED <<session, terminated, accumulated, net>>
  <2>1. HandleFailed(FALSE) /\ streaming' = FALSE
    BY <1>2, Zenon DEF ReportChatFailure
  <2>2. UNCHANGED <<session, terminated, accumulated, turns, opens, opening, link, tasks, bStreamReady>>
    BY <1>2 DEF net
  <2>3. disturbed' \in BOOLEAN
    BY <1>2
  <2>4. FlagsOK' /\ NetOK'
    BY <2>1, <2>2, <2>3 DEF ChatInv, FlagsOK, NetOK, HandleFailed
  <2>5. BubblesOK' /\ current' = 0
    BY <2>1, FailureTypes, Zenon DEF ChatInv
  <2>6. ASSUME ~disturbed' PROVE Undisturbed'
    <3>1. ~disturbed /\ ~streaming
      BY <1>2, <2>6, Zenon
    <3>2. ApartOK'
      BY <2>1, <3>1, FailureTypes, Zenon DEF ChatInv, Undisturbed
    <3>3. QuietOK'
      BY <2>2, <2>5, <3>1 DEF ChatInv, Undisturbed, QuietOK, Streamed
    <3>4. BusyOK'
      BY <2>1 DEF BusyOK
    <3> QED BY <3>2, <3>3, <3>4, Zenon DEF Undisturbed
  <2> QED BY <2>4, <2>5, <2>6, Zenon DEF ChatInv
<1> QED BY <1>1, <1>2, Zenon DEF SendChatMessage

\* Only the request of the last question streams, while its answer is under way.
LEMMA StreamedIsLast ==
  ChatInv /\ ~disturbed => \A t \in Turn : Streamed(t) => streaming /\ t = turns
BY Zenon DEF ChatInv, Undisturbed, QuietOK, BusyOK

LEMMA PostedIs ==
  ASSUME NetOK, NEW t \in Turn, NEW kind \in {"delta", "done", "error"}, Post(t, kind)
  PROVE  /\ tasks' \in Seq(Event) /\ Len(tasks') = Len(tasks) + 1
         /\ \A i \in DOMAIN tasks' :
                \/ i \in DOMAIN tasks /\ tasks'[i] = tasks[i]
                \/ i = Len(tasks') /\ tasks'[i].turn = t /\ tasks'[i].kind = kind
<1>1. [turn |-> t, kind |-> kind] \in Event
  BY DEF Event
<1>2. tasks \in Seq(Event) /\ tasks' = Append(tasks, [turn |-> t, kind |-> kind])
  BY DEF NetOK, Post
<1> QED BY <1>1, <1>2

LEMMA PieceKeeps ==
  ASSUME ChatInv, NEW t \in Turn, ReceivePiece(t) \/ ReceiveLast(t),
         UNCHANGED <<client, widget, turns, opens, opening, bStreamReady, disturbed>>
  PROVE  ChatInv'
<1>1. UNCHANGED <<session, streaming, terminated, accumulated, bubbles, current, input, turns, opens, opening,
                  bStreamReady, disturbed>>
  BY DEF client, widget
<1>2. Streamed(t)
  BY Zenon DEF ReceivePiece, ReceiveLast
<1>3. PICK kind \in {"delta", "done", "error"} :
          /\ Post(t, kind)
          /\ link' \in [Turn -> Link] /\ \A u \in Turn : u # t => link'[u] = link[u]
          /\ kind # "delta" => link'[t].is = "told"
  <2>1. CASE ReceivePiece(t)
    <3>1. link[t] \in Link /\ link[t].is = "streamed" /\ link[t].pieces < MaxPieces
      BY <2>1 DEF ReceivePiece, Streamed, ChatInv, NetOK
    <3>2. link[t].pieces \in 0..MaxPieces /\ link[t] \in [is : {"streamed"}, pieces : 0..MaxPieces]
      BY <3>1 DEF Link
    <3>3. [link[t] EXCEPT !.pieces = @ + 1] \in Link
      BY <3>1, <3>2, ChatAssumption DEF Link
    <3>4. link' = [link EXCEPT ![t] = [link[t] EXCEPT !.pieces = @ + 1]]
      BY <2>1, Zenon DEF ReceivePiece
    <3>5. link' \in [Turn -> Link] /\ \A u \in Turn : u # t => link'[u] = link[u]
      BY <3>3, <3>4 DEF ChatInv, NetOK
    <3> QED BY <2>1, <3>5, Zenon DEF ReceivePiece
  <2>2. CASE ReceiveLast(t)
    <3>1. [is |-> "told"] \in Link
      BY DEF Link
    <3>2. link' = [link EXCEPT ![t] = [is |-> "told"]]
      BY <2>2, Zenon DEF ReceiveLast
    <3>3. link' \in [Turn -> Link] /\ (\A u \in Turn : u # t => link'[u] = link[u]) /\ link'[t].is = "told"
      BY <3>1, <3>2 DEF ChatInv, NetOK
    <3> QED BY <2>2, <3>3, Zenon DEF ReceiveLast
  <2> QED BY <2>1, <2>2
<1>4. /\ tasks' \in Seq(Event) /\ Len(tasks') = Len(tasks) + 1
      /\ \A i \in DOMAIN tasks' :
             \/ i \in DOMAIN tasks /\ tasks'[i] = tasks[i]
             \/ i = Len(tasks') /\ tasks'[i].turn = t /\ tasks'[i].kind = kind
  BY <1>3, PostedIs, Zenon DEF ChatInv
<1>5. FlagsOK' /\ BubblesOK' /\ NetOK'
  BY <1>1, <1>3, <1>4 DEF ChatInv, FlagsOK, BubblesOK, NetOK
<1>6. ASSUME ~disturbed' PROVE Undisturbed'
  <2>0. disturbed' = disturbed /\ streaming' = streaming
    BY <1>1
  <2>1. ~disturbed /\ streaming /\ t = turns /\ Undisturbed
    <3>1. ~disturbed
      BY <1>6, <2>0
    <3>2. Undisturbed
      BY <3>1, Zenon DEF ChatInv
    <3>3. streaming /\ t = turns
      BY <1>2, <3>1, StreamedIsLast, Zenon
    <3> QED BY <3>1, <3>2, <3>3
  <2>2. \A u \in Turn : Streamed(u)' => u = turns'
    BY <1>1, <1>3, <2>1, Zenon DEF Streamed, Undisturbed, BusyOK
  <2>3. ASSUME NEW i \in DOMAIN tasks'
        PROVE  tasks'[i].turn = turns' /\ (tasks'[i].kind # "delta" => i = Len(tasks') /\ ~Streamed(turns)')
    <3>1. CASE i \in DOMAIN tasks /\ tasks'[i] = tasks[i]
      BY <1>1, <1>2, <2>1, <3>1, Zenon DEF Undisturbed, BusyOK
    <3>2. CASE i = Len(tasks') /\ tasks'[i].turn = t /\ tasks'[i].kind = kind
      <4>1. kind # "delta" => ~Streamed(turns)'
        BY <1>1, <1>3, <2>1 DEF Streamed
      <4> QED BY <1>1, <2>1, <3>2, <4>1, Zenon
    <3> QED BY <1>4, <3>1, <3>2, Zenon
  <2>4. BusyOK'
    BY <1>1, <2>1, <2>2, <2>3, Zenon DEF Undisturbed, BusyOK
  <2>5. ApartOK'
    BY <1>1, <2>1 DEF Undisturbed, ApartOK
  <2> QED BY <1>1, <2>1, <2>4, <2>5, Zenon DEF Undisturbed, QuietOK
<1> QED BY <1>5, <1>6, Zenon DEF ChatInv

LEMMA EndKeeps ==
  ASSUME ChatInv, NEW t \in Turn, RequestEnds(t),
         UNCHANGED <<client, widget, turns, opens, opening, bStreamReady, disturbed>>
  PROVE  ChatInv'
<1>1. UNCHANGED <<session, streaming, terminated, accumulated, bubbles, current, input, turns, opens, opening,
                  bStreamReady, disturbed, tasks>>
  BY DEF client, widget, RequestEnds
<1>2. PICK is \in {"cut", "refused", "whole"} : link' = [link EXCEPT ![t] = [is |-> is]]
  BY Zenon DEF RequestEnds
<1>3. [is |-> is] \in Link
  BY DEF Link
<1>4. link' \in [Turn -> Link] /\ (\A u \in Turn : u # t => link'[u] = link[u]) /\ link'[t].is # "streamed"
  BY <1>2, <1>3 DEF ChatInv, NetOK
<1>5. FlagsOK' /\ BubblesOK' /\ NetOK'
  BY <1>1, <1>4 DEF ChatInv, FlagsOK, BubblesOK, NetOK
<1>6. \A u \in Turn : Streamed(u)' => Streamed(u)
  BY <1>4, Zenon DEF Streamed
<1>7. ASSUME ~disturbed' PROVE Undisturbed'
  <2>0. disturbed' = disturbed
    BY <1>1
  <2>1. Undisturbed
    <3>1. ~disturbed
      BY <1>7, <2>0
    <3> QED BY <3>1, Zenon DEF ChatInv
  <2>2. ApartOK'
    BY <1>1, <2>1 DEF Undisturbed, ApartOK
  <2>3. QuietOK'
    BY <1>1, <1>6, <2>1, Zenon DEF Undisturbed, QuietOK
  <2>4. streaming => ~Streamed(turns)' \/ Streamed(turns)
    BY <1>1, <1>6, <2>1, Zenon DEF Undisturbed, BusyOK
  <2>5. BusyOK'
    BY <1>1, <1>6, <2>1, <2>4, Zenon DEF Undisturbed, BusyOK
  <2> QED BY <2>2, <2>3, <2>5, Zenon DEF Undisturbed
<1> QED BY <1>5, <1>7, Zenon DEF ChatInv

LEMMA NetworkKeeps ==
  ASSUME ChatInv, NEW t \in Turn, Network(t)
  PROVE  ChatInv'
BY PieceKeeps, EndKeeps, Zenon DEF Network

\* The next event leaves the queue as it was behind it.
LEMMA NextTask ==
  ASSUME NetOK, HandleSseEvent
  PROVE  /\ tasks' \in Seq(Event) /\ Head(tasks) \in Event /\ Head(tasks) = tasks[1] /\ 1 \in DOMAIN tasks
         /\ Len(tasks') = Len(tasks) - 1 /\ \A i \in DOMAIN tasks' : i + 1 \in DOMAIN tasks /\ tasks'[i] = tasks[i + 1]
<1>1. tasks \in Seq(Event) /\ tasks # <<>> /\ tasks' = Tail(tasks)
  BY Zenon DEF HandleSseEvent, NetOK
<1> QED BY <1>1

\* A piece goes to the open bubble, or to one made for it.
LEMMA PieceTypes ==
  ASSUME BubblesOK, NEW piece \in Turn, HandleDelta(piece)
  PROVE  /\ BubblesOK' /\ current' # 0
         /\ \/ /\ current = 0
               /\ bubbles'[current'] = [asked |-> 0, text |-> {piece}]
               /\ ApartOK => ApartOK'
            \/ /\ current # 0 /\ current' = current /\ current \in DOMAIN bubbles
               /\ DOMAIN bubbles' = DOMAIN bubbles
               /\ bubbles'[current].asked = bubbles[current].asked
               /\ bubbles'[current].text = bubbles[current].text \union {piece}
               /\ \A i \in DOMAIN bubbles : i # current => bubbles'[i] = bubbles[i]
<1>1. CASE current = 0
  <2>1. bubbles' = Append(bubbles, [asked |-> 0, text |-> {piece}]) /\ current' = Len(bubbles) + 1
    BY <1>1, Zenon DEF HandleDelta
  <2> DEFINE b == [asked |-> 0, text |-> {piece}]
  <2>2. b \in Bubble /\ OneAnswer(b)
    BY ChatAssumption DEF Bubble, OneAnswer
  <2>3. bubbles' = Append(bubbles, b)
    BY <2>1
  <2> HIDE DEF b
  <2>4. current' \in 0..Len(bubbles') /\ current' # 0
    BY <2>1, <2>3 DEF BubblesOK
  <2>5. BubblesOK' /\ bubbles'[Len(bubbles) + 1] = b /\ (ApartOK /\ OneAnswer(b) => ApartOK')
    BY <2>2, <2>3, <2>4, NewBubble, Zenon
  <2> QED BY <1>1, <2>1, <2>2, <2>4, <2>5, Zenon DEF b
<1>2. CASE current # 0
  <2>1. bubbles[current] \in Bubble
    BY <1>2 DEF BubblesOK
  <2> DEFINE b == [bubbles[current] EXCEPT !.text = @ \union {piece}]
  <2>2. b \in Bubble /\ b.asked = bubbles[current].asked /\ b.text = bubbles[current].text \union {piece}
    BY <2>1 DEF Bubble
  <2>3. bubbles' = [bubbles EXCEPT ![current] = b] /\ current' = current
    BY <1>2, Zenon DEF HandleDelta
  <2> HIDE DEF b
  <2>4. /\ current \in DOMAIN bubbles
        /\ bubbles' \in Seq(Bubble) /\ Len(bubbles') = Len(bubbles) /\ DOMAIN bubbles' = DOMAIN bubbles
        /\ bubbles'[current] = b /\ \A i \in DOMAIN bubbles : i # current => bubbles'[i] = bubbles[i]
    BY <1>2, <2>2, <2>3, ChangedBubble, Zenon
  <2>5. BubblesOK'
    BY <2>3, <2>4 DEF BubblesOK
  <2> QED BY <1>2, <2>2, <2>3, <2>4, <2>5, Zenon
<1> QED BY <1>1, <1>2

\* A piece of the answer under way keeps the open bubble to one answer.
LEMMA PieceKeepsApart ==
  ASSUME BubblesOK, ApartOK, NEW piece \in Turn, HandleDelta(piece),
         current # 0 => bubbles[current].asked \in {0, piece} /\ bubbles[current].text \subseteq {piece}
  PROVE  ApartOK' /\ bubbles'[current'].asked \in {0, piece} /\ bubbles'[current'].text \subseteq {piece}
<1>1. CASE current = 0
  <2>1. bubbles'[current'] = [asked |-> 0, text |-> {piece}] /\ ApartOK'
    BY <1>1, PieceTypes, Zenon
  <2> QED BY <2>1
<1>2. CASE current # 0
  <2>1. /\ current' = current /\ current \in DOMAIN bubbles /\ DOMAIN bubbles' = DOMAIN bubbles
        /\ bubbles'[current].asked = bubbles[current].asked
        /\ bubbles'[current].text = bubbles[current].text \union {piece}
        /\ \A i \in DOMAIN bubbles : i # current => bubbles'[i] = bubbles[i]
    BY <1>2, PieceTypes, Zenon
  <2>2. bubbles'[current].asked \in {0, piece} /\ bubbles'[current].text \subseteq {piece}
    BY <1>2, <2>1
  <2>3. OneAnswer(bubbles'[current])
    BY <2>2 DEF OneAnswer
  <2>4. ASSUME NEW i \in DOMAIN bubbles' PROVE OneAnswer(bubbles'[i])
    BY <2>1, <2>3, <2>4, Zenon DEF ApartOK
  <2> QED BY <2>1, <2>2, <2>4, Zenon DEF ApartOK
<1> QED BY <1>1, <1>2

LEMMA EventKeeps == ChatInv /\ HandleSseEvent => ChatInv'
<1> SUFFICES ASSUME ChatInv, HandleSseEvent PROVE ChatInv'
  OBVIOUS
<1>1. FlagsOK /\ BubblesOK /\ NetOK
  BY Zenon DEF ChatInv
<1>2. /\ session' = session /\ turns' = turns /\ opens' = opens /\ opening' = opening /\ link' = link
      /\ bStreamReady' = bStreamReady /\ disturbed' = disturbed /\ tasks # <<>>
  BY DEF HandleSseEvent
<1> DEFINE e == Head(tasks)
<1>3. /\ tasks' \in Seq(Event) /\ e \in Event /\ e = tasks[1] /\ 1 \in DOMAIN tasks /\ Len(tasks') = Len(tasks) - 1
      /\ \A i \in DOMAIN tasks' : i + 1 \in DOMAIN tasks /\ tasks'[i] = tasks[i + 1]
  BY <1>1, NextTask, Zenon
<1>4. \/ e.kind = "delta" /\ accumulated' = TRUE /\ HandleDelta(e.turn) /\ UNCHANGED <<streaming, terminated>>
      \/ e.kind = "done" /\ terminated' = TRUE /\ streaming' = FALSE /\ HandleCompleted /\ UNCHANGED accumulated
      \/ e.kind = "error" /\ terminated' = TRUE /\ ReportChatFailure(TRUE) /\ UNCHANGED accumulated
  BY Zenon DEF HandleSseEvent
<1>5. e.turn \in Turn
  BY <1>3 DEF Event
<1> HIDE DEF e
<1>6. NetOK'
  BY <1>1, <1>2, <1>3, Zenon DEF NetOK
<1>7. ~disturbed => Undisturbed /\ streaming /\ turns \in Turn /\ e.turn = turns
  BY <1>2, <1>3, Zenon DEF ChatInv, Undisturbed, QuietOK, BusyOK
<1>8. CASE e.kind = "delta" /\ accumulated' = TRUE /\ HandleDelta(e.turn) /\ UNCHANGED <<streaming, terminated>>
  <2>1. BubblesOK' /\ current' # 0
    BY <1>1, <1>5, <1>8, PieceTypes, Zenon
  <2>2. FlagsOK'
    BY <1>1, <1>2, <1>8 DEF FlagsOK, HandleDelta
  <2>3. ASSUME ~disturbed' PROVE Undisturbed'
    <3>1. ~disturbed
      BY <1>2, <2>3, Zenon
    <3>2. Undisturbed /\ streaming /\ turns \in Turn /\ e.turn = turns
      BY <1>7, <3>1, Zenon
    <3>3. streaming' = streaming /\ terminated' = terminated
      BY <1>8
    <3>4. current # 0 => bubbles[current].asked \in {0, e.turn} /\ bubbles[current].text \subseteq {e.turn}
      BY <3>2, Zenon DEF Undisturbed, BusyOK
    <3>5. ApartOK' /\ bubbles'[current'].asked \in {0, e.turn} /\ bubbles'[current'].text \subseteq {e.turn}
      BY <1>1, <1>5, <1>8, <3>2, <3>4, PieceKeepsApart, Zenon DEF Undisturbed
    <3>6. ASSUME NEW i \in DOMAIN tasks'
          PROVE  tasks'[i].turn = turns' /\ (tasks'[i].kind # "delta" => i = Len(tasks') /\ ~Streamed(turns)')
      <4>1. i + 1 \in DOMAIN tasks /\ tasks'[i] = tasks[i + 1]
        BY <1>3
      <4>2. /\ tasks[i + 1].turn = turns
            /\ tasks[i + 1].kind # "delta" => i + 1 = Len(tasks) /\ ~Streamed(turns)
        BY <3>2, <4>1, Zenon DEF Undisturbed, BusyOK
      <4>3. i + 1 = Len(tasks) => i = Len(tasks')
        BY <1>1, <1>3 DEF NetOK
      <4>4. Streamed(turns)' <=> Streamed(turns)
        BY <1>2, Zenon DEF Streamed
      <4> QED BY <1>2, <4>1, <4>2, <4>3, <4>4, Zenon
    <3>7. \A t \in Turn : Streamed(t)' => t = turns'
      BY <1>2, <3>2, Zenon DEF Undisturbed, BusyOK, Streamed
    <3>8. BusyOK'
      BY <1>2, <3>2, <3>3, <3>5, <3>6, <3>7, Zenon DEF Undisturbed, BusyOK
    <3> QED BY <3>2, <3>3, <3>5, <3>8, Zenon DEF Undisturbed, QuietOK
  <2> QED BY <1>6, <2>1, <2>2, <2>3, Zenon DEF ChatInv
<1>9. ASSUME \/ e.kind = "done" /\ terminated' = TRUE /\ streaming' = FALSE /\ HandleCompleted /\ UNCHANGED accumulated
             \/ e.kind = "error" /\ terminated' = TRUE /\ ReportChatFailure(TRUE) /\ UNCHANGED accumulated
      PROVE  ChatInv'
  <2>1. /\ e.kind # "delta" /\ terminated' = TRUE /\ streaming' = FALSE /\ accumulated' = accumulated /\ input' = TRUE
        /\ bubbles' = bubbles /\ current' = 0
    BY <1>9, Zenon DEF ReportChatFailure, HandleFailed, HandleCompleted
  <2>2. BubblesOK'
    BY <1>1, <2>1 DEF BubblesOK
  <2>3. FlagsOK'
    BY <1>1, <1>2, <2>1 DEF FlagsOK
  <2>4. ASSUME ~disturbed' PROVE Undisturbed'
    <3>1. ~disturbed
      BY <1>2, <2>4, Zenon
    <3>2. Undisturbed /\ streaming /\ turns \in Turn
      BY <1>7, <3>1, Zenon
    <3>3. Len(tasks) = 1 /\ ~Streamed(turns)
      BY <1>3, <2>1, <3>2, Zenon DEF Undisturbed, BusyOK
    <3>4. tasks' = <<>>
      BY <1>3, <3>3
    <3>5. \A t \in Turn : ~Streamed(t)'
      BY <1>2, <3>2, <3>3, Zenon DEF Undisturbed, BusyOK, Streamed
    <3>6. ApartOK'
      BY <2>1, <3>2, Zenon DEF Undisturbed, ApartOK
    <3> QED BY <2>1, <3>4, <3>5, <3>6, Zenon DEF Undisturbed, QuietOK, BusyOK
  <2> QED BY <1>6, <2>2, <2>3, <2>4, Zenon DEF ChatInv
<1> QED BY <1>4, <1>8, <1>9, Zenon

\* The answer of a request that was not streamed, all at once.
LEMMA WholeTypes ==
  ASSUME BubblesOK, NEW t \in Turn, current' = 0,
         bubbles' = IF current = 0 THEN Append(bubbles, [asked |-> 0, text |-> {t}])
                    ELSE [bubbles EXCEPT ![current].text = @ \union {t}]
  PROVE  /\ BubblesOK'
         /\ ApartOK /\ (current # 0 => bubbles[current].asked \in {0, t} /\ bubbles[current].text \subseteq {t})
            => ApartOK'
<1>1. CASE current = 0
  <2> DEFINE b == [asked |-> 0, text |-> {t}]
  <2>1. b \in Bubble /\ OneAnswer(b)
    BY ChatAssumption DEF Bubble, OneAnswer
  <2>2. bubbles' = Append(bubbles, b)
    BY <1>1, Zenon
  <2> HIDE DEF b
  <2>3. current' \in 0..Len(bubbles')
    BY <2>1, <2>2 DEF BubblesOK
  <2> QED BY <2>1, <2>2, <2>3, NewBubble, Zenon
<1>2. CASE current # 0
  <2>1. bubbles[current] \in Bubble
    BY <1>2 DEF BubblesOK
  <2> DEFINE b == [bubbles[current] EXCEPT !.text = @ \union {t}]
  <2>2. b \in Bubble /\ b.asked = bubbles[current].asked /\ b.text = bubbles[current].text \union {t}
    BY <2>1 DEF Bubble
  <2>3. bubbles' = [bubbles EXCEPT ![current] = b]
    BY <1>2, Zenon
  <2> HIDE DEF b
  <2>4. bubbles' \in Seq(Bubble) /\ (ApartOK /\ OneAnswer(b) => ApartOK')
    BY <1>2, <2>2, <2>3, ChangedBubble, Zenon
  <2>5. BubblesOK'
    BY <2>4 DEF BubblesOK
  <2>6. bubbles[current].asked \in {0, t} /\ bubbles[current].text \subseteq {t} => OneAnswer(b)
    BY <2>2 DEF OneAnswer
  <2> QED BY <1>2, <2>4, <2>5, <2>6, Zenon
<1> QED BY <1>1, <1>2

LEMMA CompleteKeeps ==
  ASSUME ChatInv, NEW t \in Turn, OnChatStreamComplete(t)
  PROVE  ChatInv'
<1>1. FlagsOK /\ BubblesOK /\ NetOK
  BY Zenon DEF ChatInv
<1>2. /\ link' = [link EXCEPT ![t] = [is |-> "completed"]] /\ disturbed' = (disturbed \/ OutOfPlace(t))
      /\ session' = session /\ terminated' = terminated /\ accumulated' = accumulated /\ turns' = turns
      /\ opens' = opens /\ opening' = opening /\ tasks' = tasks /\ bStreamReady' = bStreamReady
  BY DEF OnChatStreamComplete
<1>3. link' \in [Turn -> Link] /\ (\A u \in Turn : u # t => link'[u] = link[u]) /\ link'[t].is # "streamed"
  <2>1. [is |-> "completed"] \in Link
    BY DEF Link
  <2> QED BY <1>1, <1>2, <2>1 DEF NetOK
<1>4. NetOK'
  BY <1>1, <1>2, <1>3, Zenon DEF NetOK
<1>5. disturbed' \in BOOLEAN
  BY <1>2
<1>6. \A u \in Turn : Streamed(u)' => Streamed(u) /\ u # t
  BY <1>3, Zenon DEF Streamed
<1>7. ASSUME ~disturbed'
      PROVE  ~disturbed /\ Undisturbed /\ (terminated \/ (t = turns /\ ~\E i \in DOMAIN tasks : tasks[i].turn = t))
  BY <1>2, <1>7, Zenon DEF ChatInv, OutOfPlace
<1>8. CASE terminated /\ streaming' = FALSE /\ UNCHANGED widget
  <2>1. bubbles' = bubbles /\ current' = current /\ input' = input
    BY <1>8 DEF widget
  <2>2. FlagsOK' /\ BubblesOK'
    BY <1>1, <1>2, <1>5, <1>8, <2>1 DEF FlagsOK, BubblesOK
  <2>3. ASSUME ~disturbed' PROVE Undisturbed'
    <3>1. Undisturbed /\ ~streaming
      BY <1>7, <1>8, <2>3, Zenon DEF Undisturbed, BusyOK
    <3>2. QuietOK'
      BY <1>2, <1>6, <2>1, <3>1, Zenon DEF Undisturbed, QuietOK
    <3>3. ApartOK'
      BY <2>1, <3>1, Zenon DEF Undisturbed, ApartOK
    <3> QED BY <1>8, <3>2, <3>3, Zenon DEF Undisturbed, BusyOK
  <2> QED BY <1>4, <2>2, <2>3, Zenon DEF ChatInv
\* The rest of an answer that is not terminated: nothing is under way any more.
<1>9. ASSUME ~terminated, BubblesOK', current' = 0, streaming' = FALSE, input' = TRUE,
             ~disturbed' => ApartOK'
      PROVE  ChatInv'
  <2>1. FlagsOK'
    BY <1>1, <1>2, <1>5, <1>9 DEF FlagsOK
  <2>2. ASSUME ~disturbed' PROVE Undisturbed'
    <3>1. ~disturbed /\ Undisturbed /\ t = turns /\ ~\E i \in DOMAIN tasks : tasks[i].turn = t
      BY <1>7, <1>9, <2>2, Zenon
    <3>2. \A u \in Turn : ~Streamed(u)'
      BY <1>6, <3>1, Zenon DEF Undisturbed, QuietOK, BusyOK
    <3>3. tasks = <<>>
      <4>1. CASE streaming
        <5>1. \A i \in DOMAIN tasks : tasks[i].turn = t
          BY <3>1, <4>1, Zenon DEF Undisturbed, BusyOK
        <5>2. DOMAIN tasks = {}
          BY <3>1, <5>1, Zenon
        <5> QED BY <1>1, <5>2 DEF NetOK
      <4>2. CASE ~streaming
        BY <3>1, <4>2, Zenon DEF Undisturbed, QuietOK
      <4> QED BY <4>1, <4>2
    <3> QED BY <1>2, <1>9, <2>2, <3>2, <3>3, Zenon DEF Undisturbed, QuietOK, BusyOK
  <2> QED BY <1>4, <1>9, <2>1, <2>2, Zenon DEF ChatInv
<1>10. ASSUME ~terminated, NEW partial, ReportChatFailure(partial)
       PROVE  ChatInv'
  <2>1. HandleFailed(partial) /\ streaming' = FALSE /\ input' = TRUE
    BY <1>10, Zenon DEF ReportChatFailure, HandleFailed
  <2>2. BubblesOK' /\ current' = 0
    BY <1>1, <2>1, FailureTypes, Zenon
  <2>3. ~disturbed' => ApartOK'
    BY <1>1, <1>7, <2>1, FailureTypes, Zenon DEF Undisturbed
  <2> QED BY <1>9, <1>10, <2>1, <2>2, <2>3, Zenon
<1>11. ASSUME ~terminated, streaming' = FALSE, current' = 0, input' = TRUE,
              bubbles' = IF current = 0 THEN Append(bubbles, [asked |-> 0, text |-> {t}])
                         ELSE [bubbles EXCEPT ![current].text = @ \union {t}]
       PROVE  ChatInv'
  <2>1. BubblesOK' /\ (ApartOK /\ (current # 0 => bubbles[current].asked \in {0, t} /\ bubbles[current].text \subseteq {t})
                          => ApartOK')
    BY <1>1, <1>11, WholeTypes, Zenon
  <2>2. ASSUME ~disturbed' PROVE ApartOK'
    <3>1. Undisturbed /\ t = turns
      BY <1>7, <1>11, <2>2, Zenon
    <3>2. current # 0 => bubbles[current].asked \in {0, t} /\ bubbles[current].text \subseteq {t}
      BY <3>1, Zenon DEF Undisturbed, QuietOK, BusyOK
    <3> QED BY <2>1, <3>1, <3>2, Zenon DEF Undisturbed
  <2> QED BY <1>9, <1>11, <2>1, <2>2, Zenon
<1> QED BY <1>8, <1>10, <1>11, Zenon DEF OnChatStreamComplete

LEMMA ChatStep == ChatInv /\ [DocNext]_docVars => ChatInv'
<1> SUFFICES ASSUME ChatInv, [DocNext]_docVars PROVE ChatInv'
  OBVIOUS
<1>1. CASE UNCHANGED docVars
  BY <1>1 DEF docVars, client, widget, net, ChatInv, FlagsOK, BubblesOK, NetOK, Undisturbed, ApartOK, QuietOK, BusyOK,
              Streamed
<1> QED BY <1>1, OpenChatKeeps, ConstructKeeps, ClearKeeps, SessionKeeps, SendKeeps, SendMessageKeeps, EventKeeps,
           NetworkKeeps, CompleteKeeps, Zenon DEF DocNext

---------------------------------------------------------------------------
(* The service                                                             *)

Msg == [chat : Chats, ask : Asks, role : {"user", "assistant"}, text : {"text", "blank", "prepared"}]

Blocks == {"roster", "general", "exhibit", "context", "parts", "focus", "docent_text", "name", "apology"} \X Named

\* A request whose question is taken; the others are idle or refused.
Taking ==
    [is : {"streaming", "final", "stored", "over", "lost"}, how : {"stream", "whole"}, chat : Chats, part : Named,
     prompt : SUBSET Blocks, fallback : SUBSET Blocks, history : SUBSET Nat, given : 0..MaxChunks,
     said : SUBSET {"text", "blank", "prepared"}, final : {"none", "llm", "error", "fallback"}]

Request == {Idle, [is |-> "refused"]} \union Taking

ServiceOK ==
    /\ provider \in {"gemini", "mock", "failing"} /\ chats \in [Chats -> Named]
    /\ stored \in Seq(Msg) /\ asks \in [Asks -> Request]

\* What is true of a request a for the question r, and of the messages s.
MessagesOf(s, r, role) == {i \in DOMAIN s : s[i].ask = r /\ s[i].role = role}

Voice(a) ==
    /\ ~({"text", "prepared"} \subseteq a.said)
    /\ a.is = "streaming" => "prepared" \notin a.said
    /\ a.final = "fallback" => "prepared" \in a.said

Kept(s, r, a) ==
    /\ \E i \in DOMAIN s : MessagesOf(s, r, "user") = {i} /\ \A j \in MessagesOf(s, r, "assistant") : i < j
    /\ a.is \in {"streaming", "final"} => MessagesOf(s, r, "assistant") = {}
    /\ a.is \in {"stored", "over"} => \E j \in DOMAIN s :
           MessagesOf(s, r, "assistant") = {j} /\ (s[j].text = "blank" \/ s[j].text \in a.said)

Past(s, r, a) ==
    /\ a.history \subseteq DOMAIN s /\ Cardinality(a.history) <= HistoryTurns
    /\ \A h \in a.history :
           s[h].chat = a.chat /\ s[h].text # "blank" /\ \A i \in MessagesOf(s, r, "user") : h < i

SubjectsOf(a) == {b[2] : b \in a.prompt \union a.fallback} \ {None}
Subject(a) ==
    /\ Cardinality(SubjectsOf(a)) <= 1 /\ (a.part # None => SubjectsOf(a) = {a.part})
    /\ \A b \in a.fallback : b[1] # "context"

RequestOK(s, r, a) ==
    /\ a \in Taking => Voice(a) /\ Kept(s, r, a) /\ Past(s, r, a) /\ Subject(a)
    /\ a \notin Taking => MessagesOf(s, r, "user") = {} /\ MessagesOf(s, r, "assistant") = {}

ServiceInv == ServiceOK /\ OneShotSubject /\ \A r \in Asks : RequestOK(stored, r, asks[r])

LEMMA TakenAre ==
  ASSUME NEW a \in Request
  PROVE  a \in Taking <=> a.is \notin {"none", "refused"}
BY DEF Request, Taking, Idle

LEMMA ServiceHolds == ServiceInv => SrvTypeOK /\ ServerKeepsItsWord
<1> SUFFICES ASSUME ServiceInv PROVE SrvTypeOK /\ ServerKeepsItsWord
  OBVIOUS
<1>1. ServiceOK /\ OneShotSubject /\ \A r \in Asks : RequestOK(stored, r, asks[r])
  BY Zenon DEF ServiceInv
<1>2. SrvTypeOK
  <2>1. \A i \in DOMAIN stored : stored[i] \in Msg
    BY <1>1 DEF ServiceOK
  <2>2. ASSUME NEW r \in Asks
        PROVE  /\ asks[r].is \in {"none", "refused", "streaming", "final", "stored", "over", "lost"}
               /\ asks[r].is \notin {"none", "refused"} => asks[r].given \in 0..MaxChunks
    <3>1. asks[r] \in Request
      BY <1>1 DEF ServiceOK
    <3> QED BY <3>1 DEF Request, Taking, Idle
  <2> QED BY <1>1, <2>1, <2>2, Zenon DEF SrvTypeOK, ServiceOK, Msg
<1>3. \A r \in Taken : r \in Asks /\ Voice(asks[r]) /\ Kept(stored, r, asks[r]) /\ Past(stored, r, asks[r])
                       /\ Subject(asks[r])
  <2> SUFFICES ASSUME NEW r \in Taken
               PROVE  r \in Asks /\ Voice(asks[r]) /\ Kept(stored, r, asks[r]) /\ Past(stored, r, asks[r])
                      /\ Subject(asks[r])
    OBVIOUS
  <2>1. r \in Asks /\ asks[r].is \notin {"none", "refused"}
    BY DEF Taken
  <2>2. asks[r] \in Request
    BY <1>1, <2>1 DEF ServiceOK
  <2>3. asks[r] \in Taking
    BY <2>1, <2>2, TakenAre, Zenon
  <2> QED BY <1>1, <2>1, <2>3, Zenon DEF RequestOK
<1>4. \A r, role : Of(r, role) = MessagesOf(stored, r, role)
  BY Zenon DEF Of, MessagesOf
<1>5. OneVoice
  BY <1>3, Zenon DEF OneVoice, Voice
<1>6. ConversationIsKept
  BY <1>3, <1>4, Zenon DEF ConversationIsKept, Kept
<1>7. HistoryIsThePast
  BY <1>3, <1>4, Zenon DEF HistoryIsThePast, Past
<1>8. OneSubject
  BY <1>3, Zenon DEF OneSubject, Subject, SubjectsOf
<1> QED BY <1>1, <1>2, <1>5, <1>6, <1>7, <1>8, Zenon DEF ServerKeepsItsWord

LEMMA ServiceStart == SrvInit => ServiceInv
<1> SUFFICES ASSUME SrvInit PROVE ServiceInv
  OBVIOUS
<1>1. ServiceOK
  <2>1. chats \in [Chats -> Named]
    BY DEF SrvInit, Named
  <2>2. asks \in [Asks -> Request]
    BY DEF SrvInit, Request
  <2> QED BY <2>1, <2>2, EmptySeq, Zenon DEF SrvInit, ServiceOK
<1>2. OneShotSubject
  BY DEF SrvInit, OneShotSubject
<1>3. ASSUME NEW r \in Asks PROVE RequestOK(stored, r, asks[r])
  <2>1. asks[r] = Idle /\ DOMAIN stored = {}
    BY DEF SrvInit
  <2>2. Idle \notin Taking
    BY DEF Idle, Taking
  <2> QED BY <2>1, <2>2, Zenon DEF RequestOK, MessagesOf
<1> QED BY <1>1, <1>2, <1>3, Zenon DEF ServiceInv

---------------------------------------------------------------------------
(* A message more                                                          *)

LEMMA MessageMore ==
  ASSUME NEW s \in Seq(Msg), NEW m \in Msg, NEW r, NEW role
  PROVE  /\ Append(s, m) \in Seq(Msg) /\ DOMAIN s \subseteq DOMAIN Append(s, m)
         /\ Len(s) + 1 \in DOMAIN Append(s, m) /\ Append(s, m)[Len(s) + 1] = m
         /\ \A i \in DOMAIN s : i < Len(s) + 1 /\ Append(s, m)[i] = s[i]
         /\ MessagesOf(s, r, role) \subseteq DOMAIN s
         /\ m.ask = r /\ m.role = role => MessagesOf(Append(s, m), r, role) = MessagesOf(s, r, role) \union {Len(s) + 1}
         /\ ~(m.ask = r /\ m.role = role) => MessagesOf(Append(s, m), r, role) = MessagesOf(s, r, role)
<1> DEFINE t == Append(s, m)
<1>1. t \in Seq(Msg) /\ DOMAIN t = DOMAIN s \union {Len(s) + 1} /\ t[Len(s) + 1] = m
      /\ \A i \in DOMAIN s : i < Len(s) + 1 /\ t[i] = s[i]
  OBVIOUS
<1> HIDE DEF t
<1>2. CASE m.ask = r /\ m.role = role
  BY <1>1, <1>2 DEF MessagesOf
<1>3. CASE ~(m.ask = r /\ m.role = role)
  BY <1>1, <1>3 DEF MessagesOf
<1>4. MessagesOf(s, r, role) \subseteq DOMAIN s
  BY DEF MessagesOf
<1> QED BY <1>1, <1>2, <1>3, <1>4 DEF t

LEMMA OwnMessage ==
  ASSUME NEW s \in Seq(Msg), NEW r, NEW role, NEW m \in Msg, m.ask = r, m.role = role
  PROVE  MessagesOf(Append(s, m), r, role) = MessagesOf(s, r, role) \union {Len(s) + 1}
<1>1. m.ask = r /\ m.role = role
  OBVIOUS
<1>2. m.ask = r /\ m.role = role => MessagesOf(Append(s, m), r, role) = MessagesOf(s, r, role) \union {Len(s) + 1}
  BY MessageMore
<1> QED BY <1>1, <1>2, Zenon

\* The message of another question changes nothing for a request.
LEMMA OthersMessage ==
  ASSUME NEW s \in Seq(Msg), NEW m \in Msg, NEW r, NEW a, m.ask # r, RequestOK(s, r, a)
  PROVE  RequestOK(Append(s, m), r, a)
<1> DEFINE t == Append(s, m)
<1>1. DOMAIN s \subseteq DOMAIN t /\ \A i \in DOMAIN s : t[i] = s[i]
  OBVIOUS
<1>2. MessagesOf(t, r, "user") = MessagesOf(s, r, "user") /\ MessagesOf(t, r, "assistant") = MessagesOf(s, r, "assistant")
  <2>1. ASSUME NEW role PROVE MessagesOf(Append(s, m), r, role) = MessagesOf(s, r, role)
    <3>1. ~(m.ask = r /\ m.role = role)
      OBVIOUS
    <3>2. ~(m.ask = r /\ m.role = role) => MessagesOf(Append(s, m), r, role) = MessagesOf(s, r, role)
      BY MessageMore
    <3> QED BY <3>1, <3>2, Zenon
  <2> QED BY <2>1, Zenon
<1> HIDE DEF t
<1>3. Kept(s, r, a) => Kept(t, r, a)
  <2>1. ASSUME NEW j \in DOMAIN s, s[j].text = "blank" \/ s[j].text \in a.said
        PROVE  j \in DOMAIN t /\ (t[j].text = "blank" \/ t[j].text \in a.said)
    BY <1>1, <2>1
  <2> QED BY <1>1, <1>2, <2>1, Zenon DEF Kept
<1>4. Past(s, r, a) => Past(t, r, a)
  <2>1. ASSUME Past(s, r, a), NEW h \in a.history
        PROVE  h \in DOMAIN t /\ t[h] = s[h]
    BY <1>1, <2>1 DEF Past
  <2> QED BY <1>2, <2>1 DEF Past
<1> QED BY <1>2, <1>3, <1>4, Zenon DEF RequestOK, t

---------------------------------------------------------------------------
(* A request that goes on                                                  *)

\* What was asked stays as it was; what was said, where it matters, too.
GoesOn(a, b) ==
    /\ b.chat = a.chat /\ b.part = a.part /\ b.prompt = a.prompt /\ b.fallback = a.fallback /\ b.history = a.history
    /\ b.is \in {"streaming", "final"} => a.is \in {"streaming", "final"}
    /\ b.is \in {"stored", "over"} => a.is \in {"stored", "over"} /\ b.said = a.said

LEMMA RequestGoesOn ==
  ASSUME NEW s, NEW r, NEW a \in Taking, NEW b \in Taking, RequestOK(s, r, a), GoesOn(a, b), Voice(b)
  PROVE  RequestOK(s, r, b)
<1>1. Kept(s, r, a) /\ Past(s, r, a) /\ Subject(a)
  BY Zenon DEF RequestOK
<1>2. Kept(s, r, b)
  BY <1>1, Zenon DEF Kept, GoesOn
<1>3. Past(s, r, b)
  BY <1>1 DEF Past, GoesOn
<1>4. Subject(b)
  <2>1. SubjectsOf(b) = SubjectsOf(a)
    BY Zenon DEF SubjectsOf, GoesOn
  <2> QED BY <1>1, <2>1, Zenon DEF Subject, GoesOn
<1> QED BY <1>2, <1>3, <1>4, Zenon DEF RequestOK

LEMMA Bounds == MaxChunks \in Nat \ {0} /\ HistoryTurns \in Nat \ {0}
BY ServiceAssumption

\* The request after the language model has yielded y.
Answered(a, y) ==
    CASE y = "raises" -> Failed(a)
      [] y = "ends" -> Ended(a)
      [] OTHER -> [a EXCEPT !.given = @ + 1, !.said = @ \union {y}]

Yielded(a, y) == y \in Yields(a.given) \ {""} /\ (y \in {"raises", "ends"} \/ a.given < MaxChunks)

LEMMA AnswerGoesOn ==
  ASSUME NEW a \in Taking, a.is = "streaming", Voice(a), ServiceOK, NEW y, Yielded(a, y),
         NEW b, b = Answered(a, y)
  PROVE  b \in Taking /\ GoesOn(a, b) /\ Voice(b)
<1>1. /\ a.given \in 0..MaxChunks /\ a.said \in SUBSET {"text", "blank", "prepared"} /\ "prepared" \notin a.said
      /\ a.final # "fallback"
  BY DEF Taking, Voice
<1>0. y \in Yields(a.given) \ {""} /\ (y \in {"raises", "ends"} \/ a.given < MaxChunks)
  BY Zenon DEF Yielded
<1>2. y \in {"raises", "ends", "blank", "text"}
  <2>1. CASE provider = "gemini"
    <3>1. \A c \in Chunks : c.text \in {"", "blank", "text"}
      BY DEF Chunks, Texts
    <3>2. y \in GeminiYields
      BY <1>0, <2>1 DEF Yields
    <3> QED BY <1>0, <3>1, <3>2 DEF GeminiYields
  <2>2. CASE provider = "mock"
    BY <1>0, <2>2 DEF Yields, MockYields
  <2>3. CASE provider = "failing"
    BY <1>0, <2>3 DEF Yields
  <2> QED BY <2>1, <2>2, <2>3 DEF ServiceOK
<1>3. FellBack(a) \in Taking /\ GoesOn(a, FellBack(a)) /\ ("text" \notin a.said => Voice(FellBack(a)))
  <2>1. FellBack(a) = [a EXCEPT !.is = "final", !.final = "fallback", !.said = a.said \union {"prepared"}]
    BY DEF FellBack
  <2>2. FellBack(a) \in Taking
    <3>1. a.said \union {"prepared"} \in SUBSET {"text", "blank", "prepared"}
      BY <1>1
    <3> QED BY <2>1, <3>1 DEF Taking
  <2>3. GoesOn(a, FellBack(a)) /\ FellBack(a).said = a.said \union {"prepared"} /\ FellBack(a).is = "final"
    BY <2>1 DEF GoesOn, Taking
  <2>4. "text" \notin a.said => Voice(FellBack(a))
    BY <2>3 DEF Voice
  <2> QED BY <2>2, <2>3, <2>4
<1>4. CASE y = "raises"
  <2>1. b = Failed(a)
    BY <1>4 DEF Answered
  <2>2. CASE a.said # {}
    <3>1. b = [a EXCEPT !.is = "final", !.final = "error"]
      BY <2>1, <2>2 DEF Failed
    <3>2. b \in Taking /\ GoesOn(a, b) /\ b.said = a.said /\ b.is = "final" /\ b.final = "error"
      BY <3>1 DEF GoesOn, Taking
    <3> QED BY <1>1, <3>2 DEF Voice
  <2>3. CASE a.said = {}
    BY <1>3, <2>1, <2>3 DEF Failed
  <2> QED BY <2>2, <2>3
<1>5. CASE y = "ends"
  <2>1. b = Ended(a)
    BY <1>5 DEF Answered
  <2>2. CASE "text" \in a.said
    <3>1. b = [a EXCEPT !.is = "final", !.final = "llm"]
      BY <2>1, <2>2 DEF Ended
    <3>2. b \in Taking /\ GoesOn(a, b) /\ b.said = a.said /\ b.is = "final" /\ b.final = "llm"
      BY <3>1 DEF GoesOn, Taking
    <3> QED BY <1>1, <3>2 DEF Voice
  <2>3. CASE "text" \notin a.said
    BY <1>3, <2>1, <2>3 DEF Ended
  <2> QED BY <2>2, <2>3
<1>6. CASE y \in {"blank", "text"}
  <2>1. b = [a EXCEPT !.given = a.given + 1, !.said = a.said \union {y}] /\ a.given < MaxChunks
    BY <1>0, <1>6 DEF Answered
  <2>2. a.given + 1 \in 0..MaxChunks
    <3>1. a.given < MaxChunks /\ a.given \in 0..MaxChunks
      BY <1>1, <2>1
    <3> QED BY <3>1, Bounds
  <2>3. b \in Taking
    <3>1. a.said \union {y} \in SUBSET {"text", "blank", "prepared"}
      BY <1>1, <1>6
    <3> QED BY <2>1, <2>2, <3>1 DEF Taking
  <2>4. GoesOn(a, b) /\ b.said = a.said \union {y} /\ b.final = a.final
    BY <2>1 DEF GoesOn, Taking
  <2> QED BY <1>1, <1>6, <2>3, <2>4 DEF Voice
<1> QED BY <1>2, <1>4, <1>5, <1>6

LEMMA LostGoesOn ==
  ASSUME NEW a \in Taking
  PROVE  Lost(a) \in Taking /\ GoesOn(a, Lost(a)) /\ Voice(Lost(a))
<1>1. Lost(a) \in Taking /\ Lost(a).is = "lost" /\ Lost(a).said = {} /\ Lost(a).final = "none"
  <2>1. 0 \in 0..MaxChunks
    BY Bounds
  <2> QED BY <2>1 DEF Lost, Taking
<1>2. GoesOn(a, Lost(a))
  BY DEF Lost, GoesOn, Taking
<1> QED BY <1>1, <1>2 DEF Voice

---------------------------------------------------------------------------
(* The history, and the subject                                            *)

\* The last n of a finite set of numbers are no more than n.
LEMMA LastFew ==
  ASSUME NEW K \in SUBSET Nat, IsFiniteSet(K), NEW n \in Nat \ {0}
  PROVE  Cardinality({i \in K : Cardinality({j \in K : j > i}) < n}) <= n
<1> DEFINE after(i) == {j \in K : j > i}
           L == {i \in K : Cardinality(after(i)) < n}
<1> SUFFICES Cardinality(L) <= n
  OBVIOUS
<1>0. L \subseteq K
  OBVIOUS
<1>1. CASE L = {}
  <2> HIDE DEF L
  <2> QED BY <1>1, FS_EmptySet
<1>2. CASE L # {}
  <2>1. PICK m \in L : \A i \in L : ~(i < m)
    <3>1. L \in SUBSET Nat
      BY <1>0
    <3>2. PICK m \in L : \A i \in L : m <= i
      <4> HIDE DEF L
      <4> QED BY <1>2, <3>1, LeastOf, Zenon
    <3>3. \A i \in L : i \in Nat /\ m \in Nat /\ ~(i < m)
      BY <3>1, <3>2
    <3> HIDE DEF L
    <3> QED BY <3>3, Zenon
  <2>2. L \ {m} \subseteq after(m) /\ after(m) \subseteq K /\ L \subseteq K
    <3>1. ASSUME NEW i \in L, i # m PROVE i \in after(m)
      <4>1. i \in K /\ m \in K /\ ~(i < m)
        BY <1>0, <2>1
      <4> HIDE DEF L
      <4> QED BY <3>1, <4>1
    <3> HIDE DEF L
    <3> QED BY <1>0, <3>1
  <2>3. m \in L /\ Cardinality(after(m)) < n
    OBVIOUS
  <2> HIDE DEF L, after
  <2>4. IsFiniteSet(after(m)) /\ IsFiniteSet(L) /\ IsFiniteSet(L \ {m})
    BY <2>2, FS_Subset
  <2>5. Cardinality(L \ {m}) <= Cardinality(after(m))
    BY <2>2, <2>4, FS_Subset
  <2>6. Cardinality(L) = Cardinality(L \ {m}) + 1
    <3>1. Cardinality(L \ {m}) = Cardinality(L) - 1
      BY <2>3, <2>4, FS_RemoveElement
    <3>2. Cardinality(L) \in Nat
      BY <2>4, FS_CardinalityType
    <3> QED BY <3>1, <3>2
  <2>7. Cardinality(L \ {m}) \in Nat /\ Cardinality(after(m)) \in Nat
    BY <2>4, FS_CardinalityType
  <2> QED BY <2>3, <2>5, <2>6, <2>7
<1> QED BY <1>1, <1>2

LEMMA HistoryIs ==
  ASSUME ServiceOK, NEW c \in Chats
  PROVE  /\ BuildHistory(c) \subseteq DOMAIN stored /\ BuildHistory(c) \in SUBSET Nat
         /\ Cardinality(BuildHistory(c)) <= HistoryTurns
         /\ \A h \in BuildHistory(c) : stored[h].chat = c /\ stored[h].text # "blank"
<1> DEFINE K == {i \in DOMAIN stored : stored[i].chat = c /\ stored[i].text # "blank"}
<1>1. BuildHistory(c) = {i \in K : Cardinality({j \in K : j > i}) < HistoryTurns}
  BY Zenon DEF BuildHistory
<1>2. DOMAIN stored = 1..Len(stored) /\ Len(stored) \in Nat
  BY DEF ServiceOK
<1>3. K \subseteq DOMAIN stored /\ \A h \in K : stored[h].chat = c /\ stored[h].text # "blank"
  OBVIOUS
<1> HIDE DEF K
<1>4. IsFiniteSet(1..Len(stored))
  BY <1>2, FS_Interval
<1>5. K \in SUBSET Nat /\ IsFiniteSet(K)
  <2>1. K \subseteq 1..Len(stored)
    BY <1>2, <1>3
  <2>2. K \in SUBSET Nat
    BY <2>1
  <2>3. IsFiniteSet(K)
    BY <1>4, <2>1, FS_Subset
  <2> QED BY <2>2, <2>3
<1>6. HistoryTurns \in Nat \ {0}
  BY Bounds
<1>7. Cardinality(BuildHistory(c)) <= HistoryTurns
  BY <1>1, <1>5, <1>6, LastFew
<1>8. BuildHistory(c) \subseteq K
  BY <1>1
<1> QED BY <1>3, <1>5, <1>7, <1>8

\* Prompt and prepared text are about what the question is about.
LEMMA AboutOne ==
  ASSUME NEW about \in Named, NEW part \in Named, part # None => about = part
  PROVE  /\ Prompt(about, part) \in SUBSET Blocks /\ Fallback(about, part) \in SUBSET Blocks
         /\ {b[2] : b \in Prompt(about, part) \union Fallback(about, part)} \ {None} = {about} \ {None}
         /\ \A b \in Fallback(about, part) : b[1] # "context"
<1>1. None \in Named
  BY DEF Named
<1>2. CASE about = None
  <2>1. Prompt(about, part) = {<<"roster", None>>, <<"general", None>>}
    BY <1>2 DEF Prompt
  <2>2. Fallback(about, part) = {<<"apology", None>>}
    BY <1>2 DEF Fallback
  <2> HIDE DEF Named
  <2> QED BY <1>1, <1>2, <2>1, <2>2 DEF Blocks
<1>3. CASE about # None /\ part = None
  <2>1. Prompt(about, part) = {<<"roster", None>>, <<"exhibit", about>>, <<"context", about>>, <<"parts", about>>}
    BY <1>3 DEF Prompt, Background
  <2>2. Fallback(about, part) = {<<"exhibit", about>>}
    BY <1>3 DEF Fallback
  <2> QED BY <1>1, <1>3, <2>1, <2>2 DEF Blocks
<1>4. CASE about # None /\ part # None
  <2>1. Prompt(about, part) = {<<"roster", None>>, <<"exhibit", about>>, <<"context", about>>, <<"focus", about>>}
    BY <1>4 DEF Prompt, Background
  <2>2. PICK word \in {"docent_text", "name"} : Fallback(about, part) = {<<word, about>>}
    BY <1>4 DEF Fallback, PartText
  <2> QED BY <1>1, <1>4, <2>1, <2>2 DEF Blocks
<1> QED BY <1>2, <1>3, <1>4

---------------------------------------------------------------------------
(* The steps of the service                                                *)

\* A request goes on, and no message is stored.
LEMMA UpdateKeeps ==
  ASSUME ServiceInv, NEW r \in Asks, asks[r] \in Taking, NEW b \in Taking, GoesOn(asks[r], b), Voice(b),
         Update(r, b), UNCHANGED stored
  PROVE  ServiceInv'
<1>1. ServiceOK /\ OneShotSubject /\ \A q \in Asks : RequestOK(stored, q, asks[q])
  BY Zenon DEF ServiceInv
<1>2. /\ stored' = stored /\ provider' = provider /\ chats' = chats /\ oneShot' = oneShot
      /\ asks' = [asks EXCEPT ![r] = b]
  BY DEF Update
<1>3. b \in Request
  BY Zenon DEF Request
<1>4. asks' \in [Asks -> Request] /\ asks'[r] = b /\ \A q \in Asks : q # r => asks'[q] = asks[q]
  BY <1>1, <1>2, <1>3 DEF ServiceOK
<1>5. ServiceOK'
  BY <1>1, <1>2, <1>4, Zenon DEF ServiceOK
<1>6. OneShotSubject'
  BY <1>1, <1>2, Zenon DEF OneShotSubject
<1>7. RequestOK(stored, r, b)
  BY <1>1, RequestGoesOn, Zenon
<1>8. ASSUME NEW q \in Asks PROVE RequestOK(stored', q, asks'[q])
  <2>1. RequestOK(stored, q, asks'[q])
    BY <1>1, <1>4, <1>7, Zenon
  <2> QED BY <1>2, <2>1, Zenon
<1> QED BY <1>5, <1>6, <1>8, Zenon DEF ServiceInv

\* What a request under way is.
LEMMA UnderWay ==
  ASSUME ServiceInv, NEW r \in Asks, asks[r].is \in {"streaming", "final", "stored"}
  PROVE  asks[r] \in Taking /\ RequestOK(stored, r, asks[r]) /\ Voice(asks[r])
<1>1. asks[r] \in Request /\ RequestOK(stored, r, asks[r])
  BY DEF ServiceInv, ServiceOK
<1>2. asks[r] \in Taking
  BY <1>1, TakenAre
<1> QED BY <1>1, <1>2, Zenon DEF RequestOK

LEMMA StreamChatKeeps ==
  ASSUME ServiceInv, NEW r \in Asks, StreamChat(r)
  PROVE  ServiceInv'
<1>1. PICK y : Yielded(asks[r], y) /\ Update(r, Answered(asks[r], y))
  BY Zenon DEF StreamChat, Yielded, Answered
<1>2. asks[r].is = "streaming" /\ UNCHANGED stored
  BY Zenon DEF StreamChat
<1>3. asks[r] \in Taking /\ Voice(asks[r]) /\ ServiceOK
  BY <1>2, UnderWay, Zenon DEF ServiceInv
<1> DEFINE b == Answered(asks[r], y)
<1>4. Update(r, b)
  BY <1>1
<1>5. b \in Taking /\ GoesOn(asks[r], b) /\ Voice(b)
  BY <1>1, <1>2, <1>3, AnswerGoesOn
<1> HIDE DEF b
<1> QED BY <1>2, <1>3, <1>4, <1>5, UpdateKeeps, Zenon

LEMMA TellResultKeeps ==
  ASSUME ServiceInv, NEW r \in Asks, TellResult(r)
  PROVE  ServiceInv'
<1>1. asks[r].is = "stored" /\ UNCHANGED stored /\ Update(r, [asks[r] EXCEPT !.is = "over"])
  BY Zenon DEF TellResult
<1>2. asks[r] \in Taking /\ Voice(asks[r])
  BY <1>1, UnderWay
<1> DEFINE b == [asks[r] EXCEPT !.is = "over"]
<1>3. Update(r, b)
  BY <1>1
<1>4. b \in Taking
  BY <1>2 DEF Taking
<1>5. GoesOn(asks[r], b) /\ Voice(b)
  BY <1>1, <1>2 DEF Taking, GoesOn, Voice
<1> HIDE DEF b
<1> QED BY <1>1, <1>2, <1>3, <1>4, <1>5, UpdateKeeps, Zenon

LEMMA ClientGoneKeeps ==
  ASSUME ServiceInv, NEW r \in Asks, ClientGone(r)
  PROVE  ServiceInv'
<1>1. asks[r].is \in {"streaming", "final", "stored"} /\ UNCHANGED stored /\ Update(r, Lost(asks[r]))
  BY Zenon DEF ClientGone
<1>2. asks[r] \in Taking
  BY <1>1, UnderWay, Zenon
<1> QED BY <1>1, <1>2, LostGoesOn, UpdateKeeps, Zenon

LEMMA RestartKeeps == ServiceInv /\ Restart => ServiceInv'
<1> SUFFICES ASSUME ServiceInv, Restart PROVE ServiceInv'
  OBVIOUS
<1>1. ServiceOK /\ OneShotSubject /\ \A q \in Asks : RequestOK(stored, q, asks[q])
  BY Zenon DEF ServiceInv
<1>2. /\ stored' = stored /\ provider' = provider /\ chats' = chats /\ oneShot' = oneShot
      /\ asks' = [r \in Asks |-> IF asks[r].is \in {"streaming", "final", "stored"} THEN Lost(asks[r]) ELSE asks[r]]
  BY DEF Restart
<1>3. ASSUME NEW r \in Asks
      PROVE  asks'[r] \in Request /\ RequestOK(stored, r, asks'[r])
  <2>1. CASE asks[r].is \in {"streaming", "final", "stored"}
    <3>1. asks'[r] = Lost(asks[r])
      BY <1>2, <2>1
    <3>2. asks[r] \in Taking /\ RequestOK(stored, r, asks[r])
      BY <2>1, UnderWay, Zenon
    <3>3. Lost(asks[r]) \in Taking /\ RequestOK(stored, r, Lost(asks[r]))
      BY <3>2, LostGoesOn, RequestGoesOn, Zenon
    <3> QED BY <3>1, <3>3, Zenon DEF Request
  <2>2. CASE asks[r].is \notin {"streaming", "final", "stored"}
    <3>1. asks'[r] = asks[r]
      BY <1>2, <2>2
    <3>2. asks[r] \in Request
      BY <1>1 DEF ServiceOK
    <3> QED BY <1>1, <3>1, <3>2, Zenon
  <2> QED BY <2>1, <2>2
<1>4. asks' \in [Asks -> Request]
  BY <1>2, <1>3
<1>5. ServiceOK' /\ OneShotSubject'
  BY <1>1, <1>2, <1>4, Zenon DEF ServiceOK, OneShotSubject
<1>6. \A q \in Asks : RequestOK(stored', q, asks'[q])
  BY <1>2, <1>3, Zenon
<1> QED BY <1>5, <1>6, Zenon DEF ServiceInv

LEMMA CreateKeeps == ServiceInv /\ CreateSession => ServiceInv'
<1> SUFFICES ASSUME ServiceInv, CreateSession PROVE ServiceInv'
  OBVIOUS
<1>1. UNCHANGED <<provider, stored, asks, oneShot>>
  BY Zenon DEF CreateSession
<1>2. PICK c \in Chats, named \in Openings : chats' = [chats EXCEPT ![c] = named]
  BY Zenon DEF CreateSession
<1>3. named \in Named
  BY ServiceAssumption DEF Named
<1>4. chats' \in [Chats -> Named]
  BY <1>2, <1>3 DEF ServiceInv, ServiceOK
<1>5. provider' = provider /\ stored' = stored /\ asks' = asks /\ oneShot' = oneShot
  BY <1>1
<1> QED BY <1>4, <1>5, Zenon DEF ServiceInv, ServiceOK, OneShotSubject

LEMMA AskDocentKeeps == ServiceInv /\ AskDocent => ServiceInv'
<1> SUFFICES ASSUME ServiceInv, AskDocent PROVE ServiceInv'
  OBVIOUS
<1>1. UNCHANGED <<provider, chats, stored, asks>>
  BY Zenon DEF AskDocent
<1>2. PICK part \in Exhibits, text \in Generates :
          oneShot' = [is |-> "answered", part |-> part, prompt |-> Background(part) \union {<<"focus", part>>},
                      source |-> IF text = "text" THEN "llm" ELSE "fallback",
                      said |-> IF text = "text" THEN {} ELSE PartText(part)]
  BY Zenon DEF AskDocent
<1>3. oneShot'.part = part /\ oneShot'.prompt = Background(part) \union {<<"focus", part>>}
      /\ oneShot'.said \subseteq PartText(part)
  BY <1>2
<1>4. \A b \in oneShot'.prompt \union oneShot'.said : b[2] = oneShot'.part
  BY <1>3 DEF Background, PartText
<1>5. provider' = provider /\ stored' = stored /\ asks' = asks /\ chats' = chats
  BY <1>1
<1> QED BY <1>4, <1>5, Zenon DEF ServiceInv, ServiceOK, OneShotSubject

\* The answer is stored, as it was said.
LEMMA PersistKeeps ==
  ASSUME ServiceInv, NEW r \in Asks, PersistAssistant(r)
  PROVE  ServiceInv'
<1>1. ServiceOK /\ OneShotSubject /\ \A q \in Asks : RequestOK(stored, q, asks[q])
  BY Zenon DEF ServiceInv
<1> DEFINE a == asks[r]
           b == [a EXCEPT !.is = "stored", !.given = 0]
           m == Message(a.chat, r, "assistant", FullText(a))
<1>2. /\ a.is = "final" /\ stored' = Append(stored, m) /\ provider' = provider /\ chats' = chats /\ oneShot' = oneShot
      /\ asks' = [asks EXCEPT ![r] = b]
  BY DEF PersistAssistant, Update
<1>3. a \in Taking /\ RequestOK(stored, r, a) /\ Voice(a)
  BY <1>2, UnderWay
<1>4. m \in Msg /\ m.ask = r /\ m.role = "assistant" /\ m.text = FullText(a)
  <2>1. FullText(a) \in {"text", "blank", "prepared"}
    BY DEF FullText
  <2>2. a.chat \in Chats
    BY <1>3 DEF Taking
  <2> HIDE DEF a
  <2> QED BY <2>1, <2>2 DEF Msg, Message
<1>5. FullText(a) = "blank" \/ FullText(a) \in a.said
  BY <1>3 DEF FullText, Voice
<1>6. b \in Taking /\ b.is = "stored" /\ b.said = a.said /\ b.final = a.final /\ b.history = a.history /\ b.chat = a.chat
      /\ b.prompt = a.prompt /\ b.fallback = a.fallback /\ b.part = a.part
  <2>1. 0 \in 0..MaxChunks
    BY Bounds
  <2> HIDE DEF a
  <2> QED BY <1>3, <2>1 DEF Taking
<1> HIDE DEF a, b, m
<1>7. /\ asks' \in [Asks -> Request] /\ asks'[r] = b /\ \A q \in Asks : q # r => asks'[q] = asks[q]
  <2>1. b \in Request
    BY <1>6, Zenon DEF Request
  <2> QED BY <1>1, <1>2, <2>1 DEF ServiceOK
<1>8. stored \in Seq(Msg)
  BY <1>1, Zenon DEF ServiceOK
<1> DEFINE t == Append(stored, m)
           n == Len(stored) + 1
<1>9. /\ t \in Seq(Msg) /\ n \in DOMAIN t /\ t[n] = m /\ DOMAIN stored \subseteq DOMAIN t
      /\ \A i \in DOMAIN stored : i < n /\ t[i] = stored[i]
      /\ MessagesOf(t, r, "user") = MessagesOf(stored, r, "user")
      /\ MessagesOf(t, r, "assistant") = MessagesOf(stored, r, "assistant") \union {n}
  <2>1. MessagesOf(t, r, "assistant") = MessagesOf(stored, r, "assistant") \union {n}
    BY <1>4, <1>8, OwnMessage, Zenon
  <2>2. ~(m.ask = r /\ m.role = "user") => MessagesOf(t, r, "user") = MessagesOf(stored, r, "user")
    BY <1>4, <1>8, MessageMore
  <2>3. "user" # "assistant"
    OBVIOUS
  <2>4. t \in Seq(Msg) /\ n \in DOMAIN t /\ t[n] = m /\ DOMAIN stored \subseteq DOMAIN t
        /\ \A i \in DOMAIN stored : i < n /\ t[i] = stored[i]
    BY <1>4, <1>8
  <2> QED BY <1>4, <2>1, <2>2, <2>3, <2>4, Zenon
<1>10. stored' = t
  BY <1>2
<1>11. RequestOK(t, r, b)
  <2> HIDE DEF t, n
  <2>1. Kept(stored, r, a) /\ Past(stored, r, a) /\ Subject(a)
    BY <1>3, Zenon DEF RequestOK
  <2>2. MessagesOf(t, r, "assistant") = {n}
    BY <1>2, <1>9, <2>1 DEF Kept
  <2>3. \E i \in DOMAIN t : MessagesOf(t, r, "user") = {i} /\ \A j \in MessagesOf(t, r, "assistant") : i < j
    BY <1>9, <2>1, <2>2 DEF Kept
  <2>4. t[n].text = "blank" \/ t[n].text \in b.said
    BY <1>4, <1>5, <1>6, <1>9, Zenon
  <2>5. Kept(t, r, b)
    <3>1. b.is \notin {"streaming", "final"}
      BY <1>6
    <3> QED BY <1>9, <2>2, <2>3, <2>4, <3>1, Zenon DEF Kept
  <2>6. Past(t, r, b)
    <3>1. b.history \subseteq DOMAIN t /\ Cardinality(b.history) <= HistoryTurns
      BY <1>6, <1>9, <2>1 DEF Past
    <3>2. ASSUME NEW h \in b.history
          PROVE  t[h].chat = b.chat /\ t[h].text # "blank" /\ \A i \in MessagesOf(t, r, "user") : h < i
      <4>1. h \in DOMAIN stored /\ t[h] = stored[h] /\ h \in a.history
        BY <1>6, <1>9, <2>1 DEF Past
      <4> QED BY <1>6, <1>9, <2>1, <4>1, Zenon DEF Past
    <3> QED BY <3>1, <3>2, Zenon DEF Past
  <2>7. Subject(b)
    <3>1. SubjectsOf(b) = SubjectsOf(a)
      BY <1>6, Zenon DEF SubjectsOf
    <3> QED BY <1>6, <2>1, <3>1, Zenon DEF Subject
  <2>8. Voice(b)
    <3>1. b.is # "streaming"
      BY <1>6
    <3> QED BY <1>3, <1>6, <3>1, Zenon DEF Voice
  <2> QED BY <1>6, <2>5, <2>6, <2>7, <2>8, Zenon DEF RequestOK
<1>12. ASSUME NEW q \in Asks PROVE RequestOK(stored', q, asks'[q])
  <2>1. CASE q = r
    BY <1>7, <1>10, <1>11, <2>1, Zenon
  <2>2. CASE q # r
    <3>1. RequestOK(stored, q, asks[q]) /\ m.ask # q
      BY <1>1, <1>4, <2>2, Zenon
    <3>2. RequestOK(Append(stored, m), q, asks[q])
      BY <1>4, <1>8, <3>1, OthersMessage, Zenon
    <3> QED BY <1>7, <1>10, <2>2, <3>2, Zenon
  <2> QED BY <2>1, <2>2
<1>13. ServiceOK' /\ OneShotSubject'
  <2>1. stored' \in Seq(Msg)
    BY <1>9, <1>10, Zenon
  <2> QED BY <1>1, <1>2, <1>7, <2>1, Zenon DEF ServiceOK, OneShotSubject
<1> QED BY <1>12, <1>13, Zenon DEF ServiceInv

\* The question is stored, and what it is about and after is settled.
LEMMA PrepareKeeps ==
  ASSUME ServiceInv, NEW r \in Asks, PrepareTurn(r)
  PROVE  ServiceInv'
<1>1. ServiceOK /\ OneShotSubject /\ \A q \in Asks : RequestOK(stored, q, asks[q])
  BY Zenon DEF ServiceInv
<1>2. PICK c \in Chats, wish \in Wishes :
          IF Unknown \in {chats[c], wish.named, wish.part}
          THEN asks' = [asks EXCEPT ![r] = [is |-> "refused"]] /\ UNCHANGED stored
          ELSE /\ asks' = [asks EXCEPT ![r] =
                      [is |-> "streaming", how |-> wish.how, chat |-> c, part |-> wish.part,
                       prompt |-> Prompt(About(c, wish.named, wish.part), wish.part),
                       fallback |-> Fallback(About(c, wish.named, wish.part), wish.part), history |-> BuildHistory(c),
                       given |-> 0, said |-> {}, final |-> "none"]]
               /\ stored' = Append(stored, Message(c, r, "user", "text"))
  BY Zenon DEF PrepareTurn
<1>3. asks[r] = Idle /\ provider' = provider /\ chats' = chats /\ oneShot' = oneShot
  BY DEF PrepareTurn
<1>4. OneShotSubject'
  BY <1>1, <1>3, Zenon DEF OneShotSubject
<1>5. MessagesOf(stored, r, "user") = {} /\ MessagesOf(stored, r, "assistant") = {}
  <2>1. Idle \notin Taking
    BY DEF Idle, Taking
  <2> QED BY <1>1, <1>3, <2>1, Zenon DEF RequestOK
<1>6. CASE Unknown \in {chats[c], wish.named, wish.part}
  <2> DEFINE b == [is |-> "refused"]
  <2>1. asks' = [asks EXCEPT ![r] = b] /\ stored' = stored
    BY <1>2, <1>6
  <2>2. b \in Request /\ b \notin Taking
    BY DEF Request, Taking
  <2> HIDE DEF b
  <2>3. /\ asks' \in [Asks -> Request] /\ asks'[r] = b /\ \A q \in Asks : q # r => asks'[q] = asks[q]
    BY <1>1, <2>1, <2>2 DEF ServiceOK
  <2>4. RequestOK(stored, r, b)
    BY <1>5, <2>2, Zenon DEF RequestOK
  <2>5. \A q \in Asks : RequestOK(stored', q, asks'[q])
    BY <1>1, <2>1, <2>3, <2>4, Zenon
  <2>6. ServiceOK'
    BY <1>1, <1>3, <2>1, <2>3, Zenon DEF ServiceOK
  <2> QED BY <1>4, <2>5, <2>6, Zenon DEF ServiceInv
<1>7. CASE Unknown \notin {chats[c], wish.named, wish.part}
  <2> DEFINE about == About(c, wish.named, wish.part)
             b == [is |-> "streaming", how |-> wish.how, chat |-> c, part |-> wish.part,
                   prompt |-> Prompt(about, wish.part), fallback |-> Fallback(about, wish.part),
                   history |-> BuildHistory(c), given |-> 0, said |-> {}, final |-> "none"]
             m == Message(c, r, "user", "text")
             t == Append(stored, m)
             n == Len(stored) + 1
  <2>1. asks' = [asks EXCEPT ![r] = b] /\ stored' = t
    BY <1>2, <1>7, Zenon
  <2>2. wish.named \in Named /\ wish.part \in Named /\ wish.how \in {"stream", "whole"} /\ chats[c] \in Named
    BY <1>1, ServiceAssumption DEF Named, ServiceOK
  <2>3. about \in Named /\ (wish.part # None => about = wish.part)
    BY <2>2 DEF About
  <2> HIDE DEF about
  <2>4. /\ Prompt(about, wish.part) \in SUBSET Blocks /\ Fallback(about, wish.part) \in SUBSET Blocks
        /\ {x[2] : x \in Prompt(about, wish.part) \union Fallback(about, wish.part)} \ {None} = {about} \ {None}
        /\ \A x \in Fallback(about, wish.part) : x[1] # "context"
    BY <2>2, <2>3, AboutOne, Zenon
  <2>5. /\ BuildHistory(c) \subseteq DOMAIN stored /\ BuildHistory(c) \in SUBSET Nat
        /\ Cardinality(BuildHistory(c)) <= HistoryTurns
        /\ \A h \in BuildHistory(c) : stored[h].chat = c /\ stored[h].text # "blank"
    BY <1>1, HistoryIs, Zenon
  <2>6. b \in Taking
    <3>1. 0 \in 0..MaxChunks
      BY Bounds
    <3> QED BY <2>2, <2>4, <2>5, <3>1 DEF Taking
  <2>7. /\ b.is = "streaming" /\ b.said = {} /\ b.final = "none" /\ b.part = wish.part /\ b.chat = c
        /\ b.prompt = Prompt(about, wish.part) /\ b.fallback = Fallback(about, wish.part)
        /\ b.history = BuildHistory(c)
    OBVIOUS
  <2>8. m \in Msg /\ m.ask = r /\ m.role = "user"
    BY DEF Msg, Message
  <2>9. stored \in Seq(Msg)
    BY <1>1, Zenon DEF ServiceOK
  <2> HIDE DEF b, m
  <2>10. /\ t \in Seq(Msg) /\ n \in DOMAIN t /\ t[n] = m /\ DOMAIN stored \subseteq DOMAIN t
         /\ \A i \in DOMAIN stored : i < n /\ t[i] = stored[i]
    BY <2>8, <2>9
  <2>11. MessagesOf(t, r, "user") = {n} /\ MessagesOf(t, r, "assistant") = {}
    <3>1. MessagesOf(t, r, "user") = MessagesOf(stored, r, "user") \union {n}
      BY <2>8, <2>9, OwnMessage, Zenon
    <3>2. ~(m.ask = r /\ m.role = "assistant") => MessagesOf(t, r, "assistant") = MessagesOf(stored, r, "assistant")
      BY <2>8, <2>9, MessageMore
    <3>3. "user" # "assistant"
      OBVIOUS
    <3>4. MessagesOf(t, r, "assistant") = {}
      BY <1>5, <2>8, <3>2, <3>3, Zenon
    <3> QED BY <1>5, <3>1, <3>4
  <2> HIDE DEF t, n
  <2>12. Kept(t, r, b)
    <3>1. b.is \notin {"stored", "over"}
      BY <2>7
    <3> QED BY <2>10, <2>11, <3>1, Zenon DEF Kept
  <2>13. Past(t, r, b)
    <3>1. b.history \subseteq DOMAIN t /\ Cardinality(b.history) <= HistoryTurns
      BY <2>5, <2>7, <2>10
    <3>2. ASSUME NEW h \in b.history
          PROVE  t[h].chat = b.chat /\ t[h].text # "blank" /\ \A i \in MessagesOf(t, r, "user") : h < i
      <4>1. h \in DOMAIN stored /\ t[h] = stored[h] /\ stored[h].chat = c /\ stored[h].text # "blank" /\ h < n
        BY <2>5, <2>7, <2>10
      <4> QED BY <2>7, <2>11, <4>1
    <3> QED BY <3>1, <3>2, Zenon DEF Past
  <2>14. Subject(b)
    <3>1. SubjectsOf(b) = {about} \ {None}
      BY <2>4, <2>7, Zenon DEF SubjectsOf
    <3>2. \A x, y \in SubjectsOf(b) : x = y
      BY <3>1
    <3>3. Cardinality(SubjectsOf(b)) <= 1
      BY <3>2, SmallSets
    <3>4. b.part # None => SubjectsOf(b) = {b.part}
      BY <2>3, <2>7, <3>1
    <3> QED BY <2>4, <2>7, <3>3, <3>4, Zenon DEF Subject
  <2>15. Voice(b)
    BY <2>7 DEF Voice
  <2>16. RequestOK(t, r, b)
    BY <2>6, <2>12, <2>13, <2>14, <2>15, Zenon DEF RequestOK
  <2>17. /\ asks' \in [Asks -> Request] /\ asks'[r] = b /\ \A q \in Asks : q # r => asks'[q] = asks[q]
    <3>1. b \in Request
      BY <2>6, Zenon DEF Request
    <3> QED BY <1>1, <2>1, <3>1 DEF ServiceOK
  <2>18. ASSUME NEW q \in Asks PROVE RequestOK(stored', q, asks'[q])
    <3>1. CASE q = r
      BY <2>1, <2>16, <2>17, <3>1, Zenon
    <3>2. CASE q # r
      <4>1. RequestOK(stored, q, asks[q]) /\ m.ask # q
        BY <1>1, <2>8, <3>2, Zenon
      <4>2. RequestOK(Append(stored, m), q, asks[q])
        BY <2>8, <2>9, <4>1, OthersMessage, Zenon
      <4> QED BY <2>1, <2>17, <3>2, <4>2, Zenon DEF t
    <3> QED BY <3>1, <3>2
  <2>19. ServiceOK'
    BY <1>1, <1>3, <2>1, <2>10, <2>17, Zenon DEF ServiceOK
  <2> QED BY <1>4, <2>18, <2>19, Zenon DEF ServiceInv
<1> QED BY <1>6, <1>7

LEMMA ServiceStep == ServiceInv /\ [SrvNext]_srvVars => ServiceInv'
<1> SUFFICES ASSUME ServiceInv, [SrvNext]_srvVars PROVE ServiceInv'
  OBVIOUS
<1>1. CASE UNCHANGED srvVars
  <2>1. provider' = provider /\ chats' = chats /\ stored' = stored /\ asks' = asks /\ oneShot' = oneShot
    BY <1>1 DEF srvVars
  <2> QED BY <2>1, Zenon DEF ServiceInv, ServiceOK, OneShotSubject
<1> QED BY <1>1, CreateKeeps, RestartKeeps, PrepareKeeps, StreamChatKeeps, PersistKeeps, TellResultKeeps,
           ClientGoneKeeps, AskDocentKeeps, Zenon DEF SrvNext, Conversing, Answering

---------------------------------------------------------------------------
(* Client and service                                                      *)

DocentInv == ChatInv /\ ServiceInv

\* Both sides keep their invariants: a step is of one of them, or of the parser.
THEOREM DocentInvAlways == FairSpec => []DocentInv
<1>1. Init => DocentInv
  BY ChatStart, ServiceStart, Zenon DEF Init, DocentInv
<1>2. DocentInv /\ [Next]_vars => DocentInv'
  <2> SUFFICES ASSUME DocentInv, [Next]_vars PROVE DocentInv'
    OBVIOUS
  <2>1. [DocNext]_docVars /\ [SrvNext]_srvVars
    BY DEF Next, vars, Client, Service, SrvNext
  <2> QED BY <2>1, ChatStep, ServiceStep, Zenon DEF DocentInv
<1> QED BY <1>1, <1>2, PTL DEF FairSpec

\* The state of the client and of the service is always of its type, for any
\* number of questions, sessions and pieces (DocentClient.h, DocentChatWidget.h,
\* models/chat.py).
THEOREM DocentKeepsItsTypes == FairSpec => []TypeOK
<1>1. DocentInv => TypeOK
  BY AnswersApart, ServiceHolds, Zenon DEF DocentInv, TypeOK
<1> QED BY <1>1, DocentInvAlways, PTL

\* The pieces of two answers are never mixed in one bubble, nor put in another
\* question's bubble, unless a handler has ended a turn that was not its own: the
\* guards of SendQuestion and SendChatMessage are enough for that.
THEOREM BubblesAreOfOneAnswer == FairSpec => []AnswersStayApart
<1>1. DocentInv => AnswersStayApart
  BY AnswersApart, Zenon DEF DocentInv
<1> QED BY <1>1, DocentInvAlways, PTL

\* The service speaks in one voice and of one subject, keeps every question with
\* its answer, and tells the model of the past only (routers/chat.py,
\* services/chat.py, services/docent.py).
THEOREM ServiceKeepsItsWord == FairSpec => []ServerKeepsItsWord
<1>1. DocentInv => ServerKeepsItsWord
  BY ServiceHolds, Zenon DEF DocentInv
<1> QED BY <1>1, DocentInvAlways, PTL

---------------------------------------------------------------------------
(* Both ends give the answers of AnswerStream                              *)

\* What may become of an answer, step by step.
Follows(x, y) ==
    \/ y = x
    \/ x = "waiting" /\ y = "asked"
    \/ x = "asked" /\ y = "spoken"
    \/ x = "spoken" /\ y = "told"
    \/ x \in {"waiting", "asked"} /\ y = "refused"
    \/ x \in {"asked", "spoken"} /\ y = "cut"
    \/ x \in {"told", "refused", "cut"} /\ y = "closed"

\* A request that is not sent has no link, and one that is streamed is never
\* answered in one piece.
LinksOK ==
    /\ \A t \in Turn : t > turns => link[t].is = "none"
    /\ bStreamReady => \A t \in Turn : link[t].is \notin {"plain", "whole"}

\* What is final has said something.
SaidOK == \A r \in Asks : asks[r].is \in {"final", "stored", "over"} => asks[r].said # {}

StreamInv == DocentInv /\ LinksOK /\ SaidOK

\* One answer that goes on while the others rest is a step of the stream, or none.
LEMMA OneFollows ==
  ASSUME NEW q \in Questions, Follows(AnswerPhase[q], AnswerPhase'[q]),
         \A p \in Questions : p # q => AnswerPhase'[p] = AnswerPhase[p]
  PROVE  [Answer!Next]_AnswerPhase
<1> DEFINE x == AnswerPhase[q]
           y == AnswerPhase'[q]
<1>1. AnswerPhase' = [AnswerPhase EXCEPT ![q] = y]
  BY DEF AnswerPhase
<1>2. CASE y = x
  <2>1. \A p \in Questions : AnswerPhase'[p] = AnswerPhase[p]
    BY <1>2
  <2>2. AnswerPhase' = AnswerPhase
    BY <2>1 DEF AnswerPhase
  <2> QED BY <2>2
<1>3. CASE y # x
  <2>1. \/ Answer!Ask(q) \/ Answer!Speak(q) \/ Answer!Tell(q) \/ Answer!Refuse(q) \/ Answer!Cut(q) \/ Answer!Close(q)
    <3>1. Follows(x, y)
      OBVIOUS
    <3> HIDE DEF x, y
    <3>2. x = AnswerPhase[q]
      BY DEF x
    <3> QED BY <1>1, <1>3, <3>1, <3>2
            DEF Follows, Answer!Ask, Answer!Speak, Answer!Tell, Answer!Refuse, Answer!Cut, Answer!Close, Answer!Goes
  <2> QED BY <2>1 DEF Answer!Next
<1> QED BY <1>2, <1>3

\* A request of the client goes on.
LEMMA LinkGoesOn ==
  ASSUME NetOK, LinksOK, NEW t \in Turn, link' \in [Turn -> Link], turns' \in Nat, turns <= turns', t <= turns',
         \A u \in Turn : u # t => link'[u] = link[u], bStreamReady' = bStreamReady,
         bStreamReady => Follows(ClientPhase(t), ClientPhase(t)') /\ link'[t].is \notin {"plain", "whole"},
         side' = side
  PROVE  LinksOK' /\ (side = "client" => [Answer!Next]_AnswerPhase)
<1>1. \A u \in Turn : u > turns' => u # t /\ u > turns
  BY DEF NetOK, Turn
<1>2. LinksOK'
  BY <1>1 DEF LinksOK
<1>3. \A u \in Turn : u # t => ClientPhase(u)' = ClientPhase(u)
  BY DEF ClientPhase
<1>4. Follows(ClientPhase(t), ClientPhase(t)')
  <2>1. CASE ~bStreamReady
    <3>1. ~bStreamReady'
      BY <2>1, Zenon
    <3>2. ClientPhase(t) = "waiting" /\ ClientPhase(t)' = "waiting"
      BY <2>1, <3>1, Zenon DEF ClientPhase
    <3> QED BY <3>2 DEF Follows
  <2> QED BY <2>1, Zenon
<1>5. ASSUME side = "client" PROVE [Answer!Next]_AnswerPhase
  <2>1. \A u \in Turn : u \in Questions /\ AnswerPhase[u] = ClientPhase(u) /\ AnswerPhase'[u] = ClientPhase(u)'
    BY <1>5, Zenon DEF AnswerPhase, Questions
  <2>2. \A q \in Questions : q \notin Turn => AnswerPhase'[q] = AnswerPhase[q]
    BY <1>5, Zenon DEF AnswerPhase
  <2>3. \A q \in Questions : q # t => AnswerPhase'[q] = AnswerPhase[q]
    BY <1>3, <2>1, <2>2, Zenon
  <2>4. Follows(AnswerPhase[t], AnswerPhase'[t])
    BY <1>4, <2>1, Zenon
  <2> QED BY <2>1, <2>3, <2>4, OneFollows
<1> QED BY <1>2, <1>5

\* A step that leaves the requests of the app alone moves no answer.
LEMMA LinkRests ==
  ASSUME LinksOK, link' = link, turns' = turns, bStreamReady' = bStreamReady, side' = side
  PROVE  LinksOK' /\ (side = "client" => [Answer!Next]_AnswerPhase)
<1>1. LinksOK'
  BY DEF LinksOK
<1>2. ASSUME side = "client" PROVE AnswerPhase' = AnswerPhase
  <2>1. \A t \in Turn : ClientPhase(t)' = ClientPhase(t)
    BY Zenon DEF ClientPhase
  <2> QED BY <1>2, <2>1 DEF AnswerPhase
<1> QED BY <1>1, <1>2

\* Every step of the app moves its answers as the stream says.
LEMMA ClientStreams ==
  ASSUME ChatInv, LinksOK, DocNext, side' = side
  PROVE  LinksOK' /\ (side = "client" => [Answer!Next]_AnswerPhase)
<1>1. NetOK /\ link \in [Turn -> Link] /\ turns \in 0..MaxTurns
  BY DEF ChatInv, NetOK
<1>2. CASE PostQuestion
  <2>1. turns < MaxTurns /\ turns' = turns + 1 /\ bStreamReady' = bStreamReady
    BY <1>2 DEF PostQuestion
  <2>2. PICK t \in Turn : t = turns + 1
    BY <1>1, <2>1, ChatAssumption DEF Turn
  <2>3. link' = [link EXCEPT ![t] = IF bStreamReady THEN [is |-> "streamed", pieces |-> 0] ELSE [is |-> "plain"]]
    BY <1>2, <2>2 DEF PostQuestion
  <2>4. turns' \in Nat /\ turns <= turns' /\ t <= turns' /\ t > turns
    BY <1>1, <2>1, <2>2
  <2>5. link' \in [Turn -> Link]
    BY <1>2, PostTypes DEF ChatInv, NetOK
  <2>6. \A u \in Turn : u # t => link'[u] = link[u]
    BY <1>1, <2>3
  <2>7. link[t].is = "none"
    BY <2>4 DEF LinksOK
  <2>8. ASSUME bStreamReady
        PROVE  Follows(ClientPhase(t), ClientPhase(t)') /\ link'[t].is \notin {"plain", "whole"}
    <3>1. link'[t] = [is |-> "streamed", pieces |-> 0]
      BY <1>1, <2>3, <2>8
    <3>2. link'[t].is = "streamed" /\ link'[t].pieces = 0
      BY <3>1
    <3>3. bStreamReady'
      BY <2>1, <2>8, Zenon
    <3>4. ClientPhase(t) = "waiting" /\ ClientPhase(t)' = "asked"
      BY <2>7, <3>2, <3>3, Zenon DEF ClientPhase
    <3> QED BY <3>2, <3>4 DEF Follows
  <2> QED BY <1>1, <2>1, <2>4, <2>5, <2>6, <2>8, LinkGoesOn
<1>3. ASSUME NEW t \in Turn, Network(t) \/ OnChatStreamComplete(t)
      PROVE  LinksOK' /\ (side = "client" => [Answer!Next]_AnswerPhase)
  <2>1. bStreamReady' = bStreamReady /\ turns' = turns
    BY <1>3 DEF Network, OnChatStreamComplete
  <2>2. /\ turns \in Nat /\ turns <= turns' /\ turns' \in Nat /\ (link[t].is # "none" => t <= turns)
    <3>1. t > turns => link[t].is = "none"
      BY DEF LinksOK
    <3> QED BY <1>1, <2>1, <3>1, ChatAssumption DEF Turn
  <2>3. CASE ReceivePiece(t)
    <3>1. link' = [link EXCEPT ![t].pieces = link[t].pieces + 1] /\ link[t].is = "streamed" /\ link[t].pieces < MaxPieces
      BY <2>3 DEF ReceivePiece, Streamed
    <3>2. link[t] \in [is : {"streamed"}, pieces : 0..MaxPieces]
      BY <1>1, <3>1 DEF Link
    <3>3. link[t].pieces + 1 \in 0..MaxPieces
      BY <3>1, <3>2, ChatAssumption
    <3> DEFINE l == [is |-> "streamed", pieces |-> link[t].pieces + 1]
    <3>8. [link[t] EXCEPT !.pieces = link[t].pieces + 1] = l
      BY <3>2
    <3>9. link' = [link EXCEPT ![t] = [link[t] EXCEPT !.pieces = link[t].pieces + 1]]
      BY <3>1
    <3>4. link' = [link EXCEPT ![t] = l] /\ l \in Link
      BY <3>3, <3>8, <3>9 DEF Link
    <3>5. link'[t] = l /\ link' \in [Turn -> Link] /\ \A u \in Turn : u # t => link'[u] = link[u]
      BY <1>1, <3>4
    <3>6. link'[t].is = "streamed" /\ link'[t].pieces # 0
      BY <3>2, <3>5
    <3>7. Follows(ClientPhase(t), ClientPhase(t)')
      BY <2>1, <3>1, <3>6 DEF ClientPhase, Follows
    <3> QED BY <1>1, <2>1, <2>2, <3>1, <3>5, <3>6, <3>7, LinkGoesOn
  <2>4. CASE ReceiveLast(t) \/ RequestEnds(t) \/ OnChatStreamComplete(t)
    <3>1. PICK i \in {"told", "cut", "refused", "whole", "completed"} :
             /\ link' = [link EXCEPT ![t] = [is |-> i]]
             /\ i = "told" => link[t].is = "streamed" /\ link[t].pieces > 0
             /\ i = "cut" => link[t].is \in {"streamed", "plain"}
             /\ i = "refused" => link[t].is = "plain" \/ (link[t].is = "streamed" /\ link[t].pieces = 0)
             /\ i = "whole" => link[t].is = "plain"
             /\ i = "completed" => link[t].is \in {"told", "cut", "refused", "whole"}
      <4>1. CASE ReceiveLast(t)
        BY <4>1 DEF ReceiveLast, Streamed
      <4>2. CASE RequestEnds(t)
        <5>1. PICK i \in {"cut", "refused", "whole"} :
                 /\ CASE i = "cut"     -> link[t].is \in {"streamed", "plain"}
                      [] i = "refused" -> link[t].is = "plain" \/ (Streamed(t) /\ link[t].pieces = 0)
                      [] i = "whole"   -> link[t].is = "plain"
                 /\ link' = [link EXCEPT ![t] = [is |-> i]]
          BY <4>2, Zenon DEF RequestEnds
        <5> QED BY <5>1 DEF Streamed
      <4>3. CASE OnChatStreamComplete(t)
        BY <4>3 DEF OnChatStreamComplete
      <4> QED BY <2>4, <4>1, <4>2, <4>3
    <3>2. [is |-> i] \in Link
      BY DEF Link
    <3>3. link'[t].is = i /\ link' \in [Turn -> Link] /\ \A u \in Turn : u # t => link'[u] = link[u]
      BY <1>1, <3>1, <3>2
    <3>4. t <= turns
      BY <2>2, <3>1
    <3>5. ASSUME bStreamReady
          PROVE  Follows(ClientPhase(t), ClientPhase(t)') /\ link'[t].is \notin {"plain", "whole"}
      <4>1. link[t].is \notin {"plain", "whole"}
        BY <3>5 DEF LinksOK
      <4>2. i \in {"told", "cut", "refused", "completed"}
        BY <3>1, <4>1
      <4>3. link[t].is = "streamed" => link[t].pieces \in Nat
        BY <1>1 DEF Link
      <4> QED BY <2>1, <3>1, <3>3, <3>5, <4>1, <4>2, <4>3 DEF ClientPhase, Follows
    <3> QED BY <1>1, <2>1, <2>2, <3>3, <3>4, <3>5, LinkGoesOn
  <2> QED BY <1>3, <2>3, <2>4 DEF Network
<1>4. CASE \/ OpenChat \/ NativeConstruct \/ ClearMessages \/ OnSessionCreated \/ HandleSseEvent
           \/ ReportChatFailure(FALSE) /\ UNCHANGED net
  <2>1. link' = link /\ turns' = turns /\ bStreamReady' = bStreamReady
    BY <1>4 DEF OpenChat, NativeConstruct, ClearMessages, OnSessionCreated, HandleSseEvent, net
  <2> QED BY <2>1, LinkRests
<1>5. CASE SendQuestion \/ SendChatMessage
  <2>1. PostQuestion \/ (ReportChatFailure(FALSE) /\ UNCHANGED net)
    BY <1>5, Zenon DEF SendQuestion, SendChatMessage
  <2> QED BY <1>2, <1>4, <2>1
<1> QED BY <1>2, <1>3, <1>4, <1>5, Zenon DEF DocNext
---------------------------------------------------------------------------

\* A request of the service goes on.
LEMMA AskGoesOn ==
  ASSUME ServiceOK, SaidOK, NEW r \in Asks, NEW b \in Request, asks' = [asks EXCEPT ![r] = b],
         Follows(ServicePhase(r), ServicePhase(r)'), b.is \in {"final", "stored", "over"} => b.said # {},
         side' = side
  PROVE  SaidOK' /\ (side = "service" => [Answer!Next]_AnswerPhase)
<1>1. asks'[r] = b /\ \A q \in Asks : q # r => asks'[q] = asks[q]
  BY DEF ServiceOK
<1>2. SaidOK'
  BY <1>1, Zenon DEF SaidOK
<1>3. \A q \in Asks : q # r => ServicePhase(q)' = ServicePhase(q)
  BY <1>1, Zenon DEF ServicePhase
<1>4. ASSUME side = "service" PROVE [Answer!Next]_AnswerPhase
  <2>1. \A q \in Asks : q \in Questions /\ AnswerPhase[q] = ServicePhase(q) /\ AnswerPhase'[q] = ServicePhase(q)'
    BY <1>4 DEF AnswerPhase, Questions
  <2>2. \A q \in Questions : q \notin Asks => AnswerPhase'[q] = AnswerPhase[q]
    BY <1>4 DEF AnswerPhase
  <2>3. \A q \in Questions : q # r => AnswerPhase'[q] = AnswerPhase[q]
    BY <1>3, <2>1, <2>2, Zenon
  <2>4. Follows(AnswerPhase[r], AnswerPhase'[r])
    BY <2>1, Zenon
  <2> QED BY <2>1, <2>3, <2>4, OneFollows
<1> QED BY <1>2, <1>4

\* A step that leaves the requests of the service alone moves no answer.
LEMMA AsksRest ==
  ASSUME SaidOK, asks' = asks, side' = side
  PROVE  SaidOK' /\ (side = "service" => [Answer!Next]_AnswerPhase)
<1>1. SaidOK'
  BY DEF SaidOK
<1>2. ASSUME side = "service" PROVE AnswerPhase' = AnswerPhase
  BY <1>2 DEF AnswerPhase, ServicePhase
<1> QED BY <1>1, <1>2

\* The phase of a request that is taken, by what it is.
Phase(a) ==
    IF a.how = "whole" THEN "waiting"
    ELSE IF a.is = "over" THEN "told"
    ELSE IF a.is = "lost" THEN "cut"
    ELSE IF a.said = {} THEN "asked" ELSE "spoken"

\* How far a request is that the service has taken up.
LEMMA PhaseOfTaken ==
  ASSUME NEW r \in Asks
  PROVE  /\ asks[r] \in Taking => ServicePhase(r) = Phase(asks[r])
         /\ asks'[r] \in Taking => ServicePhase(r)' = Phase(asks'[r])
BY DEF ServicePhase, Phase, Taking

\* A request that is taken goes on.
LEMMA TakenGoesOn ==
  ASSUME ServiceOK, SaidOK, NEW r \in Asks, asks[r] \in Taking, NEW b \in Taking, asks' = [asks EXCEPT ![r] = b],
         Follows(Phase(asks[r]), Phase(b)), b.is \in {"final", "stored", "over"} => b.said # {}, side' = side
  PROVE  SaidOK' /\ (side = "service" => [Answer!Next]_AnswerPhase)
<1>1. asks'[r] = b
  BY DEF ServiceOK
<1>2. Follows(ServicePhase(r), ServicePhase(r)')
  BY <1>1, PhaseOfTaken, Zenon
<1>3. b \in Request
  BY Zenon DEF Request
<1> QED BY <1>2, <1>3, AskGoesOn, Zenon

\* A piece of the answer is spoken, or the answer breaks off (stream_chat).
LEMMA StreamGoesOn ==
  ASSUME ServiceInv, SaidOK, NEW r \in Asks, StreamChat(r), side' = side
  PROVE  SaidOK' /\ (side = "service" => [Answer!Next]_AnswerPhase)
<1>1. PICK y : Yielded(asks[r], y) /\ Update(r, Answered(asks[r], y))
  BY Zenon DEF StreamChat, Yielded, Answered
<1>2. asks[r].is = "streaming" /\ UNCHANGED stored
  BY Zenon DEF StreamChat
<1>3. asks[r] \in Taking /\ Voice(asks[r]) /\ ServiceOK
  BY <1>2, UnderWay, Zenon DEF ServiceInv
<1> DEFINE a == asks[r]
           b == Answered(a, y)
<1>4. asks' = [asks EXCEPT ![r] = b]
  BY <1>1 DEF Update
<1>5. b \in Taking
  BY <1>1, <1>2, <1>3, AnswerGoesOn
<1>6. b.how = a.how /\ b.is \in {"streaming", "final"} /\ (a.said # {} => b.said # {}) /\ (b.is = "final" => b.said # {})
  <2>1. CASE y = "raises"
    <3>1. b = Failed(a)
      BY <2>1 DEF Answered
    <3> QED BY <1>2, <1>3, <3>1 DEF Failed, FellBack, Taking
  <2>2. CASE y = "ends"
    <3>1. b = Ended(a)
      BY <2>2 DEF Answered
    <3> QED BY <1>2, <1>3, <3>1 DEF Ended, FellBack, Taking
  <2>3. CASE y \notin {"raises", "ends"}
    <3>1. b = [a EXCEPT !.given = @ + 1, !.said = @ \union {y}]
      BY <2>3 DEF Answered
    <3> QED BY <1>2, <1>3, <3>1 DEF Taking
  <2> QED BY <2>1, <2>2, <2>3
<1>7. a \in Taking /\ a.is = "streaming"
  BY <1>2, <1>3
<1> HIDE DEF b
<1>8. Follows(Phase(a), Phase(b))
  BY <1>6, <1>7 DEF Phase, Follows
<1> QED BY <1>3, <1>4, <1>5, <1>6, <1>8, TakenGoesOn

\* Keeping the answer says nothing to the app.
LEMMA PersistGoesOn ==
  ASSUME ServiceInv, SaidOK, NEW r \in Asks, PersistAssistant(r), side' = side
  PROVE  SaidOK' /\ (side = "service" => [Answer!Next]_AnswerPhase)
<1> DEFINE a == asks[r]
           b == [a EXCEPT !.is = "stored", !.given = 0]
<1>1. asks' = [asks EXCEPT ![r] = b] /\ a.is = "final"
  BY DEF PersistAssistant, Update
<1>2. a \in Taking /\ ServiceOK
  BY <1>1, UnderWay DEF ServiceInv
<1>3. b \in Taking
  <2>1. 0 \in 0..MaxChunks
    BY Bounds
  <2> QED BY <1>2, <2>1 DEF Taking
<1>4. a.said # {}
  BY <1>1 DEF SaidOK
<1>5. b.how = a.how /\ b.is = "stored" /\ b.said = a.said
  BY <1>2 DEF Taking
<1> HIDE DEF b
<1>6. Follows(Phase(a), Phase(b))
  BY <1>1, <1>4, <1>5 DEF Phase, Follows
<1> QED BY <1>1, <1>2, <1>3, <1>4, <1>5, <1>6, TakenGoesOn

\* What is told to be over has had a piece: only what has said something is final.
LEMMA TellGoesOn ==
  ASSUME ServiceInv, SaidOK, NEW r \in Asks, TellResult(r), side' = side
  PROVE  SaidOK' /\ (side = "service" => [Answer!Next]_AnswerPhase)
<1> DEFINE a == asks[r]
           b == [a EXCEPT !.is = "over"]
<1>1. asks' = [asks EXCEPT ![r] = b] /\ a.is = "stored"
  BY DEF TellResult, Update
<1>2. a \in Taking /\ ServiceOK
  BY <1>1, UnderWay DEF ServiceInv
<1>3. b \in Taking
  BY <1>2 DEF Taking
<1>4. a.said # {}
  BY <1>1 DEF SaidOK
<1>5. b.how = a.how /\ b.is = "over" /\ b.said = a.said
  BY <1>2 DEF Taking
<1> HIDE DEF b
<1>6. Follows(Phase(a), Phase(b))
  BY <1>1, <1>4, <1>5 DEF Phase, Follows
<1> QED BY <1>1, <1>2, <1>3, <1>4, <1>5, <1>6, TakenGoesOn

\* An answer whose reader is lost is cut, unless it had been told or refused.
LEMMA LostIs ==
  ASSUME NEW a \in Taking, a.is \in {"streaming", "final", "stored"}
  PROVE  /\ Lost(a) \in Taking /\ Lost(a).is = "lost"
         /\ Phase(Lost(a)) = IF Phase(a) \in {"asked", "spoken"} THEN "cut" ELSE Phase(a)
<1>1. Lost(a) \in Taking
  BY LostGoesOn
<1>2. Lost(a).is = "lost" /\ Lost(a).how = a.how
  BY DEF Lost, Taking
<1> QED BY <1>1, <1>2 DEF Phase

\* A reader who leaves cuts his own answer only.
LEMMA GoneGoesOn ==
  ASSUME ServiceInv, SaidOK, NEW r \in Asks, ClientGone(r), side' = side
  PROVE  SaidOK' /\ (side = "service" => [Answer!Next]_AnswerPhase)
<1>1. asks' = [asks EXCEPT ![r] = Lost(asks[r])] /\ asks[r].is \in {"streaming", "final", "stored"}
  BY DEF ClientGone, Update
<1>2. asks[r] \in Taking /\ ServiceOK
  BY <1>1, UnderWay DEF ServiceInv
<1>3. Lost(asks[r]) \in Taking /\ Lost(asks[r]).is = "lost"
  BY <1>1, <1>2, LostIs
<1>4. Follows(Phase(asks[r]), Phase(Lost(asks[r])))
  BY <1>1, <1>2, LostIs DEF Follows
<1> QED BY <1>1, <1>2, <1>3, <1>4, TakenGoesOn

\* A question is taken up, or refused before its first piece.
LEMMA PrepareGoesOn ==
  ASSUME ServiceInv, ServiceInv', SaidOK, NEW r \in Asks, PrepareTurn(r), side' = side
  PROVE  SaidOK' /\ (side = "service" => [Answer!Next]_AnswerPhase)
<1>1. ServiceOK /\ ServiceOK'
  BY DEF ServiceInv
<1>2. PICK b : /\ asks[r] = Idle /\ asks' = [asks EXCEPT ![r] = b]
               /\ b.is = "refused" \/ (b.is = "streaming" /\ b.said = {})
  <2>1. PICK c \in Chats, wish \in Wishes :
          LET named == wish.named
              part == wish.part
              about == About(c, named, part)
          IN /\ asks[r] = Idle
             /\ \/ asks' = [asks EXCEPT ![r] = [is |-> "refused"]]
                \/ asks' = [asks EXCEPT ![r] =
                      [is |-> "streaming", how |-> wish.how, chat |-> c, part |-> part, prompt |-> Prompt(about, part),
                       fallback |-> Fallback(about, part), history |-> BuildHistory(c),
                       given |-> 0, said |-> {}, final |-> "none"]]
    BY Zenon DEF PrepareTurn
  <2>2. CASE asks' = [asks EXCEPT ![r] = [is |-> "refused"]]
    <3> DEFINE b == [is |-> "refused"]
    <3>1. asks[r] = Idle /\ asks' = [asks EXCEPT ![r] = b] /\ b.is = "refused"
      BY <2>1, <2>2
    <3> HIDE DEF b
    <3> QED BY <3>1
  <2>3. CASE asks' # [asks EXCEPT ![r] = [is |-> "refused"]]
    <3> DEFINE b == [is |-> "streaming", how |-> wish.how, chat |-> c, part |-> wish.part,
                     prompt |-> Prompt(About(c, wish.named, wish.part), wish.part),
                     fallback |-> Fallback(About(c, wish.named, wish.part), wish.part), history |-> BuildHistory(c),
                     given |-> 0, said |-> {}, final |-> "none"]
    <3>1. asks[r] = Idle /\ asks' = [asks EXCEPT ![r] = b]
      BY <2>1, <2>3, Zenon
    <3>2. b.is = "streaming" /\ b.said = {}
      OBVIOUS
    <3> HIDE DEF b
    <3> QED BY <3>1, <3>2
  <2> QED BY <2>2, <2>3
<1>3. asks'[r] = b /\ b \in Request
  BY <1>1, <1>2 DEF ServiceOK
<1>4. ServicePhase(r) = "waiting"
  BY <1>2 DEF ServicePhase, Idle
<1>5. ServicePhase(r)' \in {"waiting", "asked", "refused"}
  BY <1>2, <1>3 DEF ServicePhase
<1>6. Follows(ServicePhase(r), ServicePhase(r)')
  BY <1>4, <1>5 DEF Follows
<1>7. b.is \notin {"final", "stored", "over"}
  BY <1>2
<1> QED BY <1>1, <1>2, <1>3, <1>6, <1>7, AskGoesOn

\* A service that restarts cuts all its answers at once.
LEMMA RestartGoesOn ==
  ASSUME ServiceInv, SaidOK, Restart, side' = side
  PROVE  SaidOK' /\ (side = "service" => [Answer!Next]_AnswerPhase)
<1>1. ServiceOK /\ asks' = [r \in Asks |-> IF asks[r].is \in {"streaming", "final", "stored"}
                                          THEN Lost(asks[r]) ELSE asks[r]]
  BY DEF Restart, ServiceInv
<1>2. ASSUME NEW r \in Asks
      PROVE  /\ asks'[r].is \in {"final", "stored", "over"} => asks'[r].said # {}
             /\ ServicePhase(r)' = IF ServicePhase(r) \in {"asked", "spoken"} THEN "cut" ELSE ServicePhase(r)
  <2>1. CASE asks[r].is \in {"streaming", "final", "stored"}
    <3>1. asks'[r] = Lost(asks[r]) /\ asks[r] \in Taking
      BY <1>1, <2>1, UnderWay
    <3> QED BY <2>1, <3>1, LostIs, PhaseOfTaken
  <2>2. CASE asks[r].is \notin {"streaming", "final", "stored"}
    <3>1. asks'[r] = asks[r] /\ asks[r] \in Request
      BY <1>1, <2>2 DEF ServiceOK
    <3>2. ServicePhase(r)' = ServicePhase(r)
      BY <3>1 DEF ServicePhase
    <3>3. ServicePhase(r) \notin {"asked", "spoken"}
      BY <2>2, <3>1 DEF ServicePhase, Request, Taking, Idle
    <3> QED BY <3>1, <3>2, <3>3 DEF SaidOK
  <2> QED BY <2>1, <2>2
<1>3. SaidOK'
  BY <1>2 DEF SaidOK
<1>4. ASSUME side = "service" PROVE Answer!CutAll
  <2>1. \A q \in Asks : q \in Questions /\ AnswerPhase[q] = ServicePhase(q) /\ AnswerPhase'[q] = ServicePhase(q)'
    BY <1>4 DEF AnswerPhase, Questions
  <2>2. \A q \in Questions : q \notin Asks => AnswerPhase'[q] = "waiting" /\ AnswerPhase[q] = "waiting"
    BY <1>4 DEF AnswerPhase
  <2>3. \A q \in Questions :
          AnswerPhase'[q] = IF AnswerPhase[q] \in {"asked", "spoken"} THEN "cut" ELSE AnswerPhase[q]
    <3> TAKE q \in Questions
    <3>1. CASE q \in Asks
      BY <1>2, <2>1, <3>1, Zenon
    <3>2. CASE q \notin Asks
      BY <2>2, <3>2
    <3> QED BY <3>1, <3>2
  <2>4. AnswerPhase' = [q \in Questions |-> AnswerPhase'[q]]
    BY DEF AnswerPhase
  <2> QED BY <2>3, <2>4, Zenon DEF Answer!CutAll
<1> QED BY <1>3, <1>4 DEF Answer!Next

\* Every step of the service moves its answers as the stream says.
LEMMA ServiceStreams ==
  ASSUME ServiceInv, ServiceInv', SaidOK, SrvNext, side' = side
  PROVE  SaidOK' /\ (side = "service" => [Answer!Next]_AnswerPhase)
<1>1. CASE CreateSession \/ AskDocent
  <2>1. asks' = asks
    BY <1>1 DEF CreateSession, AskDocent
  <2> QED BY <2>1, AsksRest
<1> QED BY <1>1, PrepareGoesOn, StreamGoesOn, PersistGoesOn, TellGoesOn, GoneGoesOn, RestartGoesOn, Zenon
        DEF SrvNext, Conversing, Answering

---------------------------------------------------------------------------

\* Both ends begin with every question waiting.
LEMMA StreamStart == Init => StreamInv /\ Answer!Init
<1> SUFFICES ASSUME Init PROVE StreamInv /\ Answer!Init
  OBVIOUS
<1>1. link = [t \in Turn |-> [is |-> "none"]] /\ asks = [r \in Asks |-> Idle]
  BY Zenon DEF Init, DocInit, SrvInit
<1>2. LinksOK /\ SaidOK
  BY <1>1 DEF LinksOK, SaidOK, Idle
<1>3. \A t \in Turn : ClientPhase(t) = "waiting"
  BY <1>1 DEF ClientPhase
<1>4. \A r \in Asks : ServicePhase(r) = "waiting"
  BY <1>1 DEF ServicePhase, Idle
<1>5. Answer!Init
  BY <1>3, <1>4 DEF AnswerPhase, Answer!Init
<1>6. DocentInv
  BY ChatStart, ServiceStart, Zenon DEF Init, DocentInv
<1> QED BY <1>2, <1>5, <1>6 DEF StreamInv

\* Every step of either end is a step of the stream, or none.
LEMMA StreamStep == StreamInv /\ DocentInv' /\ [Next]_vars => StreamInv' /\ [Answer!Next]_AnswerPhase
<1> SUFFICES ASSUME StreamInv, DocentInv', [Next]_vars PROVE StreamInv' /\ [Answer!Next]_AnswerPhase
  OBVIOUS
<1>1. ChatInv /\ ServiceInv /\ ServiceInv' /\ LinksOK /\ SaidOK
  BY Zenon DEF StreamInv, DocentInv
<1>2. CASE Client(DocNext)
  <2>1. side' = side /\ side = "client" /\ DocNext /\ asks' = asks
    BY <1>2 DEF Client, srvVars
  <2>2. LinksOK' /\ [Answer!Next]_AnswerPhase
    BY <1>1, <2>1, ClientStreams
  <2>3. SaidOK'
    BY <1>1, <2>1, AsksRest
  <2> QED BY <2>2, <2>3, Zenon DEF StreamInv
<1>3. CASE Service(Conversing) \/ (side = "one shot" /\ AskDocent /\ UNCHANGED <<side, docVars, sseVars>>)
  <2>1. /\ side' = side /\ side \in {"service", "one shot"} /\ SrvNext /\ (side = "one shot" => AskDocent)
        /\ link' = link /\ turns' = turns /\ bStreamReady' = bStreamReady
    BY <1>3 DEF Service, SrvNext, docVars, net
  <2>2. SaidOK' /\ (side = "service" => [Answer!Next]_AnswerPhase)
    BY <1>1, <2>1, ServiceStreams
  <2>3. LinksOK'
    BY <1>1, <2>1, LinkRests
  <2>4. side = "one shot" => AnswerPhase' = AnswerPhase
    BY <2>1 DEF AnswerPhase
  <2> QED BY <2>1, <2>2, <2>3, <2>4 DEF StreamInv
<1>4. CASE (side = "parser" /\ SseNext /\ UNCHANGED <<side, docVars, srvVars>>) \/ UNCHANGED vars
  <2>1. side' = side /\ link' = link /\ turns' = turns /\ bStreamReady' = bStreamReady /\ asks' = asks
    BY <1>4 DEF vars, docVars, net, srvVars
  <2>2. LinksOK' /\ SaidOK'
    BY <1>1, <2>1, LinkRests, AsksRest
  <2>3. AnswerPhase' = AnswerPhase
    BY <2>1 DEF AnswerPhase, ClientPhase, ServicePhase
  <2> QED BY <2>2, <2>3 DEF StreamInv
<1> QED BY <1>2, <1>3, <1>4, Zenon DEF Next

\* The answers that the service gives, and those that the client reckons with,
\* take the steps of the same stream: nothing is told to be over before a piece
\* has come, and nothing is refused after one.
THEOREM DocentGivesAnswerStreams == FairSpec => Answer!Order
<1>1. Init => StreamInv /\ Answer!Init
  BY StreamStart
<1>2. StreamInv /\ DocentInv' /\ [Next]_vars => StreamInv' /\ [Answer!Next]_AnswerPhase
  BY StreamStep
<1> QED BY <1>1, <1>2, DocentInvAlways, PTL DEF FairSpec, Answer!Order

---------------------------------------------------------------------------
(* The parser: sequences that are joined                                   *)

\* H[k] is the first k of the N sequences ss, joined.
Joins(ss, N, H) == H[0] = <<>> /\ \A k \in 1..N : H[k] = H[k - 1] \o ss[k]

\* Two sequences, joined.
LEMMA JoinIs ==
  ASSUME NEW B, NEW s \in Seq(B), NEW t \in Seq(B), NEW u, u = s \o t
  PROVE  /\ u \in Seq(B) /\ Len(s) \in Nat /\ Len(t) \in Nat /\ Len(u) = Len(s) + Len(t)
         /\ \A i \in 1..Len(s) : u[i] = s[i]
         /\ \A i \in 1..Len(t) : u[Len(s) + i] = t[i]
<1>1. /\ u \in Seq(B) /\ Len(u) = Len(s) + Len(t)
      /\ \A i \in 1..Len(s) + Len(t) : u[i] = IF i <= Len(s) THEN s[i] ELSE t[i - Len(s)]
  BY ConcatProperties, Zenon
<1>2. Len(s) \in Nat /\ Len(t) \in Nat
  OBVIOUS
<1>3. \A i \in 1..Len(t) : Len(s) + i \in 1..Len(s) + Len(t) /\ ~(Len(s) + i <= Len(s)) /\ (Len(s) + i) - Len(s) = i
  BY <1>2
<1>4. \A i \in 1..Len(t) : u[Len(s) + i] = t[i]
  BY <1>1, <1>3
<1>5. \A i \in 1..Len(s) : i \in 1..Len(s) + Len(t) /\ i <= Len(s)
  BY <1>2
<1> QED BY <1>1, <1>2, <1>4, <1>5

\* The same of the joined sequence itself.
LEMMA ConcatIs ==
  ASSUME NEW B, NEW s \in Seq(B), NEW t \in Seq(B)
  PROVE  /\ s \o t \in Seq(B) /\ Len(s \o t) = Len(s) + Len(t)
         /\ \A i \in 1..Len(s) : (s \o t)[i] = s[i]
         /\ \A i \in 1..Len(t) : (s \o t)[Len(s) + i] = t[i]
<1> PICK u : u = s \o t
  OBVIOUS
<1>1. /\ u \in Seq(B) /\ Len(u) = Len(s) + Len(t)
      /\ \A i \in 1..Len(s) : u[i] = s[i]
      /\ \A i \in 1..Len(t) : u[Len(s) + i] = t[i]
  BY JoinIs
<1> QED BY <1>1, Zenon

\* What is in the first is at its place.
LEMMA JoinKeeps ==
  ASSUME NEW B, NEW s \in Seq(B), NEW t \in Seq(B), NEW p \in Nat \ {0}, p <= Len(s)
  PROVE  p <= Len(s \o t) /\ (s \o t)[p] = s[p]
<1>1. p \in 1..Len(s)
  OBVIOUS
<1> QED BY <1>1, JoinIs

\* What is in the second comes after it.
LEMMA JoinAdds ==
  ASSUME NEW B, NEW s \in Seq(B), NEW t \in Seq(B), NEW j \in 1..Len(t)
  PROVE  Len(s) + j <= Len(s \o t) /\ (s \o t)[Len(s) + j] = t[j]
BY JoinIs

\* Joined sequences are a sequence.
LEMMA JoinsAre ==
  ASSUME NEW B, NEW N \in Nat, NEW ss, NEW H, \A k \in 1..N : ss[k] \in Seq(B), Joins(ss, N, H)
  PROVE  \A k \in 0..N : H[k] \in Seq(B)
<1> DEFINE T == {k \in 0..N : H[k] \in Seq(B)}
<1>1. 0 \in T
  <2>1. <<>> \in Seq(B) /\ 0 \in 0..N
    OBVIOUS
  <2> QED BY <2>1, Zenon DEF Joins
<1>2. ASSUME NEW n \in 0..(N - 1), n \in T PROVE n + 1 \in T
  <2>1. n + 1 \in 1..N /\ (n + 1) - 1 = n /\ H[n] \in Seq(B)
    BY <1>2
  <2>2. H[n + 1] = H[n] \o ss[n + 1] /\ ss[n + 1] \in Seq(B)
    <3>1. H[n + 1] = H[(n + 1) - 1] \o ss[n + 1] /\ ss[n + 1] \in Seq(B)
      BY <2>1, Zenon DEF Joins
    <3> QED BY <3>1, <2>1, Zenon
  <2>3. H[n + 1] \in Seq(B)
    BY <2>1, <2>2, JoinIs, Zenon
  <2>4. n + 1 \in 0..N
    OBVIOUS
  <2> QED BY <2>3, <2>4, Zenon
<1> HIDE DEF T
<1>3. \A k \in 0..N : k \in T
  BY <1>1, <1>2, InductionTo
<1> QED BY <1>3 DEF T

\* Each of the sequences stays where it was put.
LEMMA JoinsGrow ==
  ASSUME NEW B, NEW N \in Nat, NEW ss, NEW H, \A k \in 1..N : ss[k] \in Seq(B), Joins(ss, N, H),
         NEW k \in 1..N, NEW j \in 1..Len(ss[k])
  PROVE  \A n \in k..N : Len(H[k - 1]) + j <= Len(H[n]) /\ H[n][Len(H[k - 1]) + j] = ss[k][j]
<1>1. \A n \in 0..N : H[n] \in Seq(B) /\ Len(H[n]) \in Nat
  BY JoinsAre
<1>2. \A n \in 1..N : H[n] = H[n - 1] \o ss[n] /\ Len(H[n]) = Len(H[n - 1]) + Len(ss[n])
  <2> TAKE n \in 1..N
  <2>1. n - 1 \in 0..N
    OBVIOUS
  <2>2. H[n] = H[n - 1] \o ss[n] /\ ss[n] \in Seq(B) /\ H[n - 1] \in Seq(B)
    BY <1>1, <2>1, Zenon DEF Joins
  <2> QED BY <2>2, JoinIs
<1>3. PICK p : p = Len(H[k - 1]) + j
  OBVIOUS
<1>4. p \in Nat /\ p > 0 /\ k > 0 /\ Len(H[k - 1]) \in Nat /\ k - 1 \in 0..N
  BY <1>1, <1>3
<1> DEFINE T == {n \in 0..N : n >= k => p <= Len(H[n]) /\ H[n][p] = ss[k][j]}
<1>5. 0 \in T
  BY <1>4
<1>6. ASSUME NEW n \in 0..(N - 1), n \in T PROVE n + 1 \in T
  <2>1. n + 1 \in 1..N /\ (n + 1) - 1 = n /\ n \in 0..N /\ n + 1 \in 0..N
    OBVIOUS
  <2>2. H[n + 1] = H[n] \o ss[n + 1] /\ ss[n + 1] \in Seq(B) /\ H[n] \in Seq(B)
    <3>1. H[n + 1] = H[(n + 1) - 1] \o ss[n + 1]
      BY <2>1, <1>2, Zenon
    <3> QED BY <3>1, <1>1, <2>1, Zenon
  <2>4. CASE n >= k
    <3>1. p <= Len(H[n]) /\ H[n][p] = ss[k][j]
      BY <1>6, <2>4
    <3>2. p \in Nat \ {0}
      BY <1>4
    <3>3. p <= Len(H[n + 1]) /\ H[n + 1][p] = H[n][p]
      <4>1. p <= Len(H[n] \o ss[n + 1]) /\ (H[n] \o ss[n + 1])[p] = H[n][p]
        BY <3>1, <3>2, <2>2, JoinKeeps
      <4> QED BY <4>1, <2>2, Zenon
    <3> QED BY <3>1, <3>3, <2>1
  <2>5. CASE n + 1 = k
    <3>1. k - 1 = n
      BY <2>5, <2>1
    <3>2. p = Len(H[n]) + j /\ j \in 1..Len(ss[n + 1])
      BY <1>3, <2>5, <3>1, Zenon
    <3>3. p <= Len(H[n + 1]) /\ H[n + 1][p] = ss[n + 1][j]
      <4>1. /\ Len(H[n]) + j <= Len(H[n] \o ss[n + 1])
            /\ (H[n] \o ss[n + 1])[Len(H[n]) + j] = ss[n + 1][j]
        <5>1. j \in 1..Len(ss[n + 1])
          BY <3>2
        <5>2. H[n] \in Seq(B) /\ ss[n + 1] \in Seq(B)
          BY <2>2
        <5> QED BY <5>1, <5>2, JoinAdds, Zenon
      <4> QED BY <4>1, <3>2, <2>2, Zenon
    <3> QED BY <3>3, <2>1, <2>5
  <2>6. CASE n + 1 < k
    BY <2>6, <2>1
  <2> QED BY <2>4, <2>5, <2>6
<1> HIDE DEF T
<1>7. \A n \in 0..N : n \in T
  BY <1>5, <1>6, InductionTo
<1> QED BY <1>7, <1>3 DEF T

\* The same for all of them at once.
LEMMA JoinsGrowAt ==
  ASSUME NEW B, NEW N \in Nat, NEW ss, NEW H, \A k \in 1..N : ss[k] \in Seq(B), Joins(ss, N, H)
  PROVE  \A k \in 1..N : \A j \in 1..Len(ss[k]) : \A n \in k..N :
             Len(H[k - 1]) + j <= Len(H[n]) /\ H[n][Len(H[k - 1]) + j] = ss[k][j]
BY JoinsGrow

\* FlattenSeq joins them.
LEMMA FlatJoins ==
  ASSUME NEW B, NEW N \in Nat, NEW ss \in [1..N -> Seq(B)]
  PROVE  \E H : Joins(ss, N, H) /\ FlattenSeq(ss) = H[N]
<1>0. ss \in Seq(Seq(B)) /\ Len(ss) = N
  OBVIOUS
<1>1. CASE N = 0
  <2>1. FlattenSeq(ss) = <<>>
    BY <1>1, <1>0 DEF FlattenSeq
  <2> DEFINE H == [n \in 0..0 |-> <<>>]
  <2>2. Joins(ss, N, H) /\ FlattenSeq(ss) = H[N]
    BY <2>1, <1>1 DEF Joins
  <2> HIDE DEF H
  <2> QED BY <2>2
<1>2. CASE N # 0
  <2> DEFINE step == [n \in 1..N |-> [x \in Seq(B) |-> x \o ss[n]]]
             Good(h) == h = [i \in 1..N |-> IF i = 1 THEN ss[i] ELSE h[i - 1] \o ss[i]]
  <2>1. \E h : Good(h)
    <3>1. \A n \in 1..N : ss[n] \in Seq(B)
      OBVIOUS
    <3>2. \A n \in 1..N, x \in Seq(B) : step[n][x] = x \o ss[n] /\ x \o ss[n] \in Seq(B)
      BY <3>1, ConcatProperties
    <3>3. <<>> \in Seq(B)
      OBVIOUS
    <3> HIDE DEF step
    <3>4. PICK f \in [0..N -> Seq(B)] : f[0] = <<>> /\ \A n \in 1..N : f[n] = step[n][f[n - 1]]
      <4>1. StepsIn(step, N, Seq(B))
        BY <3>2, Zenon DEF StepsIn
      <4>2. \E f \in [0..N -> Seq(B)] : Unfolds(f, N, <<>>, step)
        BY <4>1, <3>3, RecursionTo, Zenon
      <4> QED BY <4>2, Zenon DEF Unfolds
    <3> DEFINE h == [i \in 1..N |-> f[i]]
    <3>5. \A n \in 1..N : f[n - 1] \in Seq(B) /\ f[n] = f[n - 1] \o ss[n]
      <4> TAKE n \in 1..N
      <4>1. n - 1 \in 0..N
        OBVIOUS
      <4>2. f[n - 1] \in Seq(B)
        BY <4>1, <3>4, Zenon
      <4> QED BY <4>2, <3>2, <3>4, Zenon
    <3>6. \A i \in 1..N : h[i] = IF i = 1 THEN ss[i] ELSE h[i - 1] \o ss[i]
      <4> TAKE i \in 1..N
      <4>1. CASE i = 1
        <5>1. h[i] = f[1 - 1] \o ss[1] /\ i - 0 = 1
          BY <4>1, <3>5
        <5>2. f[1 - 1] = <<>>
          BY <3>4
        <5>3. <<>> \o ss[1] = ss[1]
          BY <3>1, <4>1, ConcatEmptySeq, Zenon
        <5> QED BY <5>1, <5>2, <5>3, <4>1, Zenon
      <4>2. CASE i # 1
        <5>1. i - 1 \in 1..N
          BY <4>2
        <5> QED BY <5>1, <4>2, <3>5
      <4> QED BY <4>1, <4>2
    <3>7. Good(h)
      BY <3>6
    <3> HIDE DEF h, Good
    <3> QED BY <3>7
  <2> DEFINE h == CHOOSE h : Good(h)
  <2>2. Good(h)
    <3> HIDE DEF Good
    <3> QED BY <2>1
  <2>3. FlattenSeq(ss) = h[N]
    BY <1>2, <1>0 DEF FlattenSeq
  <2> HIDE DEF h
  <2> DEFINE H == [k \in 0..N |-> IF k = 0 THEN <<>> ELSE h[k]]
  <2>4. \A k \in 1..N : h[k] = IF k = 1 THEN ss[k] ELSE h[k - 1] \o ss[k]
    BY <2>2
  <2>5. ASSUME NEW k \in 1..N PROVE H[k] = H[k - 1] \o ss[k]
    <3>1. CASE k = 1
      <4>1. H[k] = ss[k] /\ H[k - 1] = <<>> /\ ss[k] \in Seq(B)
        BY <3>1, <2>4
      <4> QED BY <4>1, ConcatEmptySeq
    <3>2. CASE k # 1
      <4>1. k - 1 \in 0..N /\ k - 1 # 0
        BY <3>2
      <4>2. H[k - 1] = h[k - 1] /\ H[k] = h[k]
        BY <4>1
      <4> QED BY <4>2, <3>2, <2>4
    <3> QED BY <3>1, <3>2
  <2>6. H[0] = <<>> /\ FlattenSeq(ss) = H[N]
    BY <2>3, <1>2
  <2> HIDE DEF H
  <2>7. Joins(ss, N, H)
    BY <2>5, <2>6 DEF Joins
  <2> QED BY <2>6, <2>7
<1> QED BY <1>1, <1>2

\* What is appended to short sequences.
LEMMA ShortAppends ==
  ASSUME NEW x, NEW y, NEW z
  PROVE  Append(<<>>, x) = <<x>> /\ Append(<<x>>, y) = <<x, y>> /\ Append(<<x, y>>, z) = <<x, y, z>>
<1>1. Append(<<>>, x) = <<x>>
  OBVIOUS
<1>2. Append(<<x>>, y) = <<x, y>>
  <2> PICK B, s : B = {x, y} /\ s = <<x>>
    OBVIOUS
  <2>1. s \in Seq(B) /\ y \in B /\ Len(s) = 1 /\ s[1] = x
    OBVIOUS
  <2>2. /\ Append(s, y) \in Seq(B) /\ Len(Append(s, y)) = 2
        /\ Append(s, y)[1] = x /\ Append(s, y)[2] = y
    BY <2>1, AppendProperties
  <2> PICK u : u = Append(s, y)
    OBVIOUS
  <2> PICK v : v = <<x, y>>
    OBVIOUS
  <2>4. v \in Seq(B) /\ Len(v) = 2 /\ v[1] = x /\ v[2] = y
    OBVIOUS
  <2>5. \A i \in 1..2 : u[i] = v[i]
    BY <2>2, <2>4
  <2>6. u \in Seq(B) /\ Len(u) = 2
    BY <2>2
  <2>3. u = v
    BY <2>4, <2>5, <2>6, SeqEqual
  <2> QED BY <2>3
<1>3. Append(<<x, y>>, z) = <<x, y, z>>
  <2> PICK B, s : B = {x, y, z} /\ s = <<x, y>>
    OBVIOUS
  <2>1. s \in Seq(B) /\ z \in B /\ Len(s) = 2 /\ s[1] = x /\ s[2] = y
    OBVIOUS
  <2>2. /\ Append(s, z) \in Seq(B) /\ Len(Append(s, z)) = 3
        /\ Append(s, z)[1] = x /\ Append(s, z)[2] = y /\ Append(s, z)[3] = z
    BY <2>1, AppendProperties
  <2> PICK u : u = Append(s, z)
    OBVIOUS
  <2> PICK v : v = <<x, y, z>>
    OBVIOUS
  <2>4. v \in Seq(B) /\ Len(v) = 3 /\ v[1] = x /\ v[2] = y /\ v[3] = z
    OBVIOUS
  <2>5. \A i \in 1..3 : u[i] = v[i]
    BY <2>2, <2>4
  <2>6. u \in Seq(B) /\ Len(u) = 3
    BY <2>2
  <2>3. u = v
    BY <2>4, <2>5, <2>6, SeqEqual
  <2> QED BY <2>3
<1> QED BY <1>1, <1>2, <1>3

\* What is appended to the beginning of P.
LEMMA AppendGrows ==
  ASSUME NEW a \in Nat, NEW P
  PROVE  Append([k \in 1..a |-> P[k]], P[a + 1]) = [k \in 1..(a + 1) |-> P[k]]
OBVIOUS

\* What is left after f bytes.
Rest(b, f, c) == Len(c) = Len(b) - f /\ \A i \in 1..Len(c) : c[i] = b[f + i]

\* It is what SubSeq takes.
LEMMA RestIs ==
  ASSUME NEW B, NEW b \in Seq(B), NEW f \in Nat, f <= Len(b), NEW c, c = SubSeq(b, f + 1, Len(b))
  PROVE  Rest(b, f, c)
<1>2. Len(c) = Len(b) - f
  OBVIOUS
<1>3. \A i \in 1..(Len(b) - f) : c[i] = b[(f + 1) + i - 1] /\ (f + 1) + i - 1 = f + i
  OBVIOUS
<1> QED BY <1>2, <1>3 DEF Rest

---------------------------------------------------------------------------
(* The parser: what is cut and what is said, step by step                  *)

\* How lines end, and what bytes there are.
Ends == {<<LF>>, <<CR, LF>>}
Byte == (Line \X {1, 2}) \union {LF, CR}

\* How far the bytes have been cut, and how one more is.
CutState == [done : Seq(Seq(Byte)), piece : Seq(Byte)]

CutStep(bytes, n, x) ==
    IF bytes[n] = LF THEN [done |-> Append(x.done, x.piece), piece |-> <<>>]
    ELSE [done |-> x.done, piece |-> Append(x.piece, bytes[n])]

\* Pieces goes through the bytes one by one.
LEMMA PiecesAre ==
  ASSUME NEW bytes \in Seq(Byte)
  PROVE  \E cut : /\ cut[0] = [done |-> <<>>, piece |-> <<>>]
                  /\ \A n \in 1..Len(bytes) : cut[n] = CutStep(bytes, n, cut[n - 1])
                  /\ Pieces(bytes) = Append(cut[Len(bytes)].done, cut[Len(bytes)].piece)
<1> DEFINE N == Len(bytes)
           start == [done |-> <<>>, piece |-> <<>>]
           step == [n \in 1..N |-> [x \in CutState |-> CutStep(bytes, n, x)]]
           Value(g, n) ==
             IF n = 0 THEN [done |-> <<>>, piece |-> <<>>]
             ELSE LET before == g[n - 1]
                  IN  IF bytes[n] = LF THEN [done |-> Append(before.done, before.piece), piece |-> <<>>]
                      ELSE [done |-> before.done, piece |-> Append(before.piece, bytes[n])]
           Good(g) == g = [n \in 0..N |-> Value(g, n)]
<1>1. N \in Nat /\ \A n \in 1..N : bytes[n] \in Byte
  OBVIOUS
<1>2. \E g : Good(g)
  <2>1. start \in CutState
    BY DEF CutState
  <2>2. \A n \in 1..N : \A x \in CutState : CutStep(bytes, n, x) \in CutState
    BY <1>1 DEF CutState, CutStep
  <2>3. StepsIn(step, N, CutState)
    BY <2>2 DEF StepsIn
  <2> HIDE DEF start
  <2>4. PICK f \in [0..N -> CutState] : Unfolds(f, N, start, step)
    <3> HIDE DEF step, N
    <3> QED BY <1>1, <2>1, <2>3, RecursionTo, Zenon
  <2>5. ASSUME NEW n \in 1..N PROVE f[n] = CutStep(bytes, n, f[n - 1])
    <3>1. n - 1 \in 0..N
      OBVIOUS
    <3>2. f[n - 1] \in CutState
      BY <2>4, <3>1
    <3>3. f[n] = step[n][f[n - 1]]
      BY <2>4 DEF Unfolds
    <3> HIDE DEF N
    <3> QED BY <3>2, <3>3, Zenon
  <2>6. \A n \in 0..N : f[n] = Value(f, n)
    <3>1. f[0] = Value(f, 0)
      BY <2>4 DEF Unfolds, start
    <3>2. \A n \in 1..N : f[n] = Value(f, n)
      <4> TAKE n \in 1..N
      <4>1. n # 0
        OBVIOUS
      <4> QED BY <4>1, <2>5, Zenon DEF CutStep
    <3> HIDE DEF Value
    <3> QED BY <3>1, <3>2
  <2>7. Good(f)
    <3> HIDE DEF Value
    <3> QED BY <2>6
  <2> QED BY <2>7
<1> DEFINE cut == CHOOSE g : Good(g)
<1>3. Good(cut)
  <2> HIDE DEF Good
  <2> QED BY <1>2
<1>4. Pieces(bytes) = Append(cut[N].done, cut[N].piece)
  BY DEF Pieces
<1> HIDE DEF cut
<1>5. \A n \in 0..N : cut[n] = Value(cut, n)
  <2> HIDE DEF Value
  <2> QED BY <1>3
<1>6. cut[0] = start
  <2>1. cut[0] = Value(cut, 0)
    <3> HIDE DEF Value
    <3> QED BY <1>5, <1>1
  <2> QED BY <2>1, Zenon
<1>7. \A n \in 1..N : cut[n] = CutStep(bytes, n, cut[n - 1])
  <2> TAKE n \in 1..N
  <2>1. n \in 0..N /\ n # 0
    BY <1>1
  <2>2. cut[n] = Value(cut, n)
    BY <2>1, <1>5
  <2> QED BY <2>1, <2>2, Zenon DEF CutStep
<1> QED BY <1>4, <1>6, <1>7

\* What has been said after each frame.
LEMMA SaidIs ==
  ASSUME NEW N \in Nat, NEW frames, Len(frames) = N
  PROVE  /\ Said(frames)[0] = <<>>
         /\ \A k \in 1..N : Said(frames)[k] = IF Silent(Meaning(frames[k])) THEN Said(frames)[k - 1]
                                              ELSE Append(Said(frames)[k - 1], Meaning(frames[k]))
         /\ \A k \in 0..N : Said(frames)[k] \in Seq({Meaning(frames[n]) : n \in 1..N})
<1> DEFINE M == {Meaning(frames[n]) : n \in 1..N}
           step == [k \in 1..N |-> [x \in Seq(M) |-> IF Silent(Meaning(frames[k])) THEN x
                                                     ELSE Append(x, Meaning(frames[k]))]]
           Value(g, k) ==
             IF k = 0 THEN <<>>
             ELSE LET e == Meaning(frames[k]) IN IF Silent(e) THEN g[k - 1] ELSE Append(g[k - 1], e)
           Good(g) == g = [k \in 0..N |-> Value(g, k)]
<1>1. \E g : Good(g)
  <2>1. <<>> \in Seq(M)
    OBVIOUS
  <2>2. \A k \in 1..N : Meaning(frames[k]) \in M
    OBVIOUS
  <2>3. StepsIn(step, N, Seq(M))
    <3> HIDE DEF M
    <3> QED BY <2>2 DEF StepsIn
  <2>4. PICK f \in [0..N -> Seq(M)] : Unfolds(f, N, <<>>, step)
    <3> HIDE DEF step, M
    <3> QED BY <2>1, <2>3, RecursionTo, Zenon
  <2>5. ASSUME NEW k \in 1..N PROVE f[k] = Value(f, k)
    <3>1. k - 1 \in 0..N /\ k # 0
      OBVIOUS
    <3>2. f[k] = step[k][f[k - 1]] /\ f[k - 1] \in Seq(M)
      BY <2>4, <3>1 DEF Unfolds
    <3> QED BY <3>1, <3>2
  <2>6. f[0] = Value(f, 0)
    BY <2>4 DEF Unfolds
  <2>7. Good(f)
    <3> HIDE DEF Value
    <3> QED BY <2>5, <2>6
  <2> QED BY <2>7
<1> DEFINE said == CHOOSE g : Good(g)
<1>2. Good(said)
  <2> HIDE DEF Good
  <2> QED BY <1>1
<1>3. Said(frames) = said
  BY DEF Said
<1> HIDE DEF said
<1>0. \A k \in 0..N : said[k] = Value(said, k)
  <2> HIDE DEF Value
  <2> QED BY <1>2
<1>4. said[0] = <<>>
  BY <1>0
<1>5. \A k \in 1..N : said[k] = IF Silent(Meaning(frames[k])) THEN said[k - 1]
                                ELSE Append(said[k - 1], Meaning(frames[k]))
  <2> TAKE k \in 1..N
  <2>1. k \in 0..N /\ k # 0
    OBVIOUS
  <2>2. said[k] = Value(said, k)
    BY <2>1, <1>0
  <2> QED BY <2>1, <2>2, Zenon
<1> DEFINE T == {k \in 0..N : said[k] \in Seq(M)}
<1>6. 0 \in T
  <2>1. <<>> \in Seq(M) /\ 0 \in 0..N
    OBVIOUS
  <2> QED BY <2>1, <1>4, Zenon
<1>7. ASSUME NEW n \in 0..(N - 1), n \in T PROVE n + 1 \in T
  <2>1. n + 1 \in 1..N /\ (n + 1) - 1 = n /\ said[n] \in Seq(M)
    BY <1>7
  <2>2. Meaning(frames[n + 1]) \in M
    BY <2>1
  <2> HIDE DEF M
  <2>3. said[n + 1] = said[n] \/ said[n + 1] = Append(said[n], Meaning(frames[n + 1]))
    BY <2>1, <1>5
  <2>4. said[n + 1] \in Seq(M)
    <3>1. Append(said[n], Meaning(frames[n + 1])) \in Seq(M)
      BY <2>1, <2>2, AppendProperties, Zenon
    <3> QED BY <3>1, <2>1, <2>3, Zenon
  <2> QED BY <2>1, <2>4
<1>8. \A k \in 0..N : k \in T
  <2> HIDE DEF T
  <2> QED BY <1>6, <1>7, InductionTo
<1> HIDE DEF M
<1>9. \A k \in 0..N : said[k] \in Seq(M)
  BY <1>8
<1> QED BY <1>3, <1>4, <1>5, <1>9 DEF M

---------------------------------------------------------------------------
(* The parser: the bytes of a frame, and its lines                         *)

\* A line of a frame takes 3 bytes, or 4 with a CR.
LEMMA LineIs ==
  ASSUME NEW l \in Line, NEW end \in Ends
  PROVE  /\ LineBytes(l, end) \in Seq(Byte) /\ Len(LineBytes(l, end)) = Len(end) + 2
         /\ LineBytes(l, end)[1] = <<l, 1>> /\ LineBytes(l, end)[2] = <<l, 2>>
         /\ LineBytes(l, end)[3] = end[1]
         /\ end = <<CR, LF>> => LineBytes(l, end)[4] = LF
         /\ end \in Seq(Byte) /\ Len(end) \in {1, 2}
<1>1. <<l, 1>> \in Byte /\ <<l, 2>> \in Byte /\ LF \in Byte /\ CR \in Byte
  BY DEF Byte
<1> PICK a, b, c, d : a = <<l, 1>> /\ b = <<l, 2>> /\ c = CR /\ d = LF
  OBVIOUS
<1>2. {a, b, c, d} \subseteq Byte
  BY <1>1
<1>3. LineBytes(l, end) = <<a, b>> \o end /\ end \in {<<d>>, <<c, d>>}
  BY DEF LineBytes, Ends
<1> HIDE DEF Byte
<1>4. <<a, b>> \in Seq(Byte) /\ end \in Seq(Byte) /\ Len(<<a, b>>) = 2
  BY <1>2, <1>3
<1>5. Len(end) \in {1, 2} /\ end[1] \in {c, d} /\ (end = <<c, d>> => end[2] = d /\ Len(end) = 2)
  BY <1>3
<1>6. /\ LineBytes(l, end) \in Seq(Byte) /\ Len(LineBytes(l, end)) = 2 + Len(end)
      /\ \A i \in 1..2 : LineBytes(l, end)[i] = <<a, b>>[i]
      /\ \A i \in 1..Len(end) : LineBytes(l, end)[2 + i] = end[i]
  BY <1>3, <1>4, JoinIs
<1>7. LineBytes(l, end)[1] = a /\ LineBytes(l, end)[2] = b
  BY <1>6
<1>8. LineBytes(l, end)[3] = end[1] /\ (Len(end) = 2 => LineBytes(l, end)[4] = end[2])
  BY <1>5, <1>6
<1> QED BY <1>4, <1>5, <1>6, <1>7, <1>8

\* Where the bytes of a frame are.
FrameAt(bytes, lines, end, w) ==
    /\ bytes \in Seq(Byte) /\ Len(bytes) = w * Len(lines) + Len(end)
    /\ \A k \in 1..Len(lines) :
         /\ bytes[w * (k - 1) + 1] = <<lines[k], 1>> /\ bytes[w * (k - 1) + 2] = <<lines[k], 2>>
         /\ bytes[w * (k - 1) + 3] = end[1]
         /\ w = 4 => bytes[w * (k - 1) + 4] = LF
    /\ bytes[w * Len(lines) + 1] = end[1]
    /\ w = 4 => bytes[w * Len(lines) + 2] = LF

\* The bytes of a frame are there.
LEMMA FrameIs ==
  ASSUME NEW lines \in Seq(Line), NEW end \in Ends, NEW w, w = Len(end) + 2
  PROVE  /\ w \in {3, 4} /\ (end = IF w = 3 THEN <<LF>> ELSE <<CR, LF>>)
         /\ FrameAt(FrameBytes(lines, end), lines, end, w)
<1> DEFINE m == Len(lines)
           ss == [k \in DOMAIN lines |-> LineBytes(lines[k], end)]
<1>1. m \in Nat /\ DOMAIN lines = 1..m /\ \A k \in 1..m : lines[k] \in Line
  OBVIOUS
<1>2. end = <<LF>> \/ end = <<CR, LF>>
  BY DEF Ends
<1>3. w \in {3, 4} /\ end = IF w = 3 THEN <<LF>> ELSE <<CR, LF>>
  <2> PICK c, d : c = CR /\ d = LF
    OBVIOUS
  <2>1. end = <<d>> \/ end = <<c, d>>
    BY <1>2
  <2>2. CASE end = <<d>>
    <3>1. w = 3
      BY <2>2
    <3> QED BY <3>1, <2>2
  <2>3. CASE end = <<c, d>>
    <3>1. w = 4
      BY <2>3
    <3> QED BY <3>1, <2>3
  <2> QED BY <2>1, <2>2, <2>3
<1>4. \A k \in 1..m : /\ ss[k] \in Seq(Byte) /\ Len(ss[k]) = w
                      /\ ss[k][1] = <<lines[k], 1>> /\ ss[k][2] = <<lines[k], 2>> /\ ss[k][3] = end[1]
                      /\ w = 4 => ss[k][4] = LF
  <2> TAKE k \in 1..m
  <2>1. ss[k] = LineBytes(lines[k], end) /\ lines[k] \in Line
    BY <1>1
  <2>2. w = 4 => end = <<CR, LF>>
    BY <1>3
  <2>3. /\ LineBytes(lines[k], end) \in Seq(Byte) /\ Len(LineBytes(lines[k], end)) = Len(end) + 2
        /\ LineBytes(lines[k], end)[1] = <<lines[k], 1>> /\ LineBytes(lines[k], end)[2] = <<lines[k], 2>>
        /\ LineBytes(lines[k], end)[3] = end[1]
        /\ end = <<CR, LF>> => LineBytes(lines[k], end)[4] = LF
    <3>1. lines[k] \in Line
      BY <2>1
    <3> HIDE DEF ss, m
    <3> QED BY <3>1, LineIs, Zenon
  <2> HIDE DEF ss, m
  <2> QED BY <2>1, <2>2, <2>3, Zenon
<1>5. /\ end \in Seq(Byte) /\ Len(end) \in {1, 2} /\ end[1] = (IF w = 3 THEN LF ELSE CR)
      /\ w = 4 => end[2] = LF /\ Len(end) = 2
  <2>1. LF \in Byte /\ CR \in Byte
    BY DEF Byte
  <2> PICK c, d : c = CR /\ d = LF
    OBVIOUS
  <2>2. c \in Byte /\ d \in Byte /\ end = IF w = 3 THEN <<d>> ELSE <<c, d>>
    BY <2>1, <1>3
  <2> HIDE DEF Byte
  <2> QED BY <2>2, <1>3
<1>6. PICK H : Joins(ss, m, H) /\ FlattenSeq(ss) = H[m]
  <2>1. ss \in [1..m -> Seq(Byte)]
    BY <1>1, <1>4
  <2> HIDE DEF ss, m
  <2> QED BY <1>1, <2>1, FlatJoins, Zenon
<1>7. \A k \in 0..m : H[k] \in Seq(Byte) /\ Len(H[k]) = w * k
  <2>1. \A k \in 0..m : H[k] \in Seq(Byte)
    <3> HIDE DEF ss, m
    <3> QED BY <1>1, <1>4, <1>6, JoinsAre
  <2> DEFINE T == {k \in 0..m : Len(H[k]) = w * k}
  <2>2. 0 \in T
    BY <1>6, <1>1, <1>3 DEF Joins
  <2>3. ASSUME NEW n \in 0..(m - 1), n \in T PROVE n + 1 \in T
    <3>1. n + 1 \in 1..m /\ (n + 1) - 1 = n /\ n \in 0..m /\ Len(H[n]) = w * n
      BY <2>3, <1>1
    <3> HIDE DEF ss, m
    <3>2. H[n + 1] = H[n] \o ss[n + 1] /\ H[n] \in Seq(Byte) /\ ss[n + 1] \in Seq(Byte) /\ Len(ss[n + 1]) = w
      <4>1. H[n + 1] = H[(n + 1) - 1] \o ss[n + 1]
        BY <3>1, <1>6, Zenon DEF Joins
      <4> QED BY <4>1, <3>1, <1>4, <2>1, Zenon
    <3>3. Len(H[n] \o ss[n + 1]) = Len(H[n]) + Len(ss[n + 1])
      <4>1. H[n] \in Seq(Byte) /\ ss[n + 1] \in Seq(Byte)
        BY <3>2, Zenon
      <4> QED BY <4>1, ConcatIs
    <3>4. Len(H[n + 1]) = w * n + w
      BY <3>1, <3>2, <3>3, Zenon
    <3>5. w * n + w = w * (n + 1)
      BY <1>3
    <3> QED BY <3>1, <3>4, <3>5
  <2>4. \A k \in 0..m : k \in T
    <3> HIDE DEF T, m
    <3> QED BY <1>1, <2>2, <2>3, InductionTo
  <2> QED BY <2>1, <2>4
<1>8. \A k \in 1..m : \A j \in 1..w : w * (k - 1) + j <= w * m /\ H[m][w * (k - 1) + j] = ss[k][j]
  <2> TAKE k \in 1..m
  <2> TAKE j \in 1..w
  <2>1. k - 1 \in 0..m /\ m \in k..m /\ m \in 0..m
    BY <1>1
  <2> HIDE DEF ss, m
  <2>2. Len(H[k - 1]) = w * (k - 1) /\ Len(H[m]) = w * m /\ j \in 1..Len(ss[k])
    BY <2>1, <1>4, <1>7, Zenon
  <2>3. Len(H[k - 1]) + j <= Len(H[m]) /\ H[m][Len(H[k - 1]) + j] = ss[k][j]
    <3>1. \A n \in k..m : Len(H[k - 1]) + j <= Len(H[n]) /\ H[n][Len(H[k - 1]) + j] = ss[k][j]
      <4>1. m \in Nat /\ \A i \in 1..m : ss[i] \in Seq(Byte)
        BY <1>1, <1>4, Zenon
      <4>2. Joins(ss, m, H) /\ k \in 1..m /\ j \in 1..Len(ss[k])
        BY <1>6, <2>2, Zenon
      <4>3. \A i \in 1..m : \A a \in 1..Len(ss[i]) : \A n \in i..m :
             Len(H[i - 1]) + a <= Len(H[n]) /\ H[n][Len(H[i - 1]) + a] = ss[i][a]
        BY <4>1, <4>2, JoinsGrowAt
      <4> QED BY <4>2, <4>3, Zenon
    <3> QED BY <3>1, <2>1, Zenon
  <2> QED BY <2>2, <2>3, Zenon
<1> DEFINE F == FrameBytes(lines, end)
<1>9. /\ F \in Seq(Byte) /\ Len(F) = w * m + Len(end)
      /\ \A i \in 1..(w * m) : F[i] = H[m][i]
      /\ \A i \in 1..Len(end) : F[w * m + i] = end[i]
  <2>1. F = H[m] \o end /\ H[m] \in Seq(Byte) /\ Len(H[m]) = w * m
    <3>1. F = FlattenSeq(ss) \o end
      BY Zenon DEF FrameBytes
    <3>2. m \in 0..m
      BY <1>1
    <3> HIDE DEF F, ss, m
    <3> QED BY <3>1, <3>2, <1>6, <1>7, Zenon
  <2>2. /\ H[m] \o end \in Seq(Byte) /\ Len(H[m] \o end) = Len(H[m]) + Len(end)
        /\ \A i \in 1..Len(H[m]) : (H[m] \o end)[i] = H[m][i]
        /\ \A i \in 1..Len(end) : (H[m] \o end)[Len(H[m]) + i] = end[i]
    <3>1. H[m] \in Seq(Byte) /\ end \in Seq(Byte)
      BY <2>1, <1>5, Zenon
    <3> HIDE DEF m, F, ss
    <3> QED BY <3>1, ConcatIs
  <2> HIDE DEF m, F
  <2> QED BY <2>1, <2>2, Zenon
<1> HIDE DEF F, ss
<1>10. \A k \in 1..m : \A j \in 1..w : F[w * (k - 1) + j] = ss[k][j]
  <2> TAKE k \in 1..m
  <2> TAKE j \in 1..w
  <2>1. w * (k - 1) + j \in 1..(w * m)
    <3>1. w * (k - 1) + j <= w * m /\ w * (k - 1) + j \in Nat /\ w * (k - 1) + j > 0 /\ w * m \in Nat
      BY <1>8, <1>3, <1>1
    <3> QED BY <3>1
  <2> QED BY <2>1, <1>8, <1>9, Zenon
<1>11. \A k \in 1..m :
         /\ F[w * (k - 1) + 1] = <<lines[k], 1>> /\ F[w * (k - 1) + 2] = <<lines[k], 2>>
         /\ F[w * (k - 1) + 3] = end[1]
         /\ w = 4 => F[w * (k - 1) + 4] = LF
  <2> TAKE k \in 1..m
  <2>1. 1 \in 1..w /\ 2 \in 1..w /\ 3 \in 1..w /\ (w = 4 => 4 \in 1..w)
    BY <1>3
  <2> HIDE DEF m
  <2> QED BY <2>1, <1>4, <1>10, Zenon
<1>12. F[w * m + 1] = end[1] /\ (w = 4 => F[w * m + 2] = LF)
  BY <1>5, <1>9
<1> QED BY <1>3, <1>9, <1>11, <1>12 DEF FrameAt, F

\* The bytes of a frame before its end.
BodyAt(b, lines, w) ==
    /\ b \in Seq(Byte) /\ Len(b) = w * (Len(lines) - 1) + 2
    /\ \A k \in 1..Len(lines) : b[w * (k - 1) + 1] = <<lines[k], 1>> /\ b[w * (k - 1) + 2] = <<lines[k], 2>>
    /\ \A k \in 1..Len(lines) - 1 :
         /\ b[w * (k - 1) + 3] = IF w = 3 THEN LF ELSE CR
         /\ w = 4 => b[w * (k - 1) + 4] = LF

\* The bytes of a line, of either kind, are decoded to the line.
LEMMA TextIs ==
  ASSUME NEW l \in Line
  PROVE  Text(<<<<l, 1>>, <<l, 2>>>>) = l /\ Text(<<<<l, 1>>, <<l, 2>>, CR>>) = l
<1> PICK a, b, c : a = <<l, 1>> /\ b = <<l, 2>> /\ c = CR
  OBVIOUS
<1>1. a[1] = l /\ b[1] = l /\ a # c /\ b # c
  BY DEF CR
<1>2. Text(<<a, b>>) = l
  <2>1. Last(<<a, b>>) = b /\ <<a, b>> # <<>> /\ Len(<<a, b>>) = 2
    BY DEF Last
  <2> QED BY <1>1, <2>1 DEF Text
<1>3. Text(<<a, b, c>>) = l
  <2>1. Last(<<a, b, c>>) = c /\ <<a, b, c>> # <<>>
    BY DEF Last
  <2>2. Front(<<a, b, c>>) = <<a, b>> /\ Len(<<a, b>>) = 2
    <3>1. Front(<<a, b, c>>) = SubSeq(<<a, b, c>>, 1, 2)
      BY DEF Front
    <3>2. SubSeq(<<a, b, c>>, 1, 2) = [i \in 1..2 |-> <<a, b, c>>[i]]
      OBVIOUS
    <3>3. [i \in 1..2 |-> <<a, b, c>>[i]] = <<a, b>>
      OBVIOUS
    <3> QED BY <3>1, <3>2, <3>3
  <2> PICK t : t = <<a, b>>
    OBVIOUS
  <2>3. t[1] = a /\ t[2] = b /\ Len(t) = 2
    OBVIOUS
  <2>4. Text(<<a, b, c>>) = IF Len(t) = 2 /\ t[1][1] = t[2][1] THEN t[1][1] ELSE ""
    BY <2>1, <2>2, Zenon DEF Text
  <2> QED BY <2>3, <2>4, <1>1
<1> QED BY <1>2, <1>3, Zenon

\* What is cut from the bytes of a frame are its lines.
LEMMA LinesAre ==
  ASSUME NEW lines \in Seq(Line) \ {<<>>}, NEW w \in {3, 4}, NEW b, BodyAt(b, lines, w)
  PROVE  Lines(b) = lines
<1> DEFINE m == Len(lines)
           P == [k \in 1..m |-> IF w = 3 THEN <<<<lines[k], 1>>, <<lines[k], 2>>>>
                                ELSE <<<<lines[k], 1>>, <<lines[k], 2>>, CR>>]
           Done(a) == [k \in 1..a |-> P[k]]
<1>1. m \in Nat \ {0} /\ \A k \in 1..m : lines[k] \in Line
  OBVIOUS
<1>2. PICK cut : /\ cut[0] = [done |-> <<>>, piece |-> <<>>]
                 /\ \A n \in 1..Len(b) : cut[n] = CutStep(b, n, cut[n - 1])
                 /\ Pieces(b) = Append(cut[Len(b)].done, cut[Len(b)].piece)
  BY PiecesAre DEF BodyAt
<1>3. \A l : <<l, 1>> # LF /\ <<l, 2>> # LF
  BY DEF LF
<1>4. CR # LF
  BY DEF LF, CR
<1>5. \A n \in 1..Len(b) :
         /\ b[n] = LF => cut[n] = [done |-> Append(cut[n - 1].done, cut[n - 1].piece), piece |-> <<>>]
         /\ b[n] # LF => cut[n] = [done |-> cut[n - 1].done, piece |-> Append(cut[n - 1].piece, b[n])]
  BY <1>2, Zenon DEF CutStep
<1>6. Len(b) = w * (m - 1) + 2
  BY DEF BodyAt
<1>7. \A a \in 0..(m - 1) : /\ b[w * a + 1] = <<lines[a + 1], 1>> /\ b[w * a + 2] = <<lines[a + 1], 2>>
                            /\ w * a + 1 \in 1..Len(b) /\ w * a + 2 \in 1..Len(b)
                            /\ (w * a + 1) - 1 = w * a /\ (w * a + 2) - 1 = w * a + 1
  <2> TAKE a \in 0..(m - 1)
  <2>1. a + 1 \in 1..m /\ (a + 1) - 1 = a
    BY <1>1
  <2>2. b[w * a + 1] = <<lines[a + 1], 1>> /\ b[w * a + 2] = <<lines[a + 1], 2>>
    BY <2>1 DEF BodyAt
  <2>3. w * a \in Nat /\ w * a <= w * (m - 1) /\ w * (m - 1) \in Nat
    BY <1>1
  <2> HIDE DEF m
  <2>0. PICK x, y : x = w * a /\ y = w * (m - 1)
    OBVIOUS
  <2>4. x \in Nat /\ y \in Nat /\ x <= y /\ Len(b) = y + 2
    BY <2>0, <2>3, <1>6, Zenon
  <2>5. x + 1 \in 1..Len(b) /\ x + 2 \in 1..Len(b) /\ (x + 1) - 1 = x /\ (x + 2) - 1 = x + 1
    BY <2>4
  <2> QED BY <2>0, <2>2, <2>5, Zenon
<1>8. \A a \in 0..(m - 2) : /\ b[w * a + 3] = IF w = 3 THEN LF ELSE CR
                            /\ w = 4 => b[w * a + 4] = LF
                            /\ w * a + 3 \in 1..Len(b) /\ (w = 4 => w * a + 4 \in 1..Len(b))
                            /\ (w * a + 3) - 1 = w * a + 2 /\ (w * a + 4) - 1 = w * a + 3
  <2> TAKE a \in 0..(m - 2)
  <2>1. a + 1 \in 1..(m - 1) /\ (a + 1) - 1 = a
    BY <1>1
  <2>2. b[w * a + 3] = (IF w = 3 THEN LF ELSE CR) /\ (w = 4 => b[w * a + 4] = LF)
    BY <2>1 DEF BodyAt
  <2>3. w * a \in Nat /\ w * (m - 1) \in Nat /\ w * a + w <= w * (m - 1)
    BY <1>1
  <2> HIDE DEF m
  <2>0. PICK x, y : x = w * a /\ y = w * (m - 1)
    OBVIOUS
  <2>4. x \in Nat /\ y \in Nat /\ x + w <= y /\ Len(b) = y + 2
    BY <2>0, <2>3, <1>6, Zenon
  <2>5. /\ x + 3 \in 1..Len(b) /\ (w = 4 => x + 4 \in 1..Len(b))
        /\ (x + 3) - 1 = x + 2 /\ (x + 4) - 1 = x + 3
    BY <2>4
  <2> QED BY <2>0, <2>2, <2>5, Zenon
\* The first two bytes of a line.
<1>9. ASSUME NEW a \in 0..(m - 1), cut[w * a] = [done |-> Done(a), piece |-> <<>>]
      PROVE  cut[w * a + 2] = [done |-> Done(a), piece |-> <<<<lines[a + 1], 1>>, <<lines[a + 1], 2>>>>]
  <2> PICK x, y, d : x = <<lines[a + 1], 1>> /\ y = <<lines[a + 1], 2>> /\ d = Done(a)
    OBVIOUS
  <2> HIDE DEF Done, m
  <2>1. b[w * a + 1] # LF /\ b[w * a + 2] # LF
    BY <1>3, <1>7, Zenon
  <2>2. cut[w * a + 1] = [done |-> cut[w * a].done, piece |-> Append(cut[w * a].piece, x)]
    BY <2>1, <1>5, <1>7
  <2>3. cut[w * a + 1] = [done |-> d, piece |-> <<x>>]
    BY <2>2, <1>9
  <2>4. cut[w * a + 2] = [done |-> cut[w * a + 1].done, piece |-> Append(cut[w * a + 1].piece, y)]
    BY <2>1, <1>5, <1>7
  <2>5. cut[w * a + 2] = [done |-> d, piece |-> <<x, y>>]
    <3>1. cut[w * a + 1].done = d /\ cut[w * a + 1].piece = <<x>>
      BY <2>3
    <3>2. Append(<<x>>, y) = <<x, y>>
      BY ShortAppends
    <3> QED BY <2>4, <3>1, <3>2, Zenon
  <2> QED BY <2>5, Zenon
<1> DEFINE T == {a \in 0..(m - 1) : cut[w * a] = [done |-> Done(a), piece |-> <<>>]}
<1>10. 0 \in T
  <2>1. Done(0) = <<>> /\ w * 0 = 0 /\ 0 \in 0..(m - 1)
    BY <1>1
  <2> QED BY <2>1, <1>2, Zenon
<1>11. ASSUME NEW a \in 0..((m - 1) - 1), a \in T PROVE a + 1 \in T
  <2>1. a \in 0..(m - 1) /\ a \in 0..(m - 2) /\ a + 1 \in 0..(m - 1) /\ a + 1 \in 1..m /\ a \in Nat
    BY <1>1
  <2>2. cut[w * a] = [done |-> Done(a), piece |-> <<>>]
    BY <1>11
  <2>3. cut[w * a + 2] = [done |-> Done(a), piece |-> <<<<lines[a + 1], 1>>, <<lines[a + 1], 2>>>>]
    <3> HIDE DEF Done, m
    <3> QED BY <2>1, <2>2, <1>9, Zenon
  <2>4. Append(Done(a), P[a + 1]) = Done(a + 1)
    <3> HIDE DEF P
    <3> QED BY <2>1, AppendGrows
  <2>5. cut[w * (a + 1)] = [done |-> Append(Done(a), P[a + 1]), piece |-> <<>>]
    <3> PICK x, y, c, d : x = <<lines[a + 1], 1>> /\ y = <<lines[a + 1], 2>> /\ c = CR /\ d = Done(a)
      OBVIOUS
    <3>1. P[a + 1] = IF w = 3 THEN <<x, y>> ELSE <<x, y, c>>
      BY <2>1
    <3> HIDE DEF Done, P, m
    <3>2. CASE w = 3
      <4>1. w * a + 3 \in 1..Len(b) /\ b[w * a + 3] = LF /\ (w * a + 3) - 1 = w * a + 2
        BY <2>1, <1>8, <3>2
      <4>2. cut[w * a + 3] = [done |-> Append(cut[w * a + 2].done, cut[w * a + 2].piece), piece |-> <<>>]
        BY <4>1, <1>5
      <4>3. cut[w * a + 3] = [done |-> Append(d, <<x, y>>), piece |-> <<>>]
        BY <4>2, <2>3
      <4>4. w * (a + 1) = w * a + 3
        BY <3>2, <2>1
      <4> QED BY <4>3, <4>4, <3>1, <3>2, Zenon
    <3>3. CASE w = 4
      <4>1. /\ w * a + 3 \in 1..Len(b) /\ b[w * a + 3] = CR /\ (w * a + 3) - 1 = w * a + 2
            /\ w * a + 4 \in 1..Len(b) /\ b[w * a + 4] = LF /\ (w * a + 4) - 1 = w * a + 3
        BY <2>1, <1>8, <3>3
      <4>2. cut[w * a + 3] = [done |-> cut[w * a + 2].done, piece |-> Append(cut[w * a + 2].piece, c)]
        BY <4>1, <1>4, <1>5
      <4>3. cut[w * a + 3] = [done |-> d, piece |-> <<x, y, c>>]
        <5>1. cut[w * a + 2].done = d /\ cut[w * a + 2].piece = <<x, y>>
          BY <2>3
        <5>2. Append(<<x, y>>, c) = <<x, y, c>>
          BY ShortAppends
        <5> QED BY <4>2, <5>1, <5>2, Zenon
      <4>4. cut[w * a + 4] = [done |-> Append(cut[w * a + 3].done, cut[w * a + 3].piece), piece |-> <<>>]
        BY <4>1, <1>5
      <4>5. cut[w * a + 4] = [done |-> Append(d, <<x, y, c>>), piece |-> <<>>]
        BY <4>3, <4>4
      <4>6. w * (a + 1) = w * a + 4
        BY <3>3, <2>1
      <4>7. w # 3
        BY <3>3
      <4> QED BY <4>5, <4>6, <4>7, <3>1, Zenon
    <3> QED BY <3>2, <3>3
  <2> HIDE DEF Done, P, m
  <2> QED BY <2>1, <2>4, <2>5
<1>12. \A a \in 0..(m - 1) : a \in T
  <2>1. m - 1 \in Nat
    BY <1>1
  <2> HIDE DEF T, m
  <2> QED BY <2>1, <1>10, <1>11, InductionTo
<1>13. Pieces(b) = Append(Done(m - 1), <<<<lines[m], 1>>, <<lines[m], 2>>>>)
  <2>1. m - 1 \in 0..(m - 1) /\ (m - 1) + 1 = m
    BY <1>1
  <2>2. cut[w * (m - 1)] = [done |-> Done(m - 1), piece |-> <<>>]
    BY <2>1, <1>12
  <2>3. cut[w * (m - 1) + 2] = [done |-> Done(m - 1), piece |-> <<<<lines[m], 1>>, <<lines[m], 2>>>>]
    <3>1. cut[w * (m - 1) + 2]
             = [done |-> Done(m - 1), piece |-> <<<<lines[(m - 1) + 1], 1>>, <<lines[(m - 1) + 1], 2>>>>]
      <4> HIDE DEF Done, m
      <4> QED BY <2>1, <2>2, <1>9, Zenon
    <3> HIDE DEF Done, m
    <3> QED BY <3>1, <2>1, Zenon
  <2> PICK z, d : z = <<<<lines[m], 1>>, <<lines[m], 2>>>> /\ d = Done(m - 1)
    OBVIOUS
  <2> HIDE DEF Done, m
  <2>4. cut[Len(b)] = [done |-> d, piece |-> z]
    BY <2>3, <1>6, Zenon
  <2>5. cut[Len(b)].done = d /\ cut[Len(b)].piece = z
    BY <2>4
  <2> QED BY <2>5, <1>2, Zenon
<1>14. /\ Pieces(b) = [k \in 1..m |-> Pieces(b)[k]]
       /\ \A k \in 1..m : Pieces(b)[k] = P[k] \/ Pieces(b)[k] = <<<<lines[k], 1>>, <<lines[k], 2>>>>
  <2> PICK z : z = <<<<lines[m], 1>>, <<lines[m], 2>>>>
    OBVIOUS
  <2> HIDE DEF P
  <2>1. Append(Done(m - 1), z) = [k \in 1..m |-> IF k = m THEN z ELSE P[k]]
    BY <1>1
  <2> HIDE DEF Done, m
  <2>2. Pieces(b) = [k \in 1..m |-> IF k = m THEN z ELSE P[k]]
    BY <2>1, <1>13, Zenon
  <2>3. \A k \in 1..m : Pieces(b)[k] = P[k] \/ (k = m /\ Pieces(b)[k] = z)
    BY <2>2
  <2> QED BY <2>2, <2>3
<1>15. \A k \in 1..m : Text(Pieces(b)[k]) = lines[k]
  <2> TAKE k \in 1..m
  <2>1. /\ Text(<<<<lines[k], 1>>, <<lines[k], 2>>>>) = lines[k]
        /\ Text(<<<<lines[k], 1>>, <<lines[k], 2>>, CR>>) = lines[k]
    BY <1>1, TextIs
  <2>2. \/ P[k] = <<<<lines[k], 1>>, <<lines[k], 2>>>>
        \/ P[k] = <<<<lines[k], 1>>, <<lines[k], 2>>, CR>>
    BY Zenon
  <2> HIDE DEF P, m
  <2> QED BY <1>14, <2>1, <2>2, Zenon
<1>16. DOMAIN Pieces(b) = 1..m
  BY <1>14
<1>17. Lines(b) = [k \in 1..m |-> Text(Pieces(b)[k])]
  <2> HIDE DEF m
  <2> QED BY <1>16, Zenon DEF Lines
<1>18. Lines(b) = [k \in 1..m |-> lines[k]]
  <2> HIDE DEF m, P, Done
  <2> QED BY <1>15, <1>17
<1> QED BY <1>18

---------------------------------------------------------------------------
(* The parser: where a frame ends                                          *)

\* How a boundary looks.
LEMMA WidthIs ==
  ASSUME NEW b \in Seq(Byte), NEW i \in 1..Len(b)
  PROVE  Width(b, i) = IF i < Len(b) /\ b[i] = LF /\ b[i + 1] = LF THEN 2
                       ELSE IF i + 3 <= Len(b) /\ b[i] = CR /\ b[i + 1] = LF /\ b[i + 2] = CR /\ b[i + 3] = LF
                            THEN 4 ELSE 0
<1> PICK c, d : c = CR /\ d = LF
  OBVIOUS
<1>1. ASSUME i < Len(b)
      PROVE  SubSeq(b, i, i + 1) = <<d, d>> <=> b[i] = d /\ b[i + 1] = d
  <2>1. SubSeq(b, i, i + 1) = [k \in 1..2 |-> b[i + k - 1]]
    BY <1>1
  <2>2. [k \in 1..2 |-> b[i + k - 1]] = <<d, d>> <=> b[i] = d /\ b[i + 1] = d
    OBVIOUS
  <2> QED BY <2>1, <2>2
<1>2. ASSUME i + 3 <= Len(b)
      PROVE  SubSeq(b, i, i + 3) = <<c, d, c, d>> <=> b[i] = c /\ b[i + 1] = d /\ b[i + 2] = c /\ b[i + 3] = d
  <2>1. SubSeq(b, i, i + 3) = [k \in 1..4 |-> b[i + k - 1]]
    BY <1>2
  <2>2. [k \in 1..4 |-> b[i + k - 1]] = <<c, d, c, d>>
        <=> b[i] = c /\ b[i + 1] = d /\ b[i + 2] = c /\ b[i + 3] = d
    OBVIOUS
  <2> QED BY <2>1, <2>2
<1> QED BY <1>1, <1>2, Zenon DEF Width

\* The first boundary in b is the end of the frame F of the lines.
EndsFirst(b, F, lines) ==
    /\ F \in Seq(Byte) /\ Len(F) \in Nat \ {0}
    /\ Boundaries(b) # {} <=> Len(F) <= Len(b)
    /\ Len(F) <= Len(b) => /\ Lines(SubSeq(b, 1, FindFrameBoundary(b) - 1)) = lines
                           /\ FindFrameBoundary(b) + Width(b, FindFrameBoundary(b)) = Len(F) + 1

\* In bytes that begin as a frame does, the first boundary is the end of the
\* frame, which is found when the whole frame is there.
LEMMA BoundaryIs ==
  ASSUME NEW lines \in Seq(Line) \ {<<>>}, NEW end \in Ends, NEW F, F = FrameBytes(lines, end),
         NEW b \in Seq(Byte), \A j \in 1..Len(b) : j <= Len(F) => b[j] = F[j]
  PROVE  EndsFirst(b, F, lines)
<1> DEFINE m == Len(lines)
<1>1. m \in Nat \ {0} /\ Len(b) \in Nat
  OBVIOUS
<1> PICK w : w = Len(end) + 2
  OBVIOUS
<1>2. w \in {3, 4} /\ end = (IF w = 3 THEN <<LF>> ELSE <<CR, LF>>) /\ FrameAt(F, lines, end, w)
  <2>1. lines \in Seq(Line)
    OBVIOUS
  <2> QED BY <2>1, FrameIs
<1>3. end[1] = (IF w = 3 THEN LF ELSE CR) /\ Len(end) = w - 2
  <2> PICK c, d : c = CR /\ d = LF
    OBVIOUS
  <2>1. end = IF w = 3 THEN <<d>> ELSE <<c, d>>
    BY <1>2
  <2>2. CASE w = 3
    BY <2>1, <2>2
  <2>3. CASE w = 4
    BY <2>1, <2>3
  <2> QED BY <1>2, <2>2, <2>3
<1>4. PICK p \in Nat : p = w * (m - 1) + 2
  BY <1>1, <1>2
<1>5. F \in Seq(Byte) /\ Len(F) = p + 2 * (w - 2)
  <2>1. F \in Seq(Byte) /\ Len(F) = w * m + (w - 2)
    BY <1>2, <1>3, Zenon DEF FrameAt
  <2> HIDE DEF m
  <2>2. CASE w = 3
    BY <2>1, <2>2, <1>1, <1>4
  <2>3. CASE w = 4
    BY <2>1, <2>3, <1>1, <1>4
  <2> QED BY <1>2, <2>2, <2>3
<1>6. ASSUME NEW q \in 0..(m - 1)
      PROVE  /\ F[w * q + 1] = <<lines[q + 1], 1>> /\ F[w * q + 2] = <<lines[q + 1], 2>>
             /\ F[w * q + 3] = (IF w = 3 THEN LF ELSE CR) /\ (w = 4 => F[w * q + 4] = LF)
  <2>1. q + 1 \in 1..m /\ (q + 1) - 1 = q
    BY <1>1
  <2>2. /\ F[w * ((q + 1) - 1) + 1] = <<lines[q + 1], 1>> /\ F[w * ((q + 1) - 1) + 2] = <<lines[q + 1], 2>>
        /\ F[w * ((q + 1) - 1) + 3] = end[1] /\ (w = 4 => F[w * ((q + 1) - 1) + 4] = LF)
    BY <2>1, <1>2, Zenon DEF FrameAt
  <2> QED BY <2>1, <2>2, <1>3, Zenon
<1>7. F[w * m + 1] = (IF w = 3 THEN LF ELSE CR) /\ (w = 4 => F[w * m + 2] = LF)
  BY <1>2, <1>3, Zenon DEF FrameAt
<1>8. \A x : <<x, 1>> # LF /\ <<x, 1>> # CR /\ <<x, 2>> # LF /\ <<x, 2>> # CR
  BY DEF LF, CR
<1>9. LF # CR
  BY DEF LF, CR
\* The bytes at the end.
<1>10. /\ w = 3 => Len(F) = p + 2 /\ F[p + 1] = LF /\ F[p + 2] = LF
       /\ w = 4 => Len(F) = p + 4 /\ F[p + 1] = CR /\ F[p + 2] = LF /\ F[p + 3] = CR /\ F[p + 4] = LF
  <2>1. /\ F[w * (m - 1) + 3] = (IF w = 3 THEN LF ELSE CR) /\ (w = 4 => F[w * (m - 1) + 4] = LF)
    <3>1. m - 1 \in 0..(m - 1)
      BY <1>1
    <3> HIDE DEF m
    <3> QED BY <3>1, <1>6, Zenon
  <2>2. w = 3 => p + 1 = w * (m - 1) + 3 /\ p + 2 = w * m + 1
    BY <1>1, <1>4
  <2>3. w = 4 => p + 1 = w * (m - 1) + 3 /\ p + 2 = w * (m - 1) + 4 /\ p + 3 = w * m + 1 /\ p + 4 = w * m + 2
    BY <1>1, <1>4
  <2>4. CASE w = 3
    BY <2>1, <2>2, <2>4, <1>5, <1>7
  <2>5. CASE w = 4
    BY <2>1, <2>3, <2>5, <1>5, <1>7
  <2> QED BY <2>4, <2>5, <1>2
\* No boundary lies before it.
<1>11. ASSUME NEW j \in 1..Len(b), j <= p PROVE Width(b, j) = 0
  <2>1. PICK q \in 0..(m - 1), r \in 1..w : j = w * q + r
    <3>1. CASE w = 3
      <4>1. /\ (j - 1) \div 3 \in 0..(m - 1) /\ ((j - 1) % 3) + 1 \in 1..3
            /\ j = 3 * ((j - 1) \div 3) + (((j - 1) % 3) + 1)
        <5>1. j - 1 \in Nat /\ j - 1 < 3 * (m - 1) + 2
          BY <1>11, <1>1, <1>4, <3>1
        <5>2. m - 1 \in Nat
          BY <1>1
        <5>0. PICK x, y : x = j - 1 /\ y = m - 1
          OBVIOUS
        <5>3. /\ x \div 3 \in 0..y /\ (x % 3) + 1 \in 1..3
              /\ x + 1 = 3 * (x \div 3) + ((x % 3) + 1)
          BY <5>0, <5>1, <5>2
        <5>4. j = x + 1
          BY <5>0, <5>1
        <5> QED BY <5>0, <5>3, <5>4, Zenon
      <4> HIDE DEF m
      <4> PICK x, y : x = (j - 1) \div 3 /\ y = ((j - 1) % 3) + 1
        OBVIOUS
      <4>2. x \in 0..(m - 1) /\ y \in 1..w /\ j = w * x + y
        BY <4>1, <3>1, Zenon
      <4> QED BY <4>2, Zenon
    <3>2. CASE w = 4
      <4>1. /\ (j - 1) \div 4 \in 0..(m - 1) /\ ((j - 1) % 4) + 1 \in 1..4
            /\ j = 4 * ((j - 1) \div 4) + (((j - 1) % 4) + 1)
        <5>1. j - 1 \in Nat /\ j - 1 < 4 * (m - 1) + 2
          BY <1>11, <1>1, <1>4, <3>2
        <5>2. m - 1 \in Nat
          BY <1>1
        <5>0. PICK x, y : x = j - 1 /\ y = m - 1
          OBVIOUS
        <5>3. /\ x \div 4 \in 0..y /\ (x % 4) + 1 \in 1..4
              /\ x + 1 = 4 * (x \div 4) + ((x % 4) + 1)
          BY <5>0, <5>1, <5>2
        <5>4. j = x + 1
          BY <5>0, <5>1
        <5> QED BY <5>0, <5>3, <5>4, Zenon
      <4> HIDE DEF m
      <4> PICK x, y : x = (j - 1) \div 4 /\ y = ((j - 1) % 4) + 1
        OBVIOUS
      <4>2. x \in 0..(m - 1) /\ y \in 1..w /\ j = w * x + y
        BY <4>1, <3>2, Zenon
      <4> QED BY <4>2, Zenon
    <3> QED BY <3>1, <3>2, <1>2
  <2>2. r >= 3 => q + 1 \in 0..(m - 1) /\ w * (q + 1) = w * q + w
    <3>1. w * q + r <= w * (m - 1) + 2
      BY <2>1, <1>11, <1>4
    <3>2. CASE w = 3
      BY <3>1, <3>2, <1>1
    <3>3. CASE w = 4
      BY <3>1, <3>3, <1>1
    <3> QED BY <3>2, <3>3, <1>2
  <2>3. b[j] = F[j] /\ (j < Len(b) => b[j + 1] = F[j + 1]) /\ (j + 3 <= Len(b) => b[j + 2] = F[j + 2])
    <3>1. p + 2 <= Len(F)
      BY <1>5, <1>2
    <3>2. Len(F) \in Nat /\ j \in Nat /\ p \in Nat /\ j <= p /\ Len(b) \in Nat /\ j >= 1
      BY <1>1, <1>5, <1>2, <1>11
    <3>3. j <= Len(F) /\ j + 1 <= Len(F) /\ j + 2 <= Len(F)
      BY <3>1, <3>2
    <3>4. (j < Len(b) => j + 1 \in 1..Len(b)) /\ (j + 3 <= Len(b) => j + 2 \in 1..Len(b))
      BY <3>2
    <3> HIDE DEF m
    <3> QED BY <3>3, <3>4, Zenon
  <2> HIDE DEF m
  <2>4. CASE r = 1
    <3>1. b[j] = <<lines[q + 1], 1>>
      BY <2>1, <2>3, <2>4, <1>6, Zenon
    <3>2. b[j] # LF /\ b[j] # CR
      BY <3>1, <1>8
    <3> QED BY <3>2, WidthIs, Zenon
  <2>5. CASE r = 2
    <3>1. b[j] = <<lines[q + 1], 2>>
      BY <2>1, <2>3, <2>5, <1>6, Zenon
    <3>2. b[j] # LF /\ b[j] # CR
      BY <3>1, <1>8
    <3> QED BY <3>2, WidthIs, Zenon
  <2>6. CASE r = 3
    <3>1. F[w * (q + 1) + 1] = <<lines[(q + 1) + 1], 1>> /\ q + 1 \in 0..(m - 1)
      <4>1. q + 1 \in 0..(m - 1)
        BY <2>2, <2>6
      <4> QED BY <4>1, <1>6, Zenon
    <3>2. CASE w = 3
      <4>1. b[j] = LF /\ (j < Len(b) => b[j + 1] # LF)
        <5>1. j + 1 = w * (q + 1) + 1
          BY <2>1, <2>2, <2>6, <3>2
        <5>2. b[j] = LF
          BY <2>1, <2>3, <2>6, <1>6, <3>2
        <5> QED BY <5>1, <5>2, <3>1, <2>3, <1>8
      <4> QED BY <4>1, <1>9, WidthIs
    <3>3. CASE w = 4
      <4>1. b[j] = CR /\ (j + 3 <= Len(b) => b[j + 2] # CR)
        <5>1. j + 2 = w * (q + 1) + 1
          BY <2>1, <2>2, <2>6, <3>3
        <5>2. b[j] = CR
          BY <2>1, <2>3, <2>6, <1>6, <3>3
        <5> QED BY <5>1, <5>2, <3>1, <2>3, <1>8
      <4> QED BY <4>1, <1>9, WidthIs
    <3> QED BY <3>2, <3>3, <1>2
  <2>7. CASE r = 4 /\ w = 4
    <3>1. F[w * (q + 1) + 1] = <<lines[(q + 1) + 1], 1>>
      <4>1. q + 1 \in 0..(m - 1)
        BY <2>2, <2>7
      <4> QED BY <4>1, <1>6, Zenon
    <3>2. b[j] = LF /\ (j < Len(b) => b[j + 1] # LF)
      <4>1. j + 1 = w * (q + 1) + 1
        BY <2>1, <2>2, <2>7
      <4>2. b[j] = LF
        BY <2>1, <2>3, <2>7, <1>6
      <4> QED BY <4>1, <4>2, <3>1, <2>3, <1>8
    <3> QED BY <3>2, <1>9, WidthIs
  <2> QED BY <2>1, <2>4, <2>5, <2>6, <2>7, <1>2
\* Nor does one lie in a part of a frame.
<1>12. ASSUME Len(b) < Len(F), NEW j \in 1..Len(b) PROVE Width(b, j) = 0
  <2>1. CASE j <= p
    BY <2>1, <1>11
  <2>2. CASE j > p
    <3>1. b[j] = F[j] /\ (j < Len(b) => b[j + 1] = F[j + 1])
      BY <1>12, <1>1
    <3>2. CASE w = 3
      <4>1. j = p + 1 /\ Len(b) = p + 1
        BY <3>2, <2>2, <1>10, <1>12, <1>1
      <4> QED BY <4>1, WidthIs
    <3>3. CASE w = 4
      <4>1. j \in {p + 1, p + 2, p + 3} /\ Len(b) <= p + 3
        BY <3>3, <2>2, <1>10, <1>12, <1>1
      <4>2. b[j] = LF /\ j < Len(b) => b[j + 1] # LF
        <5>1. CASE j = p + 1
          BY <5>1, <3>1, <3>3, <1>10, <1>9
        <5>2. CASE j = p + 2
          <6>1. j + 1 = p + 3
            BY <5>2
          <6> QED BY <6>1, <3>1, <3>3, <1>10, <1>9
        <5>3. CASE j = p + 3
          BY <5>3, <3>1, <3>3, <1>10, <1>9
        <5> QED BY <4>1, <5>1, <5>2, <5>3
      <4>3. ~(j + 3 <= Len(b))
        BY <4>1
      <4> QED BY <4>2, <4>3, WidthIs
    <3> QED BY <3>2, <3>3, <1>2
  <2> QED BY <2>1, <2>2
<1>13. ASSUME Len(F) <= Len(b)
       PROVE  p + 1 \in 1..Len(b) /\ Width(b, p + 1) = 2 * (w - 2) /\ 2 * (w - 2) > 0
  <2>1. \A j \in 1..Len(F) : b[j] = F[j]
    BY <1>13, <1>5, <1>1
  <2>2. CASE w = 3
    <3>1. p + 2 \in 1..Len(F) /\ p + 1 \in 1..Len(F) /\ (p + 1) + 1 = p + 2 /\ p + 1 < Len(b) /\ p + 1 \in 1..Len(b)
      BY <1>10, <2>2, <1>13, <1>1
    <3>2. b[p + 1] = LF /\ b[(p + 1) + 1] = LF
      BY <3>1, <2>1, <1>10, <2>2
    <3> QED BY <3>1, <3>2, <2>2, WidthIs
  <2>3. CASE w = 4
    <3>1. /\ p + 1 \in 1..Len(F) /\ p + 2 \in 1..Len(F) /\ p + 3 \in 1..Len(F) /\ p + 4 \in 1..Len(F)
          /\ (p + 1) + 1 = p + 2 /\ (p + 1) + 2 = p + 3 /\ (p + 1) + 3 = p + 4
          /\ (p + 1) + 3 <= Len(b) /\ p + 1 \in 1..Len(b)
      <4>1. Len(F) = p + 4 /\ Len(b) \in Nat /\ p + 4 <= Len(b)
        BY <1>10, <2>3, <1>13, <1>1
      <4> HIDE DEF m
      <4> QED BY <4>1
    <3>2. b[p + 1] = CR /\ b[(p + 1) + 1] = LF /\ b[(p + 1) + 2] = CR /\ b[(p + 1) + 3] = LF
      BY <3>1, <2>1, <1>10, <2>3
    <3>3. 4 = 2 * (w - 2)
      BY <2>3
    <3>4. Width(b, p + 1) = 4
      BY <3>1, <3>2, <1>9, WidthIs
    <3> QED BY <3>1, <3>3, <3>4
  <2> QED BY <2>2, <2>3, <1>2
<1>14. Boundaries(b) = {i \in 1..Len(b) : Width(b, i) > 0}
  BY DEF Boundaries
<1>15. ASSUME Len(F) <= Len(b) PROVE FindFrameBoundary(b) = p + 1
  <2>1. p + 1 \in Boundaries(b)
    BY <1>13, <1>14, <1>15
  <2>2. \A j \in Boundaries(b) : j \in Nat /\ p + 1 <= j
    <3> TAKE j \in Boundaries(b)
    <3>1. j \in 1..Len(b) /\ Width(b, j) > 0
      BY <1>14
    <3> QED BY <3>1, <1>11
  <2> DEFINE First(i) == i \in Boundaries(b) /\ \A j \in Boundaries(b) : i <= j
  <2>3. First(p + 1) /\ \A i : First(i) => i = p + 1
    BY <2>1, <2>2
  <2>4. FindFrameBoundary(b) = CHOOSE i : First(i)
    BY DEF FindFrameBoundary
  <2> HIDE DEF First
  <2> QED BY <2>3, <2>4
<1>16. Boundaries(b) # {} <=> Len(F) <= Len(b)
  <2>1. ASSUME Len(F) <= Len(b) PROVE Boundaries(b) # {}
    BY <2>1, <1>13, <1>14
  <2>2. ASSUME Len(b) < Len(F) PROVE Boundaries(b) = {}
    BY <2>2, <1>12, <1>14
  <2>3. Len(F) \in Nat
    BY <1>5
  <2> QED BY <2>1, <2>2, <2>3, <1>1
<1>17. ASSUME Len(F) <= Len(b) PROVE Lines(SubSeq(b, 1, p)) = lines
  <2> PICK s : s = SubSeq(b, 1, p)
    OBVIOUS
  <2>1. s \in Seq(Byte) /\ Len(s) = p /\ \A i \in 1..p : s[i] = F[i]
    <3>1. p <= Len(F) /\ Len(F) \in Nat
      BY <1>5, <1>2
    <3>2. p <= Len(b)
      BY <3>1, <1>1, <1>17
    <3>3. s \in Seq(Byte) /\ Len(s) = p /\ \A i \in 1..p : s[i] = b[i]
      <4> HIDE DEF m
      <4> QED BY <3>2, <1>1
    <3> HIDE DEF m
    <3> QED BY <3>1, <3>2, <3>3, <1>1
  <2>2. ASSUME NEW k \in 1..m
        PROVE  /\ s[w * (k - 1) + 1] = <<lines[k], 1>> /\ s[w * (k - 1) + 2] = <<lines[k], 2>>
               /\ k <= m - 1 => /\ s[w * (k - 1) + 3] = (IF w = 3 THEN LF ELSE CR)
                                /\ (w = 4 => s[w * (k - 1) + 4] = LF)
    <3>1. k - 1 \in 0..(m - 1) /\ (k - 1) + 1 = k
      BY <1>1
    <3>2. /\ w * (k - 1) + 1 \in 1..p /\ w * (k - 1) + 2 \in 1..p
          /\ k <= m - 1 => w * (k - 1) + 3 \in 1..p /\ (w = 4 => w * (k - 1) + 4 \in 1..p)
      <4>1. CASE w = 3
        BY <4>1, <1>1, <1>4
      <4>2. CASE w = 4
        BY <4>2, <1>1, <1>4
      <4> QED BY <4>1, <4>2, <1>2
    <3>3. /\ F[w * (k - 1) + 1] = <<lines[k], 1>> /\ F[w * (k - 1) + 2] = <<lines[k], 2>>
          /\ F[w * (k - 1) + 3] = (IF w = 3 THEN LF ELSE CR) /\ (w = 4 => F[w * (k - 1) + 4] = LF)
      BY <3>1, <1>6
    <3> QED BY <3>2, <3>3, <2>1, Zenon
  <2>3. \A k \in 1..(m - 1) : k \in 1..m /\ k <= m - 1
    BY <1>1
  <2>4. BodyAt(s, lines, w)
    <3>1. \A k \in 1..(m - 1) : s[w * (k - 1) + 3] = (IF w = 3 THEN LF ELSE CR) /\ (w = 4 => s[w * (k - 1) + 4] = LF)
      BY <2>2, <2>3, Zenon
    <3> QED BY <2>1, <2>2, <3>1, <1>4, Zenon DEF BodyAt
  <2>5. Lines(s) = lines
    BY <2>4, <1>2, LinesAre
  <2> QED BY <2>5, Zenon
<1>18. ASSUME Len(F) <= Len(b)
       PROVE  /\ Lines(SubSeq(b, 1, FindFrameBoundary(b) - 1)) = lines
              /\ FindFrameBoundary(b) + Width(b, FindFrameBoundary(b)) = Len(F) + 1
  <2>1. (p + 1) - 1 = p /\ (p + 1) + 2 * (w - 2) = Len(F) + 1
    BY <1>2, <1>5
  <2>2. FindFrameBoundary(b) = p + 1 /\ Lines(SubSeq(b, 1, p)) = lines /\ Width(b, p + 1) = 2 * (w - 2)
    BY <1>13, <1>15, <1>17, <1>18
  <2> QED BY <2>1, <2>2, Zenon
<1>19. Len(F) \in Nat \ {0}
  BY <1>2, <1>4, <1>5
<1> QED BY <1>5, <1>16, <1>18, <1>19, Zenon DEF EndsFirst

---------------------------------------------------------------------------
(* The parser: its invariant                                               *)

\* The frames before number k + 1 have been taken out of the buffer; what is
\* there, and what is still on its way, are the bytes of the others.
Parsed(end, k, G) ==
    /\ end \in Ends /\ k \in 0..Len(sent)
    /\ Joins([i \in 1..Len(sent) |-> FrameBytes(sent[i], end)], Len(sent), G)
    /\ Len(G[k]) + Len(buffer) + Len(coming) = Len(G[Len(sent)])
    /\ \A i \in 1..Len(buffer) : buffer[i] = G[Len(sent)][Len(G[k]) + i]
    /\ \A i \in 1..Len(coming) : coming[i] = G[Len(sent)][Len(G[k]) + Len(buffer) + i]
    /\ events = Said(sent)[k]

ParserInv ==
    /\ sent \in Seq(Seq(Line) \ {<<>>}) /\ buffer \in Seq(Byte) /\ coming \in Seq(Byte)
    /\ \E end \in Ends : \E k \in 0..Len(sent) : \E G : Parsed(end, k, G)

\* The bytes of the frames.
LEMMA FramesAre ==
  ASSUME NEW frames \in Seq(Seq(Line) \ {<<>>}), NEW end \in Ends
  PROVE  /\ [i \in 1..Len(frames) |-> FrameBytes(frames[i], end)] \in [1..Len(frames) -> Seq(Byte)]
         /\ \A i \in 1..Len(frames) : Len(FrameBytes(frames[i], end)) \in Nat \ {0}
<1>1. \A i \in 1..Len(frames) : frames[i] \in Seq(Line) \ {<<>>}
  OBVIOUS
<1>2. <<>> \in Seq(Byte)
  OBVIOUS
<1>3. \A lines \in Seq(Line) \ {<<>>} :
         FrameBytes(lines, end) \in Seq(Byte) /\ Len(FrameBytes(lines, end)) \in Nat \ {0}
  <2> TAKE lines \in Seq(Line) \ {<<>>}
  <2> PICK b, F : b = <<>> /\ F = FrameBytes(lines, end)
    OBVIOUS
  <2>1. b \in Seq(Byte) /\ \A j \in 1..Len(b) : j <= Len(F) => b[j] = F[j]
    BY <1>2
  <2>2. F \in Seq(Byte) /\ Len(F) \in Nat \ {0}
    <3>1. EndsFirst(b, F, lines)
      BY <2>1, BoundaryIs
    <3> QED BY <3>1, Zenon DEF EndsFirst
  <2> QED BY <2>2, Zenon
<1> QED BY <1>1, <1>3

\* At first nothing has been taken out.
LEMMA NothingTaken ==
  ASSUME sent \in Seq(Seq(Line) \ {<<>>}), buffer = <<>>, events = <<>>, NEW end \in Ends, coming = Encode(sent, end)
  PROVE  ParserInv
<1>1. sent \in Seq(Seq(Line) \ {<<>>}) /\ buffer = <<>> /\ events = <<>>
  OBVIOUS
<1>2. coming = Encode(sent, end)
  OBVIOUS
<1> DEFINE N == Len(sent)
           ss == [i \in 1..N |-> FrameBytes(sent[i], end)]
<1>3. N \in Nat /\ DOMAIN sent = 1..N /\ 0 \in 0..N /\ N \in 0..N
  <2>1. N \in Nat /\ DOMAIN sent = 1..N
    BY <1>1, LenProperties, Zenon
  <2> HIDE DEF N
  <2> QED BY <2>1
<1>4. ss \in [1..N -> Seq(Byte)]
  BY <1>1, FramesAre
<1>5. PICK G : Joins(ss, N, G) /\ FlattenSeq(ss) = G[N]
  <2> HIDE DEF ss, N
  <2> QED BY <1>3, <1>4, FlatJoins, Zenon
<1>6. coming = G[N] /\ G[N] \in Seq(Byte)
  <2>1. coming = FlattenSeq(ss)
    BY <1>2, <1>3, Zenon DEF Encode
  <2>2. \A k \in 0..N : G[k] \in Seq(Byte)
    <3>1. \A k \in 1..N : ss[k] \in Seq(Byte)
      BY <1>4
    <3> HIDE DEF ss, N
    <3> QED BY <1>3, <3>1, <1>5, JoinsAre
  <2> HIDE DEF ss, N
  <2> QED BY <2>1, <2>2, <1>3, <1>5, Zenon
<1>7. /\ G[0] = <<>> /\ Len(<<>>) = 0 /\ Len(coming) \in Nat /\ <<>> \in Seq(Byte)
      /\ \A i \in 1..Len(coming) : 0 + 0 + i = i
  <2>1. G[0] = <<>>
    BY <1>5, Zenon DEF Joins
  <2>2. coming \in Seq(Byte)
    BY <1>6, Zenon
  <2> HIDE DEF ss, N
  <2> QED BY <2>1, <2>2
<1>8. events = Said(sent)[0]
  BY <1>1, <1>3, SaidIs
<1>9. Parsed(end, 0, G)
  <2> HIDE DEF ss
  <2>1. Len(G[0]) = 0 /\ Len(buffer) = 0
    BY <1>1, <1>7, Zenon
  <2>2. Joins([i \in 1..Len(sent) |-> FrameBytes(sent[i], end)], Len(sent), G)
    BY <1>5, Zenon DEF ss
  <2>3. \A i \in 1..0 : FALSE
    OBVIOUS
  <2>4. \A i \in 1..Len(coming) : coming[i] = G[Len(sent)][Len(G[0]) + Len(buffer) + i]
    BY <1>6, <1>7, <2>1, Zenon
  <2>5. 0 + 0 + Len(coming) = Len(coming)
    BY <1>7
  <2> QED BY <1>3, <1>6, <1>8, <2>1, <2>2, <2>3, <2>4, <2>5, Zenon DEF Parsed
<1> QED BY <1>1, <1>3, <1>6, <1>7, <1>9, Zenon DEF ParserInv

\* So it is in the initial states.
LEMMA ParserStart == SseInit => ParserInv
<1> SUFFICES ASSUME SseInit PROVE ParserInv
  OBVIOUS
<1>1. sent \in Seq(Seq(Line) \ {<<>>}) /\ buffer = <<>> /\ events = <<>>
  <2>1. sent \in Streams /\ buffer = <<>> /\ events = <<>>
    BY Zenon DEF SseInit
  <2>2. Streams \subseteq Seq(Seq(Line) \ {<<>>})
    BY ParserAssumption, Zenon
  <2> QED BY <2>1, <2>2, Zenon
<1>2. PICK end \in Ends : coming = Encode(sent, end)
  BY Zenon DEF SseInit, Ends
<1> QED BY <1>1, <1>2, NothingTaken, Zenon

\* Where the next frame lies.
NextLies(end, k, G) ==
    /\ Len(sent) \in Nat /\ \A n \in 0..Len(sent) : G[n] \in Seq(Byte) /\ Len(G[n]) \in Nat
    /\ k < Len(sent) =>
         /\ k + 1 \in 1..Len(sent) /\ Len(FrameBytes(sent[k + 1], end)) \in Nat \ {0}
         /\ Len(G[k + 1]) = Len(G[k]) + Len(FrameBytes(sent[k + 1], end))
         /\ \A j \in 1..Len(FrameBytes(sent[k + 1], end)) :
              /\ Len(G[k]) + j <= Len(G[Len(sent)])
              /\ G[Len(sent)][Len(G[k]) + j] = FrameBytes(sent[k + 1], end)[j]

\* What the joins of the frames are, for the steps of the parser.
LEMMA ParsedIs ==
  ASSUME NEW end, NEW k, NEW G, sent \in Seq(Seq(Line) \ {<<>>}), Parsed(end, k, G)
  PROVE  NextLies(end, k, G)
<1> DEFINE N == Len(sent)
           ss == [i \in 1..N |-> FrameBytes(sent[i], end)]
<1>1. N \in Nat /\ end \in Ends /\ k \in 0..N /\ Joins(ss, N, G)
  BY Zenon, LenProperties DEF Parsed
<1>2. \A i \in 1..N : ss[i] \in Seq(Byte) /\ ss[i] = FrameBytes(sent[i], end) /\ Len(ss[i]) \in Nat \ {0}
  BY <1>1, FramesAre
<1>3. \A n \in 0..N : G[n] \in Seq(Byte) /\ Len(G[n]) \in Nat
  <2>1. \A n \in 0..N : G[n] \in Seq(Byte)
    <3> HIDE DEF ss, N
    <3> QED BY <1>1, <1>2, JoinsAre
  <2> QED BY <2>1
<1>4. ASSUME k < N
      PROVE  /\ k + 1 \in 1..N /\ Len(ss[k + 1]) \in Nat \ {0}
             /\ Len(G[k + 1]) = Len(G[k]) + Len(ss[k + 1])
             /\ \A j \in 1..Len(ss[k + 1]) : Len(G[k]) + j <= Len(G[N]) /\ G[N][Len(G[k]) + j] = ss[k + 1][j]
  <2>1. k + 1 \in 1..N /\ (k + 1) - 1 = k /\ k \in 0..N /\ N \in (k + 1)..N
    BY <1>1, <1>4
  <2> HIDE DEF ss, N
  <2>2. G[k + 1] = G[(k + 1) - 1] \o ss[k + 1]
    BY <1>1, <2>1, Zenon DEF Joins
  <2>3. G[k] \in Seq(Byte) /\ ss[k + 1] \in Seq(Byte)
    BY <1>2, <1>3, <2>1, Zenon
  <2>4. Len(G[k] \o ss[k + 1]) = Len(G[k]) + Len(ss[k + 1])
    BY <2>3, ConcatIs
  <2>5. Len(G[k + 1]) = Len(G[k]) + Len(ss[k + 1])
    BY <2>1, <2>2, <2>4, Zenon
  <2>6. \A i \in 1..N : \A j \in 1..Len(ss[i]) : \A n \in i..N :
             Len(G[i - 1]) + j <= Len(G[n]) /\ G[n][Len(G[i - 1]) + j] = ss[i][j]
    <3>1. \A i \in 1..N : ss[i] \in Seq(Byte)
      BY <1>2
    <3> QED BY <1>1, <3>1, JoinsGrowAt
  <2>7. \A j \in 1..Len(ss[k + 1]) :
             Len(G[(k + 1) - 1]) + j <= Len(G[N]) /\ G[N][Len(G[(k + 1) - 1]) + j] = ss[k + 1][j]
    BY <2>1, <2>6, Zenon
  <2> QED BY <1>2, <2>1, <2>5, <2>7, Zenon
<1>5. k < N => ss[k + 1] = FrameBytes(sent[k + 1], end)
  BY <1>2, <1>4
<1> HIDE DEF ss
<1> QED BY <1>1, <1>3, <1>4, <1>5, Zenon DEF NextLies

\* Bytes that come in are those that follow.
LEMMA AppendBytesKeeps == ParserInv /\ AppendBytes => ParserInv'
<1> SUFFICES ASSUME ParserInv, AppendBytes PROVE ParserInv'
  OBVIOUS
<1>1. PICK n \in 1..MaxChunk : n <= Len(coming) /\ buffer' = buffer \o SubSeq(coming, 1, n)
                               /\ coming' = SubSeq(coming, n + 1, Len(coming))
  BY Zenon DEF AppendBytes
<1>2. events' = events /\ sent' = sent
  BY Zenon DEF AppendBytes
<1>3. sent \in Seq(Seq(Line) \ {<<>>}) /\ buffer \in Seq(Byte) /\ coming \in Seq(Byte)
  BY Zenon DEF ParserInv
<1>4. PICK end \in Ends : \E k \in 0..Len(sent) : \E G : Parsed(end, k, G)
  BY Zenon DEF ParserInv
<1>5. PICK k \in 0..Len(sent) : \E G : Parsed(end, k, G)
  BY <1>4
<1>6. PICK G : Parsed(end, k, G)
  BY <1>5
<1>7. n \in Nat \ {0} /\ n \in Nat /\ Len(coming) \in Nat /\ Len(buffer) \in Nat
  <2>1. MaxChunk \in Nat
    BY ParserAssumption, Zenon
  <2> QED BY <2>1, <1>3
<1>8. /\ SubSeq(coming, 1, n) \in Seq(Byte) /\ Len(SubSeq(coming, 1, n)) = n
      /\ \A i \in 1..n : SubSeq(coming, 1, n)[i] = coming[i]
  BY <1>1, <1>3, <1>7
<1>9. /\ coming' \in Seq(Byte) /\ Len(coming') = Len(coming) - n
      /\ \A i \in 1..Len(coming') : coming'[i] = coming[n + i]
  <2>1. SubSeq(coming, n + 1, Len(coming)) \in Seq(Byte)
    BY <1>1, <1>3, <1>7
  <2>2. Len(SubSeq(coming, n + 1, Len(coming))) = Len(coming) - n
    BY <1>1, <1>3, <1>7
  <2>3. \A i \in 1..(Len(coming) - n) : SubSeq(coming, n + 1, Len(coming))[i] = coming[(n + 1) + i - 1]
    BY <1>1, <1>3, <1>7
  <2>4. \A i \in 1..(Len(coming) - n) : (n + 1) + i - 1 = n + i
    BY <1>7
  <2> QED BY <1>1, <2>1, <2>2, <2>3, <2>4, Zenon
<1>10. /\ buffer' \in Seq(Byte) /\ Len(buffer') = Len(buffer) + n
       /\ \A i \in 1..Len(buffer) : buffer'[i] = buffer[i]
       /\ \A i \in 1..n : buffer'[Len(buffer) + i] = coming[i]
  <2> PICK t : t = SubSeq(coming, 1, n)
    OBVIOUS
  <2>1. t \in Seq(Byte) /\ Len(t) = n /\ \A i \in 1..n : t[i] = coming[i]
    BY <1>8, Zenon
  <2>2. /\ buffer \o t \in Seq(Byte) /\ Len(buffer \o t) = Len(buffer) + Len(t)
        /\ \A i \in 1..Len(buffer) : (buffer \o t)[i] = buffer[i]
        /\ \A i \in 1..Len(t) : (buffer \o t)[Len(buffer) + i] = t[i]
    BY <1>3, <2>1, ConcatIs
  <2>3. buffer' = buffer \o t
    BY <1>1
  <2> QED BY <2>1, <2>2, <2>3, Zenon
<1>11. Parsed(end, k, G)'
  <2>1. /\ Len(G[k]) + Len(buffer) + Len(coming) = Len(G[Len(sent)])
        /\ \A i \in 1..Len(buffer) : buffer[i] = G[Len(sent)][Len(G[k]) + i]
        /\ \A i \in 1..Len(coming) : coming[i] = G[Len(sent)][Len(G[k]) + Len(buffer) + i]
    BY <1>6, Zenon DEF Parsed
  <2>2. Len(G[k]) \in Nat
    <3>1. NextLies(end, k, G)
      BY <1>3, <1>6, ParsedIs, Zenon
    <3> QED BY <3>1, Zenon DEF NextLies
  <2>0. PICK g, W, w : g = Len(G[k]) /\ W = G[Len(sent)] /\ w = Len(W)
    OBVIOUS
  <2>3. g + Len(buffer') + Len(coming') = w
    <3>0. PICK x, y, z, u : x = Len(coming) /\ y = Len(buffer) /\ z = Len(buffer') /\ u = Len(coming')
      OBVIOUS
    <3>1. x \in Nat /\ y \in Nat /\ z = y + n /\ u = x - n /\ n \in Nat /\ g \in Nat /\ g + y + x = w
      BY <3>0, <2>0, <2>1, <2>2, <1>7, <1>9, <1>10, Zenon
    <3>2. g + z + u = w
      BY <3>1
    <3> QED BY <3>0, <3>2, Zenon
  <2>4. ASSUME NEW i \in 1..Len(buffer') PROVE buffer'[i] = W[g + i]
    <3>1. CASE i <= Len(buffer)
      <4>1. i \in 1..Len(buffer)
        BY <3>1, <1>7
      <4> QED BY <4>1, <2>0, <2>1, <1>10, Zenon
    <3>2. CASE ~(i <= Len(buffer))
      <4>0. PICK j, x, y, z : j = i - Len(buffer) /\ x = Len(coming) /\ y = Len(buffer) /\ z = Len(buffer')
        OBVIOUS
      <4>3. /\ x \in Nat /\ y \in Nat /\ z = y + n /\ n \in Nat /\ n <= x /\ g \in Nat
            /\ i \in 1..z /\ ~(i <= y) /\ j = i - y
        BY <4>0, <3>2, <2>0, <2>2, <1>1, <1>7, <1>10, Zenon
      <4>4. j \in 1..n /\ i = y + j /\ j \in 1..x /\ g + y + j = g + i
        BY <4>3
      <4>1. j \in 1..n /\ i = Len(buffer) + j /\ j \in 1..Len(coming) /\ g + Len(buffer) + j = g + i
        BY <4>0, <4>4, Zenon
      <4>2. buffer'[i] = coming[j] /\ coming[j] = W[g + Len(buffer) + j]
        BY <4>1, <1>10, <2>0, <2>1, Zenon
      <4> QED BY <4>1, <4>2, Zenon
    <3> QED BY <3>1, <3>2
  <2>5. ASSUME NEW i \in 1..Len(coming') PROVE coming'[i] = W[g + Len(buffer') + i]
    <3>1. n + i \in 1..Len(coming) /\ g + Len(buffer) + (n + i) = g + Len(buffer') + i
      <4>0. PICK x, y, z, u : x = Len(coming) /\ y = Len(buffer) /\ z = Len(buffer') /\ u = Len(coming')
        OBVIOUS
      <4>1. x \in Nat /\ y \in Nat /\ z = y + n /\ u = x - n /\ n <= x /\ i \in 1..u /\ n \in Nat /\ g \in Nat
        BY <4>0, <1>1, <1>7, <1>9, <1>10, <2>0, <2>2, Zenon
      <4>2. n + i \in 1..x /\ g + y + (n + i) = g + z + i
        BY <4>1
      <4> QED BY <4>0, <4>2, Zenon
    <3>2. coming'[i] = coming[n + i] /\ coming[n + i] = W[g + Len(buffer) + (n + i)]
      BY <3>1, <1>9, <2>0, <2>1, Zenon
    <3> QED BY <3>1, <3>2, Zenon
  <2>6. /\ end \in Ends /\ k \in 0..Len(sent)
        /\ Joins([i \in 1..Len(sent) |-> FrameBytes(sent[i], end)], Len(sent), G)
        /\ events = Said(sent)[k]
    BY <1>6, Zenon DEF Parsed
  <2> QED BY <1>2, <2>0, <2>3, <2>4, <2>5, <2>6, Zenon DEF Parsed
<1> QED BY <1>2, <1>3, <1>9, <1>10, <1>11, Zenon DEF ParserInv

\* While frames are missing, the first boundary in the buffer is the end of the
\* next; when none is, there is nothing left.
LEMMA NextFrame ==
  ASSUME NEW end, NEW k, NEW G, ParserInv, Parsed(end, k, G)
  PROVE  /\ k = Len(sent) => Boundaries(buffer) = {}
         /\ k < Len(sent) =>
              LET F == FrameBytes(sent[k + 1], end)
              IN  /\ Boundaries(buffer) # {} <=> Len(F) <= Len(buffer)
                  /\ Len(F) <= Len(buffer) =>
                       /\ Lines(SubSeq(buffer, 1, FindFrameBoundary(buffer) - 1)) = sent[k + 1]
                       /\ FindFrameBoundary(buffer) + Width(buffer, FindFrameBoundary(buffer)) = Len(F) + 1
<1>1. sent \in Seq(Seq(Line) \ {<<>>}) /\ buffer \in Seq(Byte) /\ coming \in Seq(Byte)
  BY Zenon DEF ParserInv
<1>2. /\ end \in Ends /\ k \in 0..Len(sent)
      /\ Len(G[k]) + Len(buffer) + Len(coming) = Len(G[Len(sent)])
      /\ \A i \in 1..Len(buffer) : buffer[i] = G[Len(sent)][Len(G[k]) + i]
  BY Zenon DEF Parsed
<1>3. /\ Len(sent) \in Nat /\ \A n \in 0..Len(sent) : Len(G[n]) \in Nat
      /\ k < Len(sent) =>
           /\ k + 1 \in 1..Len(sent) /\ Len(FrameBytes(sent[k + 1], end)) \in Nat \ {0}
           /\ \A j \in 1..Len(FrameBytes(sent[k + 1], end)) :
                G[Len(sent)][Len(G[k]) + j] = FrameBytes(sent[k + 1], end)[j]
  <2>1. Parsed(end, k, G)
    OBVIOUS
  <2>2. NextLies(end, k, G)
    BY <1>1, <2>1, ParsedIs, Zenon
  <2> QED BY <2>2, Zenon DEF NextLies
<1>4. ASSUME k = Len(sent) PROVE Boundaries(buffer) = {}
  <2>1. Len(G[k]) \in Nat /\ Len(G[k]) = Len(G[Len(sent)]) /\ Len(buffer) \in Nat /\ Len(coming) \in Nat
    BY <1>1, <1>2, <1>3, <1>4
  <2>2. Len(buffer) = 0
    BY <2>1, <1>2
  <2>3. DOMAIN buffer = {}
    BY <2>2, <1>1
  <2> QED BY <2>3 DEF Boundaries
<1>5. ASSUME k < Len(sent), NEW F, F = FrameBytes(sent[k + 1], end)
      PROVE  /\ Boundaries(buffer) # {} <=> Len(F) <= Len(buffer)
             /\ Len(F) <= Len(buffer) =>
                  /\ Lines(SubSeq(buffer, 1, FindFrameBoundary(buffer) - 1)) = sent[k + 1]
                  /\ FindFrameBoundary(buffer) + Width(buffer, FindFrameBoundary(buffer)) = Len(F) + 1
  <2>1. sent[k + 1] \in Seq(Line) \ {<<>>}
    BY <1>1, <1>3, <1>5
  <2>2. Len(F) \in Nat /\ \A j \in 1..Len(F) : G[Len(sent)][Len(G[k]) + j] = F[j]
    BY <1>3, <1>5, Zenon
  <2>3. \A j \in 1..Len(buffer) : j <= Len(F) => buffer[j] = F[j]
    <3> TAKE j \in 1..Len(buffer)
    <3> HAVE j <= Len(F)
    <3>1. j \in 1..Len(F)
      BY <2>2
    <3> QED BY <3>1, <2>2, <1>2, Zenon
  <2> PICK lines : lines = sent[k + 1]
    OBVIOUS
  <2>4. F = FrameBytes(lines, end) /\ lines \in Seq(Line) \ {<<>>}
    BY <2>1, <1>5, Zenon
  <2>5. /\ Boundaries(buffer) # {} <=> Len(F) <= Len(buffer)
        /\ Len(F) <= Len(buffer) =>
             /\ Lines(SubSeq(buffer, 1, FindFrameBoundary(buffer) - 1)) = lines
             /\ FindFrameBoundary(buffer) + Width(buffer, FindFrameBoundary(buffer)) = Len(F) + 1
    <3>1. /\ end \in Ends /\ F = FrameBytes(lines, end) /\ lines \in Seq(Line) \ {<<>>}
          /\ buffer \in Seq(Byte) /\ \A j \in 1..Len(buffer) : j <= Len(F) => buffer[j] = F[j]
      BY <1>1, <1>2, <2>3, <2>4, Zenon
    <3> PICK b : b = buffer
      OBVIOUS
    <3>2. b \in Seq(Byte) /\ \A j \in 1..Len(b) : j <= Len(F) => b[j] = F[j]
      BY <3>1, Zenon
    <3>3. EndsFirst(b, F, lines)
      BY <3>1, <3>2, BoundaryIs, Zenon
    <3> QED BY <3>3, Zenon DEF EndsFirst
  <2> QED BY <2>5, Zenon
<1>6. k < Len(sent) =>
        LET F == FrameBytes(sent[k + 1], end)
        IN  /\ Boundaries(buffer) # {} <=> Len(F) <= Len(buffer)
            /\ Len(F) <= Len(buffer) =>
                 /\ Lines(SubSeq(buffer, 1, FindFrameBoundary(buffer) - 1)) = sent[k + 1]
                 /\ FindFrameBoundary(buffer) + Width(buffer, FindFrameBoundary(buffer)) = Len(F) + 1
  BY <1>5, Zenon
<1> QED BY <1>4, <1>6, Zenon

\* An event that is taken out is what the next frame says.
LEMMA NextEventKeeps == ParserInv /\ NextEvent => ParserInv'
<1> SUFFICES ASSUME ParserInv, NextEvent PROVE ParserInv'
  OBVIOUS
<1>1. sent \in Seq(Seq(Line) \ {<<>>}) /\ buffer \in Seq(Byte) /\ coming \in Seq(Byte)
  BY Zenon DEF ParserInv
<1>2. PICK end \in Ends : \E k \in 0..Len(sent) : \E G : Parsed(end, k, G)
  BY Zenon DEF ParserInv
<1>3. PICK k \in 0..Len(sent) : \E G : Parsed(end, k, G)
  BY <1>2
<1>4. PICK G : Parsed(end, k, G)
  BY <1>3
<1>5. /\ Len(sent) \in Nat /\ \A n \in 0..Len(sent) : G[n] \in Seq(Byte) /\ Len(G[n]) \in Nat
      /\ k < Len(sent) =>
           /\ k + 1 \in 1..Len(sent) /\ Len(FrameBytes(sent[k + 1], end)) \in Nat \ {0}
           /\ Len(G[k + 1]) = Len(G[k]) + Len(FrameBytes(sent[k + 1], end))
  <2>1. NextLies(end, k, G)
    BY <1>1, <1>4, ParsedIs, Zenon
  <2> QED BY <2>1, Zenon DEF NextLies
<1>6. Boundaries(buffer) # {} /\ coming' = coming /\ sent' = sent
  BY Zenon DEF NextEvent
<1>7. k < Len(sent)
  <2>1. k # Len(sent)
    BY <1>4, <1>6, NextFrame, Zenon
  <2> QED BY <2>1, <1>5
<1> PICK F : F = FrameBytes(sent[k + 1], end)
  OBVIOUS
<1>8. /\ Len(F) <= Len(buffer)
      /\ Lines(SubSeq(buffer, 1, FindFrameBoundary(buffer) - 1)) = sent[k + 1]
      /\ FindFrameBoundary(buffer) + Width(buffer, FindFrameBoundary(buffer)) = Len(F) + 1
  BY <1>4, <1>6, <1>7, NextFrame, Zenon
<1>9. /\ events' = IF Silent(Meaning(sent[k + 1])) THEN events ELSE Append(events, Meaning(sent[k + 1]))
      /\ buffer' = SubSeq(buffer, Len(F) + 1, Len(buffer))
  BY <1>8, Zenon DEF NextEvent
<1>10. k + 1 \in 1..Len(sent) /\ k + 1 \in 0..Len(sent) /\ (k + 1) - 1 = k
  BY <1>5, <1>7
<1>11. Len(F) \in Nat \ {0} /\ Len(G[k + 1]) = Len(G[k]) + Len(F) /\ Len(G[k]) \in Nat
  BY <1>5, <1>7, Zenon
<1>12. /\ buffer' \in Seq(Byte) /\ Len(buffer') = Len(buffer) - Len(F)
       /\ \A i \in 1..Len(buffer') : buffer'[i] = buffer[Len(F) + i]
  <2>1. Len(F) \in Nat /\ Len(F) <= Len(buffer)
    BY <1>8, <1>11
  <2> PICK b, c, f : b = buffer /\ c = buffer' /\ f = Len(F)
    OBVIOUS
  <2>2. b \in Seq(Byte) /\ f \in Nat /\ f <= Len(b) /\ c = SubSeq(b, f + 1, Len(b))
    BY <1>1, <1>9, <2>1, Zenon
  <2>3. Rest(b, f, c)
    BY <2>2, RestIs, Zenon
  <2>4. c \in Seq(Byte)
    BY <2>2
  <2> QED BY <2>3, <2>4, Zenon DEF Rest
<1>13. events' = Said(sent)[k + 1]
  <2>1. Said(sent)[k + 1] = IF Silent(Meaning(sent[k + 1])) THEN Said(sent)[(k + 1) - 1]
                            ELSE Append(Said(sent)[(k + 1) - 1], Meaning(sent[k + 1]))
    BY <1>5, <1>10, SaidIs
  <2>2. events = Said(sent)[k]
    BY <1>4, Zenon DEF Parsed
  <2> QED BY <2>1, <2>2, <1>9, <1>10, Zenon
<1>14. Parsed(end, k + 1, G)'
  <2>1. /\ Len(G[k]) + Len(buffer) + Len(coming) = Len(G[Len(sent)])
        /\ \A i \in 1..Len(buffer) : buffer[i] = G[Len(sent)][Len(G[k]) + i]
        /\ \A i \in 1..Len(coming) : coming[i] = G[Len(sent)][Len(G[k]) + Len(buffer) + i]
        /\ Joins([i \in 1..Len(sent) |-> FrameBytes(sent[i], end)], Len(sent), G)
    BY <1>4, Zenon DEF Parsed
  <2>0. PICK g, h, W, f, x, y, z : /\ g = Len(G[k]) /\ h = Len(G[k + 1]) /\ W = G[Len(sent)] /\ f = Len(F)
                                   /\ x = Len(buffer) /\ y = Len(buffer') /\ z = Len(coming)
    OBVIOUS
  <2>2. f \in Nat /\ g \in Nat /\ h = g + f /\ x \in Nat /\ y = x - f
    <3>1. Len(F) \in Nat /\ Len(buffer) \in Nat
      BY <1>1, <1>11
    <3> QED BY <3>1, <2>0, <1>11, <1>12, Zenon
  <2>3. h + y = g + x
    BY <2>2
  <2>4. h + y + z = Len(W)
    BY <2>0, <2>1, <2>3, Zenon
  <2>5. ASSUME NEW i \in 1..y PROVE buffer'[i] = W[h + i]
    <3>1. f + i \in 1..x /\ g + (f + i) = h + i
      BY <2>2
    <3>2. buffer'[i] = buffer[f + i] /\ buffer[f + i] = W[g + (f + i)]
      BY <3>1, <2>0, <2>1, <1>12, Zenon
    <3> QED BY <3>1, <3>2, Zenon
  <2>6. \A i \in 1..Len(coming) : coming[i] = W[h + y + i]
    BY <2>0, <2>1, <2>3, Zenon
  <2> QED BY <1>6, <1>10, <1>13, <2>0, <2>1, <2>4, <2>5, <2>6, Zenon DEF Parsed
<1> QED BY <1>1, <1>6, <1>10, <1>12, <1>14, Zenon DEF ParserInv

\* What has been said is the beginning of what will be.
LEMMA SaidGrows ==
  ASSUME NEW N \in Nat, NEW frames, Len(frames) = N, NEW k \in 0..N
  PROVE  IsPrefix(Said(frames)[k], Said(frames)[N])
<1> PICK B : B = {Meaning(frames[n]) : n \in 1..N}
  OBVIOUS
<1> PICK s : s = Said(frames)
  OBVIOUS
<1>1. \A n \in 0..N : s[n] \in Seq(B)
  BY SaidIs, Zenon
<1>2. \A n \in 1..N : \/ s[n] = s[n - 1]
                      \/ \E e \in B : s[n] = Append(s[n - 1], e)
  <2>1. \A n \in 1..N : Meaning(frames[n]) \in B
    OBVIOUS
  <2>2. \A n \in 1..N : s[n] = IF Silent(Meaning(frames[n])) THEN s[n - 1] ELSE Append(s[n - 1], Meaning(frames[n]))
    BY SaidIs, Zenon
  <2> QED BY <2>1, <2>2, Zenon
<1> DEFINE T == {n \in 0..N : n >= k => Len(s[k]) <= Len(s[n]) /\ \A i \in 1..Len(s[k]) : s[n][i] = s[k][i]}
<1>3. 0 \in T
  <2>1. 0 >= k => k = 0
    OBVIOUS
  <2>2. Len(s[0]) \in Nat
    BY <1>1
  <2> QED BY <2>1, <2>2
<1>4. ASSUME NEW n \in 0..(N - 1), n \in T PROVE n + 1 \in T
  <2>1. n + 1 \in 1..N /\ (n + 1) - 1 = n /\ n \in 0..N /\ n + 1 \in 0..N
    OBVIOUS
  <2>2. s[n] \in Seq(B) /\ s[k] \in Seq(B) /\ s[n + 1] \in Seq(B)
    BY <1>1, <2>1
  <2>3. s[n + 1] = s[n] \/ \E e \in B : s[n + 1] = Append(s[n], e)
    <3>1. s[n + 1] = s[(n + 1) - 1] \/ \E e \in B : s[n + 1] = Append(s[(n + 1) - 1], e)
      BY <1>2, <2>1, Zenon
    <3> QED BY <3>1, <2>1, Zenon
  <2>4. Len(s[n]) <= Len(s[n + 1]) /\ \A i \in 1..Len(s[n]) : s[n + 1][i] = s[n][i]
    <3>1. CASE s[n + 1] = s[n]
      BY <3>1, <2>2
    <3>2. ASSUME NEW e \in B, s[n + 1] = Append(s[n], e) PROVE <2>4!1 /\ <2>4!2
      <4>1. /\ Len(Append(s[n], e)) = Len(s[n]) + 1
            /\ \A i \in 1..Len(s[n]) : Append(s[n], e)[i] = s[n][i]
        BY <2>2, AppendProperties
      <4> QED BY <4>1, <3>2, <2>2
    <3> QED BY <2>3, <3>1, <3>2
  <2>5. CASE n >= k
    <3>1. Len(s[k]) <= Len(s[n]) /\ \A i \in 1..Len(s[k]) : s[n][i] = s[k][i]
      BY <1>4, <2>5
    <3>2. Len(s[k]) <= Len(s[n + 1]) /\ \A i \in 1..Len(s[k]) : i \in 1..Len(s[n])
      BY <3>1, <2>2, <2>4
    <3>3. \A i \in 1..Len(s[k]) : s[n + 1][i] = s[k][i]
      BY <3>1, <3>2, <2>4, Zenon
    <3> QED BY <3>2, <3>3, <2>1
  <2>6. CASE n + 1 = k
    <3>1. Len(s[n + 1]) <= Len(s[n + 1])
      BY <2>2
    <3> QED BY <3>1, <2>1, <2>6
  <2>7. CASE n + 1 < k
    BY <2>7, <2>1
  <2> QED BY <2>5, <2>6, <2>7, <2>1
<1>5. \A n \in 0..N : n \in T
  <2> HIDE DEF T
  <2> QED BY <1>3, <1>4, InductionTo
<1>6. s[k] \in Seq(B) /\ s[N] \in Seq(B) /\ Len(s[k]) <= Len(s[N]) /\ \A i \in 1..Len(s[k]) : s[N][i] = s[k][i]
  <2>1. N \in T /\ N >= k /\ N \in 0..N
    BY <1>5
  <2>2. Len(s[k]) <= Len(s[N]) /\ \A i \in 1..Len(s[k]) : s[N][i] = s[k][i]
    BY <2>1
  <2> QED BY <2>1, <2>2, <1>1
<1>7. IsPrefix(s[k], s[N])
  <2>1. Len(s[k]) \in Nat /\ Len(s[N]) \in Nat
    BY <1>6
  <2>2. SubSeq(s[N], 1, Len(s[k])) \in Seq(B) /\ Len(SubSeq(s[N], 1, Len(s[k]))) = Len(s[k])
    BY <1>6, <2>1
  <2>3. \A i \in 1..Len(s[k]) : SubSeq(s[N], 1, Len(s[k]))[i] = s[N][i]
    BY <1>6, <2>1
  <2>4. s[k] = SubSeq(s[N], 1, Len(s[k]))
    BY <1>6, <2>2, <2>3, SeqEqual
  <2>5. Len(s[k]) <= Len(s[N])
    BY <1>6
  <2> QED BY <2>4, <2>5 DEF IsPrefix
<1> QED BY <1>7, Zenon

\* And so what has been taken out is what was sent.
LEMMA ParserSays == ParserInv => EventsAreThoseSent
<1> SUFFICES ASSUME ParserInv PROVE EventsAreThoseSent
  OBVIOUS
<1>1. sent \in Seq(Seq(Line) \ {<<>>}) /\ buffer \in Seq(Byte) /\ coming \in Seq(Byte)
  BY Zenon DEF ParserInv
<1>2. PICK end \in Ends : \E k \in 0..Len(sent) : \E G : Parsed(end, k, G)
  BY Zenon DEF ParserInv
<1>3. PICK k \in 0..Len(sent) : \E G : Parsed(end, k, G)
  BY <1>2
<1>4. PICK G : Parsed(end, k, G)
  BY <1>3
<1>5. Len(sent) \in Nat /\ events = Said(sent)[k]
  <2>1. Len(sent) \in Nat
    BY <1>1, LenProperties, Zenon
  <2> QED BY <2>1, <1>4, Zenon DEF Parsed
<1>6. IsPrefix(events, Said(sent)[Len(sent)])
  BY <1>5, SaidGrows
<1>7. ASSUME coming = <<>>, Boundaries(buffer) = {} PROVE events = Said(sent)[Len(sent)]
  <2>1. ASSUME k < Len(sent) PROVE FALSE
    <3>0. /\ Len(FrameBytes(sent[k + 1], end)) \in Nat \ {0}
          /\ \A j \in 1..Len(FrameBytes(sent[k + 1], end)) : Len(G[k]) + j <= Len(G[Len(sent)])
          /\ \A n \in 0..Len(sent) : Len(G[n]) \in Nat
      <4>1. NextLies(end, k, G)
        BY <1>1, <1>4, ParsedIs, Zenon
      <4> QED BY <2>1, <4>1, Zenon DEF NextLies
    <3>1. /\ Len(FrameBytes(sent[k + 1], end)) \in Nat \ {0} /\ Len(FrameBytes(sent[k + 1], end)) \in Nat
          /\ \A j \in 1..Len(FrameBytes(sent[k + 1], end)) : Len(G[k]) + j <= Len(G[Len(sent)])
          /\ \A n \in 0..Len(sent) : Len(G[n]) \in Nat
      BY <3>0
    <3>8. PICK f, g, w : f = Len(FrameBytes(sent[k + 1], end)) /\ g = Len(G[k]) /\ w = Len(G[Len(sent)])
      OBVIOUS
    <3>2. ~(f <= Len(buffer))
      BY <3>8, <1>4, <1>7, <2>1, NextFrame, Zenon
    <3>3. f \in Nat /\ f \in Nat \ {0} /\ g \in Nat /\ g + f <= w /\ Len(buffer) \in Nat
      <4>0. f \in Nat /\ f \in Nat \ {0}
        BY <3>1, <3>8, Zenon
      <4>1. f \in 1..f
        BY <4>0
      <4>2. f \in Nat /\ f \in Nat \ {0} /\ g + f <= w
        BY <3>1, <3>8, <4>0, <4>1, Zenon
      <4>3. g \in Nat /\ Len(buffer) \in Nat
        BY <3>1, <3>8, <1>1, LenProperties, Zenon
      <4> QED BY <4>2, <4>3, Zenon
    <3>4. g + Len(buffer) + Len(coming) = w
      BY <3>8, <1>4, Zenon DEF Parsed
    <3>5. Len(coming) = 0
      BY <1>7
    <3>7. PICK x : x = Len(buffer)
      OBVIOUS
    <3>6. ~(f <= x) /\ f \in Nat /\ g \in Nat /\ g + f <= w /\ x \in Nat /\ g + x + 0 = w
      BY <3>2, <3>3, <3>4, <3>5, <3>7, Zenon
    <3> QED BY <3>6
  <2>2. k = Len(sent)
    BY <2>1, <1>5
  <2> QED BY <2>2, <1>5, Zenon
<1> QED BY <1>6, <1>7, Zenon DEF EventsAreThoseSent

\* Only the parser's side takes the steps of the parser.
LEMMA ParserKeeps == ParserInv /\ [Next]_vars => ParserInv'
<1> SUFFICES ASSUME ParserInv, [Next]_vars PROVE ParserInv'
  OBVIOUS
<1>1. ASSUME UNCHANGED sseVars PROVE ParserInv'
  <2>1. sent' = sent /\ coming' = coming /\ buffer' = buffer /\ events' = events
    BY <1>1, Zenon DEF sseVars
  <2>2. \A end, k, G : Parsed(end, k, G) => Parsed(end, k, G)'
    BY <2>1, Zenon DEF Parsed
  <2> QED BY <2>1, <2>2, Zenon DEF ParserInv
<1>2. SseNext \/ UNCHANGED sseVars
  BY Zenon DEF Next, Client, Service, vars
<1> QED BY <1>1, <1>2, AppendBytesKeeps, NextEventKeeps, Zenon DEF SseNext

\* Wherever the bytes of a stream are cut, and however its lines end, the
\* parser takes out what the frames that were sent say, in their order, and has
\* taken out all of it when every byte has come and no boundary is left.
THEOREM EventsComeAsSent == FairSpec => []EventsAreThoseSent
<1>1. Init => ParserInv
  BY ParserStart, Zenon DEF Init
<1> QED BY <1>1, ParserKeeps, ParserSays, PTL DEF FairSpec
=============================================================================
