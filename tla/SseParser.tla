------------------------------ MODULE SseParser ------------------------------
(***************************************************************************)
(* FSseParser: frames of server-sent events out of bytes that come cut     *)
(* anywhere.  A frame is a sequence of lines; a line is an event's name, a *)
(* piece of data or a comment, and stands for one character of two bytes,  *)
(* which is lost when it is decoded from one of them.                      *)
(***************************************************************************)
EXTENDS Naturals, Sequences, SequencesExt

CONSTANTS
    Names,     \* the lines that name an event
    Data,      \* the lines that carry data
    Comments,  \* the lines that say nothing
    Streams,   \* the sequences of frames that the server may send
    MaxChunk   \* bound on the bytes that come at once

Line == Names \union Data \union Comments

\* The service sends no frame without a line.
ASSUME ParserAssumption ==
    MaxChunk \in Nat \ {0} /\ "" \notin Line /\ Streams \subseteq Seq(Seq(Line) \ {<<>>})

LF == <<"LF", 0>>
CR == <<"CR", 0>>

VARIABLES
    sent,    \* the frames that were sent
    coming,  \* their bytes still on their way
    buffer,  \* FSseParser::Buffer
    events   \* the events taken out

sseVars == <<sent, coming, buffer, events>>

\* Frames end with an empty line; a line ends in one of two ways.
LineBytes(l, end) == <<<<l, 1>>, <<l, 2>>>> \o end
FrameBytes(lines, end) == FlattenSeq([k \in DOMAIN lines |-> LineBytes(lines[k], end)]) \o end
Encode(frames, end) == FlattenSeq([i \in DOMAIN frames |-> FrameBytes(frames[i], end)])

\* An LF alone decides (for a mutant).
WidthOfLF(b, i) == IF i < Len(b) /\ b[i + 1] = LF /\ b[i] = LF THEN 2 ELSE 0

\* How many bytes of b from byte i are a boundary between frames.
Width(b, i) ==
    IF i < Len(b) /\ SubSeq(b, i, i + 1) = <<LF, LF>> THEN 2
    ELSE IF i + 3 <= Len(b) /\ SubSeq(b, i, i + 3) = <<CR, LF, CR, LF>> THEN 4 ELSE 0

Boundaries(b) == {i \in DOMAIN b : Width(b, i) > 0}
FindFrameBoundary(b) == CHOOSE i \in Boundaries(b) : \A j \in Boundaries(b) : i <= j

\* Bytes cut at each LF.
Pieces(bytes) ==
    LET cut[n \in 0..Len(bytes)] ==
          IF n = 0 THEN [done |-> <<>>, piece |-> <<>>]
          ELSE LET before == cut[n - 1]
               IN  IF bytes[n] = LF THEN [done |-> Append(before.done, before.piece), piece |-> <<>>]
                   ELSE [done |-> before.done, piece |-> Append(before.piece, bytes[n])]
    IN  Append(cut[Len(bytes)].done, cut[Len(bytes)].piece)

\* What the bytes of a line are decoded to, without a CR at its end.
Text(bytes) ==
    LET text == IF bytes # <<>> /\ Last(bytes) = CR THEN Front(bytes) ELSE bytes
    IN  IF Len(text) = 2 /\ text[1][1] = text[2][1] THEN text[1][1] ELSE ""

Lines(bytes) == LET pieces == Pieces(bytes) IN [k \in DOMAIN pieces |-> Text(pieces[k])]

\* What a frame says: the last name and all the data; comments say nothing.
Say(e, l) == IF l \in Names THEN [e EXCEPT !.event = l]
             ELSE IF l \in Data THEN [e EXCEPT !.data = Append(@, l)] ELSE e
Meaning(lines) == FoldLeft(Say, [event |-> "", data |-> <<>>], lines)

Silent(e) == e.event = "" /\ e.data = <<>>

AppendBytes == \E n \in 1..MaxChunk :
    /\ n <= Len(coming)
    /\ buffer' = buffer \o SubSeq(coming, 1, n) /\ coming' = SubSeq(coming, n + 1, Len(coming))
    /\ UNCHANGED <<events, sent>>

\* One pass of the loop of NextEvent, which skips the frames that say nothing.
NextEvent ==
    /\ Boundaries(buffer) # {}
    /\ LET i == FindFrameBoundary(buffer)
           e == Meaning(Lines(SubSeq(buffer, 1, i - 1)))
       IN /\ events' = IF Silent(e) THEN events ELSE Append(events, e)
          /\ buffer' = SubSeq(buffer, i + Width(buffer, i), Len(buffer))
    /\ UNCHANGED <<coming, sent>>

SseInit ==
    /\ sent \in Streams /\ buffer = <<>> /\ events = <<>>
    /\ \E end \in {<<LF>>, <<CR, LF>>} : coming = Encode(sent, end)

SseNext == AppendBytes \/ NextEvent

\* What the first frames say, those left out that say nothing.
Said(frames) ==
    LET said[k \in 0..Len(frames)] ==
          IF k = 0 THEN <<>>
          ELSE LET e == Meaning(frames[k]) IN IF Silent(e) THEN said[k - 1] ELSE Append(said[k - 1], e)
    IN  said

\* Wherever the bytes are cut, what comes out is what the frames that were sent
\* say, in their order, and all of it once every byte has come.
EventsAreThoseSent ==
    LET said == Said(sent)[Len(sent)]
    IN  /\ IsPrefix(events, said)
        /\ coming = <<>> /\ Boundaries(buffer) = {} => events = said
=============================================================================
