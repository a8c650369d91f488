---------------------------- MODULE AnswerStream ----------------------------
(***************************************************************************)
(* What the chat service promises the app about the answer to a question   *)
(* and what the app relies on: an answer that is told to be over has had a *)
(* piece before, a question is refused only before its first piece, and    *)
(* every question is told, refused or cut off in the end.                  *)
(***************************************************************************)
CONSTANT Questions

VARIABLE phase   \* phase[q]: how far the answer to question q has got

Phases == {"waiting", "asked", "spoken", "told", "refused", "cut", "closed"}

Goes(q, from, to) == phase[q] \in from /\ phase' = [phase EXCEPT ![q] = to]

Ask(q)    == Goes(q, {"waiting"}, "asked")
Speak(q)  == Goes(q, {"asked"}, "spoken")
Tell(q)   == Goes(q, {"spoken"}, "told")
Refuse(q) == Goes(q, {"waiting", "asked"}, "refused")
Cut(q)    == Goes(q, {"asked", "spoken"}, "cut")
Close(q)  == Goes(q, {"told", "refused", "cut"}, "closed")
Settles(q) == Speak(q) \/ Tell(q) \/ Cut(q) \/ (phase[q] = "asked" /\ Refuse(q))

\* A server that stops cuts all its answers at once.
CutAll == phase' = [q \in Questions |-> IF phase[q] \in {"asked", "spoken"} THEN "cut" ELSE phase[q]]

Init == phase = [q \in Questions |-> "waiting"]
Next == CutAll \/ \E q \in Questions : Ask(q) \/ Speak(q) \/ Tell(q) \/ Refuse(q) \/ Cut(q) \/ Close(q)
Order == Init /\ [][Next]_phase
Spec == Order /\ \A q \in Questions : WF_phase(Settles(q))
=============================================================================
