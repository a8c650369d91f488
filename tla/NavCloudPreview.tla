---------------------------- MODULE NavCloudPreview ----------------------------
(***************************************************************************)
(* The preview of the administrator's app: every bound point that has an   *)
(* asset is resolved, the asset is put on the anchor once it is tracked,   *)
(* and the nudge buttons move it.  The offsets are saved with each nudge   *)
(* and loaded when the app starts.                                         *)
(*                                                                         *)
(* Registration is NavCloudAnchorAdmin's; here a point is bound at any     *)
(* time, and every point has a label with an asset class.  An offset is a  *)
(* number of nudges; ARCore resolves, fails and loses track of an anchor   *)
(* when it likes.                                                          *)
(***************************************************************************)
EXTENDS CloudPoints

CONSTANTS
    MaxRetries,    \* retries of a resolve (5 in the code)
    MaxOffset      \* bound on the nudges of a point

ASSUME PreviewAssumption ==
    MaxRetries \in Nat /\ MaxOffset \in Nat

VARIABLES
    preview,    \* bPreviewMode
    bound,      \* the points of the list that are bound
    chosen,     \* the point at SelectedIdx
    entries,    \* PreviewEntries: the entry of each point being previewed
    offsets,    \* Offsets
    saved       \* the offsets in the save slot

previewVars == <<preview, bound, chosen, entries, offsets, saved>>

PinStates == {"null", "Pending", "TimedOut", "Error", "Hidden", "Tracked"}
Entry == [pin : PinStates, retries : 0..MaxRetries, asset : BOOLEAN]
Shown == {p \in DOMAIN entries : entries[p].asset}

PreviewInit ==
    /\ preview = FALSE /\ bound = {} /\ chosen \in Points /\ entries = <<>>
    /\ offsets = [p \in Points |-> 0] /\ saved = offsets

\* SaveOffsets.
SaveOffsets == saved' = offsets'

Change(p, e) == entries' = [entries EXCEPT ![p] = e]

Register(p) ==
    /\ p \notin bound /\ bound' = bound \union {p}
    /\ UNCHANGED <<preview, chosen, entries, offsets, saved>>

Choose(p) ==
    /\ chosen' = p /\ chosen # p
    /\ UNCHANGED <<preview, bound, entries, offsets, saved>>

\* EnterPreview: a resolve for each bound point; those that
\* do not start have no entry, and the first that did is selected.
EnterPreview ==
    /\ ~preview /\ preview' = TRUE
    /\ \E started \in SUBSET bound :
        /\ entries' = [p \in started |-> [pin |-> "Pending", retries |-> 0, asset |-> FALSE]]
        /\ chosen' = IF started = {} THEN chosen ELSE FirstPoint(started)
    /\ UNCHANGED <<bound, offsets, saved>>

\* ExitPreview: pins are removed and assets destroyed.
ExitPreview ==
    /\ preview /\ preview' = FALSE
    /\ entries' = <<>>
    /\ UNCHANGED <<bound, chosen, offsets, saved>>

OnPreviewClicked == EnterPreview \/ ExitPreview

\* ARCore goes on with a resolve, or time does.
ArCoreStep(p) ==
    /\ \E to \in CASE entries[p].pin = "Pending" -> {"TimedOut", "Error", "Hidden", "Tracked"}
                   [] entries[p].pin = "TimedOut" -> {"Error", "Hidden", "Tracked"}
                   [] entries[p].pin = "Hidden" -> {"Tracked"}
                   [] entries[p].pin = "Tracked" -> {"Hidden"}
                   [] OTHER -> {} :
        Change(p, [entries[p] EXCEPT !.pin = to])
    /\ UNCHANGED <<preview, bound, chosen, offsets, saved>>

\* A resolve that failed or takes too long is made again, and may
\* not start, which leaves the entry without a pin.
RetryResolve(p) ==
    /\ entries[p].pin \in {"Error", "TimedOut"}
    /\ ~entries[p].asset /\ entries[p].retries < MaxRetries
    /\ \E pin \in {"Pending", "null"} :
        Change(p, [pin |-> pin, retries |-> entries[p].retries + 1, asset |-> FALSE])
    /\ UNCHANGED <<preview, bound, chosen, offsets, saved>>

\* An anchor that is resolved and tracked gets its asset.
ShowAsset(p) ==
    /\ entries[p].pin = "Tracked" /\ ~entries[p].asset
    /\ Change(p, [entries[p] EXCEPT !.asset = TRUE])
    /\ UNCHANGED <<preview, bound, chosen, offsets, saved>>

TickPreview(p) == RetryResolve(p) \/ ShowAsset(p)

\* The point a nudge is for: in the preview the selected one if its asset is
\* shown, else the first shown; else the selected one.
NudgeTarget ==
    IF ~preview \/ Shown = {} \/ chosen \in Shown THEN chosen
    ELSE FirstPoint(Shown)

\* ApplyNudge: one way, the other, or back to nothing; saved at once.
ApplyNudge ==
    /\ \E to \in 0..MaxOffset :
        /\ to \in {0, offsets[NudgeTarget] - 1, offsets[NudgeTarget] + 1}
        /\ offsets' = [offsets EXCEPT ![NudgeTarget] = to]
    /\ SaveOffsets
    /\ UNCHANGED <<preview, bound, chosen, entries>>

\* The app ends, in order or not, and starts again: LoadOffsets.
Restart ==
    /\ preview' = FALSE /\ entries' = <<>>
    /\ offsets' = saved
    /\ UNCHANGED <<bound, chosen, saved>>

PreviewNext ==
    \/ OnPreviewClicked \/ ApplyNudge \/ Restart
    \/ \E p \in Points : Register(p) \/ Choose(p)
    \/ \E p \in DOMAIN entries : ArCoreStep(p) \/ TickPreview(p)

PreviewTypeOK ==
    /\ preview \in BOOLEAN /\ bound \subseteq Points /\ chosen \in Points
    /\ DOMAIN entries \subseteq bound /\ \A p \in DOMAIN entries : entries[p] \in Entry
    /\ (preview \/ entries = <<>>)
    /\ offsets \in [Points -> 0..MaxOffset] /\ saved \in [Points -> 0..MaxOffset]

===============================================================================
