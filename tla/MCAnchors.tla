------------------------------ MODULE MCAnchors ------------------------------
(***************************************************************************)
(* The three sides of the cloud anchors, each with an environment that does *)
(* more than the other two: a behaviour is one of them, the rest at rest.   *)
(* The service is looked at twice, to keep the instances small: for what    *)
(* its handlers do to each other while no time passes, and, with a request  *)
(* less, for what the daily job does while it does.                         *)
(***************************************************************************)
EXTENDS CloudAnchorService, NavCloudAnchorAdmin, NavCloudPreview

VARIABLE side

Sides == {"handlers", "service", "admin", "preview"}
vars == <<side, serviceVars, adminVars, previewVars>>

Init == side \in Sides /\ ServiceInit /\ AdminInit /\ PreviewInit

Admins(A) == side = "admin" /\ A /\ UNCHANGED <<side, serviceVars, previewVars>>

Next ==
    \/ /\ \/ side = "handlers" /\ ServiceNext /\ UNCHANGED <<cron, ran>>
          \/ side = "service" /\ ServiceNext /\ calls' < MaxCalls
       /\ UNCHANGED <<side, adminVars, previewVars>>
    \/ side = "admin" /\ AdminNext /\ UNCHANGED <<side, serviceVars, previewVars>>
    \/ side = "preview" /\ PreviewNext /\ UNCHANGED <<side, serviceVars, adminVars>>

\* ARCore ends what it hosts, the app ticks, and a request ends within its time.
\* Nothing is assumed of the daily job and of Google: the property says what it
\* asks of them.
Fairness ==
    /\ WF_vars(Admins(HostEnds \/ PollPendingHost)) /\ WF_vars(Admins(BindEnds))

Spec == Init /\ [][Next]_vars /\ Fairness

TypeOK == side \in Sides /\ ServiceTypeOK /\ AdminTypeOK /\ PreviewTypeOK
===============================================================================
