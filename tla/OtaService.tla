------------------------------ MODULE OtaService ------------------------------
(***************************************************************************)
(* What the update promises the server, without the flash, the tasks and   *)
(* the messages between them: the device has at most one request in hand,  *)
(* settles it once and for all, and with a success only when it has made   *)
(* the request's image bootable.  A request can also be lost, and some it  *)
(* disowns: of these it promises nothing any more.                         *)
(***************************************************************************)
CONSTANTS Uuid, None

VARIABLES
    pending,    \* the request in hand, or None
    bootable,   \* requests whose image was made bootable
    verdict     \* how each request was settled

service == <<pending, bootable, verdict>>

Init ==
    /\ pending = None
    /\ bootable = {}
    /\ verdict = [u \in Uuid |-> "open"]

Accept(u) ==
    /\ pending = None /\ verdict[u] = "open" /\ u \notin bootable
    /\ pending' = u
    /\ UNCHANGED <<bootable, verdict>>

Install ==
    /\ pending # None /\ pending \notin bootable
    /\ bootable' = bootable \cup {pending}
    /\ UNCHANGED <<pending, verdict>>

Settle(outcome) ==
    /\ pending # None
    /\ outcome = "success" => pending \in bootable
    /\ verdict' = [verdict EXCEPT ![pending] = outcome]
    /\ pending' = None
    /\ UNCHANGED bootable

\* The device restarts before it has written the request to its flash.
Lose ==
    /\ pending # None /\ pending \notin bootable
    /\ pending' = None
    /\ UNCHANGED <<bootable, verdict>>

\* Requests leave the service: they were accepted, or waited for their verdict, while the
\* boot that settles requests still ran, or the image that gave their verdict was undone.
Disown(us) ==
    /\ pending' = IF pending \in us THEN None ELSE pending
    /\ bootable' = bootable \ us
    /\ verdict' = [u \in Uuid |-> IF u \in us THEN "disowned" ELSE verdict[u]]

Next ==
    \/ \E u \in Uuid : Accept(u)
    \/ Install
    \/ \E outcome \in {"success", "failed"} : Settle(outcome)
    \/ Lose
    \/ \E us \in SUBSET Uuid : Disown(us)

Spec == Init /\ [][Next]_service
=============================================================================
