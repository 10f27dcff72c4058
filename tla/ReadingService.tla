---------------------------- MODULE ReadingService ----------------------------
(***************************************************************************)
(* What battery status and geolocation promise, without the list, the      *)
(* flags and the fields that two tasks access one by one: each source has  *)
(* room for one reading that waits, a reading waits only if it is not the  *)
(* one the server has, and a reading that waits is published once, whole,  *)
(* before another one may wait.  A reading that finds no room is dropped.  *)
(*                                                                         *)
(* A publication may be torn: what the server then has is put together     *)
(* from fields of readings of the source, and the source may take in a     *)
(* reading that the server has until the next one is published.            *)
(***************************************************************************)
CONSTANTS
    Source, Field, Reading,
    Zero                \* what the server is taken to have at first

VARIABLES
    given,       \* the readings of each source given so far
    waiting,     \* of each source: {} or the one reading that waits
    published,   \* what was last published of each source
    torn         \* the sources of which that is a mixture

service == <<given, waiting, published, torn>>

Init ==
    /\ given = [s \in Source |-> {}]
    /\ waiting = [s \in Source |-> {}]
    /\ published = [s \in Source |-> Zero] /\ torn = {}

Give(s, r) ==
    /\ given' = [given EXCEPT ![s] = @ \cup {r}]
    /\ UNCHANGED <<waiting, published, torn>>

Keep(s, r) ==
    /\ r \in given[s] /\ waiting[s] = {} /\ (r # published[s] \/ s \in torn)
    /\ waiting' = [waiting EXCEPT ![s] = {r}]
    /\ UNCHANGED <<given, published, torn>>

Publish(s, r) ==
    /\ r \in waiting[s]
    /\ published' = [published EXCEPT ![s] = r] /\ torn' = torn \ {s}
    /\ waiting' = [waiting EXCEPT ![s] = {}]
    /\ UNCHANGED given

Mixture(s, r) == \A f \in Field : \E q \in given[s] \cup {Zero} : r[f] = q[f]

Tear(s, r) ==
    /\ waiting[s] # {} /\ Mixture(s, r)
    /\ published' = [published EXCEPT ![s] = r] /\ torn' = torn \cup {s}
    /\ waiting' = [waiting EXCEPT ![s] = {}]
    /\ UNCHANGED given

Next == \E s \in Source, r \in Reading :
            Give(s, r) \/ Keep(s, r) \/ Publish(s, r) \/ Tear(s, r)

Spec == Init /\ [][Next]_service
=============================================================================
