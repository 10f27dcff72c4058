-------------------------- MODULE EdgehogSystemInfo --------------------------
(***************************************************************************)
(* The serial and the part number of src/edgehog_device.c.                 *)
(*                                                                         *)
(* A setter looks for the number in the NVS; one that differs it publishes *)
(* as a property and then stores.  The calls come from tasks of the        *)
(* application, without a lock, and a restart can fall between any steps.  *)
(***************************************************************************)
EXTENDS Integers, FiniteSets

CONSTANTS
    Caller,        \* tasks of the application
    Key,           \* the keys of the NVS: serial_number and part_number
    Number,
    None,          \* an absent value
    MaxCalls       \* bound: calls of the setters

ASSUME NumberAssumption == None \notin Number /\ None \notin Key

ASSUME CallsAssumption == MaxCalls \in Nat

VARIABLES
    nvs,         \* the number stored under each key
    server,      \* the number published last under each key
    callPc, key, number,    \* of each caller's call
    torn,        \* the keys with a publication that was not stored as it should
    sent,        \* the numbers published so far
    calls

infoVars == <<nvs, server, callPc, key, number, torn, sent, calls>>

InfoTypeOK ==
    /\ nvs \in [Key -> Number \cup {None}] /\ server \in [Key -> Number \cup {None}]
    /\ callPc \in [Caller -> {"idle", "read", "send", "store"}]
    /\ key \in [Caller -> Key \cup {None}] /\ number \in [Caller -> Number \cup {None}]
    /\ \A c \in Caller : callPc[c] # "idle" => key[c] # None /\ number[c] # None
    /\ torn \subseteq Key /\ sent \in [Key -> SUBSET Number] /\ calls \in 0..MaxCalls

InfoInit ==
    /\ nvs = [k \in Key |-> None] /\ server = [k \in Key |-> None]
    /\ callPc = [c \in Caller |-> "idle"]
    /\ key = [c \in Caller |-> None] /\ number = [c \in Caller |-> None]
    /\ torn = {} /\ sent = [k \in Key |-> {}] /\ calls = 0

\* The callers that have published a number for k which they have yet to store.
Storing(k) == {c \in Caller : callPc[c] = "store" /\ key[c] = k}

Goto(c, pc) == callPc' = [callPc EXCEPT ![c] = pc]

-----------------------------------------------------------------------------
(* edgehog_device_set_system_serial_number, edgehog_device_set_system_part_number. *)

SetCalled(c, k, n) ==
    /\ callPc[c] = "idle" /\ calls < MaxCalls
    /\ Goto(c, "read") /\ calls' = calls + 1
    /\ key' = [key EXCEPT ![c] = k] /\ number' = [number EXCEPT ![c] = n]
    /\ UNCHANGED <<nvs, server, torn, sent>>

\* edgehog_nvs_get_string: nothing without a key, a namespace or memory.
Previous(k) == {nvs[k], None}

\* Mutant: any stored number will do.
IsKept_any(previous, n) == previous # None
\* The number is that of the NVS: there is nothing to do.
IsKept(previous, n) == previous = n

SetReads(c) ==
    /\ callPc[c] = "read"
    /\ \E previous \in Previous(key[c]) :
          Goto(c, IF IsKept(previous, number[c]) THEN "idle" ELSE "send")
    /\ UNCHANGED <<nvs, server, key, number, torn, sent, calls>>

SetSends(c) ==
    /\ callPc[c] = "send"
    /\ server' = [server EXCEPT ![key[c]] = number[c]]
    /\ sent' = [sent EXCEPT ![key[c]] = @ \cup {number[c]}]
    /\ torn' = IF Storing(key[c]) = {} THEN torn ELSE torn \cup {key[c]}
    /\ Goto(c, "store")
    /\ UNCHANGED <<nvs, key, number, calls>>

\* Mutant: the number is stored all the same.
AfterNotSent_store(c) == Goto(c, "store")
AfterNotSent(c) == Goto(c, "idle")

SetNotSent(c) ==
    /\ callPc[c] = "send" /\ AfterNotSent(c)
    /\ UNCHANGED <<nvs, server, key, number, torn, sent, calls>>

\* edgehog_nvs_set_str.
SetStores(c) ==
    /\ callPc[c] = "store"
    /\ nvs' = [nvs EXCEPT ![key[c]] = number[c]]
    /\ Goto(c, "idle")
    /\ UNCHANGED <<server, key, number, torn, sent, calls>>

\* The NVS cannot be opened or written.
SetNotStored(c) ==
    /\ callPc[c] = "store" /\ Goto(c, "idle")
    /\ torn' = torn \cup {key[c]}
    /\ UNCHANGED <<nvs, server, key, number, sent, calls>>

InfoCall == \E c \in Caller, k \in Key, n \in Number : SetCalled(c, k, n)

InfoStep == \E c \in Caller :
    SetReads(c) \/ SetSends(c) \/ SetNotSent(c) \/ SetStores(c) \/ SetNotStored(c)

\* esp_restart or power loss, in the middle of any call.
InfoRestart ==
    /\ callPc' = [c \in Caller |-> "idle"]
    /\ torn' = torn \cup {k \in Key : Storing(k) # {}}
    /\ UNCHANGED <<nvs, server, key, number, sent, calls>>

-----------------------------------------------------------------------------
\* The NVS never holds a number that was not published: otherwise every later call would
\* take it for published and return ESP_OK (edgehog_device.c:461-473).
StoredWasSent == \A k \in Key : nvs[k] # None => nvs[k] \in sent[k]

\* The stored number, for which a call returns ESP_OK at once, is the one the server has,
\* unless a publication is being stored, or was not stored because of a restart, a
\* failing NVS or a second task (edgehog_device.c:454-473).
StoredIsServers ==
    \A k \in Key : k \notin torn /\ Storing(k) = {} => nvs[k] = server[k]
=============================================================================
