----------------------------- MODULE SosPromise -----------------------------
(***************************************************************************)
(* What an SOS promises to its contacts and guardians, whatever the chain   *)
(* of awaits, the Dashboards, the network and a refusing server do: each    *)
(* contact is tried at most once, an alert appears only before anyone was   *)
(* tried, is called sent only when all were, and never vanishes or changes  *)
(* otherwise but by a disarm.  That Twilio gets through to a contact, and   *)
(* that the server takes a disarm, is not promised.                         *)
(***************************************************************************)
CONSTANTS
    Alerts,  \* the alerts that may be raised
    Contacts \* who is to be told of each

VARIABLES
    status,  \* what the guardians see of each alert
    tried    \* the contacts that Twilio was called for

vars == <<status, tried>>

Init ==
    /\ status = [a \in Alerts |-> "none"]
    /\ tried = [a \in Alerts |-> {}]

Raise(a) ==
    /\ status[a] = "none"
    /\ tried[a] = {}
    /\ status' = [status EXCEPT ![a] = "active"]
    /\ UNCHANGED tried

\* Also for an alert that the server did not take.
Try(a, c) ==
    /\ c \notin tried[a]
    /\ tried' = [tried EXCEPT ![a] = @ \cup {c}]
    /\ UNCHANGED status

\* Also of an alert that was resolved meanwhile.
CallSent(a) ==
    /\ status[a] # "none"
    /\ tried[a] = Contacts
    /\ status' = [status EXCEPT ![a] = "sent"]
    /\ UNCHANGED tried

Resolve(a) ==
    /\ status[a] # "none"
    /\ status' = [status EXCEPT ![a] = "resolved"]
    /\ UNCHANGED tried

Next ==
    \E a \in Alerts :
        \/ Raise(a) \/ CallSent(a) \/ Resolve(a)
        \/ \E c \in Contacts : Try(a, c)

Spec == Init /\ [][Next]_vars

=============================================================================
