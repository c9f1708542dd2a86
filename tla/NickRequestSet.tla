---------------------------- MODULE NickRequestSet ----------------------------
(***************************************************************************)
(* What NickServ promises of registration requests: a nick is requested at *)
(* most once, and a request stays, also over a restart from a database     *)
(* that holds it, until it is confirmed, dropped or expires.               *)
(***************************************************************************)
EXTENDS Naturals

CONSTANTS Nick, NSRExpire, MaxTime

Request == [nick: Nick, requested: Nat]

VARIABLES now, requests, saved

vars == <<now, requests, saved>>

Due(r) == NSRExpire # 0 /\ now - r.requested >= NSRExpire

Init == now = 0 /\ requests = {} /\ saved = {}

Ask(n) ==
    /\ \A r \in requests : r.nick # n
    /\ requests' = requests \cup {[nick |-> n, requested |-> now]}
    /\ UNCHANGED <<now, saved>>

\* Confirmed, or dropped by a services admin.
End(r) ==
    /\ r \in requests
    /\ requests' = requests \ {r}
    /\ UNCHANGED <<now, saved>>

Expire ==
    /\ requests' = {r \in requests : ~Due(r)}
    /\ UNCHANGED <<now, saved>>

Save == saved' = requests /\ UNCHANGED <<now, requests>>

Restart == requests' = saved /\ UNCHANGED <<now, saved>>

Tick == now < MaxTime /\ now' = now + 1 /\ UNCHANGED <<requests, saved>>

Next ==
    \/ \E n \in Nick : Ask(n)
    \/ \E r \in requests : End(r)
    \/ Expire \/ Save \/ Restart \/ Tick

Spec == Init /\ [][Next]_vars
===============================================================================
