----------------------------- MODULE NickRequests -----------------------------
(***************************************************************************)
(* Registration requests (src/nickserv.c): with NSEmailReg a nick is only  *)
(* registered once its user CONFIRMs the code that was mailed to him; in   *)
(* between a NickRequest is kept in the hash table nrlists and in the      *)
(* prenick database.                                                       *)
(*                                                                         *)
(* nrlists[b] is the chain of bucket b, newest first.  The file is what    *)
(* save_ns_req_dbase wrote: the records of every bucket in order.          *)
(*                                                                         *)
(* Left out: pass code, password and address of a request; what CONFIRM    *)
(* makes of it (module NickServ).                                          *)
(***************************************************************************)
EXTENDS Naturals, Sequences, FiniteSets

CONSTANTS
    Nick,
    Buckets,        \* number of chains: 1024 in the code
    HASH,           \* HASH(nick): the chain of a nick
    NSRExpire,      \* seconds before a request expires, or 0
    MaxTime         \* bound of the clock

Bucket == 0..(Buckets - 1)

ASSUME BucketsAssumption ==
    /\ Buckets \in Nat \ {0}
    /\ HASH \in [Nick -> Bucket]
    /\ NSRExpire \in Nat /\ MaxTime \in Nat

Request == [nick: Nick, requested: Nat]

VARIABLES now, nrlists, file

vars == <<now, nrlists, file>>

TypeOK ==
    /\ now \in Nat
    /\ nrlists \in [Bucket -> Seq(Request)]
    /\ file \in [Bucket -> Seq(Request)]

Init ==
    /\ now = 0
    /\ nrlists = [b \in Bucket |-> <<>>]
    /\ file = [b \in Bucket |-> <<>>]

-----------------------------------------------------------------------------
Due(r) == NSRExpire # 0 /\ now - r.requested >= NSRExpire

\* Mutant of Requested: a request that is due no longer counts.
RequestedNotDue(n) ==
    \E i \in DOMAIN nrlists[HASH[n]] :
        nrlists[HASH[n]][i].nick = n /\ ~Due(nrlists[HASH[n]][i])

\* findrequestnick() compares the nicks of one chain.
Requested(n) == \E i \in DOMAIN nrlists[HASH[n]] : nrlists[HASH[n]][i].nick = n

InsertRequestNick(chain, r) == <<r>> \o chain

After(chain, i) == SubSeq(chain, i + 1, Len(chain))

\* delnickrequest() of the ith request: what followed it becomes the chain.
DelNickRequest(chain, i) == After(chain, i)

\* expire_requests() deletes the due requests of a chain from front to back:
\* the last one deleted decides what is left.
Expired(chain) ==
    LET due == {i \in DOMAIN chain : Due(chain[i])}
    IN  IF due = {} THEN chain
        ELSE DelNickRequest(chain, CHOOSE i \in due : \A j \in due : j <= i)

-----------------------------------------------------------------------------
\* REGISTER by a user of an unregistered nick.  When the mail cannot be sent
\* the request is deleted at once, and when no mail is asked for it is
\* confirmed at once: both leave the chain as it was.
Register(n) ==
    /\ ~Requested(n)
    /\ nrlists' = [nrlists EXCEPT ![HASH[n]] =
                      InsertRequestNick(@, [nick |-> n, requested |-> now])]
    /\ UNCHANGED <<now, file>>

\* CONFIRM by the user or for him, or DROP by a services admin.
Remove(n) ==
    /\ \E i \in DOMAIN nrlists[HASH[n]] :
          /\ nrlists[HASH[n]][i].nick = n
          /\ \A j \in 1..(i - 1) : nrlists[HASH[n]][j].nick # n
          /\ nrlists' = [nrlists EXCEPT ![HASH[n]] = DelNickRequest(@, i)]
    /\ UNCHANGED <<now, file>>

ExpireRequests ==
    /\ nrlists' = [b \in Bucket |-> Expired(nrlists[b])]
    /\ UNCHANGED <<now, file>>

\* save_ns_req_dbase()
Save == file' = nrlists /\ UNCHANGED <<now, nrlists>>

\* Every record of the file ends with a 0, which ends one of the Buckets
\* rounds of load_ns_req_db(): only the first Buckets records are read.
\* InFile(b) are the records before those of bucket b.
InFile(b) == Cardinality(UNION {{c} \X DOMAIN file[c] : c \in 0..(b - 1)})

\* Mutant of Loadable: reading stops one record early.
LoadableLess(b) ==
    IF InFile(b) + Len(file[b]) <= Buckets - 1 THEN Len(file[b])
    ELSE IF InFile(b) <= Buckets - 1 THEN Buckets - 1 - InFile(b) ELSE 0

Loadable(b) ==
    IF InFile(b) + Len(file[b]) <= Buckets THEN Len(file[b])
    ELSE IF InFile(b) <= Buckets THEN Buckets - InFile(b) ELSE 0

\* load_ns_req_db() inserts each record it reads in front.
Loaded(b) == [i \in 1..Loadable(b) |-> file[b][Loadable(b) + 1 - i]]

\* Services stop and start again.
Restart ==
    /\ nrlists' = [b \in Bucket |-> Loaded(b)]
    /\ UNCHANGED <<now, file>>

Tick == now < MaxTime /\ now' = now + 1 /\ UNCHANGED <<nrlists, file>>

Next ==
    \/ \E n \in Nick : Register(n) \/ Remove(n)
    \/ ExpireRequests \/ Save \/ Restart \/ Tick

Spec == Init /\ [][Next]_vars
-----------------------------------------------------------------------------
\* A nick is requested at most once, also after any number of restarts: the
\* pass code that was mailed last is the one CONFIRM asks for.
OneRequestPerNick ==
    \A b \in Bucket : \A i, j \in DOMAIN nrlists[b] :
        nrlists[b][i].nick = nrlists[b][j].nick => i = j

RequestsIn(lists) == UNION {{lists[b][i] : i \in DOMAIN lists[b]} : b \in Bucket}

Abs == INSTANCE NickRequestSet
         WITH requests <- RequestsIn(nrlists), saved <- RequestsIn(file)

\* The hash table with its chains implements the set of requests: nothing
\* but CONFIRM, DROP and expiry ends a request.
AbsSpec == Abs!Spec
===============================================================================
