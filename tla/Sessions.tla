------------------------------ MODULE Sessions ------------------------------
\* The sessions of one user in Redis (auth_service.py, Oauth2.py): a key per
\* session, which the token check looks for, and the set user_sessions, which
\* logout-all and the session count go by.  Every Redis command is a step of its
\* own; the requests of the user, and the administrator's, interleave.

CONSTANTS
    Logins,    \* logins; each has the jid it draws (uuid4)
    Requests   \* logouts and logout-alls

VARIABLES
    key,       \* the jids with a key session:<jid>
    members,   \* user_sessions:<user_id>
    login,     \* where each login is
    request,   \* where each request is: st, the jid of its token, the jids it read, those left
    raced      \* the logins added while a request had already decided to drop the set

vars == <<key, members, login, request, raced>>

-----------------------------------------------------------------------------
\* Login: the key, then the set, then the token.

Refuse(j) ==
    /\ login[j] = "new"
    /\ login' = [login EXCEPT ![j] = "refused"]
    /\ UNCHANGED <<key, members, request, raced>>

SetKey(j) ==
    /\ login[j] = "new"
    /\ key' = key \cup {j}
    /\ login' = [login EXCEPT ![j] = "keyed"]
    /\ UNCHANGED <<members, request, raced>>

Dropping == \E q \in Requests : request[q].st \in {"delete", "drop"}

AddMember(j) ==
    /\ login[j] = "keyed"
    /\ members' = members \cup {j}
    /\ login' = [login EXCEPT ![j] = "in"]
    /\ raced' = IF Dropping THEN raced \cup {j} ELSE raced
    /\ UNCHANGED <<key, request>>

\* SADD raises: the key stays, no token is given out.
FailLogin(j) ==
    /\ login[j] = "keyed"
    /\ login' = [login EXCEPT ![j] = "failed"]
    /\ UNCHANGED <<key, members, request, raced>>

\* The time limit of the key is also the token's; the set has none.
Expire(j) ==
    /\ j \in key
    /\ key' = key \ {j}
    /\ UNCHANGED <<members, login, request, raced>>

-----------------------------------------------------------------------------
At(q, st) == request[q].st = st
To(q, st) == request' = [request EXCEPT ![q].st = st]

\* verify_access_token finds the key of the token the request carries.
Accepted(j) == login[j] = "in" /\ j \in key

\* logout_user_service, also behind revoke_curr_session.
StartLogout(q, j) ==
    /\ At(q, "idle") /\ Accepted(j)
    /\ request' = [request EXCEPT ![q] = [@ EXCEPT !.st = "logout", !.jid = {j}]]
    /\ UNCHANGED <<key, members, login, raced>>

\* DEL answers how many keys it deleted: a session that is gone ends the request.
DeleteKey(q) ==
    /\ At(q, "logout")
    /\ key' = key \ request[q].jid
    /\ To(q, IF request[q].jid \subseteq key THEN "remove" ELSE "refused")
    /\ UNCHANGED <<members, login, raced>>

RemoveMember(q) ==
    /\ At(q, "remove")
    /\ members' = members \ request[q].jid
    /\ To(q, "count")
    /\ UNCHANGED <<key, login, raced>>

\* Mutant: the set is dropped whatever SCARD says.
CountMembersNot(q) ==
    /\ At(q, "count")
    /\ To(q, "drop")
    /\ UNCHANGED <<key, members, login, raced>>

CountMembers(q) ==
    /\ At(q, "count")
    /\ To(q, IF members = {} THEN "drop" ELSE "done")
    /\ UNCHANGED <<key, members, login, raced>>

\* logout_all_devices_service with an accepted token, and the administrator's
\* revoke_all_sessions, which needs none.
StartLogoutAll(q) ==
    /\ At(q, "idle")
    /\ To(q, "read")
    /\ UNCHANGED <<key, members, login, raced>>

ReadMembers(q) ==
    /\ At(q, "read")
    /\ request' = [request EXCEPT ![q] =
         IF members = {} THEN [@ EXCEPT !.st = "refused"]
         ELSE [@ EXCEPT !.st = "delete", !.read = members, !.left = members]]
    /\ UNCHANGED <<key, members, login, raced>>

\* The loop over the jids that were read, in the order of the set.
Deleted(q, j) ==
    request' = [request EXCEPT ![q] =
        [@ EXCEPT !.left = request[q].left \ {j},
                  !.st = IF request[q].left = {j} THEN "drop" ELSE "delete"]]

\* Mutant: the loop ends at a session that is gone, as a logout does.
DeleteUntilGone(q, j) ==
    /\ At(q, "delete") /\ j \in request[q].left
    /\ key' = key \ {j}
    /\ IF j \in key THEN Deleted(q, j) ELSE To(q, "drop")
    /\ UNCHANGED <<members, login, raced>>

DeleteSession(q, j) ==
    /\ At(q, "delete") /\ j \in request[q].left
    /\ key' = key \ {j}
    /\ Deleted(q, j)
    /\ UNCHANGED <<members, login, raced>>

DropSet(q) ==
    /\ At(q, "drop")
    /\ members' = {}
    /\ To(q, "done")
    /\ UNCHANGED <<key, login, raced>>

\* Redis fails: the request answers 500 and what it did stays.
FailRequest(q) ==
    /\ request[q].st \in {"logout", "remove", "count", "read", "delete", "drop"}
    /\ To(q, "failed")
    /\ UNCHANGED <<key, members, login, raced>>

-----------------------------------------------------------------------------
Init ==
    /\ key = {} /\ members = {} /\ raced = {}
    /\ login = [j \in Logins |-> "new"]
    /\ request = [q \in Requests |-> [st |-> "idle", jid |-> {}, read |-> {}, left |-> {}]]

Next ==
    \/ \E j \in Logins : Refuse(j) \/ SetKey(j) \/ AddMember(j) \/ FailLogin(j) \/ Expire(j)
    \/ \E q \in Requests :
        \/ DeleteKey(q) \/ RemoveMember(q) \/ CountMembers(q)
        \/ StartLogoutAll(q) \/ ReadMembers(q) \/ DropSet(q) \/ FailRequest(q)
        \/ \E j \in Logins : StartLogout(q, j) \/ DeleteSession(q, j)

Spec == Init /\ [][Next]_vars

-----------------------------------------------------------------------------
RequestState ==
    [st : {"idle", "logout", "remove", "count", "read", "delete", "drop",
           "done", "refused", "failed"},
     jid : SUBSET Logins, read : SUBSET Logins, left : SUBSET Logins]

\* Types; a logout-all that deletes has something left to delete.
TypeOK ==
    /\ key \subseteq Logins /\ members \subseteq Logins /\ raced \subseteq Logins
    /\ login \in [Logins -> {"new", "refused", "keyed", "in", "failed"}]
    /\ request \in [Requests -> RequestState]
    /\ \A q \in Requests : At(q, "delete") => request[q].left # {}

\* The token check and the set agree: a session that still opens the application
\* is in the set that logout-all and the session count go by, except while its
\* login is between the two writes or failed there, and except one hole: it was
\* added after a logout or logout-all had decided to drop the set.
UnlistedIsRaced ==
    \A j \in key \ members : login[j] \in {"keyed", "failed"} \/ j \in raced

\* What a successful answer promises: the session that logged out is gone from
\* both, and no session a logout-all read survives it, whatever ran in between.
OutIsOut ==
    \A q \in Requests : At(q, "done") =>
        /\ request[q].jid \cap (key \cup members) = {}
        /\ request[q].read \cap key = {}
=============================================================================
