--------------------------- MODULE SessionsProofs ---------------------------
\* Proofs about Sessions, for any number of logins and requests.
EXTENDS Sessions, TLAPS

\* What is written was issued: a jid in the set has its token, one with a key has
\* passed the first write of its login.
SessionsIssued ==
    /\ \A j \in members : login[j] = "in"
    /\ \A j \in key : login[j] \in {"keyed", "in", "failed"}

\* What a logout has done so far: its jid was issued, and is gone from the keys
\* after DEL and from the set after SREM.
LogoutOK(q) ==
    /\ \A j \in request[q].jid : login[j] = "in"
    /\ request[q].st \in {"remove", "count", "drop", "done"} => request[q].jid \cap key = {}
    /\ request[q].st \in {"count", "drop", "done"} => request[q].jid \cap members = {}
    /\ request[q].st \in {"idle", "read", "delete"} => request[q].jid = {}

\* What a logout-all has done so far: of the jids it read, only those left have a
\* key, and the members it has not read were added after it read.
LogoutAllOK(q) ==
    /\ \A j \in request[q].read : login[j] = "in"
    /\ request[q].st \in {"idle", "logout", "remove", "count", "read"} => request[q].read = {}
    /\ request[q].st = "delete" => request[q].read \cap key \subseteq request[q].left
    /\ request[q].st \in {"drop", "done"} => request[q].read \cap key = {}
    /\ request[q].st = "delete" => members \cap key \subseteq request[q].left \cup raced
    /\ request[q].st = "drop" => members \cap key \subseteq raced

\* The inductive invariant.
IInv ==
    /\ TypeOK
    /\ SessionsIssued
    /\ UnlistedIsRaced
    /\ \A q \in Requests : LogoutOK(q)
    /\ \A q \in Requests : LogoutAllOK(q)

\* The actions, as the proofs split on them.
LoginStep == \E j \in Logins :
    Refuse(j) \/ SetKey(j) \/ AddMember(j) \/ FailLogin(j) \/ Expire(j)
RequestStep(q) ==
    \/ DeleteKey(q) \/ RemoveMember(q) \/ CountMembers(q)
    \/ StartLogoutAll(q) \/ ReadMembers(q) \/ DropSet(q) \/ FailRequest(q)
    \/ \E j \in Logins : StartLogout(q, j) \/ DeleteSession(q, j)
-----------------------------------------------------------------------------
\* A request changes its own state only, keeps the logins, and takes keys and
\* members away.
LEMMA RequestFrame ==
  ASSUME NEW q \in Requests, TypeOK, RequestStep(q)
  PROVE  /\ TypeOK'
         /\ key' \subseteq key /\ members' \subseteq members
         /\ UNCHANGED <<login, raced>>
         /\ \A r \in Requests \ {q} : request'[r] = request[r]
  <1> USE DEF TypeOK, RequestState, At
  <1>1. CASE DeleteKey(q)
    BY <1>1 DEF DeleteKey, At, To
  <1>2. CASE RemoveMember(q)
    BY <1>2 DEF RemoveMember, At, To
  <1>3. CASE CountMembers(q)
    BY <1>3 DEF CountMembers, At, To
  <1>4. CASE StartLogoutAll(q)
    BY <1>4 DEF StartLogoutAll, At, To
  <1>5. CASE ReadMembers(q)
    <2> DEFINE new == IF members = {} THEN [request[q] EXCEPT !.st = "refused"]
                      ELSE [request[q] EXCEPT !.st = "delete", !.read = members,
                                              !.left = members]
    <2>1. request' = [request EXCEPT ![q] = new]
      BY <1>5 DEF ReadMembers
    <2>2. UNCHANGED <<key, members, login, raced>>
      BY <1>5 DEF ReadMembers
    <2>3. new \in RequestState /\ (new.st = "delete" => new.left # {})
      <3>1. CASE members = {}
        BY <3>1
      <3>2. CASE members # {}
        BY <3>2
      <3> QED  BY <3>1, <3>2
    <2> HIDE DEF new
    <2>4. request' \in [Requests -> RequestState]
      BY <2>1, <2>3 DEF RequestState
    <2>5. \A r \in Requests : request'[r] = IF r = q THEN new ELSE request[r]
      BY <2>1
    <2>6. \A r \in Requests : request'[r].st = "delete" => request'[r].left # {}
      BY <2>3, <2>5
    <2> QED  BY <2>2, <2>4, <2>5, <2>6
  <1>6. CASE DropSet(q)
    BY <1>6 DEF DropSet, At, To
  <1>7. CASE FailRequest(q)
    BY <1>7 DEF FailRequest, At, To
  <1>8. CASE \E j \in Logins : StartLogout(q, j)
    <2>1. PICK j \in Logins : StartLogout(q, j)
      BY <1>8
    <2> DEFINE new == [request[q] EXCEPT !.st = "logout", !.jid = {j}]
    <2>2. new \in RequestState /\ (new.st = "delete" => new.left # {})
      BY <2>1 DEF StartLogout, Accepted
    <2>3. request' = [request EXCEPT ![q] = new]
      BY <2>1 DEF StartLogout, Accepted
    <2>4. /\ key' \subseteq key /\ members' \subseteq members
          /\ UNCHANGED <<login, raced>>
      BY <2>1 DEF StartLogout, Accepted
    <2> HIDE DEF new
    <2>5. request' \in [Requests -> RequestState]
      BY <2>2, <2>3 DEF RequestState
    <2>6. \A r \in Requests : request'[r] = IF r = q THEN new ELSE request[r]
      BY <2>3
    <2>7. \A r \in Requests : request'[r].st = "delete" => request'[r].left # {}
      BY <2>2, <2>6
    <2> QED  BY <2>4, <2>5, <2>6, <2>7
  <1>9. CASE \E j \in Logins : DeleteSession(q, j)
    <2>1. PICK j \in Logins : DeleteSession(q, j)
      BY <1>9
    <2> DEFINE st == IF request[q].left = {j} THEN "drop" ELSE "delete"
               left == request[q].left \ {j}
               new == [request[q] EXCEPT !.left = left, !.st = st]
    <2>2. request' = [request EXCEPT ![q] = new]
      BY <2>1 DEF DeleteSession, Deleted
    <2>3. /\ st \in {"drop", "delete"} /\ left \in SUBSET Logins
          /\ st = "delete" => left # {}
      BY <2>1 DEF DeleteSession
    <2>4. /\ key' \subseteq key /\ members' \subseteq members
          /\ UNCHANGED <<login, raced>>
      BY <2>1 DEF DeleteSession
    <2> HIDE DEF st, left
    <2>5. new \in RequestState /\ (new.st = "delete" => new.left # {})
      BY <2>3
    <2> HIDE DEF new
    <2>6. request' \in [Requests -> RequestState]
      BY <2>2, <2>5 DEF RequestState
    <2>7. \A r \in Requests : request'[r] = IF r = q THEN new ELSE request[r]
      BY <2>2
    <2>8. \A r \in Requests : request'[r].st = "delete" => request'[r].left # {}
      BY <2>5, <2>7
    <2> QED  BY <2>4, <2>6, <2>7, <2>8
  <1> QED  BY <1>1, <1>2, <1>3, <1>4, <1>5, <1>6, <1>7, <1>8, <1>9 DEF RequestStep

\* The logins keep the types, and touch no request.
LEMMA LoginFrame ==
  ASSUME TypeOK, LoginStep
  PROVE  TypeOK' /\ request' = request
  <1> USE DEF TypeOK, RequestState, At
  <1>1. CASE \E j \in Logins : Refuse(j)
    BY <1>1 DEF Refuse
  <1>2. CASE \E j \in Logins : SetKey(j)
    BY <1>2 DEF SetKey
  <1>3. CASE \E j \in Logins : AddMember(j)
    BY <1>3 DEF AddMember, Dropping
  <1>4. CASE \E j \in Logins : FailLogin(j)
    BY <1>4 DEF FailLogin
  <1>5. CASE \E j \in Logins : Expire(j)
    BY <1>5 DEF Expire
  <1> QED  BY <1>1, <1>2, <1>3, <1>4, <1>5 DEF LoginStep

\* A login keeps the invariant: its jid is new, so no request knows it, and the
\* one it adds while a set is being dropped is a raced one.
LEMMA LoginKeeps ==
  ASSUME IInv, LoginStep
  PROVE  IInv'
  <1>1. TypeOK' /\ request' = request
    BY LoginFrame DEF IInv
  <1>2. CASE \E j \in Logins : Refuse(j)
    <2>1. SessionsIssued' /\ UnlistedIsRaced'
      BY <1>2 DEF IInv, TypeOK, SessionsIssued, UnlistedIsRaced, Refuse
    <2>2. \A q \in Requests : LogoutOK(q)'
      BY <1>1, <1>2 DEF IInv, TypeOK, SessionsIssued, LogoutOK, Refuse
    <2>3. \A q \in Requests : LogoutAllOK(q)'
      BY <1>1, <1>2 DEF IInv, TypeOK, SessionsIssued, LogoutAllOK, Refuse
    <2> QED  BY <1>1, <2>1, <2>2, <2>3 DEF IInv
  <1>3. CASE \E j \in Logins : SetKey(j)
    <2>1. SessionsIssued' /\ UnlistedIsRaced'
      BY <1>3 DEF IInv, TypeOK, SessionsIssued, UnlistedIsRaced, SetKey
    <2>2. \A q \in Requests : LogoutOK(q)'
      BY <1>1, <1>3 DEF IInv, TypeOK, SessionsIssued, LogoutOK, SetKey
    <2>3. \A q \in Requests : LogoutAllOK(q)'
      BY <1>1, <1>3 DEF IInv, TypeOK, SessionsIssued, LogoutAllOK, SetKey
    <2> QED  BY <1>1, <2>1, <2>2, <2>3 DEF IInv
  <1>4. CASE \E j \in Logins : AddMember(j)
    <2>1. SessionsIssued' /\ UnlistedIsRaced'
      BY <1>4 DEF IInv, TypeOK, SessionsIssued, UnlistedIsRaced, AddMember
    <2>2. \A q \in Requests : LogoutOK(q)'
      BY <1>1, <1>4 DEF IInv, TypeOK, SessionsIssued, LogoutOK, AddMember
    <2>3. \A q \in Requests : LogoutAllOK(q)'
      BY <1>1, <1>4 DEF IInv, TypeOK, SessionsIssued, LogoutAllOK, AddMember, Dropping
    <2> QED  BY <1>1, <2>1, <2>2, <2>3 DEF IInv
  <1>5. CASE \E j \in Logins : FailLogin(j)
    <2>1. SessionsIssued' /\ UnlistedIsRaced'
      BY <1>5 DEF IInv, TypeOK, SessionsIssued, UnlistedIsRaced, FailLogin
    <2>2. \A q \in Requests : LogoutOK(q)'
      BY <1>1, <1>5 DEF IInv, TypeOK, SessionsIssued, LogoutOK, FailLogin
    <2>3. \A q \in Requests : LogoutAllOK(q)'
      BY <1>1, <1>5 DEF IInv, TypeOK, SessionsIssued, LogoutAllOK, FailLogin
    <2> QED  BY <1>1, <2>1, <2>2, <2>3 DEF IInv
  <1>6. CASE \E j \in Logins : Expire(j)
    <2>1. SessionsIssued' /\ UnlistedIsRaced'
      BY <1>6 DEF IInv, TypeOK, SessionsIssued, UnlistedIsRaced, Expire
    <2>2. \A q \in Requests : LogoutOK(q)'
      BY <1>1, <1>6 DEF IInv, TypeOK, SessionsIssued, LogoutOK, Expire
    <2>3. \A q \in Requests : LogoutAllOK(q)'
      BY <1>1, <1>6 DEF IInv, TypeOK, SessionsIssued, LogoutAllOK, Expire
    <2> QED  BY <1>1, <2>1, <2>2, <2>3 DEF IInv
  <1> QED  BY <1>2, <1>3, <1>4, <1>5, <1>6 DEF LoginStep

\* Less can only help the requests that do not move.
LEMMA OthersKeep ==
  ASSUME NEW r \in Requests, LogoutOK(r), LogoutAllOK(r), request'[r] = request[r],
         key' \subseteq key, members' \subseteq members, UNCHANGED <<login, raced>>
  PROVE  LogoutOK(r)' /\ LogoutAllOK(r)'
  <1>1. LogoutOK(r)'     BY DEF LogoutOK
  <1>2. LogoutAllOK(r)'  BY DEF LogoutAllOK
  <1> QED  BY <1>1, <1>2

\* The request that moves keeps its own part, action by action.
LEMMA MoverKeeps ==
  ASSUME NEW q \in Requests, IInv, RequestStep(q)
  PROVE  SessionsIssued' /\ UnlistedIsRaced' /\ LogoutOK(q)' /\ LogoutAllOK(q)'
  <1> USE DEF IInv, TypeOK, RequestState, At
  <1>1. CASE DeleteKey(q)
    <2>1. SessionsIssued'   BY <1>1 DEF SessionsIssued, DeleteKey, At, To
    <2>2. UnlistedIsRaced'  BY <1>1 DEF SessionsIssued, UnlistedIsRaced, LogoutOK, LogoutAllOK, DeleteKey, At, To
    <2>3. LogoutOK(q)'      BY <1>1 DEF LogoutOK, DeleteKey, At, To
    <2>4. LogoutAllOK(q)'   BY <1>1 DEF SessionsIssued, LogoutAllOK, DeleteKey, At, To
    <2> QED  BY <2>1, <2>2, <2>3, <2>4
  <1>2. CASE RemoveMember(q)
    <2>1. SessionsIssued'   BY <1>2 DEF SessionsIssued, RemoveMember, At, To
    <2>2. UnlistedIsRaced'  BY <1>2 DEF SessionsIssued, UnlistedIsRaced, LogoutOK, LogoutAllOK, RemoveMember, At, To
    <2>3. LogoutOK(q)'      BY <1>2 DEF LogoutOK, RemoveMember, At, To
    <2>4. LogoutAllOK(q)'   BY <1>2 DEF SessionsIssued, LogoutAllOK, RemoveMember, At, To
    <2> QED  BY <2>1, <2>2, <2>3, <2>4
  <1>3. CASE CountMembers(q)
    <2>1. SessionsIssued'   BY <1>3 DEF SessionsIssued, CountMembers, At, To
    <2>2. UnlistedIsRaced'  BY <1>3 DEF SessionsIssued, UnlistedIsRaced, LogoutOK, LogoutAllOK, CountMembers, At, To
    <2>3. LogoutOK(q)'      BY <1>3 DEF LogoutOK, CountMembers, At, To
    <2>4. LogoutAllOK(q)'   BY <1>3 DEF SessionsIssued, LogoutAllOK, CountMembers, At, To
    <2> QED  BY <2>1, <2>2, <2>3, <2>4
  <1>4. CASE StartLogoutAll(q)
    <2>1. SessionsIssued'   BY <1>4 DEF SessionsIssued, StartLogoutAll, At, To
    <2>2. UnlistedIsRaced'  BY <1>4 DEF SessionsIssued, UnlistedIsRaced, LogoutOK, LogoutAllOK, StartLogoutAll, At, To
    <2>3. LogoutOK(q)'      BY <1>4 DEF LogoutOK, StartLogoutAll, At, To
    <2>4. LogoutAllOK(q)'   BY <1>4 DEF SessionsIssued, LogoutAllOK, StartLogoutAll, At, To
    <2> QED  BY <2>1, <2>2, <2>3, <2>4
  <1>5. CASE ReadMembers(q)
    <2>1. SessionsIssued'   BY <1>5 DEF SessionsIssued, ReadMembers, At
    <2>2. UnlistedIsRaced'  BY <1>5 DEF SessionsIssued, UnlistedIsRaced, LogoutOK, LogoutAllOK, ReadMembers, At
    <2>3. LogoutOK(q)'      BY <1>5 DEF LogoutOK, ReadMembers, At
    <2>4. LogoutAllOK(q)'   BY <1>5 DEF SessionsIssued, LogoutAllOK, ReadMembers, At
    <2> QED  BY <2>1, <2>2, <2>3, <2>4
  <1>6. CASE DropSet(q)
    <2>1. SessionsIssued'   BY <1>6 DEF SessionsIssued, DropSet, At, To
    <2>2. UnlistedIsRaced'  BY <1>6 DEF SessionsIssued, UnlistedIsRaced, LogoutOK, LogoutAllOK, DropSet, At, To
    <2>3. LogoutOK(q)'      BY <1>6 DEF LogoutOK, DropSet, At, To
    <2>4. LogoutAllOK(q)'   BY <1>6 DEF SessionsIssued, LogoutAllOK, DropSet, At, To
    <2> QED  BY <2>1, <2>2, <2>3, <2>4
  <1>7. CASE FailRequest(q)
    <2>1. SessionsIssued'   BY <1>7 DEF SessionsIssued, FailRequest, At, To
    <2>2. UnlistedIsRaced'  BY <1>7 DEF SessionsIssued, UnlistedIsRaced, LogoutOK, LogoutAllOK, FailRequest, At, To
    <2>3. LogoutOK(q)'      BY <1>7 DEF LogoutOK, FailRequest, At, To
    <2>4. LogoutAllOK(q)'   BY <1>7 DEF SessionsIssued, LogoutAllOK, FailRequest, At, To
    <2> QED  BY <2>1, <2>2, <2>3, <2>4
  <1>8. CASE \E j \in Logins : StartLogout(q, j)
    <2>1. SessionsIssued'   BY <1>8 DEF SessionsIssued, StartLogout, At, Accepted
    <2>2. UnlistedIsRaced'  BY <1>8 DEF SessionsIssued, UnlistedIsRaced, LogoutOK, LogoutAllOK, StartLogout, At, Accepted
    <2>3. LogoutOK(q)'      BY <1>8 DEF LogoutOK, StartLogout, At, Accepted
    <2>4. LogoutAllOK(q)'   BY <1>8 DEF SessionsIssued, LogoutAllOK, StartLogout, At, Accepted
    <2> QED  BY <2>1, <2>2, <2>3, <2>4
  <1>9. CASE \E j \in Logins : DeleteSession(q, j)
    <2>1. SessionsIssued'   BY <1>9 DEF SessionsIssued, DeleteSession, Deleted, At
    <2>2. UnlistedIsRaced'  BY <1>9 DEF SessionsIssued, UnlistedIsRaced, LogoutOK, LogoutAllOK, DeleteSession, Deleted, At
    <2>3. LogoutOK(q)'      BY <1>9 DEF LogoutOK, DeleteSession, Deleted, At
    <2>4. LogoutAllOK(q)'   BY <1>9 DEF SessionsIssued, LogoutAllOK, DeleteSession, Deleted, At
    <2> QED  BY <2>1, <2>2, <2>3, <2>4
  <1> QED  BY <1>1, <1>2, <1>3, <1>4, <1>5, <1>6, <1>7, <1>8, <1>9 DEF RequestStep

\* The invariant holds at first and is kept by every step.
LEMMA Induction ==
  /\ Init => IInv
  /\ IInv /\ [Next]_vars => IInv'
  <1>1. Init => IInv
    BY DEF Init, IInv, TypeOK, RequestState, At, SessionsIssued, UnlistedIsRaced,
           LogoutOK, LogoutAllOK
  <1>2. ASSUME IInv, LoginStep PROVE IInv'
    BY <1>2, LoginKeeps
  <1>3. ASSUME IInv, NEW q \in Requests, RequestStep(q) PROVE IInv'
    <2>1. /\ TypeOK' /\ key' \subseteq key /\ members' \subseteq members
          /\ UNCHANGED <<login, raced>>
          /\ \A r \in Requests \ {q} : request'[r] = request[r]
      BY <1>3, RequestFrame DEF IInv
    <2>2. SessionsIssued' /\ UnlistedIsRaced' /\ LogoutOK(q)' /\ LogoutAllOK(q)'
      BY <1>3, MoverKeeps
    <2>3. ASSUME NEW r \in Requests \ {q} PROVE LogoutOK(r)' /\ LogoutAllOK(r)'
      <3>1. LogoutOK(r) /\ LogoutAllOK(r)  BY <1>3 DEF IInv
      <3> QED  BY <2>1, <3>1, OthersKeep
    <2> QED  BY <2>1, <2>2, <2>3 DEF IInv
  <1>4. ASSUME IInv, UNCHANGED vars PROVE IInv'
    BY <1>4 DEF vars, IInv, TypeOK, RequestState, At, SessionsIssued, UnlistedIsRaced,
                LogoutOK, LogoutAllOK
  <1>5. Next => LoginStep \/ \E q \in Requests : RequestStep(q)
    BY DEF Next, LoginStep, RequestStep
  <1> QED  BY <1>1, <1>2, <1>3, <1>4, <1>5

\* IInv is an invariant of the sessions.
LEMMA Invariant == Spec => []IInv
  BY Induction, PTL DEF Spec

-----------------------------------------------------------------------------
\* Keys, members, logins and requests keep their types, and no logout-all is in
\* its loop with nothing left to delete (auth_service.py, logout_all_devices_service).
THEOREM SessionsTypeCorrect == Spec => []TypeOK
  <1>1. IInv => TypeOK  BY DEF IInv
  <1> QED  BY <1>1, Invariant, PTL

\* A session that opens the application is listed, for any number of logins,
\* logouts and logout-alls at once, but for the one hole UnlistedIsRaced names.
THEOREM SessionsAreListed == Spec => []UnlistedIsRaced
  <1>1. IInv => UnlistedIsRaced  BY DEF IInv
  <1> QED  BY <1>1, Invariant, PTL

\* No other request, expiry or failure brings back what a logout or logout-all
\* that answered with success has taken away.
THEOREM LogoutsTakeEffect == Spec => []OutIsOut
  <1>1. IInv => OutIsOut  BY DEF IInv, LogoutOK, LogoutAllOK, OutIsOut, At
  <1> QED  BY <1>1, Invariant, PTL
=============================================================================
