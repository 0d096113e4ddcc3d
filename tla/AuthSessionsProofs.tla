------------------------- MODULE AuthSessionsProofs -------------------------
(***************************************************************************)
(* Proofs of the safety properties of AuthSessions, for every number of    *)
(* requests, accounts, addresses and tokens, and of the refinement of      *)
(* SessionLifecycle.                                                       *)
(***************************************************************************)
EXTENDS AuthSessions, TLAPS

\* What a request has established by the time it reaches a stage.
CallOK(c) ==
    /\ c.at = "insert" => c.email \in Email
    /\ c.at \in {"revoke", "issue", "reply", "logout"} => c.user \in User
    /\ c.at = "revoke" => c.old \in Stored
    /\ c.at \in {"revoke", "issue"} /\ c.old # None =>
        c.old \in Stored /\ c.user = tokens[c.old].user
    /\ c.at = "reply" => c.new \in Stored

\* Rows are never deleted: what a request, a client or another row refers to
\* is stored, and every token leads back to the login of its session.
Linked ==
    /\ \A p \in Request : CallOK(req[p])
    /\ delivered \subseteq Stored
    /\ \A t \in Stored : /\ SessionOf(t) \in Sessions
                         /\ tokens[t].user = tokens[SessionOf(t)].user
                         /\ tokens[t].from # None => tokens[t].from \in Stored

----------------------------------------------------------------------------

LEMMA NoCallOK == NoCall \in Call /\ NoCall.at = "idle" /\ CallOK(NoCall)
BY DEF NoCall, Call, Stage, CallOK

LEMMA StoredTokens == Stored \subseteq Token /\ Sessions \subseteq Stored
BY DEF Stored, Sessions

LEMMA InitTypes == Init => TypeOK /\ Linked
BY NoCallOK, NoneAssumption DEF Init, TypeOK, Linked, Stored

\* A step that stores no token and forgets none: rows may only change in
\* revoked and expired.
SameRows ==
    \A t \in Token : /\ tokens'[t] = None <=> tokens[t] = None
                     /\ tokens[t] # None =>
                          /\ tokens'[t].session = tokens[t].session
                          /\ tokens'[t].user = tokens[t].user
                          /\ tokens'[t].from = tokens[t].from
                          /\ tokens[t].revoked => tokens'[t].revoked
                          /\ tokens[t].expired => tokens'[t].expired

LEMMA SameRowsStored ==
    ASSUME SameRows
    PROVE  /\ Stored' = Stored /\ Sessions' = Sessions
           /\ \A t \in Stored : /\ SessionOf(t)' = SessionOf(t)
                                /\ tokens'[t].from = tokens[t].from
                                /\ tokens'[t].user = tokens[t].user
           /\ \A c : CallOK(c)' <=> CallOK(c)
<1>1. Stored' = Stored
  BY DEF SameRows, Stored
<1>2. \A t \in Stored : /\ SessionOf(t)' = SessionOf(t)
                        /\ tokens'[t].from = tokens[t].from
                        /\ tokens'[t].user = tokens[t].user
  BY DEF SameRows, Stored, SessionOf
<1>3. Sessions' = Sessions
  BY <1>1, <1>2 DEF Sessions
<1> QED
  BY <1>1, <1>2, <1>3 DEF CallOK

LEMMA RevokingRows ==
    ASSUME TypeOK, NEW T \in SUBSET Token, tokens' = Revoking(T)
    PROVE  /\ tokens' \in [Token -> Row \cup {None}] /\ SameRows
           /\ \A t \in T \cap Stored : tokens'[t].revoked
<1>1. \A r \in Row : /\ [r EXCEPT !.revoked = TRUE] \in Row
                     /\ [r EXCEPT !.revoked = TRUE].session = r.session
                     /\ [r EXCEPT !.revoked = TRUE].user = r.user
                     /\ [r EXCEPT !.revoked = TRUE].from = r.from
                     /\ [r EXCEPT !.revoked = TRUE].expired = r.expired
                     /\ [r EXCEPT !.revoked = TRUE].revoked
  BY DEF Row
<1> QED
  BY <1>1, NoneAssumption DEF Revoking, TypeOK, SameRows, Stored

\* A step of one request that stores no token.
LEMMA CallStep ==
    ASSUME TypeOK, Linked, SameRows, NEW p \in Request, NEW c \in Call, CallOK(c),
           req' = [req EXCEPT ![p] = c],
           users' \in [User -> Email \cup {None}],
           tokens' \in [Token -> Row \cup {None}],
           delivered' \subseteq Stored, access' \subseteq User,
           ended' \subseteq Token
    PROVE  TypeOK' /\ Linked'
<1>1. \A q \in Request : CallOK(req'[q])
  BY DEF TypeOK, Linked
<1>2. Linked'
  BY <1>1, SameRowsStored DEF Linked, Sessions
<1> QED
  BY <1>2, StoredTokens DEF TypeOK

LEMMA NextTypes == TypeOK /\ Linked /\ [Next]_vars => TypeOK' /\ Linked'
<1> SUFFICES ASSUME TypeOK, Linked, [Next]_vars PROVE TypeOK' /\ Linked'
  OBVIOUS
<1> USE StoredTokens
<1>0. tokens' = tokens => SameRows
  BY DEF SameRows
<1>1. ASSUME NEW p \in Request, NEW m \in Email, RegisterCheck(p, m)
      PROVE  TypeOK' /\ Linked'
  <2> DEFINE c == [NoCall EXCEPT !.at = "insert", !.email = m]
  <2>1. c \in Call /\ CallOK(c)
    BY DEF NoCall, Call, Stage, CallOK
  <2> HIDE DEF c
  <2>2. req' = [req EXCEPT ![p] = c]
    BY <1>1 DEF RegisterCheck, c
  <2> QED
    BY <1>0, <1>1, <2>1, <2>2, CallStep DEF RegisterCheck, TypeOK, Linked
<1>2. ASSUME NEW p \in Request, NEW m \in Email, Login(p, m)
      PROVE  TypeOK' /\ Linked'
  <2>1. PICK u \in User : req' = [req EXCEPT ![p] = [NoCall EXCEPT !.at = "issue", !.user = u]]
    BY <1>2 DEF Login, AccountOf
  <2> DEFINE c == [NoCall EXCEPT !.at = "issue", !.user = u]
  <2>2. c \in Call /\ CallOK(c)
    BY DEF NoCall, Call, Stage, CallOK
  <2> HIDE DEF c
  <2>3. req' = [req EXCEPT ![p] = c]
    BY <2>1 DEF c
  <2> QED
    BY <1>0, <1>2, <2>2, <2>3, CallStep DEF Login, TypeOK, Linked
<1>3. ASSUME NEW p \in Request, NEW u \in User, InsertUser(p, u)
      PROVE  TypeOK' /\ Linked'
  <2> DEFINE c == [NoCall EXCEPT !.at = "issue", !.user = u]
  <2>1. c \in Call /\ CallOK(c)
    BY DEF NoCall, Call, Stage, CallOK
  <2> HIDE DEF c
  <2>2. req' = [req EXCEPT ![p] = c]
    BY <1>3 DEF InsertUser, c
  <2>3. StoredAs(req[p].email) \in Email
    BY <1>3, LowerAssumption DEF InsertUser, Linked, CallOK, StoredAs
  <2> QED
    BY <1>0, <1>3, <2>1, <2>2, <2>3, CallStep DEF InsertUser, TypeOK, Linked
<1>4. ASSUME NEW p \in Request, NEW u \in User, LogoutSelect(p, u)
      PROVE  TypeOK' /\ Linked'
  <2> DEFINE open == {f \in Sessions : tokens[f].user = u /\ IsOpen(f)}
             snap == {t \in Stored : tokens[t].user = u /\ ~tokens[t].revoked}
             raced == {f \in open : RefreshOf(f)}
             c == [NoCall EXCEPT !.at = "logout", !.user = u, !.snap = snap,
                                 !.open = open, !.raced = raced]
  <2>1. open \subseteq Token /\ snap \subseteq Token /\ raced \subseteq Token
    OBVIOUS
  <2>2. req' = [req EXCEPT ![p] = c]
    BY <1>4 DEF LogoutSelect
  <2> HIDE DEF open, snap, raced
  <2>3. c \in Call /\ CallOK(c)
    BY <2>1 DEF NoCall, Call, Stage, CallOK
  <2> HIDE DEF c
  <2> QED
    BY <1>0, <1>4, <2>2, <2>3, CallStep DEF LogoutSelect, TypeOK, Linked
<1>5. ASSUME NEW p \in Request, NEW t \in Token, RefreshCheck(p, t)
      PROVE  TypeOK' /\ Linked'
  <2> DEFINE c == [NoCall EXCEPT !.at = "revoke", !.user = tokens[t].user, !.old = t]
             raced(d) == [d EXCEPT !.raced = @ \cup {SessionOf(t)}]
  <2>1. t \in Stored /\ tokens[t] \in Row /\ SessionOf(t) \in Token
    BY <1>5 DEF RefreshCheck, Linked, Stored, TypeOK
  <2>2. c \in Call /\ CallOK(c)
    BY <2>1 DEF NoCall, Call, Stage, CallOK, Row
  <2>3. \A d \in Call : d.at = "logout" =>
            raced(d) \in Call /\ (CallOK(d) => CallOK(raced(d)))
    BY <2>1 DEF Call, CallOK
  <2>4. \A q \in Request : req'[q] \in {c, req[q]}
                             \/ (req[q].at = "logout" /\ req'[q] = raced(req[q]))
    BY <1>5 DEF RefreshCheck
  <2> HIDE DEF c, raced
  <2>5. req' \in [Request -> Call] /\ \A q \in Request : CallOK(req'[q])
    <3>1. \A q \in Request : req'[q] \in Call /\ CallOK(req'[q])
      BY <2>2, <2>3, <2>4 DEF TypeOK, Linked
    <3>2. req' = [q \in Request |-> req'[q]]
      BY <1>5 DEF RefreshCheck
    <3> QED
      BY <3>1, <3>2
  <2>6. SameRows
    BY <1>0, <1>5 DEF RefreshCheck
  <2> QED
    BY <1>5, <2>5, <2>6, SameRowsStored DEF RefreshCheck, TypeOK, Linked, Stored
<1>6. ASSUME NEW p \in Request, NEW t \in Token, Issue(p, t)
      PROVE  TypeOK' /\ Linked'
  <2> DEFINE s == IF req[p].old = None THEN t ELSE SessionOf(req[p].old)
             row == [user |-> req[p].user, revoked |-> FALSE, expired |-> FALSE,
                     from |-> req[p].old, session |-> s]
             c == [req[p] EXCEPT !.at = "reply", !.new = t]
  <2>1. req[p] \in Call /\ req[p].user \in User /\ req[p].at = "issue"
        /\ (req[p].old # None => req[p].old \in Stored /\ SessionOf(req[p].old) \in Sessions)
    BY <1>6 DEF Issue, TypeOK, Linked, CallOK
  <2>2. s \in Token /\ req[p].old \in Token \cup {None}
    BY <2>1 DEF Call
  <2>2a. req[p].old # None => s = SessionOf(req[p].old)
    OBVIOUS
  <2>2b. req[p].old = None => s = t
    OBVIOUS
  <2> HIDE DEF s
  <2>3. row \in Row /\ row.session = s /\ row # None
    <3>1. row \in Row /\ row.session = s
      BY <2>1, <2>2 DEF Row
    <3> QED
      BY <3>1, NoneAssumption
  <2>4. tokens' = [tokens EXCEPT ![t] = row] /\ tokens[t] = None
    BY <1>6 DEF Issue, s
  <2>5. req' = [req EXCEPT ![p] = c]
    BY <1>6 DEF Issue
  <2> HIDE DEF row
  <2>6. Stored' = Stored \cup {t} /\ t \notin Stored
        /\ \A q \in Stored : SessionOf(q)' = SessionOf(q) /\ tokens'[q] = tokens[q]
    BY <2>3, <2>4 DEF Stored, TypeOK, SessionOf
  <2>7. SessionOf(t)' = s
    BY <2>3, <2>4 DEF TypeOK, SessionOf
  <2>8. Sessions \subseteq Sessions'
    BY <2>6 DEF Sessions
  <2>9. \A q \in Stored' : SessionOf(q)' \in Sessions'
    <3>1. SessionOf(t)' \in Sessions'
      BY <2>1, <2>6, <2>7, <2>8, <2>2a, <2>2b DEF Sessions
    <3> QED
      BY <2>6, <2>8, <3>1 DEF Linked
  <2>10. c \in Call /\ c.at = "reply" /\ c.new = t /\ c.user \in User
    BY <2>1 DEF Call, Stage
  <2> HIDE DEF c
  <2>11. \A q \in Request : CallOK(req[q])'
    <3> SUFFICES ASSUME NEW q \in Request PROVE CallOK(req[q])'
      OBVIOUS
    <3>1. req'[q] = IF q = p THEN c ELSE req[q]
      BY <2>5 DEF TypeOK
    <3>2. CallOK(req[q])
      BY DEF Linked
    <3>3. CASE q = p
      BY <2>6, <2>10, <3>1, <3>3 DEF CallOK
    <3>4. CASE q # p
      BY <2>6, <3>1, <3>2, <3>4 DEF CallOK
    <3> QED
      BY <3>3, <3>4
  <2>12. TypeOK'
    <3>1. tokens' \in [Token -> Row \cup {None}]
      BY <2>3, <2>4 DEF TypeOK
    <3>2. req' \in [Request -> Call]
      BY <2>5, <2>10 DEF TypeOK
    <3> QED
      BY <1>6, <3>1, <3>2 DEF Issue, TypeOK
  <2>13. \A q \in Stored' : tokens'[q].from # None => tokens'[q].from \in Stored'
    <3>1. tokens'[t].from # None => tokens'[t].from \in Stored'
      BY <2>1, <2>4, <2>6 DEF TypeOK, row
    <3>2. \A q \in Stored : tokens'[q] = tokens[q]
      BY <2>4, <2>6 DEF TypeOK, Stored
    <3> QED
      BY <2>6, <3>1, <3>2 DEF Linked
  <2>14. \A q \in Stored' : tokens'[q].user = tokens'[tokens'[q].session].user
    <3>1. \A q \in Stored : tokens'[q] = tokens[q]
      BY <2>4, <2>6 DEF TypeOK, Stored
    <3>2. tokens'[t].user = req[p].user /\ tokens'[t].session = s
      BY <2>4 DEF TypeOK, row
    <3>3. req[p].old # None => s \in Stored /\ tokens[s].user = req[p].user
      BY <2>1, <2>2a DEF Linked, CallOK
    <3>4. \A q \in Stored : tokens[q].session \in Stored
                            /\ tokens[q].user = tokens[tokens[q].session].user
      BY DEF Linked, SessionOf
    <3>5. tokens'[t].user = tokens'[tokens'[t].session].user
      <4>1. CASE req[p].old = None
        BY <2>2b, <3>2, <4>1
      <4>2. CASE req[p].old # None
        BY <3>1, <3>2, <3>3, <4>2
      <4> QED
        BY <4>1, <4>2
    <3>6. \A q \in Stored : tokens'[q].user = tokens'[tokens'[q].session].user
      BY <3>1, <3>4
    <3> QED
      BY <2>6, <3>5, <3>6
  <2>15. delivered' \subseteq Stored'
    BY <1>6, <2>6 DEF Issue, Linked
  <2> QED
    BY <2>9, <2>11, <2>12, <2>13, <2>14, <2>15 DEF Linked, SessionOf
<1>7. ASSUME NEW p \in Request, RefuseUser(p) \/ Abort(p)
      PROVE  TypeOK' /\ Linked'
  BY <1>0, <1>7, NoCallOK, CallStep DEF RefuseUser, Abort, TypeOK, Linked
<1>8. ASSUME NEW p \in Request, RevokeOld(p)
      PROVE  TypeOK' /\ Linked'
  <2> DEFINE c == [req[p] EXCEPT !.at = "issue"]
  <2>1. c \in Call /\ CallOK(c) /\ req[p].old \in Token
    BY <1>8, ZenonT(40) DEF RevokeOld, TypeOK, Linked, Call, Stage, CallOK
  <2>2. tokens' \in [Token -> Row \cup {None}] /\ SameRows
    BY <1>8, <2>1, RevokingRows DEF RevokeOld
  <2>3. req' = [req EXCEPT ![p] = c]
    BY <1>8 DEF RevokeOld
  <2> HIDE DEF c
  <2> QED
    BY <1>8, <2>1, <2>2, <2>3, CallStep DEF RevokeOld, TypeOK, Linked
<1>9. ASSUME NEW p \in Request, Reply(p)
      PROVE  TypeOK' /\ Linked'
  <2>1. req[p].new \in Stored /\ req[p].user \in User
    BY <1>9 DEF Reply, Linked, CallOK
  <2> QED
    BY <1>0, <1>9, <2>1, NoCallOK, CallStep DEF Reply, TypeOK, Linked
<1>10. ASSUME NEW p \in Request, LogoutCommit(p)
       PROVE  TypeOK' /\ Linked'
  <2>1. req[p].snap \in SUBSET Token /\ req[p].open \subseteq Token
    BY DEF TypeOK, Call
  <2>2. tokens' \in [Token -> Row \cup {None}] /\ SameRows
    BY <1>10, <2>1, RevokingRows DEF LogoutCommit, RevokeAll
  <2> QED
    BY <1>10, <2>1, <2>2, NoCallOK, CallStep DEF LogoutCommit, TypeOK, Linked
<1>11. ASSUME NEW t \in Token, Expire(t)
       PROVE  TypeOK' /\ Linked'
  <2>1. tokens' \in [Token -> Row \cup {None}] /\ SameRows
    BY <1>11, NoneAssumption, ZenonT(40) DEF Expire, TypeOK, Row, SameRows
  <2> QED
    BY <1>11, <2>1, SameRowsStored DEF Expire, TypeOK, Linked, Sessions
<1>12. ASSUME NEW u \in User, ExpireAccess(u)
       PROVE  TypeOK' /\ Linked'
  BY <1>0, <1>12, SameRowsStored DEF ExpireAccess, TypeOK, Linked, Sessions
<1>13. ASSUME UNCHANGED vars
       PROVE  TypeOK' /\ Linked'
  BY <1>0, <1>13, SameRowsStored DEF vars, TypeOK, Linked, Sessions
<1> QED
  BY <1>1, <1>2, <1>3, <1>4, <1>5, <1>6, <1>7, <1>8, <1>9, <1>10, <1>11, <1>12, <1>13
     DEF Next

\* Every state is well typed, and every token a request, a client or another
\* token refers to has its row, although register, login and refresh commit
\* more than once and may stop after each commit.
THEOREM TypeCorrect == Spec => [](TypeOK /\ Linked)
BY InitTypes, NextTypes, PTL DEF Spec

----------------------------------------------------------------------------

\* What the account table adds to TypeOK: addresses are kept in lower case, and
\* the index lets no two accounts have the same one.
Accounts ==
    /\ \A u \in User : users[u] # None => Lower[users[u]] = users[u]
    /\ \A u, w \in User : users[u] # None /\ users[u] = users[w] => u = w

LEMMA NextAccounts == TypeOK /\ Linked /\ Accounts /\ [Next]_vars => Accounts'
<1> SUFFICES ASSUME TypeOK, Linked, Accounts, [Next]_vars PROVE Accounts'
  OBVIOUS
<1>1. ASSUME NEW p \in Request, NEW u \in User, InsertUser(p, u)
      PROVE  Accounts'
  <2> DEFINE m == StoredAs(req[p].email)
  <2>1. Lower[m] = m
    BY <1>1, LowerAssumption DEF InsertUser, Linked, CallOK, StoredAs
  <2>2. users' = [users EXCEPT ![u] = m] /\ \A w \in User : users[w] # m
    BY <1>1 DEF InsertUser
  <2> HIDE DEF m
  <2> QED
    BY <2>1, <2>2 DEF Accounts, TypeOK
<1>2. CASE UNCHANGED users
  BY <1>2 DEF Accounts
<1> QED
  BY <1>1, <1>2
     DEF Next, vars, RegisterCheck, Login, LogoutSelect, RefreshCheck, Issue, RefuseUser,
         RevokeOld, Reply, LogoutCommit, Abort, Expire, ExpireAccess

\* register never leaves two accounts for one address, in whatever case it was
\* typed and however two registrations interleave.
THEOREM UniqueAccounts == Spec => []OneAccountPerAddress
<1>1. Init => Accounts
  BY DEF Init, Accounts
<1>2. Accounts => OneAccountPerAddress
  BY DEF Accounts, OneAccountPerAddress
<1> QED
  BY <1>1, <1>2, InitTypes, NextTypes, NextAccounts, PTL DEF Spec

----------------------------------------------------------------------------

\* RotatedIsRevoked does not follow from itself: the old token has to be revoked
\* when the request gets to store the new one.
Rotated ==
    /\ \A p \in Request : req[p].at = "issue" /\ req[p].old # None =>
        tokens[req[p].old].revoked
    /\ RotatedIsRevoked

\* Steps after which no request is at "issue" that was not there.
LEMMA RotatedKept ==
    ASSUME TypeOK, Linked, Rotated, SameRows,
           \A p \in Request : req'[p].at = "issue" /\ req'[p].old # None =>
               req[p].at = "issue" /\ req[p].old = req'[p].old
    PROVE  Rotated'
<1>1. \A t \in Stored : tokens[t].revoked => tokens'[t].revoked
  BY DEF SameRows, Stored
<1>2. \A p \in Request : req'[p].at = "issue" /\ req'[p].old # None =>
        tokens'[req'[p].old].revoked
  BY <1>1 DEF Rotated, Linked, CallOK
<1>3. RotatedIsRevoked'
  BY <1>1, SameRowsStored DEF Rotated, RotatedIsRevoked, Linked
<1> QED
  BY <1>2, <1>3 DEF Rotated

LEMMA NextRotated == TypeOK /\ Linked /\ Rotated /\ [Next]_vars => Rotated'
<1> SUFFICES ASSUME TypeOK, Linked, Rotated, [Next]_vars PROVE Rotated'
  OBVIOUS
<1>0. tokens' = tokens => SameRows
  BY DEF SameRows
<1>1. ASSUME NEW p \in Request, NEW m \in Email, RegisterCheck(p, m) \/ Login(p, m)
      PROVE  Rotated'
  BY <1>0, <1>1, RotatedKept DEF RegisterCheck, Login, TypeOK, NoCall
<1>2. ASSUME NEW p \in Request, NEW u \in User, InsertUser(p, u) \/ LogoutSelect(p, u)
      PROVE  Rotated'
  <2>1. \A q \in Request : req'[q].at = "issue" /\ req'[q].old # None =>
            req[q].at = "issue" /\ req[q].old = req'[q].old
    BY <1>2 DEF InsertUser, LogoutSelect, TypeOK, NoCall
  <2> QED
    BY <1>0, <1>2, <2>1, RotatedKept DEF InsertUser, LogoutSelect
<1>3. ASSUME NEW p \in Request, NEW t \in Token, RefreshCheck(p, t)
      PROVE  Rotated'
  <2>1. \A q \in Request : req'[q].at = "issue" => req'[q] = req[q]
    BY <1>3 DEF RefreshCheck, TypeOK, NoCall, Call
  <2> QED
    BY <1>0, <1>3, <2>1, RotatedKept DEF RefreshCheck
<1>4. ASSUME NEW p \in Request, NEW t \in Token, Issue(p, t)
      PROVE  Rotated'
  <2>1. \A q \in Stored : tokens'[q] = tokens[q]
    BY <1>4 DEF Issue, TypeOK, Stored
  <2>2. Stored' \subseteq Stored \cup {t}
    BY <1>4 DEF Issue, TypeOK, Stored
  <2>3. tokens'[t].from = req[p].old
    BY <1>4 DEF Issue, TypeOK
  <2>4. \A q \in Request : req'[q].at = "issue" => req'[q] = req[q]
    BY <1>4 DEF Issue, TypeOK, Call
  <2>5. \A q \in Request : req[q].at = "issue" /\ req[q].old # None =>
            req[q].old \in Stored /\ tokens'[req[q].old].revoked
    BY <2>1 DEF Linked, CallOK, Rotated
  <2>6. RotatedIsRevoked'
    <3>1. ASSUME NEW q \in Stored, tokens'[q].from # None
          PROVE  tokens'[tokens'[q].from].revoked
      BY <2>1, <3>1 DEF Rotated, RotatedIsRevoked, Linked
    <3>2. tokens'[t].from # None => tokens'[tokens'[t].from].revoked
      BY <1>4, <2>3, <2>5 DEF Issue
    <3> QED
      BY <2>2, <3>1, <3>2 DEF RotatedIsRevoked
  <2> QED
    BY <2>4, <2>5, <2>6 DEF Rotated
<1>5. ASSUME NEW p \in Request, RefuseUser(p) \/ Abort(p) \/ Reply(p)
      PROVE  Rotated'
  BY <1>0, <1>5, RotatedKept DEF RefuseUser, Abort, Reply, TypeOK, NoCall
<1>6. ASSUME NEW p \in Request, RevokeOld(p)
      PROVE  Rotated'
  <2>1. req[p].old \in Stored /\ req[p].old \in Token
    BY <1>6 DEF RevokeOld, Linked, CallOK, Stored
  <2>2. SameRows /\ tokens'[req[p].old].revoked
    BY <1>6, <2>1, RevokingRows DEF RevokeOld
  <2>3. \A q \in Stored : tokens[q].revoked => tokens'[q].revoked
    BY <2>2 DEF SameRows, Stored
  <2>4. ASSUME NEW q \in Request, req'[q].at = "issue", req'[q].old # None
        PROVE  tokens'[req'[q].old].revoked
    <3>1. CASE q = p
      BY <1>6, <2>2, <3>1 DEF RevokeOld, TypeOK, Call
    <3>2. CASE q # p
      <4>1. req'[q] = req[q]
        BY <1>6, <3>2 DEF RevokeOld, TypeOK
      <4> QED
        BY <2>3, <2>4, <4>1 DEF Linked, CallOK, Rotated
    <3> QED
      BY <3>1, <3>2
  <2>5. RotatedIsRevoked'
    BY <2>2, <2>3, SameRowsStored DEF Rotated, RotatedIsRevoked, Linked
  <2> QED
    BY <2>4, <2>5 DEF Rotated
<1>7. ASSUME NEW p \in Request, LogoutCommit(p)
      PROVE  Rotated'
  <2>1. SameRows
    BY <1>7, RevokingRows DEF LogoutCommit, RevokeAll, TypeOK, Call
  <2> QED
    BY <1>7, <2>1, RotatedKept DEF LogoutCommit, TypeOK, NoCall
<1>8. ASSUME NEW t \in Token, Expire(t)
      PROVE  Rotated'
  <2>1. SameRows
    BY <1>8, NoneAssumption DEF Expire, TypeOK, Row, SameRows
  <2> QED
    BY <1>8, <2>1, RotatedKept DEF Expire
<1>9. CASE UNCHANGED <<tokens, req>>
  BY <1>0, <1>9, RotatedKept
<1> QED
  BY <1>1, <1>2, <1>3, <1>4, <1>5, <1>6, <1>7, <1>8, <1>9 DEF Next, vars, ExpireAccess

\* refresh revokes the token it was given before it stores the next one, and no
\* failure between the two leaves both usable.
THEOREM Rotation == Spec => []RotatedIsRevoked
<1>1. Init => Rotated
  BY DEF Init, Rotated, RotatedIsRevoked, Stored, NoCall
<1>2. Rotated => RotatedIsRevoked
  BY DEF Rotated
<1> QED
  BY <1>1, <1>2, InitTypes, NextTypes, NextRotated, PTL DEF Spec

----------------------------------------------------------------------------

\* No request is refreshing a session now that was not before, but a session
\* that was open.
NoNewRefresh ==
    \A p \in Request : Refreshing(p)' =>
        req'[p].old \in Stored /\ IsOpen(SessionOf(req'[p].old))

LEMMA RefreshingIsOpen ==
    ASSUME Linked, NEW p \in Request, Refreshing(p)
    PROVE  req[p].old \in Stored /\ IsOpen(SessionOf(req[p].old))
BY DEF Linked, CallOK, Refreshing, IsOpen, RefreshOf

\* Such a step opens no session: what is open after it was open before.
LEMMA NothingOpens ==
    ASSUME TypeOK, Linked, SameRows, NoNewRefresh, NEW f \in Sessions
    PROVE  LiveTokens(f)' \subseteq LiveTokens(f) /\ (IsOpen(f)' => IsOpen(f))
<1>1. LiveTokens(f)' \subseteq LiveTokens(f)
  <2>1. Stored' = Stored /\ \A t \in Stored : SessionOf(t)' = SessionOf(t)
    BY SameRowsStored
  <2>2. \A t \in Stored : Usable(t)' => Usable(t)
    BY DEF Usable, SameRows, Stored
  <2> QED
    BY <2>1, <2>2 DEF LiveTokens
<1>2. RefreshOf(f)' => IsOpen(f)
  BY SameRowsStored DEF NoNewRefresh, RefreshOf
<1> QED
  BY <1>1, <1>2 DEF IsOpen

\* It closes sessions, perhaps none, in the sense of SessionLifecycle.
LEMMA ClosingStep ==
    ASSUME TypeOK, Linked, SameRows, NoNewRefresh
    PROVE  Lifecycle!Next
<1> DEFINE F == {f \in Sessions : IsOpen(f) /\ ~IsOpen(f)'}
<1>1. F \in SUBSET Token
  BY StoredTokens
<1>2. \A f \in F : LifeOf[f] = "open"
  BY StoredTokens DEF LifeOf
<1>3. Sessions' = Sessions /\ \A f \in Sessions : IsOpen(f)' => IsOpen(f)
  BY SameRowsStored, NothingOpens
<1>4. LifeOf' = [f \in Token |-> IF f \in F THEN "closed" ELSE LifeOf[f]]
  BY <1>3 DEF LifeOf
<1>5. Lifecycle!Close(F)
  BY <1>2, <1>4 DEF Lifecycle!Close
<1> QED
  BY <1>1, <1>5 DEF Lifecycle!Next

\* What storing a token does to the sessions: a login opens a new one, and a
\* refresh, which was keeping one open, goes on keeping that one open.
LEMMA IssueEffect ==
    ASSUME TypeOK, Linked, NEW p \in Request, NEW t \in Token, Issue(p, t),
           NEW s, s = IF req[p].old = None THEN t ELSE SessionOf(req[p].old)
    PROVE  /\ t \notin Stored
           /\ Sessions' = Sessions \cup {s}
           /\ s \in Sessions <=> req[p].old # None
           /\ s \in Sessions => RefreshOf(s)
           /\ IsOpen(s)'
           /\ \A f \in Sessions : f # s =>
                LiveTokens(f)' = LiveTokens(f) /\ (RefreshOf(f)' <=> RefreshOf(f))
<1>1. Stored' = Stored \cup {t} /\ t \notin Stored /\ \A q \in Stored : tokens'[q] = tokens[q]
  <2> DEFINE row == [user |-> req[p].user, revoked |-> FALSE, expired |-> FALSE,
                     from |-> req[p].old, session |-> s]
  <2>1. req[p].user \in User /\ req[p].old \in Token \cup {None} /\ s \in Token
    BY StoredTokens DEF Issue, TypeOK, Call, Linked, CallOK
  <2>2. row \in Row
    BY <2>1 DEF Row
  <2>3. row # None
    BY <2>2, NoneAssumption
  <2>4. tokens' = [tokens EXCEPT ![t] = row] /\ tokens[t] = None
    BY DEF Issue
  <2> HIDE DEF row
  <2> QED
    BY <2>3, <2>4 DEF TypeOK, Stored
<1>2. tokens'[t].session = s /\ Usable(t)'
  BY DEF Issue, TypeOK, Usable
<1>3. req[p].at = "issue" /\ (req[p].old # None => req[p].old \in Stored /\ s \in Sessions)
  BY DEF Issue, Linked, CallOK
<1>4. req[p].old = None => s = t
  OBVIOUS
<1>5. Sessions' = Sessions \cup {s}
  <2>1. s \in Sessions'
    BY <1>1, <1>2, <1>3, <1>4 DEF Sessions, SessionOf
  <2> QED
    BY <1>1, <1>2, <2>1 DEF Sessions, SessionOf
<1>6. s \in Sessions <=> req[p].old # None
  BY <1>1, <1>3, <1>4, StoredTokens
<1>7. s \in Sessions => RefreshOf(s)
  BY <1>3, <1>6 DEF RefreshOf, Refreshing
<1>8. IsOpen(s)'
  BY <1>1, <1>2 DEF IsOpen, LiveTokens, SessionOf
<1>9. ASSUME NEW f \in Sessions, f # s
      PROVE  LiveTokens(f)' = LiveTokens(f) /\ (RefreshOf(f)' <=> RefreshOf(f))
  <2>1. LiveTokens(f)' = LiveTokens(f)
    BY <1>1, <1>2, <1>9 DEF LiveTokens, SessionOf, Usable
  <2>2. ~Refreshing(p)' /\ \A q \in Request : q # p => req'[q] = req[q]
    BY DEF Issue, TypeOK, Call, Refreshing
  <2>3. Refreshing(p) => SessionOf(req[p].old) = s
    BY <1>4 DEF Refreshing
  <2>4. \A q \in Request : Refreshing(q) =>
            req[q].old \in Stored /\ tokens'[req[q].old] = tokens[req[q].old]
    BY <1>1, RefreshingIsOpen
  <2> QED
    BY <1>9, <2>1, <2>2, <2>3, <2>4 DEF RefreshOf, Refreshing, SessionOf
<1> QED
  BY <1>1, <1>5, <1>6, <1>7, <1>8, <1>9

LEMMA IssueStep ==
    ASSUME TypeOK, Linked, NEW p \in Request, NEW t \in Token, Issue(p, t)
    PROVE  [Lifecycle!Next]_LifeOf
<1>0. PICK s : s = IF req[p].old = None THEN t ELSE SessionOf(req[p].old)
  OBVIOUS
<1>1. /\ t \notin Stored
      /\ Sessions' = Sessions \cup {s}
      /\ s \in Sessions <=> req[p].old # None
      /\ s \in Sessions => RefreshOf(s)
      /\ IsOpen(s)'
      /\ \A f \in Sessions : f # s =>
            LiveTokens(f)' = LiveTokens(f) /\ (RefreshOf(f)' <=> RefreshOf(f))
  BY <1>0, IssueEffect
<1>2. req[p].old = None => s = t
  BY <1>0
<1>3. ASSUME NEW f \in Token, f # s
      PROVE  LifeOf'[f] = LifeOf[f]
  <2>1. f \in Sessions' <=> f \in Sessions
    BY <1>1, <1>3
  <2>2. f \in Sessions => (IsOpen(f)' <=> IsOpen(f))
    BY <1>1, <1>3 DEF IsOpen
  <2> QED
    BY <2>1, <2>2 DEF LifeOf
<1>4. CASE req[p].old = None
  <2>1. LifeOf[t] = "none" /\ LifeOf'[t] = "open"
    BY <1>1, <1>2, <1>4 DEF LifeOf
  <2>2. LifeOf' = [LifeOf EXCEPT ![t] = "open"]
    <3>1. LifeOf = [f \in Token |-> LifeOf[f]] /\ LifeOf' = [f \in Token |-> LifeOf'[f]]
      BY DEF LifeOf
    <3> QED
      BY <1>2, <1>3, <1>4, <2>1, <3>1
  <2>3. Lifecycle!Open(t)
    BY <2>1, <2>2 DEF Lifecycle!Open
  <2> QED
    BY <2>3 DEF Lifecycle!Next
<1>5. CASE req[p].old # None
  <2>1. s \in Token /\ LifeOf[s] = "open" /\ LifeOf'[s] = "open"
    BY <1>1, <1>5, StoredTokens DEF LifeOf, IsOpen
  <2>2. LifeOf' = LifeOf
    <3>1. LifeOf = [f \in Token |-> LifeOf[f]] /\ LifeOf' = [f \in Token |-> LifeOf'[f]]
      BY DEF LifeOf
    <3> QED
      BY <1>3, <2>1, <3>1
  <2> QED
    BY <2>2
<1> QED
  BY <1>4, <1>5

LEMMA NextLifecycle ==
    ASSUME TypeOK, Linked, [Next]_vars
    PROVE  [Lifecycle!Next]_LifeOf
<1>0. tokens' = tokens => SameRows
  BY DEF SameRows
<1>1. (\A q \in Request : Refreshing(q)' => Refreshing(q) /\ req'[q].old = req[q].old)
        => NoNewRefresh
  BY RefreshingIsOpen DEF NoNewRefresh
<1>2. ASSUME NEW p \in Request, req' = [req EXCEPT ![p] = NoCall] PROVE NoNewRefresh
  BY <1>1, <1>2 DEF TypeOK, NoCall, Refreshing
<1>3. ASSUME NEW p \in Request, NEW m \in Email, RegisterCheck(p, m) \/ Login(p, m)
      PROVE  [Lifecycle!Next]_LifeOf
  BY <1>0, <1>1, <1>3, ClosingStep DEF RegisterCheck, Login, TypeOK, NoCall, Refreshing
<1>4. ASSUME NEW p \in Request, NEW u \in User, InsertUser(p, u)
      PROVE  [Lifecycle!Next]_LifeOf
  BY <1>0, <1>1, <1>4, ClosingStep DEF InsertUser, TypeOK, NoCall, Refreshing
<1>5. ASSUME NEW p \in Request, NEW u \in User, LogoutSelect(p, u)
      PROVE  [Lifecycle!Next]_LifeOf
  <2>1. \A q \in Request : Refreshing(q)' => Refreshing(q) /\ req'[q].old = req[q].old
    BY <1>5 DEF LogoutSelect, TypeOK, NoCall, Refreshing
  <2> QED
    BY <1>0, <1>1, <1>5, <2>1, ClosingStep DEF LogoutSelect
<1>6. ASSUME NEW p \in Request, NEW t \in Token, RefreshCheck(p, t)
      PROVE  [Lifecycle!Next]_LifeOf
  <2>1. t \in Stored /\ IsOpen(SessionOf(t))
    BY <1>6 DEF RefreshCheck, Linked, IsOpen, LiveTokens
  <2>2. ASSUME NEW q \in Request, Refreshing(q)'
        PROVE  req'[q].old \in Stored /\ IsOpen(SessionOf(req'[q].old))
    <3>1. CASE q = p
      BY <1>6, <2>1, <3>1 DEF RefreshCheck, NoCall
    <3>2. CASE q # p
      <4>1. Refreshing(q) /\ req'[q].old = req[q].old
        BY <1>6, <2>2, <3>2 DEF RefreshCheck, Refreshing, TypeOK, Call
      <4> QED
        BY <4>1, RefreshingIsOpen
    <3> QED
      BY <3>1, <3>2
  <2> QED
    BY <1>0, <1>6, <2>2, ClosingStep DEF RefreshCheck, NoNewRefresh
<1>7. ASSUME NEW p \in Request, NEW t \in Token, Issue(p, t)
      PROVE  [Lifecycle!Next]_LifeOf
  BY <1>7, IssueStep
<1>8. ASSUME NEW p \in Request, RefuseUser(p) \/ Reply(p) \/ Abort(p)
      PROVE  [Lifecycle!Next]_LifeOf
  BY <1>0, <1>2, <1>8, ClosingStep DEF RefuseUser, Reply, Abort
<1>9. ASSUME NEW p \in Request, RevokeOld(p)
      PROVE  [Lifecycle!Next]_LifeOf
  <2>1. SameRows
    BY <1>9, RevokingRows, StoredTokens DEF RevokeOld, Linked, CallOK
  <2>2. \A q \in Request : Refreshing(q)' => Refreshing(q) /\ req'[q].old = req[q].old
    BY <1>9 DEF RevokeOld, TypeOK, Call, Refreshing
  <2> QED
    BY <1>1, <2>1, <2>2, ClosingStep
<1>10. ASSUME NEW p \in Request, LogoutCommit(p)
       PROVE  [Lifecycle!Next]_LifeOf
  <2>1. SameRows
    BY <1>10, RevokingRows DEF LogoutCommit, RevokeAll, TypeOK, Call
  <2> QED
    BY <1>2, <1>10, <2>1, ClosingStep DEF LogoutCommit
<1>11. ASSUME NEW t \in Token, Expire(t)
       PROVE  [Lifecycle!Next]_LifeOf
  <2>1. SameRows
    BY <1>11, NoneAssumption DEF Expire, TypeOK, Row, SameRows
  <2> QED
    BY <1>1, <1>11, <2>1, ClosingStep DEF Expire, Refreshing
<1>12. CASE UNCHANGED <<tokens, req>>
  BY <1>0, <1>1, <1>12, ClosingStep DEF Refreshing
<1> QED
  BY <1>3, <1>4, <1>5, <1>6, <1>7, <1>8, <1>9, <1>10, <1>11, <1>12
     DEF Next, vars, ExpireAccess

\* Refresh tokens implement the life of a session: opened once, by a login or a
\* registration, kept open by refreshes, and never open again once every token
\* of it is revoked or expired and no refresh is past its check.
THEOREM Implementation == Spec => ImplementsLifecycle
<1>1. Init => Lifecycle!Init
  BY DEF Init, Lifecycle!Init, LifeOf, Sessions, Stored
<1>2. TypeOK /\ Linked /\ [Next]_vars => [Lifecycle!Next]_LifeOf
  BY NextLifecycle
<1> QED
  BY <1>1, <1>2, InitTypes, NextTypes, PTL DEF Spec, ImplementsLifecycle, Lifecycle!Spec

----------------------------------------------------------------------------

\* QuietLogoutEnds is not inductive: of a logout under way one has to know that
\* the sessions it will end have no refresh, and no usable token but those it
\* has loaded.
LogoutOK(c) ==
    /\ c.open \subseteq Sessions
    /\ \A f \in c.open \ c.raced : ~RefreshOf(f) /\ LiveTokens(f) \subseteq c.snap

Quiet ==
    /\ \A f \in ended : f \in Sessions /\ ~IsOpen(f)
    /\ \A p \in Request : req[p].at = "logout" => LogoutOK(req[p])

\* No request is refreshing now that was not before.
SameRefreshes ==
    \A q \in Request : Refreshing(q)' => Refreshing(q) /\ req'[q].old = req[q].old

LEMMA SameRefreshesOf ==
    ASSUME TypeOK, Linked, SameRows, SameRefreshes, NEW f \in Sessions
    PROVE  RefreshOf(f)' => RefreshOf(f)
BY RefreshingIsOpen, SameRowsStored DEF SameRefreshes, RefreshOf

LEMMA SameRefreshesNoNew == Linked /\ SameRefreshes => NoNewRefresh
BY RefreshingIsOpen DEF SameRefreshes, NoNewRefresh

\* What is quiet stays quiet when no refresh begins and no token is stored.
LEMMA LogoutKept ==
    ASSUME TypeOK, Linked, SameRows, SameRefreshes, NEW c, LogoutOK(c)
    PROVE  /\ c.open \subseteq Sessions'
           /\ \A f \in c.open \ c.raced : ~RefreshOf(f)' /\ LiveTokens(f)' \subseteq c.snap
BY NothingOpens, SameRowsStored, SameRefreshesOf, SameRefreshesNoNew DEF LogoutOK

LEMMA QuietKept ==
    ASSUME TypeOK, Linked, Quiet, SameRows, SameRefreshes, ended' = ended,
           \A q \in Request : req'[q].at = "logout" => req'[q] = req[q]
    PROVE  Quiet'
<1>1. \A f \in ended' : f \in Sessions' /\ ~IsOpen(f)'
  BY NothingOpens, SameRowsStored, SameRefreshesNoNew DEF Quiet
<1>2. ASSUME NEW q \in Request, req'[q].at = "logout"
      PROVE  LogoutOK(req[q])'
  <2>1. req'[q] = req[q] /\ LogoutOK(req[q])
    BY <1>2 DEF Quiet
  <2> QED
    BY <2>1, LogoutKept DEF LogoutOK
<1> QED
  BY <1>1, <1>2 DEF Quiet

LEMMA NextQuiet ==
    ASSUME TypeOK, Linked, Quiet, [Next]_vars
    PROVE  Quiet'
<1>0. tokens' = tokens => SameRows
  BY DEF SameRows
<1>1. ASSUME NEW p \in Request, NEW m \in Email, RegisterCheck(p, m) \/ Login(p, m)
      PROVE  Quiet'
  <2>1. SameRefreshes /\ \A q \in Request : req'[q].at = "logout" => req'[q] = req[q]
    BY <1>1, ZenonT(40) DEF RegisterCheck, Login, TypeOK, NoCall, Refreshing, SameRefreshes
  <2> QED
    BY <1>0, <1>1, <2>1, QuietKept DEF RegisterCheck, Login
<1>2. ASSUME NEW p \in Request, NEW u \in User, InsertUser(p, u)
      PROVE  Quiet'
  <2>1. SameRefreshes /\ \A q \in Request : req'[q].at = "logout" => req'[q] = req[q]
    BY <1>2 DEF InsertUser, TypeOK, NoCall, Refreshing, SameRefreshes
  <2> QED
    BY <1>0, <1>2, <2>1, QuietKept DEF InsertUser
<1>3. ASSUME NEW p \in Request, NEW u \in User, LogoutSelect(p, u)
      PROVE  Quiet'
  <2> DEFINE open == {f \in Sessions : tokens[f].user = u /\ IsOpen(f)}
             snap == {t \in Stored : tokens[t].user = u /\ ~tokens[t].revoked}
             raced == {f \in open : RefreshOf(f)}
  <2>1. SameRefreshes
    BY <1>3 DEF LogoutSelect, TypeOK, NoCall, Refreshing, SameRefreshes
  <2>2. SameRows
    BY <1>0, <1>3 DEF LogoutSelect
  <2>3. \A f \in ended' : f \in Sessions' /\ ~IsOpen(f)'
    BY <1>3, <2>1, <2>2, NothingOpens, SameRowsStored, SameRefreshesNoNew
       DEF Quiet, LogoutSelect
  <2>4. ASSUME NEW q \in Request, q # p, req'[q].at = "logout"
        PROVE  LogoutOK(req[q])'
    <3>1. req'[q] = req[q] /\ LogoutOK(req[q])
      BY <1>3, <2>4 DEF LogoutSelect, TypeOK, Quiet
    <3> QED
      BY <2>1, <2>2, <3>1, LogoutKept DEF LogoutOK
  <2>5. LogoutOK(req[p])'
    <3>1. req'[p].open = open /\ req'[p].snap = snap /\ req'[p].raced = raced
      BY <1>3 DEF LogoutSelect, TypeOK, NoCall
    <3>2. \A f \in open \ raced : ~RefreshOf(f)' /\ LiveTokens(f)' \subseteq LiveTokens(f)
      BY <2>1, <2>2, NothingOpens, SameRefreshesOf, SameRefreshesNoNew
    <3>3. \A f \in open : LiveTokens(f) \subseteq snap
      BY DEF Linked, LiveTokens, Usable
    <3> HIDE DEF open, snap, raced
    <3>4. open \subseteq Sessions'
      BY <2>2, SameRowsStored DEF open
    <3> QED
      BY <3>1, <3>2, <3>3, <3>4 DEF LogoutOK
  <2> QED
    BY <2>3, <2>4, <2>5 DEF Quiet
<1>4. ASSUME NEW p \in Request, NEW t \in Token, RefreshCheck(p, t)
      PROVE  Quiet'
  <2>1. t \in Stored /\ SessionOf(t) \in Sessions /\ IsOpen(SessionOf(t))
    BY <1>4 DEF RefreshCheck, Linked, IsOpen, LiveTokens
  <2>2. req'[p].at = "revoke" /\ req'[p].old = t
    BY <1>4 DEF RefreshCheck, NoCall
  <2>3. \A q \in Request : q # p => \/ req'[q] = req[q] /\ req[q].at # "logout"
                                    \/ /\ req[q].at = "logout"
                                       /\ req'[q] = [req[q] EXCEPT
                                                !.raced = @ \cup {SessionOf(t)}]
    BY <1>4 DEF RefreshCheck
  <2>4. \A q \in Request : q # p => (Refreshing(q)' <=> Refreshing(q))
                                    /\ req'[q].old = req[q].old
    <3> SUFFICES ASSUME NEW q \in Request, q # p
                 PROVE  req'[q].at = req[q].at /\ req'[q].old = req[q].old
      BY DEF Refreshing
    <3>1. \A x : [req[q] EXCEPT !.raced = x].at = req[q].at
                 /\ [req[q] EXCEPT !.raced = x].old = req[q].old
      BY DEF TypeOK, Call
    <3> QED
      BY <2>3, <3>1
  <2>5. \A f \in Sessions : RefreshOf(f)' => RefreshOf(f) \/ f = SessionOf(t)
    BY <1>4, <2>2, <2>4 DEF RefreshOf, Refreshing, RefreshCheck, SessionOf
  <2>6. \A f \in Sessions : LiveTokens(f)' = LiveTokens(f)
    BY <1>4 DEF RefreshCheck, LiveTokens, Stored, SessionOf, Usable
  <2>7. Sessions' = Sessions
    BY <1>4 DEF RefreshCheck, Sessions, Stored, SessionOf
  <2>8. \A f \in ended' : f \in Sessions' /\ ~IsOpen(f)'
    BY <1>4, <2>1, <2>5, <2>6, <2>7 DEF RefreshCheck, Quiet, IsOpen
  <2>9. ASSUME NEW q \in Request, req'[q].at = "logout"
        PROVE  LogoutOK(req[q])'
    <3>1. q # p /\ req[q].at = "logout"
      BY <2>2, <2>3, <2>9
    <3>2. req'[q] = [req[q] EXCEPT !.raced = @ \cup {SessionOf(t)}] /\ req[q] \in Call
      BY <2>3, <3>1 DEF TypeOK
    <3>3. /\ req'[q].open = req[q].open /\ req'[q].snap = req[q].snap
          /\ req'[q].raced = req[q].raced \cup {SessionOf(t)}
      BY <3>2 DEF Call
    <3>4. LogoutOK(req[q])
      BY <3>1 DEF Quiet
    <3> QED
      BY <2>5, <2>6, <2>7, <3>3, <3>4 DEF LogoutOK
  <2> QED
    BY <2>8, <2>9 DEF Quiet
<1>5. ASSUME NEW p \in Request, NEW t \in Token, Issue(p, t)
      PROVE  Quiet'
  <2>1. PICK s : s = IF req[p].old = None THEN t ELSE SessionOf(req[p].old)
    OBVIOUS
  <2>2. /\ Sessions' = Sessions \cup {s}
        /\ s \in Sessions => RefreshOf(s)
        /\ \A f \in Sessions : f # s =>
            LiveTokens(f)' = LiveTokens(f) /\ (RefreshOf(f)' <=> RefreshOf(f))
    BY <1>5, <2>1, IssueEffect
  <2>3. \A f \in ended' : f \in Sessions' /\ ~IsOpen(f)'
    BY <1>5, <2>2 DEF Issue, Quiet, IsOpen
  <2>4. ASSUME NEW q \in Request, req'[q].at = "logout"
        PROVE  LogoutOK(req[q])'
    <3>1. req'[q] = req[q] /\ LogoutOK(req[q])
      BY <1>5, <2>4 DEF Issue, TypeOK, Call, Quiet
    <3> QED
      BY <2>2, <3>1 DEF LogoutOK
  <2> QED
    BY <2>3, <2>4 DEF Quiet
<1>6. ASSUME NEW p \in Request, RefuseUser(p) \/ Reply(p) \/ Abort(p)
      PROVE  Quiet'
  <2>1. SameRefreshes /\ \A q \in Request : req'[q].at = "logout" => req'[q] = req[q]
    BY <1>6 DEF RefuseUser, Reply, Abort, TypeOK, NoCall, Refreshing, SameRefreshes
  <2> QED
    BY <1>0, <1>6, <2>1, QuietKept DEF RefuseUser, Reply, Abort
<1>7. ASSUME NEW p \in Request, RevokeOld(p)
      PROVE  Quiet'
  <2>1. SameRows
    BY <1>7, RevokingRows, StoredTokens DEF RevokeOld, Linked, CallOK
  <2>2. SameRefreshes /\ \A q \in Request : req'[q].at = "logout" => req'[q] = req[q]
    BY <1>7 DEF RevokeOld, TypeOK, Call, Refreshing, SameRefreshes
  <2> QED
    BY <1>7, <2>1, <2>2, QuietKept DEF RevokeOld
<1>8. ASSUME NEW p \in Request, LogoutCommit(p)
      PROVE  Quiet'
  <2> DEFINE c == req[p]
  <2>1. c \in Call /\ LogoutOK(c)
    BY <1>8 DEF LogoutCommit, TypeOK, Quiet
  <2>2. SameRows /\ \A t \in c.snap \cap Stored : tokens'[t].revoked
    BY <1>8, <2>1, RevokingRows DEF LogoutCommit, RevokeAll, Call
  <2>3. SameRefreshes /\ \A q \in Request : req'[q].at = "logout" => req'[q] = req[q]
    BY <1>8 DEF LogoutCommit, TypeOK, NoCall, Refreshing, SameRefreshes
  <2>4. \A f \in ended : f \in Sessions' /\ ~IsOpen(f)'
    BY <2>2, <2>3, NothingOpens, SameRowsStored, SameRefreshesNoNew DEF Quiet
  <2>5. ASSUME NEW f \in c.open \ c.raced
        PROVE  f \in Sessions' /\ ~IsOpen(f)'
    <3>1. f \in Sessions /\ f \in Sessions' /\ ~RefreshOf(f) /\ LiveTokens(f) \subseteq c.snap
      BY <2>1, <2>2, <2>5, SameRowsStored DEF LogoutOK
    <3>2. ~RefreshOf(f)'
      BY <2>2, <2>3, <3>1, SameRefreshesOf
    <3>3. LiveTokens(f)' \subseteq c.snap \cap Stored
      BY <2>2, <2>3, <3>1, NothingOpens, SameRefreshesNoNew DEF LiveTokens
    <3>4. LiveTokens(f)' = {}
      BY <2>2, <3>3 DEF LiveTokens, Usable
    <3> QED
      BY <3>1, <3>2, <3>4 DEF IsOpen
  <2>6. ASSUME NEW q \in Request, req'[q].at = "logout"
        PROVE  LogoutOK(req[q])'
    <3>1. req'[q] = req[q] /\ LogoutOK(req[q])
      BY <2>3, <2>6 DEF Quiet
    <3> QED
      BY <2>2, <2>3, <3>1, LogoutKept DEF LogoutOK
  <2>7. ended' = ended \cup (c.open \ c.raced)
    BY <1>8 DEF LogoutCommit
  <2> HIDE DEF c
  <2> QED
    BY <2>4, <2>5, <2>6, <2>7 DEF Quiet
<1>9. ASSUME NEW t \in Token, Expire(t)
      PROVE  Quiet'
  <2>1. SameRows
    BY <1>9, NoneAssumption DEF Expire, TypeOK, Row, SameRows
  <2>2. SameRefreshes
    BY <1>9 DEF Expire, SameRefreshes, Refreshing
  <2> QED
    BY <1>9, <2>1, <2>2, QuietKept DEF Expire
<1>10. CASE UNCHANGED <<tokens, req, ended>>
  BY <1>0, <1>10, QuietKept DEF SameRefreshes, Refreshing
<1> QED
  BY <1>1, <1>2, <1>3, <1>4, <1>5, <1>6, <1>7, <1>8, <1>9, <1>10
     DEF Next, vars, ExpireAccess

\* logout ends for good every session that was open when it began and that no
\* refresh overlapped with, in however many processes requests are served.
THEOREM LogoutEnds == Spec => []QuietLogoutEnds
<1>1. Init => Quiet
  BY DEF Init, Quiet, NoCall
<1>2. TypeOK /\ Linked /\ Quiet /\ [Next]_vars => Quiet'
  BY NextQuiet
<1>3. Quiet => QuietLogoutEnds
  BY DEF Quiet, QuietLogoutEnds
<1> QED
  BY <1>1, <1>2, <1>3, InitTypes, NextTypes, PTL DEF Spec

=============================================================================
