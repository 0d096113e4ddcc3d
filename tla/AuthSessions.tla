---------------------------- MODULE AuthSessions ----------------------------
(***************************************************************************)
(* Accounts and refresh tokens: register, login, refresh and logout.       *)
(*                                                                         *)
(* Access tokens are checked by signature only; refresh tokens also have a *)
(* row in refresh_tokens, revoked when the token is exchanged for the next *)
(* one (rotation) and when the user logs out.  Every service method awaits *)
(* the database several times and commits more than once, each statement   *)
(* sees what is committed when it runs (READ COMMITTED), and no row is     *)
(* locked between a check and the write that relies on it: a request is a  *)
(* sequence of actions, one per statement that can be told apart.          *)
(*                                                                         *)
(* Signatures, hashes and passwords are abstracted: a token is its id, and *)
(* a login is one whose password verify_password accepts.                  *)
(***************************************************************************)
EXTENDS Integers, FiniteSets

CONSTANTS
    Request,  \* requests in flight at once, in whichever process
    User,     \* account ids
    Email,    \* addresses as people type them
    Token,    \* refresh tokens: a fresh jti in each
    Lower,    \* Lower[m]: m in lower case
    None

ASSUME LowerAssumption ==
    /\ Lower \in [Email -> Email]
    /\ \A m \in Email : Lower[Lower[m]] = Lower[m]

VARIABLES
    users,      \* users[u]: the email of the account, None when there is none
    tokens,     \* tokens[t]: the row of refresh_tokens
    delivered,  \* refresh tokens some client has been answered with
    access,     \* users who hold an access token that has not expired
    req,        \* req[p]: the request p
    \* History, read by no guard:
    ended       \* sessions that were open when a logout that is over began,
                \* and that no refresh overlapped with that logout

vars == <<users, tokens, delivered, access, req, ended>>

\* `from` is the token that was exchanged for this one (None after a login or
\* a registration) and `session` the token of the login it descends from; no
\* column holds either.
Row == [user: User, revoked: BOOLEAN, expired: BOOLEAN,
        from: Token \cup {None}, session: Token]

ASSUME NoneAssumption == None \notin Email \cup User \cup Token \cup Row

\* `snap` are the rows a logout has loaded.  History: `open` are the sessions
\* of the user when it loaded them, `raced` those a refresh overlapped with.
Stage == {"idle", "insert", "revoke", "issue", "reply", "logout"}

Call == [at: Stage, email: Email \cup {None}, user: User \cup {None},
         old: Token \cup {None}, new: Token \cup {None},
         snap: SUBSET Token, open: SUBSET Token, raced: SUBSET Token]

NoCall == [at |-> "idle", email |-> None, user |-> None, old |-> None,
           new |-> None, snap |-> {}, open |-> {}, raced |-> {}]

TypeOK ==
    /\ users \in [User -> Email \cup {None}]
    /\ tokens \in [Token -> Row \cup {None}]
    /\ delivered \in SUBSET Token
    /\ access \in SUBSET User
    /\ req \in [Request -> Call]
    /\ ended \in SUBSET Token

Init ==
    /\ users = [u \in User |-> None]
    /\ tokens = [t \in Token |-> None]
    /\ delivered = {}
    /\ access = {}
    /\ req = [p \in Request |-> NoCall]
    /\ ended = {}

----------------------------------------------------------------------------
(* UserRepository, RefreshTokenRepository *)

\* Faulty: the address is stored as it was typed.
StoredAsTyped(m) == m

\* UserRepository.create: the address is stored in lower case.
StoredAs(m) == Lower[m]

\* get_by_email, exists_by_email: the account of an address in any case.
AccountOf(m) == {u \in User : users[u] = Lower[m]}

Stored == {t \in Token : tokens[t] # None}

\* verify_refresh_token and is_valid: the JWT and the row expire together.
Usable(t) == ~tokens[t].revoked /\ ~tokens[t].expired

\* The rows of a set of tokens, with revoked_at set.
Revoking(T) ==
    [t \in Token |-> IF t \in T /\ tokens[t] # None
                     THEN [tokens[t] EXCEPT !.revoked = TRUE] ELSE tokens[t]]

\* Faulty: the updates are never committed, and rolled back with the request.
RevokeUncommitted(snap) == {}

\* revoke_all_for_user: the rows it loaded are updated one by one, no others.
RevokeAll(snap) == snap

----------------------------------------------------------------------------
(* Sessions *)

SessionOf(t) == tokens[t].session

Sessions == {t \in Stored : SessionOf(t) = t}

\* A refresh is past its check and has not stored its token yet.
Refreshing(p) == req[p].at \in {"revoke", "issue"} /\ req[p].old # None

RefreshOf(f) == \E p \in Request : Refreshing(p) /\ SessionOf(req[p].old) = f

LiveTokens(f) == {t \in Stored : SessionOf(t) = f /\ Usable(t)}

IsOpen(f) == LiveTokens(f) # {} \/ RefreshOf(f)

----------------------------------------------------------------------------
(* POST /auth/register and POST /auth/login *)

\* exists_by_email finds no account (one that does answers 409).
RegisterCheck(p, m) ==
    /\ req[p].at = "idle"
    /\ AccountOf(m) = {}
    /\ req' = [req EXCEPT ![p] = [NoCall EXCEPT !.at = "insert", !.email = m]]
    /\ UNCHANGED <<users, tokens, delivered, access, ended>>

\* The account is inserted and committed, before and apart from its first token.
InsertUser(p, u) ==
    /\ req[p].at = "insert"
    /\ users[u] = None
    /\ \A w \in User : users[w] # StoredAs(req[p].email)
    /\ users' = [users EXCEPT ![u] = StoredAs(req[p].email)]
    /\ req' = [req EXCEPT ![p] = [NoCall EXCEPT !.at = "issue", !.user = u]]
    /\ UNCHANGED <<tokens, delivered, access, ended>>

\* The unique index of users.email refuses the insert: IntegrityError, 500.
RefuseUser(p) ==
    /\ req[p].at = "insert"
    /\ \E w \in User : users[w] = StoredAs(req[p].email)
    /\ req' = [req EXCEPT ![p] = NoCall]
    /\ UNCHANGED <<users, tokens, delivered, access, ended>>

\* The account is found and the password is right (401 otherwise).
Login(p, m) ==
    /\ req[p].at = "idle"
    /\ \E u \in AccountOf(m) :
         req' = [req EXCEPT ![p] = [NoCall EXCEPT !.at = "issue", !.user = u]]
    /\ UNCHANGED <<users, tokens, delivered, access, ended>>

----------------------------------------------------------------------------
(* POST /auth/refresh *)

\* Faulty: the row is looked up, and its revocation not looked at.
RefreshCheckRowOnly(p, t) ==
    /\ req[p].at = "idle"
    /\ t \in delivered
    /\ ~tokens[t].expired
    /\ req' = [req EXCEPT ![p] = [NoCall EXCEPT !.at = "revoke", !.user = tokens[t].user,
                                                !.old = t]]
    /\ UNCHANGED <<users, tokens, delivered, access, ended>>

\* The client presents a token it was answered with; its JWT verifies, and its
\* row is found to be usable (401 otherwise).
RefreshCheck(p, t) ==
    /\ req[p].at = "idle"
    /\ t \in delivered
    /\ Usable(t)
    /\ req' = [q \in Request |->
                IF q = p THEN [NoCall EXCEPT !.at = "revoke", !.user = tokens[t].user,
                                             !.old = t]
                ELSE IF req[q].at = "logout"
                THEN [req[q] EXCEPT !.raced = @ \cup {SessionOf(t)}] ELSE req[q]]
    /\ UNCHANGED <<users, tokens, delivered, access, ended>>

\* Faulty: the old token is left as it is.
RevokeNothing(p) ==
    /\ req[p].at = "revoke"
    /\ req' = [req EXCEPT ![p].at = "issue"]
    /\ UNCHANGED <<users, tokens, delivered, access, ended>>

\* The old token is loaded again, revoked whatever its row says by now, and the
\* revocation committed: from here on the session hangs on this request alone.
RevokeOld(p) ==
    /\ req[p].at = "revoke"
    /\ tokens' = Revoking({req[p].old})
    /\ req' = [req EXCEPT ![p].at = "issue"]
    /\ UNCHANGED <<users, delivered, access, ended>>

----------------------------------------------------------------------------
(* The end of register, login and refresh *)

\* The new refresh token is inserted and committed.
Issue(p, t) ==
    /\ req[p].at = "issue"
    /\ tokens[t] = None
    /\ tokens' = [tokens EXCEPT ![t] =
                    [user |-> req[p].user, revoked |-> FALSE, expired |-> FALSE,
                     from |-> req[p].old,
                     session |-> IF req[p].old = None THEN t ELSE SessionOf(req[p].old)]]
    /\ req' = [req EXCEPT ![p].at = "reply", ![p].new = t]
    /\ UNCHANGED <<users, delivered, access, ended>>

\* The row is read back and both tokens are answered.
Reply(p) ==
    /\ req[p].at = "reply"
    /\ delivered' = delivered \cup {req[p].new}
    /\ access' = access \cup {req[p].user}
    /\ req' = [req EXCEPT ![p] = NoCall]
    /\ UNCHANGED <<users, tokens, ended>>

----------------------------------------------------------------------------
(* POST /auth/logout *)

\* With a valid access token: the tokens of the user not revoked so far, those
\* that expired included, are loaded.
LogoutSelect(p, u) ==
    LET open == {f \in Sessions : tokens[f].user = u /\ IsOpen(f)}
    IN  /\ req[p].at = "idle"
        /\ u \in access
        /\ req' = [req EXCEPT ![p] =
                    [NoCall EXCEPT
                        !.at = "logout", !.user = u,
                        !.snap = {t \in Stored : tokens[t].user = u /\ ~tokens[t].revoked},
                        !.open = open,
                        !.raced = {f \in open : RefreshOf(f)}]]
        /\ UNCHANGED <<users, tokens, delivered, access, ended>>

\* The loaded rows are updated in one commit; the access token stays good.
LogoutCommit(p) ==
    /\ req[p].at = "logout"
    /\ tokens' = Revoking(RevokeAll(req[p].snap))
    /\ req' = [req EXCEPT ![p] = NoCall]
    /\ ended' = ended \cup (req[p].open \ req[p].raced)
    /\ UNCHANGED <<users, delivered, access>>

----------------------------------------------------------------------------
(* The environment *)

\* A statement fails, the client hangs up or the process is replaced: what was
\* committed stays, and the client gets a 500 (from refresh, a 401) or nothing.
Abort(p) ==
    /\ req[p].at # "idle"
    /\ req' = [req EXCEPT ![p] = NoCall]
    /\ UNCHANGED <<users, tokens, delivered, access, ended>>

\* JWT_REFRESH_TTL_DAYS have passed since t was issued.
Expire(t) ==
    /\ tokens[t] # None
    /\ ~tokens[t].expired
    /\ tokens' = [tokens EXCEPT ![t].expired = TRUE]
    /\ UNCHANGED <<users, delivered, access, req, ended>>

\* JWT_ACCESS_TTL_MIN have passed since the last access token of u was issued.
ExpireAccess(u) ==
    /\ u \in access
    /\ access' = access \ {u}
    /\ UNCHANGED <<users, tokens, delivered, req, ended>>

Next ==
    \/ \E p \in Request, m \in Email : RegisterCheck(p, m) \/ Login(p, m)
    \/ \E p \in Request, u \in User : InsertUser(p, u) \/ LogoutSelect(p, u)
    \/ \E p \in Request, t \in Token : RefreshCheck(p, t) \/ Issue(p, t)
    \/ \E p \in Request :
        RefuseUser(p) \/ RevokeOld(p) \/ Reply(p) \/ LogoutCommit(p) \/ Abort(p)
    \/ \E t \in Token : Expire(t)
    \/ \E u \in User : ExpireAccess(u)

Spec == Init /\ [][Next]_vars

----------------------------------------------------------------------------
(* Properties *)

\* Two addresses that differ in case only never have an account each, although
\* register checks in one statement and inserts in another, and the unique
\* index it falls back on compares letter by letter.
OneAccountPerAddress ==
    \A u, w \in User : users[u] # None /\ users[w] # None
                        /\ Lower[users[u]] = Lower[users[w]] => u = w

\* Rotation: the token a refresh was given is revoked by the time its
\* replacement exists, so an exchange never leaves two usable tokens behind.
RotatedIsRevoked ==
    \A t \in Stored : tokens[t].from # None => tokens[tokens[t].from].revoked

\* A session is opened once, by a login or a registration, and a session whose
\* tokens are all revoked or expired, with no refresh past its check, never
\* comes back: it implements SessionLifecycle.
LifeOf == [f \in Token |-> IF f \notin Sessions THEN "none"
                          ELSE IF IsOpen(f) THEN "open" ELSE "closed"]

Lifecycle == INSTANCE SessionLifecycle WITH Session <- Token, state <- LifeOf

ImplementsLifecycle == Lifecycle!Spec

\* Logout ends, for good, every session that was open when it began, but those
\* with a refresh under way at some moment between its two statements.
QuietLogoutEnds == \A f \in ended : ~IsOpen(f)

=============================================================================
