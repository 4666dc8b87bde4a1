------------------------------ MODULE Sessions ------------------------------
(***************************************************************************)
(* Accounts, device sessions and the administrators' mutations of them:    *)
(* AuthService (auth.py) and AdminService (admin/service.py) over the      *)
(* tables users, session_families, session_tokens and admin_audit.         *)
(*                                                                         *)
(* Requests run on concurrent threads.  A write transaction is BEGIN       *)
(* IMMEDIATE, so it is one action here; what a handler does before it (the *)
(* authentication of the access token, the read of the user row, the       *)
(* Argon2 work in one of two slots) are actions of their own, and every    *)
(* other thread may run between them.  A crash loses the requests and      *)
(* keeps the tables.                                                       *)
(*                                                                         *)
(* Time is abstracted: whether an expiry has passed is decided anew at     *)
(* each reading of the wall clock, so a handler that reads the clock may   *)
(* always find the session expired.  A refused request changes nothing     *)
(* (its rate limit windows are not modelled: a limited request ends before *)
(* its first action).                                                      *)
(***************************************************************************)
EXTENDS Naturals, FiniteSets, Sequences

CONSTANTS
    User,            \* account names (unique, never deleted)
    Password,        \* clear-text passwords
    Family,          \* identifiers of device session families (uuid4)
    Token,           \* identifiers of access/refresh token pairs (uuid4)
    Request,         \* request threads
    Ops,             \* the operations the clients of this instance call
    Installed,       \* the accounts in the database the server opens
    None,            \* no value
    PasswordSlots,   \* concurrent Argon2 computations: 2 in the code
    MaxUsers,        \* MAX_USERS: 256
    MaxFamilies,     \* retained families per user: 32
    MaxTokens,       \* retained token pairs per family: 4096
    MaxAuditEvents,  \* MAX_AUDIT_EVENTS: 10000
    MaxRevision      \* bound of the model on users.revision

Role == {"admin", "member"}

\* An encoded hash: of which password, from which salt (a serial number per
\* account: two hashes of one password differ), by an outdated profile or not.
Hash == [pw : Password, salt : Nat, legacy : BOOLEAN]

UserRow == [exists : BOOLEAN, role : Role, disabled : BOOLEAN, hash : Hash,
            mustChange : BOOLEAN, revision : Nat]

\* The row of a family that was never created, is unrevoked, is revoked, or was
\* deleted.  The last two fields are history: the account's revision when the
\* family was opened and the password whose knowledge opened it.
FamilyRow == [status : {"unused", "active", "revoked", "deleted"},
              user : User \cup {None}, rev : Nat, proved : Password \cup {None}]

TokenRow == [status : {"unused", "live", "rotated", "deleted"},
             family : Family \cup {None}]

NoFamily(status) == [status |-> status, user |-> None, rev |-> 0, proved |-> None]

NoToken(status) == [status |-> status, family |-> None]

\* What authenticate() returns: a snapshot the handler carries to its transaction.
Principal == [user : User, role : Role, mustChange : BOOLEAN,
              family : Family, token : Token]

AdminOp == {"create", "update", "reset", "revoke"}

Op == AdminOp \cup {"login", "change", "logout"}

\* Where a request's thread is: reading the account row, waiting for an Argon2
\* slot to verify or hash, inside one, or about to begin its transaction.
PC == {"idle", "read", "verify", "verifying", "hash", "hashing", "commit"}

RequestState == [pc : PC, op : Op \cup {"none"}, actor : Principal \cup {None},
                 user : User \cup {None}, pw : Password \cup {None},
                 seen : Hash \cup {None}, expected : Nat]

AuditEvent == [action : AdminOp, status : {"success", "denied"},
               actor : User, target : User \cup Family]

ASSUME NoneIsNoValue ==
    /\ None \notin User /\ None \notin Password /\ None \notin Family
    /\ None \notin Hash /\ None \notin Principal

ASSUME InstalledAccounts ==
    /\ Installed \in [User -> UserRow]
    /\ \E u \in User : /\ Installed[u].exists /\ ~Installed[u].disabled
                       /\ Installed[u].role = "admin"
    /\ Cardinality({u \in User : Installed[u].exists}) <= MaxUsers

ASSUME SessionLimits ==
    /\ Ops \subseteq Op
    /\ IsFiniteSet(User)
    /\ PasswordSlots \in Nat /\ MaxUsers \in Nat /\ MaxAuditEvents \in Nat \ {0}
    /\ MaxFamilies \in Nat \ {0} /\ MaxTokens \in Nat \ {0}
    /\ MaxRevision \in Nat

VARIABLES
    users,     \* table users
    families,  \* table session_families
    tokens,    \* table session_tokens
    audit,     \* table admin_audit, oldest event first
    slots,     \* free permits of AuthService._password_slots
    req        \* the threads

vars == <<users, families, tokens, audit, slots, req>>

database == <<users, families, tokens, audit>>

-----------------------------------------------------------------------------

IdleRequest == [pc |-> "idle", op |-> "none", actor |-> None, user |-> None,
                pw |-> None, seen |-> None, expected |-> 0]

\* The server opens a database with some accounts, an active administrator
\* among them, and no session that could still be used.
Init ==
    /\ users = Installed
    /\ families = [f \in Family |-> NoFamily("unused")]
    /\ tokens = [k \in Token |-> NoToken("unused")]
    /\ audit = <<>>
    /\ slots = PasswordSlots
    /\ req = [r \in Request |-> IdleRequest]

\* The request returns or raises: its thread is free again.
End(r) == req' = [req EXCEPT ![r] = IdleRequest]

FamilyExists(f) == families[f].status \in {"active", "revoked"}

FamiliesOf(u) == {f \in Family : FamilyExists(f) /\ families[f].user = u}

TokenExists(k) == tokens[k].status \in {"live", "rotated"}

TokensOf(f) == {k \in Token : TokenExists(k) /\ tokens[k].family = f}

ActiveAdmins == {u \in User : /\ users[u].exists /\ ~users[u].disabled
                              /\ users[u].role = "admin"}

\* UPDATE session_families SET revoked_at: every family of the set.
Revoke(fs) == [f \in Family |-> IF f \in fs /\ families[f].status = "active"
                                THEN [families[f] EXCEPT !.status = "revoked"]
                                ELSE families[f]]

-----------------------------------------------------------------------------
(* _new_family and _issue. *)

\* Mutant: one family too many is kept.
EvictedOneLess(u, gone) ==
    /\ gone \subseteq FamiliesOf(u)
    /\ LET n == Cardinality(FamiliesOf(u)) IN
       Cardinality(gone) = IF n <= MaxFamilies THEN 0 ELSE n - MaxFamilies

\* The families beyond the retained ones, ranked by created_at.  The wall clock
\* may repeat or step back, so the rank of a family is arbitrary.
Evicted(u, gone) ==
    /\ gone \subseteq FamiliesOf(u)
    /\ LET n == Cardinality(FamiliesOf(u)) IN
       Cardinality(gone) = IF n < MaxFamilies THEN 0 ELSE n - (MaxFamilies - 1)

\* The families after f is opened for u, starting from the table base.
WithFamily(base, gone, f, u, rev, proved) ==
    [g \in Family |->
        IF g = f THEN [status |-> "active", user |-> u, rev |-> rev, proved |-> proved]
        ELSE IF g \in gone THEN NoFamily("deleted")
        ELSE base[g]]

\* Mutant: an evicted family leaves its pairs behind.
WithTokenKeepsEvicted(gone, k, f) ==
    [tokens EXCEPT ![k] = [status |-> "live", family |-> f]]

\* The tokens after the families gone lost theirs and k was issued in family f.
WithToken(gone, k, f) ==
    [j \in Token |->
        IF j = k THEN [status |-> "live", family |-> f]
        ELSE IF tokens[j].family \in gone /\ TokenExists(j)
             THEN NoToken("deleted")
        ELSE tokens[j]]

\* Identifiers are never used twice: the next uuid is one not used before.
FreshFamily(f) == /\ \E g \in Family : families[g].status = "unused"
                  /\ f = CHOOSE g \in Family : families[g].status = "unused"

FreshToken(k) == /\ \E j \in Token : tokens[j].status = "unused"
                 /\ k = CHOOSE j \in Token : tokens[j].status = "unused"

NewFamily(base, u, rev, proved) ==
    \E f \in Family, k \in Token, gone \in SUBSET Family :
        /\ FreshFamily(f) /\ FreshToken(k)
        /\ Evicted(u, gone)
        /\ families' = WithFamily(base, gone, f, u, rev, proved)
        /\ tokens' = WithToken(gone, k, f)

-----------------------------------------------------------------------------
(* Argon2 work: two slots, taken without waiting. *)

\* Mutant: the slot is taken without looking.
TakeSlotUnbounded(r) ==
    /\ req[r].pc \in {"verify", "hash"}
    /\ slots' = slots - 1
    /\ req' = [req EXCEPT ![r].pc = IF @ = "verify" THEN "verifying" ELSE "hashing"]
    /\ UNCHANGED database

\* _verify and hash_password: a slot is taken, or the request ends with 429.
TakeSlot(r) ==
    /\ req[r].pc \in {"verify", "hash"}
    /\ IF slots > 0
       THEN /\ slots' = slots - 1
            /\ req' = [req EXCEPT ![r].pc = IF @ = "verify" THEN "verifying" ELSE "hashing"]
       ELSE /\ End(r)
            /\ UNCHANGED slots
    /\ UNCHANGED database

\* Mutant: a failed verification keeps its slot.
VerifiedLeaks(r) ==
    /\ req[r].pc = "verifying"
    /\ IF req[r].seen = None \/ req[r].pw # req[r].seen.pw
       THEN End(r) /\ UNCHANGED slots
       ELSE /\ slots' = slots + 1
            /\ req' = [req EXCEPT ![r].pc = "hash"]
    /\ UNCHANGED database

\* The verification ends and returns its slot.  A mismatch, an unknown account
\* and a disabled one end the request; a login goes on to its transaction, by
\* way of a second hash when the stored one is outdated; a password change goes
\* on to hash the new password.
Verified(r) ==
    /\ req[r].pc = "verifying"
    /\ slots' = slots + 1
    /\ IF req[r].seen = None \/ req[r].pw # req[r].seen.pw
       THEN End(r)
       ELSE req' = [req EXCEPT ![r].pc =
                      IF req[r].op = "login" /\ ~req[r].seen.legacy THEN "commit" ELSE "hash"]
    /\ UNCHANGED database

Hashed(r) ==
    /\ req[r].pc = "hashing"
    /\ slots' = slots + 1
    /\ req' = [req EXCEPT ![r].pc = "commit"]
    /\ UNCHANGED database

-----------------------------------------------------------------------------
(* login *)

\* login reads the account row outside any transaction; an unknown account is
\* verified against a dummy hash, a disabled one is refused after verifying.
Login(r, u, p) ==
    /\ req[r].pc = "idle"
    /\ req' = [req EXCEPT ![r] =
                 [IdleRequest EXCEPT !.pc = "verify", !.op = "login", !.user = u, !.pw = p,
                    !.seen = IF users[u].exists /\ ~users[u].disabled
                             THEN users[u].hash ELSE None]]
    /\ UNCHANGED <<database, slots>>

\* Mutant: the transaction trusts the hash verified before it.
LoginStillValidUnchecked(r) ==
    /\ users[req[r].user].exists
    /\ ~users[req[r].user].disabled

\* The account re-read in login's transaction still has the verified hash.
LoginStillValid(r) ==
    /\ users[req[r].user].exists
    /\ ~users[req[r].user].disabled
    /\ users[req[r].user].hash = req[r].seen

LoginCommit(r) ==
    LET u == req[r].user IN
    /\ req[r].pc = "commit" /\ req[r].op = "login"
    /\ LoginStillValid(r)
    /\ users' = IF req[r].seen.legacy
                THEN [users EXCEPT ![u].hash =
                        [pw |-> req[r].pw, salt |-> @.salt + 1, legacy |-> FALSE]]
                ELSE users
    /\ NewFamily(families, u, users[u].revision, req[r].pw)
    /\ End(r)
    /\ UNCHANGED <<audit, slots>>

-----------------------------------------------------------------------------
(* Authenticated requests *)

\* require_admin lets only an administrator with a password of their own into an
\* administrative handler; the others take any principal.
Admitted(row, op) == op \in AdminOp => row.role = "admin" /\ ~row.mustChange

\* authenticate: the access token of a live pair of an unrevoked family of an
\* enabled account becomes a principal.  The handler notes its inputs: for the
\* mutations of an account, the revision the administrator last saw.
Authenticate(r, k, op, u) ==
    LET f == tokens[k].family
        row == users[families[f].user]
    IN  /\ req[r].pc = "idle"
        /\ tokens[k].status = "live"
        /\ families[f].status = "active"
        /\ ~row.disabled
        /\ Admitted(row, op)
        /\ req' = [req EXCEPT ![r] =
             [IdleRequest EXCEPT
                !.pc = CASE op = "change" -> "read"
                         [] op = "create" -> "hash"
                         [] op = "reset" /\ u # families[f].user -> "hash"
                         [] OTHER -> "commit",
                !.op = op,
                !.actor = [user |-> families[f].user, role |-> row.role,
                           mustChange |-> row.mustChange, family |-> f, token |-> k],
                !.user = IF op \in {"create", "update", "reset"} THEN u ELSE None,
                !.expected = IF op \in {"update", "reset"} THEN users[u].revision ELSE 0]]
        /\ UNCHANGED <<database, slots>>

\* Mutant: the transaction does not look at the revocation.
CurrentIgnoresRevocation(a) ==
    /\ tokens[a.token].status = "live"
    /\ ~users[a.user].disabled
    /\ users[a.user].role = a.role

\* assert_current, inside the transaction (expiry may refuse at any time).
Current(a) ==
    /\ tokens[a.token].status = "live"
    /\ tokens[a.token].family = a.family
    /\ families[a.family].status = "active"
    /\ families[a.family].user = a.user
    /\ ~users[a.user].disabled
    /\ users[a.user].role = a.role
    /\ users[a.user].mustChange = a.mustChange

\* The transaction begins for a request whose principal still stands.
Authorised(r, op) ==
    /\ req[r].pc = "commit" /\ req[r].op = op
    /\ Current(req[r].actor)

\* The transaction raises before any write: the session is no longer current,
\* the account changed under a login, or an expiry has passed.
Refused(r) ==
    /\ req[r].pc = "commit"
    /\ End(r)
    /\ UNCHANGED <<database, slots>>

Logout(r) ==
    /\ Authorised(r, "logout")
    /\ families' = Revoke({req[r].actor.family})
    /\ End(r)
    /\ UNCHANGED <<users, tokens, audit, slots>>

-----------------------------------------------------------------------------
(* change_password *)

\* The account row is read after authentication, outside the transaction; the
\* caller's idea of the current password is verified against it.
ChangeRead(r, p) ==
    /\ req[r].pc = "read"
    /\ req' = [req EXCEPT ![r].pc = "verify", ![r].pw = p,
                          ![r].seen = users[req[r].actor.user].hash]
    /\ UNCHANGED <<database, slots>>

\* The new password differs from the verified one; all the account's families
\* are revoked and the caller's device gets a new one.
ChangePassword(r, new) ==
    LET u == req[r].actor.user IN
    /\ Authorised(r, "change")
    /\ new # req[r].pw
    /\ users[u].hash = req[r].seen
    /\ users[u].revision < MaxRevision
    /\ users' = [users EXCEPT ![u].hash = [pw |-> new, salt |-> @.salt + 1, legacy |-> FALSE],
                              ![u].mustChange = FALSE,
                              ![u].revision = @ + 1]
    /\ NewFamily(Revoke(FamiliesOf(u)), u, users[u].revision + 1, new)
    /\ End(r)
    /\ UNCHANGED <<audit, slots>>

-----------------------------------------------------------------------------
(* AdminService *)

\* Mutant: trimming keeps the oldest events.
AuditKeepsOldest(r, status, target) ==
    LET log == Append(audit, [action |-> req[r].op, status |-> status,
                              actor |-> req[r].actor.user, target |-> target])
    IN  audit' = IF Len(log) > MaxAuditEvents THEN SubSeq(log, 1, MaxAuditEvents) ELSE log

\* _mutation: the static outcome is appended and the log is trimmed.
Audit(r, status, target) ==
    LET event == [action |-> req[r].op, status |-> status,
                  actor |-> req[r].actor.user, target |-> target]
        log == Append(audit, event)
    IN  audit' = IF Len(log) > MaxAuditEvents
                 THEN SubSeq(log, Len(log) - MaxAuditEvents + 1, Len(log))
                 ELSE log

\* A mutation of account u that the handler refuses inside its savepoint.
Denied(r, target) ==
    /\ Audit(r, "denied", target)
    /\ UNCHANGED <<users, families, tokens>>

Mutation(r, op) ==
    /\ Authorised(r, op)
    /\ End(r)
    /\ UNCHANGED slots

Present == {u \in User : users[u].exists}

\* create_user: the limit and the unique name are checked in the transaction.
CreateUser(r, role, temporary) ==
    LET u == req[r].user IN
    /\ Mutation(r, "create")
    /\ \/ /\ Cardinality(Present) >= MaxUsers \/ users[u].exists
          /\ Denied(r, u)
       \/ /\ Cardinality(Present) < MaxUsers /\ ~users[u].exists
          /\ users' = [users EXCEPT ![u] =
                 [exists |-> TRUE, role |-> role, disabled |-> FALSE, mustChange |-> TRUE,
                  revision |-> 1,
                  hash |-> [pw |-> temporary, salt |-> 0, legacy |-> FALSE]]]
          /\ Audit(r, "success", u)
          /\ UNCHANGED <<families, tokens>>

\* Mutant: the last administrator counts as one more than enough.
LastActiveAdminOffByOne(u, role, disabled) ==
    /\ u \in ActiveAdmins
    /\ role # "admin" \/ disabled
    /\ Cardinality(ActiveAdmins) < 1

\* The only active administrator may be neither demoted nor disabled.
LastActiveAdmin(u, role, disabled) ==
    /\ u \in ActiveAdmins
    /\ role # "admin" \/ disabled
    /\ Cardinality(ActiveAdmins) <= 1

\* Mutant: the account's sessions survive its change.
RevokeNobody(u) == families

\* _revoke_user
RevokeUser(u) == Revoke(FamiliesOf(u))

\* update_user: a change of role or of disabled revokes the account's sessions;
\* the same values again are a success that changes nothing.
UpdateUser(r, role, disabled) ==
    LET u == req[r].user
        changed == role # users[u].role \/ disabled # users[u].disabled
        valid == /\ users[u].exists /\ users[u].revision = req[r].expected
                 /\ ~LastActiveAdmin(u, role, disabled)
    IN  /\ Mutation(r, "update")
        /\ \/ ~valid /\ Denied(r, u)
           \/ /\ valid /\ changed
              /\ users[u].revision < MaxRevision
              /\ users' = [users EXCEPT ![u].role = role, ![u].disabled = disabled,
                                        ![u].revision = @ + 1]
              /\ families' = RevokeUser(u)
              /\ Audit(r, "success", u)
              /\ UNCHANGED tokens
           \/ /\ valid /\ ~changed
              /\ Audit(r, "success", u)
              /\ UNCHANGED <<users, families, tokens>>

\* reset_password: never one's own; a temporary password and no sessions.
ResetPassword(r, temporary) ==
    LET u == req[r].user
        valid == /\ u # req[r].actor.user
                 /\ users[u].exists /\ users[u].revision = req[r].expected
    IN  /\ Mutation(r, "reset")
        /\ \/ ~valid /\ Denied(r, u)
           \/ /\ valid
              /\ users[u].revision < MaxRevision
              /\ users' = [users EXCEPT
                             ![u].hash = [pw |-> temporary, salt |-> @.salt + 1,
                                          legacy |-> FALSE],
                             ![u].mustChange = TRUE, ![u].revision = @ + 1]
              /\ families' = RevokeUser(u)
              /\ Audit(r, "success", u)
              /\ UNCHANGED tokens

RevokeSession(r, f) ==
    /\ Mutation(r, "revoke")
    /\ \/ ~FamilyExists(f) /\ Denied(r, f)
       \/ /\ FamilyExists(f)
          /\ families' = Revoke({f})
          /\ Audit(r, "success", f)
          /\ UNCHANGED <<users, tokens>>

-----------------------------------------------------------------------------
(* refresh: one transaction, presented with the refresh half of pair k. *)

\* The pair's family can still be acted on by its refresh token.
Refreshable(k) ==
    LET f == tokens[k].family IN
    /\ TokenExists(k)
    /\ families[f].status = "active"
    /\ ~users[families[f].user].disabled

\* A consumed refresh token is presented again, an expiry has passed, or the
\* family holds as many pairs as it may: the family is revoked, and stays so
\* although the request is refused.
RefreshRevokes(k) ==
    LET f == tokens[k].family IN
    /\ Refreshable(k)
    /\ \/ tokens[k].status = "rotated"                             \* replayed
       \/ tokens[k].status = "live"                                \* expired
       \/ /\ tokens[k].status = "live"                             \* full
          /\ ~users[families[f].user].mustChange
          /\ Cardinality(TokensOf(f)) >= MaxTokens
    /\ families' = Revoke({f})
    /\ UNCHANGED <<users, tokens, audit, slots, req>>

\* Mutant: a temporary password can be lived on.
RotatableTemporary(k) ==
    /\ Refreshable(k)
    /\ tokens[k].status = "live"
    /\ Cardinality(TokensOf(tokens[k].family)) < MaxTokens

\* An account with a temporary password is refused before anything is written.
Rotatable(k) ==
    /\ Refreshable(k)
    /\ tokens[k].status = "live"
    /\ ~users[families[tokens[k].family].user].mustChange
    /\ Cardinality(TokensOf(tokens[k].family)) < MaxTokens

RefreshRotates(k, j) ==
    /\ Rotatable(k)
    /\ FreshToken(j)
    /\ tokens' = [tokens EXCEPT ![k].status = "rotated",
                                ![j] = [status |-> "live", family |-> tokens[k].family]]
    /\ UNCHANGED <<users, families, audit, slots, req>>

-----------------------------------------------------------------------------

\* The server process dies and is started again.
Restart ==
    /\ req' = [r \in Request |-> IdleRequest]
    /\ slots' = PasswordSlots
    /\ UNCHANGED database

\* One step of the request thread r.
Handle(r) ==
    \/ \E u \in User, p \in Password : "login" \in Ops /\ Login(r, u, p)
    \/ \E k \in Token, op \in Ops \ {"login"}, u \in User : Authenticate(r, k, op, u)
    \/ TakeSlot(r) \/ Verified(r) \/ Hashed(r)
    \/ LoginCommit(r) \/ Refused(r) \/ Logout(r)
    \/ \E p \in Password : ChangeRead(r, p) \/ ChangePassword(r, p)
    \/ \E role \in Role, p \in Password : CreateUser(r, role, p)
    \/ \E role \in Role, disabled \in BOOLEAN : UpdateUser(r, role, disabled)
    \/ \E p \in Password : ResetPassword(r, p)
    \/ \E f \in Family : RevokeSession(r, f)

Next ==
    \/ \E r \in Request : Handle(r)
    \/ \E k \in Token : RefreshRevokes(k)
    \/ \E k, j \in Token : RefreshRotates(k, j)
    \/ Restart

Spec == Init /\ [][Next]_vars

-----------------------------------------------------------------------------
(* Properties *)

\* Every variable has its type; free slots are never negative.
TypeOK ==
    /\ users \in [User -> UserRow]
    /\ families \in [Family -> FamilyRow]
    /\ tokens \in [Token -> TokenRow]
    /\ audit \in Seq(AuditEvent)
    /\ slots \in Nat
    /\ req \in [Request -> RequestState]

\* Whoever holds an unrevoked session proved the account's present password,
\* since the account's last administrative change, and the account is enabled:
\* a login or a password change that raced a password reset, a change of role,
\* a disabling or another password change never leaves a session behind.
SessionMatchesAccount ==
    \A f \in Family : families[f].status = "active" =>
        LET row == users[families[f].user] IN
        /\ families[f].user \in User /\ row.exists /\ ~row.disabled
        /\ families[f].rev = row.revision
        /\ families[f].proved = row.hash.pw

\* However demotions, disablings and sessions interleave, some administrator can
\* still sign in (the last_active_admin rule of update_user).
SomeActiveAdmin == ActiveAdmins # {}

\* A family's refresh tokens form one chain: every family row has exactly one
\* pair that is not consumed, and every pair belongs to a family row (eviction
\* takes both).
OneLiveToken ==
    /\ \A f \in Family : FamilyExists(f) =>
         \E k \in Token : {j \in TokensOf(f) : tokens[j].status = "live"} = {k}
    /\ \A k \in Token : TokenExists(k) =>
         tokens[k].family \in Family /\ FamilyExists(tokens[k].family)

\* A session opened with a temporary password cannot be prolonged: until the
\* password is changed its only pair is the one the login issued.
TemporaryPasswordSession ==
    \A f \in Family :
        families[f].status = "active" /\ users[families[f].user].mustChange
            => \A k \in TokensOf(f) : tokens[k].status = "live"

\* Retained rows are bounded, inactive ones included: families per account, pairs
\* per family, events in the log and accounts.
RetainedRows ==
    /\ \A u \in User : Cardinality(FamiliesOf(u)) <= MaxFamilies
    /\ \A f \in Family : Cardinality(TokensOf(f)) <= MaxTokens
    /\ Len(audit) <= MaxAuditEvents
    /\ Cardinality(Present) <= MaxUsers

\* Every Argon2 slot is free or held by exactly one request, however requests
\* fail: no path loses or duplicates a permit of the semaphore.
SlotsBalanced ==
    slots + Cardinality({r \in Request : req[r].pc \in {"verifying", "hashing"}})
        = PasswordSlots

\* A principal that lost its authority never regains it: no sequence of later
\* changes (a role given back, an account enabled again, a second reset) makes the
\* snapshot that a waiting request carries pass assert_current again.
LostAuthorityStaysLost ==
    [][\A r \in Request :
         req[r].actor # None /\ req'[r].actor = req[r].actor /\ ~Current(req[r].actor)
            => ~Current(req[r].actor)']_vars

\* The authority behind an administrative change exists when the change is
\* written, not only when the request was authenticated: the actor is an enabled
\* administrator with a password of their own and an unrevoked session.
ChangedByAdmin ==
    [][(\E u \in User :
          \/ users'[u].role # users[u].role
          \/ users'[u].disabled # users[u].disabled
          \/ users'[u].exists # users[u].exists
          \/ (users'[u].mustChange /\ users'[u].revision # users[u].revision))
       => \E r \in Request :
            LET a == req[r].actor IN
            /\ req[r].op \in AdminOp /\ req'[r] # req[r]
            /\ a.user \in ActiveAdmins /\ ~users[a.user].mustChange
            /\ families[a.family].status = "active"
            /\ tokens[a.token].status = "live"]_vars

\* The log tells the truth: a request that appended a denial changed no account
\* and no session, and what an administrator's request did change was appended
\* as a success in the same transaction.
AuditTruthful ==
    [][\A r \in Request :
         req[r].op \in AdminOp /\ req[r].pc = "commit" /\ req'[r] # req[r] =>
           LET last == audit'[Len(audit')] IN
           <<users, families, tokens>>' # <<users, families, tokens>>
             => /\ Len(audit') > 0
                /\ last.status = "success"
                /\ last.action = req[r].op
                /\ last.actor = req[r].actor.user]_vars
=============================================================================
