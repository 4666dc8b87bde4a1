--------------------------- MODULE Sessions_proofs ---------------------------
(***************************************************************************)
(* Proofs about Sessions, for every set of accounts, requests and limits.  *)
(***************************************************************************)
EXTENDS Sessions, SequenceTheorems, FiniteSetTheorems, TLAPS

\* What a request has established by the time it is somewhere in its handler:
\* the inputs it needs are there, and past its verification the password it was
\* given is the one behind the hash it read.
RequestFacts ==
    \A r \in Request :
        /\ req[r].op = "login" => req[r].user \in User /\ req[r].pw \in Password
        /\ req[r].op = "login" /\ req[r].pc \in {"hash", "hashing", "commit"}
             => req[r].seen \in Hash /\ req[r].pw = req[r].seen.pw
        /\ req[r].op \in AdminOp \cup {"change", "logout"} => req[r].actor \in Principal
        /\ req[r].op \in {"create", "update", "reset"} => req[r].user \in User
        /\ req[r].pc = "read" => req[r].op = "change"
        /\ req[r].pc = "idle" => req[r] = IdleRequest

\* A pair that exists belongs to a family.
TokenOwners == \A k \in Token : TokenExists(k) => tokens[k].family \in Family

\* The inductive invariant behind SessionMatchesAccount.
IInv == TypeOK /\ RequestFacts /\ TokenOwners /\ SessionMatchesAccount

-----------------------------------------------------------------------------
(* Lemmas about the helpers *)

\* Revoking families keeps everything but the status of the active ones among them.
LEMMA RevokeFacts ==
    ASSUME TypeOK, NEW fs
    PROVE  /\ Revoke(fs) \in [Family -> FamilyRow]
           /\ \A f \in Family :
                /\ Revoke(fs)[f].status = "active" => f \notin fs /\ families[f].status = "active"
                /\ Revoke(fs)[f].user = families[f].user
                /\ Revoke(fs)[f].rev = families[f].rev
                /\ Revoke(fs)[f].proved = families[f].proved
BY DEF Revoke, TypeOK, FamilyRow

\* Rows with some columns replaced are rows.
LEMMA PasswordRow ==
    ASSUME NEW x \in UserRow, NEW h \in Hash, NEW m \in BOOLEAN, NEW n \in Nat
    PROVE  [x EXCEPT !.hash = h, !.mustChange = m, !.revision = n] \in UserRow
BY DEF UserRow

\* A row with another role and disabled flag is a row.
LEMMA RoleRow ==
    ASSUME NEW x \in UserRow, NEW role \in Role, NEW disabled \in BOOLEAN, NEW n \in Nat
    PROVE  [x EXCEPT !.role = role, !.disabled = disabled, !.revision = n] \in UserRow
BY DEF UserRow

\* Opening a family gives the new row and otherwise at most deletes rows.
LEMMA NewFamilyFacts ==
    ASSUME TypeOK, TokenOwners, NEW base \in [Family -> FamilyRow],
           NEW u \in User, NEW rev \in Nat, NEW proved \in Password,
           NewFamily(base, u, rev, proved)
    PROVE  /\ families' \in [Family -> FamilyRow]
           /\ tokens' \in [Token -> TokenRow]
           /\ TokenOwners'
           /\ \A g \in Family : families'[g].status = "active" =>
                \/ /\ families'[g].user = u /\ families'[g].rev = rev
                   /\ families'[g].proved = proved
                \/ /\ base[g].status = "active"
                   /\ families'[g] = base[g]
<1>1. PICK f \in Family, k \in Token, gone \in SUBSET Family :
        /\ families' = WithFamily(base, gone, f, u, rev, proved)
        /\ tokens' = WithToken(gone, k, f)
      BY DEF NewFamily
<1>2. families' \in [Family -> FamilyRow]
      BY <1>1 DEF WithFamily, FamilyRow, NoFamily
<1>3. tokens' \in [Token -> TokenRow]
      BY <1>1 DEF WithToken, TokenRow, NoToken, TypeOK
<1>4. TokenOwners'
      BY <1>1 DEF WithToken, TokenRow, NoToken, TypeOK, TokenOwners, TokenExists
<1>5. \A g \in Family : families'[g].status = "active" =>
                \/ /\ families'[g].user = u /\ families'[g].rev = rev
                   /\ families'[g].proved = proved
                \/ /\ base[g].status = "active"
                   /\ families'[g] = base[g]
      BY <1>1 DEF WithFamily, FamilyRow, NoFamily
<1> QED BY <1>2, <1>3, <1>4, <1>5

\* The trimmed log is a log.
LEMMA AuditType ==
    ASSUME TypeOK, NEW r \in Request, NEW status \in {"success", "denied"},
           NEW target \in User \cup Family, req[r].op \in AdminOp,
           req[r].actor \in Principal, Audit(r, status, target)
    PROVE  audit' \in Seq(AuditEvent)
<1> DEFINE event == [action |-> req[r].op, status |-> status,
                     actor |-> req[r].actor.user, target |-> target]
           log == Append(audit, event)
<1>1. event \in AuditEvent
      BY DEF AuditEvent, Principal
<1>2. log \in Seq(AuditEvent)
      BY <1>1 DEF TypeOK
<1>3. SubSeq(log, Len(log) - MaxAuditEvents + 1, Len(log)) \in Seq(AuditEvent)
             \/ ~(Len(log) > MaxAuditEvents)
      BY <1>2, SubSeqProperties, SessionLimits
<1> QED BY <1>2, <1>3 DEF Audit

\* A request that ends is idle, and the others are as they were.
LEMMA EndFacts ==
    ASSUME TypeOK, RequestFacts, NEW r \in Request, End(r)
    PROVE  req' \in [Request -> RequestState] /\ RequestFacts'
<1>1. IdleRequest \in RequestState
      BY DEF IdleRequest, RequestState, PC
<1>2. req' \in [Request -> RequestState]
      BY <1>1 DEF End, TypeOK
<1>3. RequestFacts'
      BY DEF End, TypeOK, RequestFacts, IdleRequest, AdminOp
<1> QED BY <1>2, <1>3

-----------------------------------------------------------------------------
(* Steps that leave the database alone *)

\* TakeSlot, Verified and Hashed move a request through its Argon2 work.
LEMMA SlotSteps ==
    ASSUME IInv, NEW r \in Request, TakeSlot(r) \/ Verified(r) \/ Hashed(r)
    PROVE  IInv'
<1> USE DEF IInv
<1>1. CASE req' = [req EXCEPT ![r] = IdleRequest]
  <2>1. req' \in [Request -> RequestState] /\ RequestFacts'
        BY <1>1, EndFacts DEF End
  <2> QED BY <2>1 DEF TakeSlot, Verified, Hashed, database, TypeOK, TokenOwners,
                      TokenExists, SessionMatchesAccount
<1>2. CASE \E c \in {"verifying", "hash", "hashing", "commit"} :
             /\ req' = [req EXCEPT ![r].pc = c]
             /\ req[r].pc # "idle"
             /\ \/ c = "verifying"
                \/ req[r].pc \in {"hash", "hashing"}
                \/ req[r].seen # None /\ req[r].pw = req[r].seen.pw
  <2>1. req' \in [Request -> RequestState]
    <3>1. PICK c \in {"verifying", "hash", "hashing", "commit"} :
            req' = [req EXCEPT ![r].pc = c]
          BY <1>2
    <3>2. req[r] \in RequestState /\ c \in PC
          BY DEF TypeOK, PC
    <3>3. [req[r] EXCEPT !.pc = c] \in RequestState
          BY <3>2 DEF RequestState
    <3> QED BY <3>1, <3>3 DEF TypeOK
  <2>2. RequestFacts'
        BY <1>2 DEF TypeOK, RequestFacts, RequestState, IdleRequest, AdminOp
  <2> QED BY <2>1, <2>2 DEF TakeSlot, Verified, Hashed, database, TypeOK, TokenOwners,
                            TokenExists, SessionMatchesAccount
<1> QED BY <1>1, <1>2 DEF TakeSlot, Verified, Hashed, End, TypeOK

\* Login, Authenticate and ChangeRead note what they read; Refused forgets it.
LEMMA ReadSteps ==
    ASSUME IInv, NEW r \in Request,
           \/ \E u \in User, p \in Password : Login(r, u, p)
           \/ \E k \in Token, op \in Ops \ {"login"}, u \in User : Authenticate(r, k, op, u)
           \/ \E p \in Password : ChangeRead(r, p)
           \/ Refused(r)
    PROVE  IInv'
<1> USE DEF IInv
<1>1. ASSUME NEW u \in User, NEW p \in Password, Login(r, u, p)
      PROVE  req' \in [Request -> RequestState] /\ RequestFacts'
  <2> DEFINE q == [IdleRequest EXCEPT !.pc = "verify", !.op = "login", !.user = u, !.pw = p,
                     !.seen = IF users[u].exists /\ ~users[u].disabled
                              THEN users[u].hash ELSE None]
  <2>1. q \in RequestState
        BY DEF IdleRequest, RequestState, PC, Op, TypeOK, UserRow
  <2>2. q.op = "login" /\ q.user = u /\ q.pw = p /\ q.pc = "verify"
        BY DEF IdleRequest
  <2>3. req' = [req EXCEPT ![r] = q]
        BY <1>1 DEF Login
  <2> HIDE DEF q
  <2> QED BY <2>1, <2>2, <2>3 DEF TypeOK, RequestFacts, AdminOp
<1>2. ASSUME NEW k \in Token, NEW op \in Ops \ {"login"}, NEW u \in User,
             Authenticate(r, k, op, u)
      PROVE  req' \in [Request -> RequestState] /\ RequestFacts'
  <2> DEFINE f == tokens[k].family
             row == users[families[f].user]
             principal == [user |-> families[f].user, role |-> row.role,
                           mustChange |-> row.mustChange, family |-> f, token |-> k]
  <2>1. f \in Family /\ families[f].status = "active"
        BY <1>2 DEF Authenticate, TokenOwners, TokenExists
  <2>2. families[f].user \in User
        BY <2>1 DEF SessionMatchesAccount
  <2>3. row \in UserRow
        BY <2>2 DEF TypeOK
  <2>4. principal \in Principal
        BY <2>1, <2>2, <2>3 DEF Principal, UserRow
  <2> DEFINE c == CASE op = "change" -> "read"
                    [] op = "create" -> "hash"
                    [] op = "reset" /\ u # families[f].user -> "hash"
                    [] OTHER -> "commit"
             t == IF op \in {"create", "update", "reset"} THEN u ELSE None
             e == IF op \in {"update", "reset"} THEN users[u].revision ELSE 0
  <2>5. /\ c \in {"read", "hash", "commit"} /\ t \in User \cup {None} /\ e \in Nat
        /\ op \in {"create", "update", "reset"} => t = u
        /\ c = "read" => op = "change"
        BY DEF TypeOK, UserRow
  <2> DEFINE q == [IdleRequest EXCEPT !.pc = c, !.op = op,
                        !.actor = principal, !.user = t, !.expected = e]
  <2>6. req' = [req EXCEPT ![r] = q]
        BY <1>2 DEF Authenticate
  <2> HIDE DEF principal, c, t, e
  <2>7. q \in RequestState
        BY <2>4, <2>5, SessionLimits DEF IdleRequest, RequestState, PC
  <2>8. q.op = op /\ q.actor = principal /\ q.user = t /\ q.pc = c
        BY DEF IdleRequest
  <2> HIDE DEF q
  <2> QED BY <2>4, <2>5, <2>6, <2>7, <2>8 DEF TypeOK, RequestFacts, AdminOp
<1>3. ASSUME NEW p \in Password, ChangeRead(r, p)
      PROVE  req' \in [Request -> RequestState] /\ RequestFacts'
  <2> DEFINE h == users[req[r].actor.user].hash
             q == [req[r] EXCEPT !.pc = "verify", !.pw = p, !.seen = h]
  <2>1. req[r].op = "change" /\ req[r].actor \in Principal
        BY <1>3 DEF ChangeRead, RequestFacts
  <2>2. h \in Hash
        BY <2>1 DEF Principal, TypeOK, UserRow
  <2>3. q \in RequestState
        BY <2>2 DEF TypeOK, RequestState, PC
  <2>4. q.op = "change" /\ q.actor = req[r].actor /\ q.pc = "verify"
        BY <2>1 DEF TypeOK, RequestState
  <2>5. req' = [req EXCEPT ![r] = q]
        BY <1>3 DEF ChangeRead, TypeOK, RequestState
  <2> HIDE DEF q
  <2> QED BY <2>1, <2>3, <2>4, <2>5 DEF TypeOK, RequestFacts, AdminOp
<1>4. ASSUME Refused(r)
      PROVE  req' \in [Request -> RequestState] /\ RequestFacts'
      BY <1>4, EndFacts DEF Refused
<1>5. req' \in [Request -> RequestState] /\ RequestFacts'
      BY <1>1, <1>2, <1>3, <1>4
<1>6. UNCHANGED <<users, families, tokens, audit, slots>>
      BY DEF Login, Authenticate, ChangeRead, Refused, database
<1> QED BY <1>5, <1>6 DEF TypeOK, TokenOwners, TokenExists, SessionMatchesAccount

-----------------------------------------------------------------------------
(* Steps that write *)

\* A login opens a family for the password it verified.
LEMMA LoginStep ==
    ASSUME IInv, NEW r \in Request, LoginCommit(r)
    PROVE  IInv'
<1> DEFINE u == req[r].user
<1> USE DEF IInv
<1>1. /\ u \in User /\ req[r].pw \in Password
      /\ req[r].seen \in Hash /\ req[r].pw = req[r].seen.pw
      BY DEF LoginCommit, RequestFacts
<1>2. users[u] \in UserRow /\ users[u].hash = req[r].seen
      BY <1>1 DEF LoginCommit, LoginStillValid, TypeOK
<1>3. /\ users' \in [User -> UserRow]
      /\ \A v \in User : /\ users'[v].exists = users[v].exists
                          /\ users'[v].disabled = users[v].disabled
                          /\ users'[v].revision = users[v].revision
                          /\ users'[v].hash.pw = users[v].hash.pw
  <2>1. CASE users' = users
        BY <2>1 DEF TypeOK
  <2>2. CASE users' = [users EXCEPT ![u].hash =
                         [pw |-> req[r].pw, salt |-> @.salt + 1, legacy |-> FALSE]]
    <3> DEFINE h == [pw |-> req[r].pw, salt |-> users[u].hash.salt + 1, legacy |-> FALSE]
    <3>1. h \in Hash /\ h.pw = users[u].hash.pw
          BY <1>1, <1>2 DEF Hash
    <3>2. users' = [users EXCEPT ![u] = [users[u] EXCEPT !.hash = h]]
          BY <2>2, <1>1 DEF TypeOK
    <3> HIDE DEF h
    <3> QED BY <1>1, <1>2, <3>1, <3>2 DEF TypeOK, UserRow
  <2> QED BY <2>1, <2>2 DEF LoginCommit
<1>4. NewFamily(families, u, users[u].revision, req[r].pw)
      BY DEF LoginCommit
<1>5. users[u].revision \in Nat /\ users[u].exists /\ ~users[u].disabled
      BY <1>2 DEF UserRow, LoginCommit, LoginStillValid
<1>6. /\ families' \in [Family -> FamilyRow] /\ tokens' \in [Token -> TokenRow]
      /\ TokenOwners'
      /\ \A g \in Family : families'[g].status = "active" =>
                \/ /\ families'[g].user = u /\ families'[g].rev = users[u].revision
                   /\ families'[g].proved = req[r].pw
                \/ families[g].status = "active" /\ families'[g] = families[g]
      BY <1>1, <1>4, <1>5, NewFamilyFacts DEF TypeOK
<1>7. SessionMatchesAccount'
      BY <1>1, <1>2, <1>3, <1>5, <1>6 DEF SessionMatchesAccount
<1>8. req' \in [Request -> RequestState] /\ RequestFacts'
      BY EndFacts DEF LoginCommit
<1> QED BY <1>3, <1>6, <1>7, <1>8 DEF LoginCommit, TypeOK

\* A password change opens a family for the new password and revokes the others.
LEMMA ChangeStep ==
    ASSUME IInv, NEW r \in Request, NEW new \in Password, ChangePassword(r, new)
    PROVE  IInv'
<1> DEFINE u == req[r].actor.user
           base == Revoke(FamiliesOf(u))
<1> USE DEF IInv
<1>1. u \in User /\ users[u].exists /\ ~users[u].disabled
  <2>1. req[r].actor \in Principal
        BY DEF ChangePassword, Authorised, RequestFacts
  <2>2. families[req[r].actor.family].status = "active"
        /\ families[req[r].actor.family].user = u
        BY DEF ChangePassword, Authorised, Current
  <2> QED BY <2>1, <2>2 DEF Principal, SessionMatchesAccount
<1>2. users[u] \in UserRow
      BY <1>1 DEF TypeOK
<1>3. /\ users' \in [User -> UserRow]
      /\ users'[u].exists /\ ~users'[u].disabled
      /\ users'[u].revision = users[u].revision + 1 /\ users'[u].hash.pw = new
      /\ \A v \in User : v # u => users'[v] = users[v]
  <2> DEFINE h == [pw |-> new, salt |-> users[u].hash.salt + 1, legacy |-> FALSE]
  <2>1. h \in Hash /\ h.pw = new
        BY <1>2 DEF Hash, UserRow
  <2> DEFINE row == [users[u] EXCEPT !.hash = h, !.mustChange = FALSE,
                                     !.revision = users[u].revision + 1]
  <2>2. users' = [users EXCEPT ![u] = row]
        BY <1>1, <1>2 DEF ChangePassword, TypeOK, UserRow
  <2> HIDE DEF h
  <2>3. row \in UserRow
    <3>1. users[u].revision + 1 \in Nat
          BY <1>2 DEF UserRow
    <3> QED BY <1>2, <2>1, <3>1, PasswordRow
  <2>4. /\ row.exists = users[u].exists /\ row.disabled = users[u].disabled
        /\ row.revision = users[u].revision + 1 /\ row.hash = h
        BY <1>2 DEF UserRow
  <2> HIDE DEF row
  <2> QED BY <1>1, <2>1, <2>2, <2>3, <2>4 DEF TypeOK
<1>4. NewFamily(base, u, users[u].revision + 1, new)
      BY DEF ChangePassword
<1>5. users[u].revision + 1 \in Nat
      BY <1>2 DEF UserRow
<1>6. /\ base \in [Family -> FamilyRow]
      /\ \A g \in Family : base[g].status = "active" =>
           /\ families[g].status = "active" /\ families[g].user # u
           /\ base[g].user = families[g].user /\ base[g].rev = families[g].rev
           /\ base[g].proved = families[g].proved
      BY RevokeFacts DEF FamiliesOf, FamilyExists
<1> HIDE DEF base
<1>7. /\ families' \in [Family -> FamilyRow] /\ tokens' \in [Token -> TokenRow]
      /\ TokenOwners'
      /\ \A g \in Family : families'[g].status = "active" =>
                \/ /\ families'[g].user = u /\ families'[g].rev = users[u].revision + 1
                   /\ families'[g].proved = new
                \/ base[g].status = "active" /\ families'[g] = base[g]
      BY <1>1, <1>4, <1>5, <1>6, NewFamilyFacts
<1>8. SessionMatchesAccount'
      BY <1>1, <1>3, <1>6, <1>7 DEF SessionMatchesAccount
<1>9. req' \in [Request -> RequestState] /\ RequestFacts'
      BY EndFacts DEF ChangePassword
<1> QED BY <1>3, <1>7, <1>8, <1>9 DEF ChangePassword, TypeOK

\* What every administrative transaction establishes: its actor and the requests.
LEMMA MutationFacts ==
    ASSUME IInv, NEW r \in Request, NEW op \in AdminOp, Mutation(r, op)
    PROVE  /\ req[r].op = op /\ req[r].actor \in Principal
           /\ op # "revoke" => req[r].user \in User
           /\ req' \in [Request -> RequestState] /\ RequestFacts'
           /\ UNCHANGED slots
<1>1. req[r].op = op
      BY DEF Mutation, Authorised
<1>2. req[r].actor \in Principal /\ (op # "revoke" => req[r].user \in User)
      BY <1>1 DEF IInv, RequestFacts, AdminOp
<1>3. req' \in [Request -> RequestState] /\ RequestFacts'
      BY EndFacts DEF IInv, Mutation
<1> QED BY <1>1, <1>2, <1>3 DEF Mutation

\* A refused mutation only appends to the log.
LEMMA DeniedStep ==
    ASSUME IInv, NEW r \in Request, NEW op \in AdminOp, Mutation(r, op),
           NEW target \in User \cup Family,
           NEW status \in {"success", "denied"}, Audit(r, status, target),
           UNCHANGED <<users, families, tokens>>
    PROVE  IInv'
<1>1. req[r].op \in AdminOp /\ req[r].actor \in Principal
      /\ req' \in [Request -> RequestState] /\ RequestFacts' /\ UNCHANGED slots
      BY MutationFacts
<1>2. audit' \in Seq(AuditEvent)
      BY <1>1, AuditType DEF IInv
<1> QED BY <1>1, <1>2 DEF IInv, TypeOK, TokenOwners, TokenExists, SessionMatchesAccount

\* An account's row changes and its sessions are revoked.
LEMMA AccountStep ==
    ASSUME IInv, NEW r \in Request, NEW op \in AdminOp, Mutation(r, op),
           NEW u \in User, NEW row \in UserRow,
           users' = [users EXCEPT ![u] = row],
           families' = RevokeUser(u), Audit(r, "success", u), UNCHANGED tokens
    PROVE  IInv'
<1>1. req[r].op \in AdminOp /\ req[r].actor \in Principal
      /\ req' \in [Request -> RequestState] /\ RequestFacts' /\ UNCHANGED slots
      BY MutationFacts
<1>2. audit' \in Seq(AuditEvent)
      BY <1>1, AuditType DEF IInv
<1>3. /\ families' \in [Family -> FamilyRow]
      /\ \A g \in Family : families'[g].status = "active" =>
           /\ families[g].status = "active" /\ families[g].user # u
           /\ families'[g].user = families[g].user /\ families'[g].rev = families[g].rev
           /\ families'[g].proved = families[g].proved
      BY RevokeFacts DEF IInv, RevokeUser, FamiliesOf, FamilyExists
<1>4. users' \in [User -> UserRow] /\ \A v \in User : v # u => users'[v] = users[v]
      BY DEF IInv, TypeOK
<1>5. SessionMatchesAccount'
      BY <1>3, <1>4 DEF IInv, SessionMatchesAccount
<1> QED BY <1>1, <1>2, <1>3, <1>4, <1>5 DEF IInv, TypeOK, TokenOwners, TokenExists

\* create_user adds a row that no session belongs to yet.
LEMMA CreateStep ==
    ASSUME IInv, NEW r \in Request, NEW role \in Role, NEW p \in Password,
           CreateUser(r, role, p)
    PROVE  IInv'
<1> DEFINE u == req[r].user
           row == [exists |-> TRUE, role |-> role, disabled |-> FALSE, mustChange |-> TRUE,
                   revision |-> 1, hash |-> [pw |-> p, salt |-> 0, legacy |-> FALSE]]
<1>1. "create" \in AdminOp /\ Mutation(r, "create")
      BY DEF AdminOp, CreateUser
<1>2. /\ u \in User /\ req[r].op \in AdminOp /\ req[r].actor \in Principal
      /\ req' \in [Request -> RequestState] /\ RequestFacts' /\ UNCHANGED slots
      BY <1>1, MutationFacts
<1>3. CASE Denied(r, u)
      BY <1>1, <1>2, <1>3, DeniedStep DEF Denied
<1>4. CASE /\ ~users[u].exists
           /\ users' = [users EXCEPT ![u] = row]
           /\ Audit(r, "success", u)
           /\ UNCHANGED <<families, tokens>>
  <2>1. row \in UserRow
        BY DEF UserRow, Hash
  <2> HIDE DEF row
  <2>2. users' \in [User -> UserRow] /\ \A v \in User : v # u => users'[v] = users[v]
        BY <1>2, <1>4, <2>1 DEF IInv, TypeOK
  <2>3. SessionMatchesAccount'
        BY <1>4, <2>2 DEF IInv, SessionMatchesAccount
  <2>4. audit' \in Seq(AuditEvent)
        BY <1>2, <1>4, AuditType DEF IInv
  <2> QED BY <1>2, <1>4, <2>2, <2>3, <2>4 DEF IInv, TypeOK, TokenOwners, TokenExists
<1> QED BY <1>3, <1>4 DEF CreateUser

\* update_user changes a row and revokes its sessions, or changes nothing.
LEMMA UpdateStep ==
    ASSUME IInv, NEW r \in Request, NEW role \in Role, NEW disabled \in BOOLEAN,
           UpdateUser(r, role, disabled)
    PROVE  IInv'
<1> DEFINE u == req[r].user
           row == [users[u] EXCEPT !.role = role, !.disabled = disabled,
                                   !.revision = users[u].revision + 1]
<1>1. "update" \in AdminOp /\ Mutation(r, "update")
      BY DEF AdminOp, UpdateUser
<1>2. u \in User
      BY <1>1, MutationFacts
<1>3. CASE Denied(r, u)
      BY <1>1, <1>2, <1>3, DeniedStep DEF Denied
<1>4. CASE Audit(r, "success", u) /\ UNCHANGED <<users, families, tokens>>
      BY <1>1, <1>2, <1>4, DeniedStep
<1>5. CASE /\ users' = [users EXCEPT ![u].role = role, ![u].disabled = disabled,
                                     ![u].revision = @ + 1]
           /\ families' = RevokeUser(u)
           /\ Audit(r, "success", u)
           /\ UNCHANGED tokens
  <2>1. users[u] \in UserRow
        BY <1>2 DEF IInv, TypeOK
  <2>2. row \in UserRow
    <3>1. users[u].revision + 1 \in Nat
          BY <2>1 DEF UserRow
    <3>2. \A n \in Nat : [users[u] EXCEPT !.role = role, !.disabled = disabled,
                                          !.revision = n] \in UserRow
          BY <2>1, RoleRow
    <3> QED BY <3>1, <3>2
  <2>3. users' = [users EXCEPT ![u] = row]
        BY <1>2, <1>5, <2>1 DEF IInv, TypeOK, UserRow
  <2> HIDE DEF row
  <2> QED BY <1>1, <1>2, <1>5, <2>2, <2>3, AccountStep
<1> QED BY <1>3, <1>4, <1>5 DEF UpdateUser

\* reset_password replaces the hash and revokes the sessions of another account.
LEMMA ResetStep ==
    ASSUME IInv, NEW r \in Request, NEW p \in Password, ResetPassword(r, p)
    PROVE  IInv'
<1> DEFINE u == req[r].user
           h == [pw |-> p, salt |-> users[u].hash.salt + 1, legacy |-> FALSE]
           row == [users[u] EXCEPT !.hash = h, !.mustChange = TRUE,
                                   !.revision = users[u].revision + 1]
<1>1. "reset" \in AdminOp /\ Mutation(r, "reset")
      BY DEF AdminOp, ResetPassword
<1>2. u \in User
      BY <1>1, MutationFacts
<1>3. CASE Denied(r, u)
      BY <1>1, <1>2, <1>3, DeniedStep DEF Denied
<1>4. CASE /\ users' = [users EXCEPT
                          ![u].hash = [pw |-> p, salt |-> @.salt + 1, legacy |-> FALSE],
                          ![u].mustChange = TRUE, ![u].revision = @ + 1]
           /\ families' = RevokeUser(u)
           /\ Audit(r, "success", u)
           /\ UNCHANGED tokens
  <2>1. users[u] \in UserRow
        BY <1>2 DEF IInv, TypeOK
  <2>2. h \in Hash
        BY <2>1 DEF UserRow, Hash
  <2>3. users' = [users EXCEPT ![u] = row]
        BY <1>2, <1>4, <2>1 DEF IInv, TypeOK, UserRow
  <2> HIDE DEF h
  <2>4. row \in UserRow
    <3>1. users[u].revision + 1 \in Nat
          BY <2>1 DEF UserRow
    <3> QED BY <2>1, <2>2, <3>1, PasswordRow
  <2> HIDE DEF row
  <2> QED BY <1>1, <1>2, <1>4, <2>3, <2>4, AccountStep
<1> QED BY <1>3, <1>4 DEF ResetPassword

\* A single session is revoked: by an administrator, by its owner, by a refresh.
LEMMA RevokeKeepsMatch ==
    ASSUME IInv, NEW fs, families' = Revoke(fs), UNCHANGED users
    PROVE  families' \in [Family -> FamilyRow] /\ SessionMatchesAccount'
<1>1. /\ families' \in [Family -> FamilyRow]
      /\ \A g \in Family : families'[g].status = "active" =>
           /\ families[g].status = "active"
           /\ families'[g].user = families[g].user /\ families'[g].rev = families[g].rev
           /\ families'[g].proved = families[g].proved
      BY RevokeFacts DEF IInv
<1> QED BY <1>1 DEF IInv, SessionMatchesAccount

\* revoke_session revokes one family.
LEMMA RevokeSessionStep ==
    ASSUME IInv, NEW r \in Request, NEW f \in Family, RevokeSession(r, f)
    PROVE  IInv'
<1>1. "revoke" \in AdminOp /\ Mutation(r, "revoke")
      BY DEF AdminOp, RevokeSession
<1>2. CASE Denied(r, f)
      BY <1>1, <1>2, DeniedStep DEF Denied
<1>3. CASE /\ families' = Revoke({f}) /\ Audit(r, "success", f)
           /\ UNCHANGED <<users, tokens>>
  <2>1. /\ req[r].op \in AdminOp /\ req[r].actor \in Principal
        /\ req' \in [Request -> RequestState] /\ RequestFacts' /\ UNCHANGED slots
        BY <1>1, MutationFacts
  <2>2. audit' \in Seq(AuditEvent)
        BY <1>3, <2>1, AuditType DEF IInv
  <2>3. families' \in [Family -> FamilyRow] /\ SessionMatchesAccount'
        BY <1>3, RevokeKeepsMatch
  <2> QED BY <1>3, <2>1, <2>2, <2>3 DEF IInv, TypeOK, TokenOwners, TokenExists
<1> QED BY <1>2, <1>3 DEF RevokeSession

\* logout revokes the family it is called from.
LEMMA LogoutStep ==
    ASSUME IInv, NEW r \in Request, Logout(r)
    PROVE  IInv'
<1>1. families' \in [Family -> FamilyRow] /\ SessionMatchesAccount'
      BY RevokeKeepsMatch DEF Logout
<1>2. req' \in [Request -> RequestState] /\ RequestFacts'
      BY EndFacts DEF Logout, IInv
<1> QED BY <1>1, <1>2 DEF IInv, Logout, TypeOK, TokenOwners, TokenExists

\* refresh revokes the family of the pair, or rotates the pair inside it.
LEMMA RefreshStep ==
    ASSUME IInv, NEW k \in Token,
           RefreshRevokes(k) \/ \E j \in Token : RefreshRotates(k, j)
    PROVE  IInv'
<1>1. CASE RefreshRevokes(k)
  <2>1. families' \in [Family -> FamilyRow] /\ SessionMatchesAccount'
        BY <1>1, RevokeKeepsMatch DEF RefreshRevokes
  <2> QED BY <1>1, <2>1 DEF IInv, RefreshRevokes, TypeOK, RequestFacts, TokenOwners, TokenExists
<1>2. ASSUME NEW j \in Token, RefreshRotates(k, j)
      PROVE  IInv'
  <2>1. /\ tokens[k].family \in Family
        /\ tokens' = [tokens EXCEPT ![k].status = "rotated",
                                    ![j] = [status |-> "live", family |-> tokens[k].family]]
        BY <1>2 DEF RefreshRotates, Rotatable, Refreshable, IInv, TokenOwners
  <2>2. tokens' \in [Token -> TokenRow]
        BY <2>1 DEF IInv, TypeOK, TokenRow
  <2>3. TokenOwners'
        BY <2>1 DEF IInv, TypeOK, TokenRow, TokenOwners, TokenExists
  <2> QED BY <1>2, <2>2, <2>3 DEF IInv, RefreshRotates, TypeOK, RequestFacts, SessionMatchesAccount
<1> QED BY <1>1, <1>2

\* A restart forgets the requests and keeps the tables.
LEMMA RestartStep ==
    ASSUME IInv, Restart
    PROVE  IInv'
<1>1. IdleRequest \in RequestState
      BY DEF IdleRequest, RequestState, PC
<1>2. RequestFacts'
      BY DEF Restart, RequestFacts, IdleRequest, AdminOp
<1> QED BY <1>1, <1>2, SessionLimits
        DEF IInv, Restart, database, TypeOK, TokenOwners, TokenExists, SessionMatchesAccount

-----------------------------------------------------------------------------

\* The inductive invariant holds in every reachable state.
THEOREM SessionInvariant == Spec => []IInv
<1>1. Init => IInv
  <2> SUFFICES ASSUME Init PROVE IInv
      OBVIOUS
  <2>1. IdleRequest \in RequestState
        BY DEF IdleRequest, RequestState, PC
  <2>2. TypeOK
        BY <2>1, InstalledAccounts, SessionLimits
        DEF Init, TypeOK, FamilyRow, TokenRow, NoFamily, NoToken
  <2>3. RequestFacts
        BY DEF Init, RequestFacts, IdleRequest, AdminOp
  <2>4. TokenOwners /\ SessionMatchesAccount
        BY DEF Init, TokenOwners, TokenExists, SessionMatchesAccount, NoFamily, NoToken
  <2> QED BY <2>2, <2>3, <2>4 DEF IInv
<1>2. IInv /\ [Next]_vars => IInv'
  <2> SUFFICES ASSUME IInv, [Next]_vars PROVE IInv'
      OBVIOUS
  <2>1. ASSUME NEW r \in Request, Handle(r) PROVE IInv'
        BY <2>1, SlotSteps, ReadSteps, LoginStep, ChangeStep, CreateStep, UpdateStep,
           ResetStep, RevokeSessionStep, LogoutStep
        DEF Handle
  <2>2. ASSUME NEW k \in Token, RefreshRevokes(k) PROVE IInv'
        BY <2>2, RefreshStep
  <2>3. ASSUME NEW k \in Token, NEW j \in Token, RefreshRotates(k, j) PROVE IInv'
        BY <2>3, RefreshStep
  <2>4. CASE Restart
        BY <2>4, RestartStep
  <2>5. CASE UNCHANGED vars
        BY <2>5 DEF IInv, vars, TypeOK, RequestFacts, TokenOwners, TokenExists,
                    SessionMatchesAccount
  <2> QED BY <2>1, <2>2, <2>3, <2>4, <2>5 DEF Next
<1> QED BY <1>1, <1>2, PTL DEF Spec

\* Type correctness of the accounts, the sessions, the log and the requests.
THEOREM TypeCorrect == Spec => []TypeOK
<1>1. IInv => TypeOK
      BY DEF IInv
<1> QED BY <1>1, SessionInvariant, PTL

\* No race between logins, password changes, resets, role changes and disablings
\* leaves a session that the account's present state would not have granted.
THEOREM SessionsMatchAccounts == Spec => []SessionMatchesAccount
<1>1. IInv => SessionMatchesAccount
      BY DEF IInv
<1> QED BY <1>1, SessionInvariant, PTL

-----------------------------------------------------------------------------
(* Some administrator can always sign in. *)

\* Of more than one administrator, one remains when u goes.
LEMMA AnotherAdmin ==
    ASSUME NEW u \in ActiveAdmins, ~(Cardinality(ActiveAdmins) <= 1)
    PROVE  \E v \in ActiveAdmins : v # u
<1>1. IsFiniteSet(ActiveAdmins)
      BY SessionLimits, FS_Subset DEF ActiveAdmins
<1>2. Cardinality(ActiveAdmins) \in Nat
      BY <1>1, FS_CardinalityType
<1>3. CASE ActiveAdmins = {u}
      BY <1>2, <1>3, FS_Singleton
<1> QED BY <1>3

\* A step that keeps the active administrators other than u, and u as well unless
\* another one exists, keeps an active administrator.
LEMMA AdminStep ==
    ASSUME IInv, SomeActiveAdmin, [Next]_vars
    PROVE  SomeActiveAdmin'
<1>1. CASE users' = users
      BY <1>1 DEF SomeActiveAdmin, ActiveAdmins
<1>2. ASSUME NEW r \in Request, LoginCommit(r)
      PROVE  SomeActiveAdmin'
  <2>1. \A v \in User : /\ users'[v].exists = users[v].exists
                         /\ users'[v].disabled = users[v].disabled
                         /\ users'[v].role = users[v].role
        BY <1>2 DEF LoginCommit, IInv, TypeOK, UserRow
  <2> QED BY <2>1 DEF SomeActiveAdmin, ActiveAdmins
<1>3. ASSUME NEW r \in Request, NEW p \in Password, ChangePassword(r, p)
      PROVE  SomeActiveAdmin'
  <2>1. \A v \in User : /\ users'[v].exists = users[v].exists
                         /\ users'[v].disabled = users[v].disabled
                         /\ users'[v].role = users[v].role
        BY <1>3 DEF ChangePassword, IInv, TypeOK, UserRow
  <2> QED BY <2>1 DEF SomeActiveAdmin, ActiveAdmins
<1>4. ASSUME NEW r \in Request, NEW p \in Password, ResetPassword(r, p)
      PROVE  SomeActiveAdmin'
  <2>1. \A v \in User : /\ users'[v].exists = users[v].exists
                         /\ users'[v].disabled = users[v].disabled
                         /\ users'[v].role = users[v].role
        BY <1>4 DEF ResetPassword, Denied, IInv, TypeOK, UserRow
  <2> QED BY <2>1 DEF SomeActiveAdmin, ActiveAdmins
<1>5. ASSUME NEW r \in Request, NEW role \in Role, NEW p \in Password, CreateUser(r, role, p)
      PROVE  SomeActiveAdmin'
  <2>1. \A v \in User : users[v].exists => users'[v] = users[v]
        BY <1>5 DEF CreateUser, Denied, IInv, TypeOK
  <2> QED BY <2>1 DEF SomeActiveAdmin, ActiveAdmins
<1>6. ASSUME NEW r \in Request, NEW role \in Role, NEW disabled \in BOOLEAN,
             UpdateUser(r, role, disabled)
      PROVE  SomeActiveAdmin'
  <2> DEFINE u == req[r].user
  <2>1. CASE users' = users
        BY <2>1 DEF SomeActiveAdmin, ActiveAdmins
  <2>2. CASE /\ ~LastActiveAdmin(u, role, disabled)
             /\ users' = [users EXCEPT ![u].role = role, ![u].disabled = disabled,
                                       ![u].revision = @ + 1]
    <3>1. \A v \in User : v # u => users'[v] = users[v]
          BY <2>2 DEF IInv, TypeOK
    <3>2. CASE \E v \in ActiveAdmins : v # u
          BY <3>1, <3>2 DEF SomeActiveAdmin, ActiveAdmins
    <3>3. CASE ~\E v \in ActiveAdmins : v # u
      <4>1. u \in ActiveAdmins
            BY <3>3 DEF SomeActiveAdmin
      <4>2. role = "admin" /\ ~disabled
            BY <2>2, <3>3, <4>1, AnotherAdmin DEF LastActiveAdmin
      <4>3. users'[u].exists /\ users'[u].role = role /\ users'[u].disabled = disabled
            BY <2>2, <4>1 DEF IInv, TypeOK, UserRow, ActiveAdmins
      <4> QED BY <4>1, <4>2, <4>3 DEF SomeActiveAdmin, ActiveAdmins
    <3> QED BY <3>2, <3>3
  <2> QED BY <1>6, <2>1, <2>2 DEF UpdateUser, Denied
<1>7. ASSUME NEW r \in Request, Handle(r)
      PROVE  SomeActiveAdmin'
  <2>1. \/ users' = users \/ LoginCommit(r)
        \/ \E p \in Password : ChangePassword(r, p)
        \/ \E role \in Role, p \in Password : CreateUser(r, role, p)
        \/ \E role \in Role, disabled \in BOOLEAN : UpdateUser(r, role, disabled)
        \/ \E p \in Password : ResetPassword(r, p)
        BY <1>7 DEF Handle, database, Login, Authenticate, TakeSlot, Verified, Hashed,
                    Refused, Logout, ChangeRead, RevokeSession, Denied
  <2> QED BY <2>1, <1>1, <1>2, <1>3, <1>4, <1>5, <1>6
<1>8. CASE \/ \E k \in Token : RefreshRevokes(k)
           \/ \E k, j \in Token : RefreshRotates(k, j)
           \/ Restart
           \/ UNCHANGED vars
      BY <1>1, <1>8 DEF RefreshRevokes, RefreshRotates, Restart, database, vars
<1> QED BY <1>7, <1>8 DEF Next

\* However administrators demote and disable each other, one of them can sign in.
THEOREM AdminsRemain == Spec => []SomeActiveAdmin
<1>1. Init => SomeActiveAdmin
      BY InstalledAccounts DEF Init, SomeActiveAdmin, ActiveAdmins
<1>2. IInv /\ SomeActiveAdmin /\ [Next]_vars => SomeActiveAdmin'
      BY AdminStep
<1> QED BY <1>1, <1>2, SessionInvariant, PTL DEF Spec

-----------------------------------------------------------------------------
(* The slots of the password semaphore *)

Busy == {r \in Request : req[r].pc \in {"verifying", "hashing"}}

\* A step of a request that is not inside a slot and does not enter one, or of none.
LEMMA SlotsSame ==
    ASSUME IsFiniteSet(Busy), SlotsBalanced, Busy' = Busy, UNCHANGED slots
    PROVE  IsFiniteSet(Busy') /\ SlotsBalanced'
BY DEF SlotsBalanced, Busy

LEMMA SlotsStep ==
    ASSUME TypeOK, IsFiniteSet(Busy), SlotsBalanced, [Next]_vars
    PROVE  IsFiniteSet(Busy') /\ SlotsBalanced'
<1>0. Cardinality(Busy) \in Nat /\ slots \in Nat /\ PasswordSlots \in Nat
      BY FS_CardinalityType, SessionLimits DEF TypeOK
<1>1. ASSUME NEW r \in Request, r \notin Busy, slots' = slots - 1, slots > 0,
             \E c \in {"verifying", "hashing"} : req' = [req EXCEPT ![r].pc = c]
      PROVE  IsFiniteSet(Busy') /\ SlotsBalanced'
  <2>1. Busy' = Busy \cup {r}
        BY <1>1 DEF Busy, TypeOK, RequestState
  <2>2. IsFiniteSet(Busy \cup {r}) /\ Cardinality(Busy \cup {r}) = Cardinality(Busy) + 1
        BY <1>1, FS_AddElement
  <2>3. slots' + Cardinality(Busy \cup {r}) = PasswordSlots
        BY <1>0, <1>1, <2>2 DEF SlotsBalanced, Busy
  <2> QED BY <2>1, <2>2, <2>3 DEF SlotsBalanced, Busy
<1>2. ASSUME NEW r \in Request, r \in Busy, slots' = slots + 1,
             \/ End(r)
             \/ \E c \in {"hash", "commit"} : req' = [req EXCEPT ![r].pc = c]
      PROVE  IsFiniteSet(Busy') /\ SlotsBalanced'
  <2>1. Busy' = Busy \ {r}
        BY <1>2 DEF Busy, TypeOK, RequestState, End, IdleRequest
  <2>2. IsFiniteSet(Busy \ {r}) /\ Cardinality(Busy \ {r}) = Cardinality(Busy) - 1
        BY <1>2, FS_RemoveElement
  <2>3. slots' + Cardinality(Busy \ {r}) = PasswordSlots
        BY <1>0, <1>2, <2>2 DEF SlotsBalanced, Busy
  <2> QED BY <2>1, <2>2, <2>3 DEF SlotsBalanced, Busy
<1>3. ASSUME NEW r \in Request, r \notin Busy, UNCHANGED slots,
             \/ End(r)
             \/ \E q : req' = [req EXCEPT ![r] = q] /\ q.pc \notin {"verifying", "hashing"}
      PROVE  IsFiniteSet(Busy') /\ SlotsBalanced'
  <2>1. Busy' = Busy
        BY <1>3 DEF Busy, TypeOK, End, IdleRequest
  <2> QED BY <1>3, <2>1, SlotsSame
<1>4. ASSUME NEW r \in Request, TakeSlot(r)
      PROVE  IsFiniteSet(Busy') /\ SlotsBalanced'
  <2>1. r \notin Busy
        BY <1>4 DEF TakeSlot, Busy
  <2> QED BY <1>1, <1>3, <1>4, <2>1 DEF TakeSlot, TypeOK
<1>5. ASSUME NEW r \in Request, Verified(r) \/ Hashed(r)
      PROVE  IsFiniteSet(Busy') /\ SlotsBalanced'
  <2>1. r \in Busy
        BY <1>5 DEF Verified, Hashed, Busy
  <2> QED BY <1>2, <1>5, <2>1 DEF Verified, Hashed, TypeOK
<1>6. ASSUME NEW r \in Request, NEW u \in User, NEW p \in Password, Login(r, u, p)
      PROVE  IsFiniteSet(Busy') /\ SlotsBalanced'
  <2> DEFINE q == [IdleRequest EXCEPT !.pc = "verify", !.op = "login", !.user = u, !.pw = p,
                     !.seen = IF users[u].exists /\ ~users[u].disabled
                              THEN users[u].hash ELSE None]
  <2>1. q.pc = "verify"
        BY DEF IdleRequest
  <2>2. r \notin Busy /\ req' = [req EXCEPT ![r] = q] /\ UNCHANGED slots
        BY <1>6 DEF Login, Busy
  <2> HIDE DEF q
  <2> QED BY <1>3, <2>1, <2>2
<1>7. ASSUME NEW r \in Request, NEW k \in Token, NEW op \in Ops, NEW u \in User,
             Authenticate(r, k, op, u)
      PROVE  IsFiniteSet(Busy') /\ SlotsBalanced'
  <2>1. r \notin Busy /\ UNCHANGED slots
        BY <1>7 DEF Authenticate, Busy
  <2>2. req'[r].pc \in {"read", "hash", "commit"} /\ req' = [req EXCEPT ![r] = req'[r]]
        BY <1>7 DEF Authenticate, TypeOK, IdleRequest
  <2>3. Busy' = Busy
        BY <2>1, <2>2 DEF Busy, TypeOK
  <2> QED BY <2>1, <2>3, SlotsSame
<1>8. ASSUME NEW r \in Request, NEW p \in Password, ChangeRead(r, p)
      PROVE  IsFiniteSet(Busy') /\ SlotsBalanced'
  <2>1. r \notin Busy /\ UNCHANGED slots
        BY <1>8 DEF ChangeRead, Busy
  <2>2. Busy' = Busy
        BY <1>8 DEF ChangeRead, Busy, TypeOK, RequestState
  <2> QED BY <2>1, <2>2, SlotsSame
<1>9. ASSUME NEW r \in Request, req[r].pc = "commit", End(r), UNCHANGED slots
      PROVE  IsFiniteSet(Busy') /\ SlotsBalanced'
  <2>1. r \notin Busy
        BY <1>9 DEF Busy
  <2> QED BY <1>3, <1>9, <2>1
<1>10. ASSUME NEW r \in Request, Handle(r)
       PROVE  IsFiniteSet(Busy') /\ SlotsBalanced'
       BY <1>4, <1>5, <1>6, <1>7, <1>8, <1>9, <1>10
          DEF Handle, LoginCommit, Refused, Logout, ChangePassword, CreateUser, UpdateUser,
              ResetPassword, RevokeSession, Mutation, Authorised
<1>11. CASE Restart
  <2>1. Busy' = {} /\ slots' = PasswordSlots
        BY <1>11 DEF Restart, Busy, IdleRequest
  <2>2. Cardinality({}) = 0 /\ IsFiniteSet({})
        BY FS_EmptySet
  <2>3. slots' + Cardinality({}) = PasswordSlots
        BY <1>0, <2>1, <2>2
  <2> QED BY <2>1, <2>2, <2>3 DEF SlotsBalanced, Busy
<1>12. CASE \/ \E k \in Token : RefreshRevokes(k)
            \/ \E k, j \in Token : RefreshRotates(k, j)
            \/ UNCHANGED vars
  <2>1. UNCHANGED <<slots, req>>
        BY <1>12 DEF RefreshRevokes, RefreshRotates, vars
  <2>2. Busy' = Busy
        BY <2>1 DEF Busy
  <2> QED BY <2>1, <2>2, SlotsSame
<1> QED BY <1>10, <1>11, <1>12 DEF Next

\* However requests fail and the process restarts, no permit of the password semaphore
\* is lost or given twice.
THEOREM SlotsNeverLeak == Spec => []SlotsBalanced
<1>1. Init => IsFiniteSet(Busy) /\ SlotsBalanced
  <2> SUFFICES ASSUME Init PROVE IsFiniteSet(Busy) /\ SlotsBalanced
      OBVIOUS
  <2>1. Busy = {}
        BY DEF Init, Busy, IdleRequest
  <2>2. Cardinality({}) = 0 /\ IsFiniteSet({})
        BY FS_EmptySet
  <2>3. slots + Cardinality({}) = PasswordSlots
        BY <2>2, SessionLimits DEF Init
  <2> QED BY <2>1, <2>2, <2>3 DEF SlotsBalanced, Busy
<1>2. TypeOK /\ (IsFiniteSet(Busy) /\ SlotsBalanced) /\ [Next]_vars
        => (IsFiniteSet(Busy) /\ SlotsBalanced)'
      BY SlotsStep
<1> QED BY <1>1, <1>2, TypeCorrect, PTL DEF Spec

-----------------------------------------------------------------------------
(* The rows of sessions: chains of pairs, and how many are kept *)

\* What a step may do to the sessions.
LEMMA TableSteps ==
    ASSUME IInv, [Next]_vars
    PROVE  \/ \E fs \in SUBSET Family : families' = Revoke(fs) /\ UNCHANGED tokens
           \/ \E fs \in SUBSET Family, u \in User, rev \in Nat, p \in Password :
                NewFamily(Revoke(fs), u, rev, p)
           \/ \E k, j \in Token : RefreshRotates(k, j)
<1> DEFINE Revoked == \E fs \in SUBSET Family : families' = Revoke(fs) /\ UNCHANGED tokens
<1> DEFINE Opened == \E fs \in SUBSET Family, u \in User, rev \in Nat, p \in Password :
                        NewFamily(Revoke(fs), u, rev, p)
<1>1. families = Revoke({})
      BY DEF IInv, TypeOK, Revoke
<1>2. {} \in SUBSET Family /\ \A u : FamiliesOf(u) \in SUBSET Family
      BY DEF FamiliesOf
<1>3. ASSUME UNCHANGED <<families, tokens>>
      PROVE  Revoked
  <2>1. families' = Revoke({}) /\ UNCHANGED tokens
        BY <1>1, <1>3
  <2> QED BY <1>2, <2>1
<1>4. ASSUME NEW r \in Request, LoginCommit(r)
      PROVE  Opened
  <2>1. req[r].user \in User /\ req[r].pw \in Password /\ users[req[r].user].revision \in Nat
        BY <1>4 DEF LoginCommit, IInv, RequestFacts, TypeOK, UserRow
  <2>2. NewFamily(Revoke({}), req[r].user, users[req[r].user].revision, req[r].pw)
        BY <1>1, <1>4 DEF LoginCommit
  <2> QED BY <1>2, <2>1, <2>2
<1>5. ASSUME NEW r \in Request, NEW p \in Password, ChangePassword(r, p)
      PROVE  Opened
  <2> DEFINE u == req[r].actor.user
  <2>1. req[r].actor \in Principal
        BY <1>5 DEF ChangePassword, Authorised, IInv, RequestFacts
  <2>2. u \in User /\ users[u].revision + 1 \in Nat
        BY <2>1 DEF Principal, IInv, TypeOK, UserRow
  <2>3. NewFamily(Revoke(FamiliesOf(u)), u, users[u].revision + 1, p)
        BY <1>5 DEF ChangePassword
  <2> QED BY <1>2, <2>2, <2>3
<1>6. ASSUME NEW r \in Request, NEW role \in Role, NEW disabled \in BOOLEAN,
             UpdateUser(r, role, disabled)
      PROVE  Revoked
      BY <1>2, <1>3, <1>6 DEF UpdateUser, Denied, RevokeUser
<1>7. ASSUME NEW r \in Request, NEW p \in Password, ResetPassword(r, p)
      PROVE  Revoked
      BY <1>2, <1>3, <1>7 DEF ResetPassword, Denied, RevokeUser
<1>8. ASSUME NEW r \in Request, NEW f \in Family, RevokeSession(r, f)
      PROVE  Revoked
  <2>1. {f} \in SUBSET Family
        OBVIOUS
  <2> QED BY <1>3, <1>8, <2>1 DEF RevokeSession, Denied
<1>9. ASSUME NEW r \in Request, Logout(r)
      PROVE  Revoked
  <2>1. req[r].actor \in Principal
        BY <1>9 DEF Logout, Authorised, IInv, RequestFacts
  <2>2. {req[r].actor.family} \in SUBSET Family
        BY <2>1 DEF Principal
  <2> QED BY <1>9, <2>2 DEF Logout
<1>10. ASSUME NEW k \in Token, RefreshRevokes(k)
       PROVE  Revoked
  <2>1. {tokens[k].family} \in SUBSET Family
        BY <1>10 DEF RefreshRevokes, Refreshable, IInv, TokenOwners
  <2> QED BY <1>10, <2>1 DEF RefreshRevokes
<1>11. ASSUME NEW r \in Request, Handle(r)
       PROVE  Revoked \/ Opened
  <2>1. \/ UNCHANGED <<families, tokens>>
        \/ LoginCommit(r) \/ Logout(r)
        \/ \E p \in Password : ChangePassword(r, p) \/ ResetPassword(r, p)
        \/ \E role \in Role, disabled \in BOOLEAN : UpdateUser(r, role, disabled)
        \/ \E f \in Family : RevokeSession(r, f)
        BY <1>11 DEF Handle, database, Login, Authenticate, TakeSlot, Verified, Hashed,
                     Refused, ChangeRead, CreateUser, Denied
  <2> QED BY <1>3, <1>4, <1>5, <1>6, <1>7, <1>8, <1>9, <2>1
<1>12. CASE Restart \/ UNCHANGED vars
       BY <1>3, <1>12 DEF Restart, database, vars
<1> QED BY <1>10, <1>11, <1>12 DEF Next

\* The rows that are kept, and that they are finitely many.
Rows ==
    /\ OneLiveToken
    /\ \A u \in User : IsFiniteSet(FamiliesOf(u)) /\ Cardinality(FamiliesOf(u)) <= MaxFamilies
    /\ \A f \in Family : IsFiniteSet(TokensOf(f)) /\ Cardinality(TokensOf(f)) <= MaxTokens

\* Revocation keeps every row.
LEMMA RevokeRows ==
    ASSUME TypeOK, Rows, NEW fs, families' = Revoke(fs), UNCHANGED tokens
    PROVE  Rows'
<1>1. \A f \in Family : (FamilyExists(f)' <=> FamilyExists(f)) /\ families'[f].user = families[f].user
      BY DEF Revoke, FamilyExists, TypeOK, FamilyRow
<1>2. \A u : FamiliesOf(u)' = FamiliesOf(u)
      BY <1>1 DEF FamiliesOf
<1>3. \A f : TokensOf(f)' = TokensOf(f)
      BY DEF TokensOf, TokenExists
<1>4. OneLiveToken'
      BY <1>1, <1>3 DEF Rows, OneLiveToken, TokenExists
<1> QED BY <1>2, <1>3, <1>4 DEF Rows

\* A rotation adds a pair to a family that has room, and consumes the live one.
LEMMA RotateRows ==
    ASSUME TypeOK, Rows, NEW k \in Token, NEW j \in Token, RefreshRotates(k, j)
    PROVE  Rows'
<1> PICK f \in Family : tokens[k].family = f
    BY DEF RefreshRotates, Rotatable, Refreshable, TokenExists, Rows, OneLiveToken
<1>1. tokens[j].status = "unused"
      BY DEF RefreshRotates, FreshToken
<1>2. /\ tokens[k].status = "live" /\ FamilyExists(f) /\ j # k
      /\ Cardinality(TokensOf(f)) < MaxTokens
      BY <1>1 DEF RefreshRotates, Rotatable, Refreshable, TokenExists, Rows, OneLiveToken
<1>3. /\ tokens'[k].status = "rotated" /\ tokens'[k].family = f
      /\ tokens'[j].status = "live" /\ tokens'[j].family = f
      /\ \A i \in Token \ {j, k} : tokens'[i] = tokens[i]
      BY <1>2 DEF RefreshRotates, TypeOK, TokenRow
<1>4. \A g : g # f => TokensOf(g)' = TokensOf(g)
      BY <1>1, <1>3 DEF TokensOf, TokenExists
<1>5. TokensOf(f)' = TokensOf(f) \cup {j} /\ j \notin TokensOf(f)
      BY <1>1, <1>2, <1>3 DEF TokensOf, TokenExists
<1>6. UNCHANGED families
      BY DEF RefreshRotates
<1>7. \A u : FamiliesOf(u)' = FamiliesOf(u)
      BY <1>6 DEF FamiliesOf, FamilyExists
<1>8. IsFiniteSet(TokensOf(f)') /\ Cardinality(TokensOf(f)') <= MaxTokens
  <2>1. IsFiniteSet(TokensOf(f))
        BY <1>2 DEF Rows
  <2>2. Cardinality(TokensOf(f)) \in Nat
        BY <2>1, FS_CardinalityType
  <2>3. /\ IsFiniteSet(TokensOf(f) \cup {j})
        /\ Cardinality(TokensOf(f) \cup {j}) = Cardinality(TokensOf(f)) + 1
        BY <1>5, <2>1, FS_AddElement
  <2> QED BY <1>2, <1>5, <2>2, <2>3, SessionLimits
<1>9. ASSUME NEW g \in Family, FamilyExists(g)'
      PROVE  \E x \in Token : {i \in TokensOf(g)' : tokens'[i].status = "live"} = {x}
  <2>1. PICK x \in Token : {i \in TokensOf(g) : tokens[i].status = "live"} = {x}
        BY <1>6, <1>9 DEF Rows, OneLiveToken, FamilyExists
  <2>2. CASE g # f
    <3>1. \A i \in TokensOf(g) : tokens'[i] = tokens[i]
          BY <1>1, <1>3, <2>2 DEF TokensOf, TokenExists
    <3> QED BY <1>4, <2>1, <2>2, <3>1
  <2>3. CASE g = f
    <3>1. k \in TokensOf(f)
          BY <1>2 DEF TokensOf, TokenExists
    <3>2. x = k
          BY <1>2, <2>1, <2>3, <3>1
    <3>3. {i \in TokensOf(g)' : tokens'[i].status = "live"} = {j}
      <4>1. \A i \in TokensOf(f) : tokens'[i].status # "live"
            BY <1>1, <1>3, <2>1, <2>3, <3>2 DEF TokensOf, TokenExists
      <4> QED BY <1>3, <1>5, <2>3, <4>1
    <3> QED BY <3>3
  <2> QED BY <2>2, <2>3
<1>10. ASSUME NEW i \in Token, TokenExists(i)'
       PROVE  tokens'[i].family \in Family /\ FamilyExists(tokens[i].family)'
       BY <1>2, <1>3, <1>6, <1>10 DEF Rows, OneLiveToken, TokenExists, FamilyExists
<1>11. OneLiveToken'
       BY <1>9, <1>10 DEF OneLiveToken
<1>12. \A g \in Family : IsFiniteSet(TokensOf(g)') /\ Cardinality(TokensOf(g)') <= MaxTokens
       BY <1>4, <1>8 DEF Rows
<1> QED BY <1>7, <1>11, <1>12 DEF Rows

\* A family is opened with one pair; what was evicted for it takes its pairs along.
LEMMA OpenRows ==
    ASSUME TypeOK, Rows, NEW fs, NEW u \in User, NEW rev, NEW p,
           NewFamily(Revoke(fs), u, rev, p)
    PROVE  Rows'
<1> DEFINE base == Revoke(fs)
<1>1. PICK f \in Family, k \in Token, gone \in SUBSET Family :
        /\ FreshFamily(f) /\ FreshToken(k) /\ Evicted(u, gone)
        /\ families' = WithFamily(base, gone, f, u, rev, p)
        /\ tokens' = WithToken(gone, k, f)
      BY DEF NewFamily
<1>2. families[f].status = "unused" /\ tokens[k].status = "unused"
      BY <1>1 DEF FreshFamily, FreshToken
<1>3. gone \subseteq FamiliesOf(u) /\ f \notin gone /\ f \notin FamiliesOf(u) /\ ~FamilyExists(f)
      BY <1>1, <1>2 DEF Evicted, FamiliesOf, FamilyExists
<1>4. \A g \in Family :
        /\ FamilyExists(g)' <=> g = f \/ (FamilyExists(g) /\ g \notin gone)
        /\ g = f => families'[g].user = u
        /\ FamilyExists(g)' /\ g # f => families'[g].user = families[g].user
      BY <1>1, <1>3 DEF WithFamily, Revoke, FamilyExists, TypeOK, FamilyRow, NoFamily
<1>5. \A j \in Token :
        /\ TokenExists(j)' <=> j = k \/ (TokenExists(j) /\ tokens[j].family \notin gone)
        /\ j = k => tokens'[j].status = "live" /\ tokens'[j].family = f
        /\ TokenExists(j)' /\ j # k => tokens'[j] = tokens[j]
      BY <1>1, <1>2 DEF WithToken, TokenExists, NoToken
<1>6. \A g \in Family : TokensOf(g)' = IF g = f THEN {k} ELSE IF g \in gone THEN {} ELSE TokensOf(g)
  <2> SUFFICES ASSUME NEW g \in Family
               PROVE  TokensOf(g)' = IF g = f THEN {k} ELSE IF g \in gone THEN {} ELSE TokensOf(g)
      OBVIOUS
  <2>1. TokensOf(f) = {}
        BY <1>3 DEF Rows, OneLiveToken, TokensOf
  <2>2. TokensOf(g)' = {j \in Token : TokenExists(j)' /\ tokens'[j].family = g}
        BY DEF TokensOf
  <2>3. \A j \in Token : j \in TokensOf(g)' <=>
           (j = k /\ g = f) \/ (j # k /\ j \in TokensOf(g) /\ g \notin gone)
        BY <1>5, <2>2 DEF TokensOf
  <2>4. k \notin TokensOf(g)
        BY <1>2 DEF TokensOf, TokenExists
  <2>5. TokensOf(g)' \subseteq Token /\ TokensOf(g) \subseteq Token
        BY DEF TokensOf
  <2> QED BY <1>3, <2>1, <2>3, <2>4, <2>5
<1>7. OneLiveToken'
  <2>1. ASSUME NEW g \in Family, FamilyExists(g)'
        PROVE  \E x \in Token : {i \in TokensOf(g)' : tokens'[i].status = "live"} = {x}
    <3>1. CASE g = f
      <4>1. {i \in TokensOf(g)' : tokens'[i].status = "live"} = {k}
            BY <1>5, <1>6, <3>1
      <4> QED BY <4>1
    <3>2. CASE g # f
      <4>1. FamilyExists(g) /\ g \notin gone
            BY <1>4, <2>1, <3>2
      <4>2. PICK x \in Token : {i \in TokensOf(g) : tokens[i].status = "live"} = {x}
            BY <4>1 DEF Rows, OneLiveToken
      <4>3. TokensOf(g)' = TokensOf(g)
            BY <1>6, <3>2, <4>1
      <4>4. \A i \in TokensOf(g) : tokens'[i] = tokens[i]
        <5>1. \A i \in TokensOf(g) : i \in Token /\ TokenExists(i) /\ tokens[i].family = g /\ i # k
              BY <1>2 DEF TokensOf, TokenExists
        <5> QED BY <1>5, <4>1, <5>1
      <4>5. {i \in TokensOf(g)' : tokens'[i].status = "live"} = {x}
            BY <4>2, <4>3, <4>4
      <4> QED BY <4>5
    <3> QED BY <3>1, <3>2
  <2>2. ASSUME NEW i \in Token, TokenExists(i)'
        PROVE  tokens'[i].family \in Family /\ FamilyExists(tokens[i].family)'
    <3>1. CASE i = k
          BY <1>4, <1>5, <3>1
    <3>2. CASE i # k
      <4>1. /\ tokens'[i] = tokens[i] /\ TokenExists(i) /\ tokens[i].family \notin gone
            BY <1>5, <2>2, <3>2
      <4>2. tokens[i].family \in Family /\ FamilyExists(tokens[i].family)
            BY <4>1 DEF Rows, OneLiveToken
      <4>3. PICK g \in Family : tokens[i].family = g
            BY <4>2
      <4>4. FamilyExists(g)'
            BY <1>4, <4>1, <4>2, <4>3
      <4> QED BY <4>1, <4>3, <4>4 DEF FamilyExists
    <3> QED BY <3>1, <3>2
  <2> QED BY <2>1, <2>2 DEF OneLiveToken
<1>8. ASSUME NEW g \in Family
      PROVE  IsFiniteSet(TokensOf(g)') /\ Cardinality(TokensOf(g)') <= MaxTokens
  <2>1. /\ IsFiniteSet({}) /\ Cardinality({}) = 0
        /\ IsFiniteSet({k}) /\ Cardinality({k}) = 1
        BY FS_EmptySet, FS_Singleton
  <2>2. IsFiniteSet(TokensOf(g)) /\ Cardinality(TokensOf(g)) <= MaxTokens
        BY DEF Rows
  <2> QED BY <1>6, <2>1, <2>2, SessionLimits
<1>9. \A v : v # u => FamiliesOf(v)' = FamiliesOf(v)
  <2> SUFFICES ASSUME NEW v, v # u PROVE FamiliesOf(v)' = FamiliesOf(v)
      OBVIOUS
  <2>1. \A g \in Family : g \in FamiliesOf(v)' <=> g \in FamiliesOf(v)
        BY <1>3, <1>4 DEF FamiliesOf
  <2>2. FamiliesOf(v)' \subseteq Family /\ FamiliesOf(v) \subseteq Family
        BY DEF FamiliesOf
  <2> QED BY <2>1, <2>2
<1>10. FamiliesOf(u)' = (FamiliesOf(u) \ gone) \cup {f}
  <2>1. \A g \in Family : g \in FamiliesOf(u)' <=> g = f \/ (g \in FamiliesOf(u) /\ g \notin gone)
        BY <1>3, <1>4 DEF FamiliesOf
  <2>2. FamiliesOf(u)' \subseteq Family /\ FamiliesOf(u) \subseteq Family
        BY DEF FamiliesOf
  <2> QED BY <2>1, <2>2
<1>11. IsFiniteSet(FamiliesOf(u)') /\ Cardinality(FamiliesOf(u)') <= MaxFamilies
  <2> DEFINE F == FamiliesOf(u)
  <2>1. IsFiniteSet(F)
        BY DEF Rows
  <2> DEFINE n == Cardinality(F)
  <2>2. Cardinality(gone) = IF n < MaxFamilies THEN 0 ELSE n - (MaxFamilies - 1)
        BY <1>1 DEF Evicted
  <2>3. f \notin F /\ gone \subseteq F
        BY <1>3
  <2>4. FamiliesOf(u)' = (F \ gone) \cup {f}
        BY <1>10
  <2> HIDE DEF F
  <2>5. n \in Nat
        BY <2>1, FS_CardinalityType
  <2>6. F \cap gone = gone
        BY <2>3
  <2>7. IsFiniteSet(F \ gone) /\ Cardinality(F \ gone) = n - Cardinality(gone)
        BY <2>1, <2>6, FS_Difference
  <2>8. /\ IsFiniteSet((F \ gone) \cup {f})
        /\ Cardinality((F \ gone) \cup {f}) = Cardinality(F \ gone) + 1
        BY <2>3, <2>7, FS_AddElement
  <2>9. Cardinality(F \ gone) + 1 <= MaxFamilies
        BY <2>2, <2>5, <2>7, SessionLimits
  <2> QED BY <2>4, <2>8, <2>9
<1>12. ASSUME NEW v \in User
       PROVE  IsFiniteSet(FamiliesOf(v)') /\ Cardinality(FamiliesOf(v)') <= MaxFamilies
  <2>1. CASE v = u
        BY <1>11, <2>1
  <2>2. CASE v # u
        BY <1>9, <2>2 DEF Rows
  <2> QED BY <2>1, <2>2
<1> QED BY <1>7, <1>8, <1>12 DEF Rows

\* Each step keeps the rows as they should be.
LEMMA RowsStep ==
    ASSUME IInv, Rows, [Next]_vars
    PROVE  Rows'
<1>1. TypeOK
      BY DEF IInv
<1> QED BY <1>1, TableSteps, RevokeRows, OpenRows, RotateRows

\* In the beginning there are none.
LEMMA RowsInit == Init => Rows
<1> SUFFICES ASSUME Init PROVE Rows
    OBVIOUS
<1>1. \A f \in Family : ~FamilyExists(f)
      BY DEF Init, FamilyExists, NoFamily
<1>2. \A k \in Token : ~TokenExists(k)
      BY DEF Init, TokenExists, NoToken
<1>3. (\A u : FamiliesOf(u) = {}) /\ (\A f : TokensOf(f) = {})
      BY <1>1, <1>2 DEF FamiliesOf, TokensOf
<1>4. OneLiveToken
      BY <1>1, <1>2 DEF OneLiveToken
<1>5. IsFiniteSet({}) /\ Cardinality({}) = 0
      BY FS_EmptySet
<1> QED BY <1>3, <1>4, <1>5, SessionLimits DEF Rows

\* The rows of sessions stay chains within their limits.
THEOREM RowsKept == Spec => []Rows
<1>1. IInv /\ Rows /\ [Next]_vars => Rows'
      BY RowsStep
<1> QED BY <1>1, RowsInit, SessionInvariant, PTL DEF Spec

\* Every family has exactly one refresh token that is not consumed, and eviction takes
\* the pairs of a family along with it.
THEOREM OneChainPerFamily == Spec => []OneLiveToken
<1>1. Rows => OneLiveToken
      BY DEF Rows
<1> QED BY <1>1, RowsKept, PTL

-----------------------------------------------------------------------------
(* The log and the number of accounts *)

\* What _mutation appends is the last event, and the log keeps within its limit.
LEMMA AuditFacts ==
    ASSUME TypeOK, NEW r \in Request, NEW status \in {"success", "denied"},
           NEW target \in User \cup Family, req[r].op \in AdminOp,
           req[r].actor \in Principal, Audit(r, status, target)
    PROVE  /\ Len(audit') \in 1..MaxAuditEvents
           /\ audit'[Len(audit')] = [action |-> req[r].op, status |-> status,
                                     actor |-> req[r].actor.user, target |-> target]
<1> DEFINE event == [action |-> req[r].op, status |-> status,
                     actor |-> req[r].actor.user, target |-> target]
           log == Append(audit, event)
           m == Len(log) - MaxAuditEvents + 1
<1>1. event \in AuditEvent
      BY DEF AuditEvent, Principal
<1>2. MaxAuditEvents \in Nat \ {0} /\ audit \in Seq(AuditEvent)
      BY SessionLimits DEF TypeOK
<1>3. audit' = IF Len(log) > MaxAuditEvents THEN SubSeq(log, m, Len(log)) ELSE log
      BY DEF Audit
<1> HIDE DEF event
<1>4. log \in Seq(AuditEvent) /\ Len(log) = Len(audit) + 1 /\ log[Len(log)] = event
      BY <1>1, <1>2
<1>5. Len(log) \in Nat \ {0}
      BY <1>2, <1>4
<1> HIDE DEF log
<1>6. CASE Len(log) > MaxAuditEvents
  <2>1. m \in Int /\ m >= 1 /\ m <= Len(log) /\ Len(log) - m + 1 = MaxAuditEvents
        BY <1>2, <1>5, <1>6
  <2>2. \A i \in m..Len(log) : log[i] \in AuditEvent
        BY <1>4, <1>5, <2>1
  <2> HIDE DEF m
  <2>3. /\ Len(SubSeq(log, m, Len(log))) = Len(log) - m + 1
        /\ \A i \in 1..(Len(log) - m + 1) : SubSeq(log, m, Len(log))[i] = log[m + i - 1]
        BY <1>5, <2>1, <2>2, SubSeqProperties
  <2>4. m + MaxAuditEvents - 1 = Len(log) /\ MaxAuditEvents \in 1..(Len(log) - m + 1)
        BY <1>2, <1>5, <2>1
  <2>5. Len(audit') = MaxAuditEvents /\ audit'[MaxAuditEvents] = log[Len(log)]
        BY <1>3, <1>6, <2>1, <2>3, <2>4
  <2> QED BY <1>2, <1>4, <2>5 DEF event
<1>7. CASE ~(Len(log) > MaxAuditEvents)
      BY <1>2, <1>3, <1>4, <1>5, <1>7 DEF event
<1> QED BY <1>6, <1>7

\* Which accounts there are changes only when one is created while there is room.
LEMMA PresentStep ==
    ASSUME IInv, [Next]_vars
    PROVE  \/ Present' = Present
           \/ \E u \in User : Present' = Present \cup {u} /\ Cardinality(Present) < MaxUsers
<1>1. CASE \A v \in User : users'[v].exists = users[v].exists
      BY <1>1 DEF Present
<1>2. ASSUME NEW r \in Request, LoginCommit(r)
      PROVE  Present' = Present
  <2>1. \A v \in User : users'[v].exists = users[v].exists
        BY <1>2 DEF LoginCommit, IInv, TypeOK, UserRow
  <2> QED BY <2>1 DEF Present
<1>3. ASSUME NEW r \in Request, NEW p \in Password, ChangePassword(r, p)
      PROVE  Present' = Present
  <2>1. \A v \in User : users'[v].exists = users[v].exists
        BY <1>3 DEF ChangePassword, IInv, TypeOK, UserRow
  <2> QED BY <2>1 DEF Present
<1>4. ASSUME NEW r \in Request, NEW p \in Password, ResetPassword(r, p)
      PROVE  Present' = Present
  <2>1. \A v \in User : users'[v].exists = users[v].exists
        BY <1>4 DEF ResetPassword, Denied, IInv, TypeOK, UserRow
  <2> QED BY <2>1 DEF Present
<1>5. ASSUME NEW r \in Request, NEW role \in Role, NEW disabled \in BOOLEAN,
             UpdateUser(r, role, disabled)
      PROVE  Present' = Present
  <2>1. \A v \in User : users'[v].exists = users[v].exists
        BY <1>5 DEF UpdateUser, Denied, IInv, TypeOK, UserRow
  <2> QED BY <2>1 DEF Present
<1>6. ASSUME NEW r \in Request, NEW role \in Role, NEW p \in Password, CreateUser(r, role, p)
      PROVE  \/ Present' = Present
             \/ \E u \in User : Present' = Present \cup {u} /\ Cardinality(Present) < MaxUsers
  <2>1. req[r].user \in User
        BY <1>6 DEF CreateUser, Mutation, Authorised, IInv, RequestFacts
  <2>2. CASE Denied(r, req[r].user)
        BY <2>2 DEF Denied, Present
  <2>3. CASE ~Denied(r, req[r].user)
    <3>1. /\ Cardinality(Present) < MaxUsers /\ users'[req[r].user].exists
          /\ \A v \in User \ {req[r].user} : users'[v] = users[v]
          BY <1>6, <2>1, <2>3 DEF CreateUser, IInv, TypeOK
    <3>2. Present' = Present \cup {req[r].user}
          BY <2>1, <3>1 DEF Present
    <3> QED BY <2>1, <3>1, <3>2
  <2> QED BY <2>2, <2>3
<1>7. ASSUME users' = users PROVE Present' = Present
      BY <1>7 DEF Present
<1>8. ASSUME NEW r \in Request, Handle(r)
      PROVE  \/ Present' = Present
             \/ \E u \in User : Present' = Present \cup {u} /\ Cardinality(Present) < MaxUsers
  <2>1. \/ users' = users \/ LoginCommit(r)
        \/ \E p \in Password : ChangePassword(r, p)
        \/ \E role \in Role, p \in Password : CreateUser(r, role, p)
        \/ \E role \in Role, disabled \in BOOLEAN : UpdateUser(r, role, disabled)
        \/ \E p \in Password : ResetPassword(r, p)
        BY <1>8 DEF Handle, database, Login, Authenticate, TakeSlot, Verified, Hashed,
                    Refused, Logout, ChangeRead, RevokeSession, Denied
  <2> QED BY <2>1, <1>2, <1>3, <1>4, <1>5, <1>6, <1>7
<1>9. CASE \/ \E k \in Token : RefreshRevokes(k)
           \/ \E k, j \in Token : RefreshRotates(k, j)
           \/ Restart
           \/ UNCHANGED vars
      BY <1>7, <1>9 DEF RefreshRevokes, RefreshRotates, Restart, database, vars
<1> QED BY <1>8, <1>9 DEF Next

\* The log changes only by an event of an administrator's request.
LEMMA LogStep ==
    ASSUME IInv, [Next]_vars
    PROVE  audit' = audit \/ Len(audit') \in 1..MaxAuditEvents
<1>1. ASSUME NEW r \in Request, NEW op \in AdminOp, Mutation(r, op),
             NEW status \in {"success", "denied"}, NEW target \in User \cup Family,
             Audit(r, status, target)
      PROVE  Len(audit') \in 1..MaxAuditEvents
  <2>1. req[r].op \in AdminOp /\ req[r].actor \in Principal
        BY <1>1 DEF Mutation, Authorised, IInv, RequestFacts
  <2> QED BY <1>1, <2>1, AuditFacts DEF IInv
<1>2. ASSUME NEW r \in Request, req[r].op \in {"create", "update", "reset"}
      PROVE  req[r].user \in User
      BY <1>2 DEF IInv, RequestFacts
<1>3. ASSUME NEW r \in Request,
             \/ \E role \in Role, p \in Password : CreateUser(r, role, p)
             \/ \E role \in Role, disabled \in BOOLEAN : UpdateUser(r, role, disabled)
             \/ \E p \in Password : ResetPassword(r, p)
      PROVE  Len(audit') \in 1..MaxAuditEvents
  <2>1. \E op \in {"create", "update", "reset"} : Mutation(r, op)
        BY <1>3 DEF CreateUser, UpdateUser, ResetPassword
  <2>2. req[r].user \in User \cup Family
        BY <1>2, <2>1 DEF Mutation, Authorised
  <2>3. \E status \in {"success", "denied"} : Audit(r, status, req[r].user)
        BY <1>3 DEF CreateUser, UpdateUser, ResetPassword, Denied
  <2> QED BY <1>1, <2>1, <2>2, <2>3 DEF AdminOp
<1>4. ASSUME NEW r \in Request, NEW f \in Family, RevokeSession(r, f)
      PROVE  Len(audit') \in 1..MaxAuditEvents
      BY <1>1, <1>4 DEF RevokeSession, Denied, AdminOp
<1>5. ASSUME NEW r \in Request, Handle(r)
      PROVE  audit' = audit \/ Len(audit') \in 1..MaxAuditEvents
      BY <1>3, <1>4, <1>5 DEF Handle, database, Login, Authenticate, TakeSlot, Verified, Hashed,
            LoginCommit, Refused, Logout, ChangeRead, ChangePassword
<1>6. CASE \/ \E k \in Token : RefreshRevokes(k)
           \/ \E k, j \in Token : RefreshRotates(k, j)
           \/ Restart
           \/ UNCHANGED vars
      BY <1>6 DEF RefreshRevokes, RefreshRotates, Restart, database, vars
<1> QED BY <1>5, <1>6 DEF Next

\* Families per account, pairs per family, events and accounts keep within the limits that
\* the code states, whatever is evicted, rotated and trimmed.
THEOREM RowsBounded == Spec => []RetainedRows
<1> DEFINE Fits == Len(audit) <= MaxAuditEvents /\ Cardinality(Present) <= MaxUsers
<1>1. Init => Fits
  <2> SUFFICES ASSUME Init PROVE Fits
      OBVIOUS
  <2>1. Present = {u \in User : Installed[u].exists}
        BY DEF Init, Present
  <2>2. Len(audit) = 0
        BY DEF Init
  <2> QED BY <2>1, <2>2, InstalledAccounts, SessionLimits
<1>2. IInv /\ Fits /\ [Next]_vars => Fits'
  <2> SUFFICES ASSUME IInv, Fits, [Next]_vars PROVE Fits'
      OBVIOUS
  <2>1. Len(audit') <= MaxAuditEvents
        BY LogStep
  <2>2. IsFiniteSet(Present)
        BY SessionLimits, FS_Subset DEF Present
  <2>3. Cardinality(Present) \in Nat /\ MaxUsers \in Nat
        BY <2>2, FS_CardinalityType, SessionLimits
  <2>4. Cardinality(Present)' <= MaxUsers
    <3>1. CASE Present' = Present
          BY <3>1
    <3>2. ASSUME NEW u \in User, Present' = Present \cup {u}, Cardinality(Present) < MaxUsers
          PROVE  Cardinality(Present)' <= MaxUsers
      <4>1. Cardinality(Present \cup {u}) =
               IF u \in Present THEN Cardinality(Present) ELSE Cardinality(Present) + 1
            BY <2>2, FS_AddElement
      <4> QED BY <2>3, <3>2, <4>1
    <3> QED BY <3>1, <3>2, PresentStep
  <2> QED BY <2>1, <2>4
<1>3. Rows /\ Fits => RetainedRows
      BY DEF Rows, RetainedRows
<1> HIDE DEF Fits
<1> QED BY <1>1, <1>2, <1>3, SessionInvariant, RowsKept, PTL DEF Spec

-----------------------------------------------------------------------------
(* What a session that outlives a step has kept *)

\* A family is active after NewFamily if it is the new one or was active in the base.
LEMMA OpenedFamilies ==
    ASSUME NEW base, NEW u, NEW rev, NEW p, NewFamily(base, u, rev, p),
           NEW g \in Family, families[g].status # "unused", families'[g].status = "active"
    PROVE  families'[g] = base[g]
BY DEF NewFamily, FreshFamily, WithFamily, NoFamily

\* Identifiers are used once: what is active or live after a step and was used before was
\* active or live before, and belongs to the same.
LEMMA UsedOnce ==
    ASSUME IInv, [Next]_vars
    PROVE  /\ \A g \in Family : families[g].status # "unused" =>
                /\ families'[g].status # "unused"
                /\ families'[g].status = "active" =>
                     families[g].status = "active" /\ families'[g].user = families[g].user
           /\ \A k \in Token : tokens[k].status # "unused" =>
                /\ tokens'[k].status # "unused"
                /\ tokens'[k].status = "live" => tokens'[k] = tokens[k]
<1>1. ASSUME NEW fs, families' = Revoke(fs)
      PROVE  \A g \in Family : families[g].status # "unused" =>
                /\ families'[g].status # "unused"
                /\ families'[g].status = "active" =>
                     families[g].status = "active" /\ families'[g].user = families[g].user
      BY <1>1 DEF Revoke, IInv, TypeOK, FamilyRow
<1>2. ASSUME NEW fs, NEW u, NEW rev, NEW p, NewFamily(Revoke(fs), u, rev, p)
      PROVE  /\ \A g \in Family : families[g].status # "unused" =>
                  /\ families'[g].status # "unused"
                  /\ families'[g].status = "active" =>
                       families[g].status = "active" /\ families'[g].user = families[g].user
             /\ \A k \in Token : tokens[k].status # "unused" =>
                  /\ tokens'[k].status # "unused"
                  /\ tokens'[k].status = "live" => tokens'[k] = tokens[k]
  <2>1. PICK f \in Family, k \in Token, gone \in SUBSET Family :
          /\ FreshFamily(f) /\ FreshToken(k)
          /\ families' = WithFamily(Revoke(fs), gone, f, u, rev, p)
          /\ tokens' = WithToken(gone, k, f)
        BY <1>2 DEF NewFamily
  <2>2. families[f].status = "unused" /\ tokens[k].status = "unused"
        BY <2>1 DEF FreshFamily, FreshToken
  <2>3. \A g \in Family \ {f} : families'[g] = IF g \in gone THEN NoFamily("deleted")
                                                ELSE Revoke(fs)[g]
        BY <2>1 DEF WithFamily
  <2>4. \A g \in Family : /\ Revoke(fs)[g].status = "unused" => families[g].status = "unused"
                          /\ Revoke(fs)[g].status = "active" => families[g].status = "active"
                          /\ Revoke(fs)[g].user = families[g].user
        BY DEF Revoke, IInv, TypeOK, FamilyRow
  <2>5. NoFamily("deleted").status = "deleted" /\ NoToken("deleted").status = "deleted"
        BY DEF NoFamily, NoToken
  <2>6. \A j \in Token \ {k} : tokens'[j] = tokens[j] \/ tokens'[j] = NoToken("deleted")
        BY <2>1 DEF WithToken
  <2> QED BY <2>2, <2>3, <2>4, <2>5, <2>6
<1>3. ASSUME NEW k \in Token, NEW j \in Token, RefreshRotates(k, j)
      PROVE  /\ UNCHANGED families
             /\ \A i \in Token : tokens[i].status # "unused" =>
                  /\ tokens'[i].status # "unused"
                  /\ tokens'[i].status = "live" => tokens'[i] = tokens[i]
  <2>1. tokens[j].status = "unused" /\ tokens[k].status = "live" /\ UNCHANGED families
        BY <1>3 DEF RefreshRotates, FreshToken, Rotatable
  <2>2. tokens'[k].status = "rotated" /\ \A i \in Token \ {j, k} : tokens'[i] = tokens[i]
        BY <1>3, <2>1 DEF RefreshRotates, IInv, TypeOK, TokenRow
  <2> QED BY <2>1, <2>2
<1> QED BY <1>1, <1>2, <1>3, TableSteps

\* The account of a session that outlives a step keeps its role, its temporary password,
\* if it has one, and its standing: whatever changes them takes the sessions away.
LEMMA SurvivingSession ==
    ASSUME IInv, [Next]_vars, NEW g \in Family,
           families[g].status = "active", families'[g].status = "active"
    PROVE  LET v == families[g].user IN
           /\ users'[v].disabled = users[v].disabled
           /\ users'[v].role = users[v].role
           /\ users'[v].mustChange = users[v].mustChange
<1> DEFINE v == families[g].user
<1> DEFINE Same == /\ users'[v].disabled = users[v].disabled
                   /\ users'[v].role = users[v].role
                   /\ users'[v].mustChange = users[v].mustChange
<1>1. v \in User /\ users[v].exists /\ users[v] \in UserRow
      BY DEF IInv, SessionMatchesAccount, TypeOK
<1>2. ASSUME NEW u, families' = Revoke(FamiliesOf(u))
      PROVE  v # u
  <2>1. g \notin FamiliesOf(u)
        BY <1>2, RevokeFacts DEF IInv
  <2> QED BY <2>1 DEF FamiliesOf, FamilyExists
<1>3. ASSUME NEW r \in Request, LoginCommit(r)
      PROVE  Same
      BY <1>1, <1>3 DEF LoginCommit, IInv, TypeOK, UserRow
<1>4. ASSUME NEW r \in Request, NEW p \in Password, ChangePassword(r, p)
      PROVE  Same
  <2> DEFINE u == req[r].actor.user
  <2>1. families'[g] = Revoke(FamiliesOf(u))[g]
        BY <1>4, OpenedFamilies DEF ChangePassword
  <2>2. g \notin FamiliesOf(u)
        BY <2>1, RevokeFacts DEF IInv
  <2>3. v # u
        BY <2>2 DEF FamiliesOf, FamilyExists
  <2>4. users'[v] = users[v]
        BY <1>1, <1>4, <2>3 DEF ChangePassword, IInv, TypeOK
  <2> QED BY <2>4
<1>5. ASSUME NEW r \in Request, NEW role \in Role, NEW p \in Password, CreateUser(r, role, p)
      PROVE  Same
  <2>1. users'[v] = users[v]
        BY <1>1, <1>5 DEF CreateUser, Denied, IInv, TypeOK
  <2> QED BY <2>1
<1>6. ASSUME NEW r \in Request, NEW role \in Role, NEW disabled \in BOOLEAN,
             UpdateUser(r, role, disabled)
      PROVE  Same
  <2>1. CASE users' = users
        BY <2>1
  <2>2. CASE users' # users
    <3>1. families' = Revoke(FamiliesOf(req[r].user))
          BY <1>6, <2>2 DEF UpdateUser, Denied, RevokeUser
    <3>2. users'[v] = users[v]
          BY <1>1, <1>2, <1>6, <3>1 DEF UpdateUser, Denied, IInv, TypeOK
    <3> QED BY <3>2
  <2> QED BY <2>1, <2>2
<1>7. ASSUME NEW r \in Request, NEW p \in Password, ResetPassword(r, p)
      PROVE  Same
  <2>1. CASE users' = users
        BY <2>1
  <2>2. CASE users' # users
    <3>1. families' = Revoke(FamiliesOf(req[r].user))
          BY <1>7, <2>2 DEF ResetPassword, Denied, RevokeUser
    <3>2. users'[v] = users[v]
          BY <1>1, <1>2, <1>7, <3>1 DEF ResetPassword, Denied, IInv, TypeOK
    <3> QED BY <3>2
  <2> QED BY <2>1, <2>2
<1>8. ASSUME NEW r \in Request, Handle(r)
      PROVE  Same
  <2>1. \/ users' = users \/ LoginCommit(r)
        \/ \E p \in Password : ChangePassword(r, p)
        \/ \E role \in Role, p \in Password : CreateUser(r, role, p)
        \/ \E role \in Role, disabled \in BOOLEAN : UpdateUser(r, role, disabled)
        \/ \E p \in Password : ResetPassword(r, p)
        BY <1>8 DEF Handle, database, Login, Authenticate, TakeSlot, Verified, Hashed,
                    Refused, Logout, ChangeRead, RevokeSession, Denied
  <2>2. users' = users => Same
        OBVIOUS
  <2> HIDE DEF Same
  <2> QED BY <2>1, <2>2, <1>3, <1>4, <1>5, <1>6, <1>7
<1>9. ASSUME \/ \E k \in Token : RefreshRevokes(k)
             \/ \E k, j \in Token : RefreshRotates(k, j)
             \/ Restart
             \/ UNCHANGED vars
      PROVE  Same
      BY <1>9 DEF RefreshRevokes, RefreshRotates, Restart, database, vars
<1> HIDE DEF Same
<1>10. Same
      BY <1>8, <1>9 DEF Next
<1> QED BY <1>10 DEF Same

-----------------------------------------------------------------------------
(* Temporary passwords *)

LEMMA TemporaryStep ==
    ASSUME IInv, Rows, TemporaryPasswordSession, [Next]_vars
    PROVE  TemporaryPasswordSession'
<1> SUFFICES ASSUME NEW g \in Family, families'[g].status = "active",
                    users'[families'[g].user].mustChange, NEW i \in TokensOf(g)'
             PROVE  tokens'[i].status = "live"
    BY DEF TemporaryPasswordSession
<1>1. ASSUME families[g].status # "unused"
      PROVE  /\ families[g].status = "active" /\ families'[g].user = families[g].user
             /\ users[families[g].user].mustChange
             /\ \A j \in TokensOf(g) : tokens[j].status = "live"
  <2>1. families[g].status = "active" /\ families'[g].user = families[g].user
        BY <1>1, UsedOnce
  <2>2. users[families[g].user].mustChange
        BY <2>1, SurvivingSession
  <2> QED BY <2>1, <2>2 DEF TemporaryPasswordSession
<1>2. ASSUME NEW fs, families' = Revoke(fs), UNCHANGED tokens
      PROVE  tokens'[i].status = "live"
  <2>1. families[g].status = "active"
        BY <1>2, RevokeFacts DEF IInv
  <2>2. i \in TokensOf(g)
        BY <1>2 DEF TokensOf, TokenExists
  <2> QED BY <1>1, <1>2, <2>1, <2>2
<1>3. ASSUME NEW fs, NEW u, NEW rev, NEW p, NewFamily(Revoke(fs), u, rev, p)
      PROVE  tokens'[i].status = "live"
  <2>1. PICK f \in Family, k \in Token, gone \in SUBSET Family :
          /\ FreshFamily(f) /\ FreshToken(k)
          /\ families' = WithFamily(Revoke(fs), gone, f, u, rev, p)
          /\ tokens' = WithToken(gone, k, f)
        BY <1>3 DEF NewFamily
  <2>2. i \in Token /\ TokenExists(i)' /\ tokens'[i].family = g
        BY DEF TokensOf
  <2>3. CASE i = k
        BY <2>1, <2>3 DEF WithToken
  <2>4. CASE i # k
    <3>1. tokens'[i] = tokens[i] /\ TokenExists(i)
          BY <2>1, <2>2, <2>4 DEF WithToken, NoToken, TokenExists
    <3>2. i \in TokensOf(g) /\ FamilyExists(g)
          BY <2>2, <3>1 DEF TokensOf, Rows, OneLiveToken
    <3>3. families[g].status # "unused"
          BY <3>2 DEF FamilyExists
    <3> QED BY <1>1, <3>1, <3>2, <3>3
  <2> QED BY <2>3, <2>4
<1>4. ASSUME NEW k \in Token, NEW j \in Token, RefreshRotates(k, j)
      PROVE  tokens'[i].status = "live"
  <2>1. /\ tokens[j].status = "unused" /\ tokens[k].status = "live" /\ UNCHANGED <<families, users>>
        /\ ~users[families[tokens[k].family].user].mustChange
        BY <1>4 DEF RefreshRotates, FreshToken, Rotatable
  <2>2. /\ tokens'[k].family = tokens[k].family /\ tokens'[j].family = tokens[k].family
        /\ \A x \in Token \ {j, k} : tokens'[x] = tokens[x]
        BY <1>4, <2>1 DEF RefreshRotates, IInv, TypeOK, TokenRow
  <2>3. i \in Token /\ TokenExists(i)' /\ tokens'[i].family = g
        BY DEF TokensOf
  <2>4. i # j /\ i # k
        BY <2>1, <2>2, <2>3
  <2>5. i \in TokensOf(g) /\ tokens'[i] = tokens[i]
        BY <2>2, <2>3, <2>4 DEF TokensOf, TokenExists
  <2> QED BY <1>1, <2>1, <2>5
<1> QED BY <1>2, <1>3, <1>4, TableSteps

\* refresh never prolongs a session that was opened with a temporary password.
THEOREM TemporaryNotProlonged == Spec => []TemporaryPasswordSession
<1>1. Init => TemporaryPasswordSession
      BY DEF Init, TemporaryPasswordSession, NoFamily
<1>2. IInv /\ Rows /\ TemporaryPasswordSession /\ [Next]_vars => TemporaryPasswordSession'
      BY TemporaryStep
<1> QED BY <1>1, <1>2, SessionInvariant, RowsKept, PTL DEF Spec

-----------------------------------------------------------------------------
(* The principals that requests carry *)

\* A principal was authenticated: its family and its pair were in use, and an
\* administrative handler has it of an administrator with a password of their own.
ActorFacts ==
    \A r \in Request :
        /\ req[r].actor # None =>
             /\ families[req[r].actor.family].status # "unused"
             /\ tokens[req[r].actor.token].status # "unused"
        /\ req[r].op \in AdminOp => req[r].actor.role = "admin" /\ ~req[r].actor.mustChange

\* A request's step leaves the other threads alone.
LEMMA OneThread ==
    ASSUME IInv, NEW s \in Request, Handle(s)
    PROVE  \A r \in Request \ {s} : req'[r] = req[r]
<1>1. ASSUME NEW c, req' = [req EXCEPT ![s].pc = c]
      PROVE  \E q : req' = [req EXCEPT ![s] = q]
  <2>1. req' = [req EXCEPT ![s] = [req[s] EXCEPT !.pc = c]]
        BY <1>1
  <2> QED BY <2>1
<1>2. ASSUME NEW p \in Password, ChangeRead(s, p)
      PROVE  \E q : req' = [req EXCEPT ![s] = q]
  <2>1. req' = [req EXCEPT ![s] = [req[s] EXCEPT !.pc = "verify", !.pw = p,
                                     !.seen = users[req[s].actor.user].hash]]
        BY <1>2 DEF ChangeRead, IInv, TypeOK, RequestState
  <2> QED BY <2>1
<1>3. ASSUME NEW u \in User, NEW p \in Password, Login(s, u, p)
      PROVE  \E q : req' = [req EXCEPT ![s] = q]
      BY <1>3 DEF Login
<1>4. ASSUME NEW k \in Token, NEW op \in Ops, NEW u \in User, Authenticate(s, k, op, u)
      PROVE  \E q : req' = [req EXCEPT ![s] = q]
      BY <1>4, Zenon DEF Authenticate
<1>5. ASSUME End(s)
      PROVE  \E q : req' = [req EXCEPT ![s] = q]
      BY <1>5 DEF End
<1>6. \/ \E u \in User, p \in Password : Login(s, u, p)
      \/ \E k \in Token, op \in Ops, u \in User : Authenticate(s, k, op, u)
      \/ \E p \in Password : ChangeRead(s, p)
      \/ End(s) \/ \E c : req' = [req EXCEPT ![s].pc = c]
  <2>1. ASSUME TakeSlot(s) \/ Verified(s) \/ Hashed(s)
        PROVE  End(s) \/ \E c : req' = [req EXCEPT ![s].pc = c]
        BY <2>1 DEF TakeSlot, Verified, Hashed
  <2> QED BY <2>1 DEF Handle, LoginCommit, Refused, Logout, ChangePassword, CreateUser,
                      UpdateUser, ResetPassword, RevokeSession, Mutation
<1>7. \E q : req' = [req EXCEPT ![s] = q]
      BY <1>1, <1>2, <1>3, <1>4, <1>5, <1>6
<1> QED BY <1>7 DEF IInv, TypeOK

\* What a step does to the request of a thread.
LEMMA RequestSteps ==
    ASSUME IInv, [Next]_vars, NEW r \in Request
    PROVE  \/ req'[r].actor = req[r].actor /\ req'[r].op = req[r].op
           \/ req'[r].actor = None /\ req'[r].op \notin AdminOp
           \/ \E k \in Token, op \in Ops, u \in User : Authenticate(r, k, op, u)
<1> DEFINE Goal == \/ req'[r].actor = req[r].actor /\ req'[r].op = req[r].op
                   \/ req'[r].actor = None /\ req'[r].op \notin AdminOp
                   \/ \E k \in Token, op \in Ops, u \in User : Authenticate(r, k, op, u)
<1>1. IdleRequest.actor = None /\ IdleRequest.op = "none" /\ "none" \notin AdminOp
      BY DEF IdleRequest, AdminOp
<1>3. ASSUME End(r) PROVE Goal
      BY <1>1, <1>3 DEF End, IInv, TypeOK
<1>4. ASSUME NEW c, req' = [req EXCEPT ![r].pc = c] PROVE Goal
      BY <1>4 DEF IInv, TypeOK, RequestState
<1>5. ASSUME NEW u \in User, NEW p \in Password, Login(r, u, p) PROVE Goal
  <2>1. req'[r].actor = None /\ req'[r].op = "login"
        BY <1>5 DEF Login, IdleRequest, IInv, TypeOK
  <2> QED BY <2>1 DEF AdminOp
<1>6. ASSUME NEW p \in Password, ChangeRead(r, p) PROVE Goal
      BY <1>6 DEF ChangeRead, IInv, TypeOK, RequestState
<1>7. ASSUME Handle(r) PROVE Goal
  <2>1. \/ \E u \in User, p \in Password : Login(r, u, p)
        \/ \E k \in Token, op \in Ops, u \in User : Authenticate(r, k, op, u)
        \/ \E p \in Password : ChangeRead(r, p)
        \/ End(r) \/ \E c : req' = [req EXCEPT ![r].pc = c]
        BY <1>7 DEF Handle, TakeSlot, Verified, Hashed, LoginCommit, Refused, Logout,
             ChangePassword, CreateUser, UpdateUser, ResetPassword, RevokeSession, Mutation
  <2>2. (\E k \in Token, op \in Ops, u \in User : Authenticate(r, k, op, u)) => Goal
        OBVIOUS
  <2> HIDE DEF Goal
  <2> QED BY <1>3, <1>4, <1>5, <1>6, <2>1, <2>2
<1>8. ASSUME NEW s \in Request, s # r, Handle(s) PROVE Goal
  <2>1. req'[r] = req[r]
        BY <1>8, OneThread
  <2> QED BY <2>1
<1>9. ASSUME Restart PROVE Goal
      BY <1>1, <1>9 DEF Restart
<1>10. ASSUME UNCHANGED req PROVE Goal
      BY <1>10
<1> HIDE DEF Goal
<1>11. Goal
      BY <1>7, <1>8, <1>9, <1>10 DEF Next, RefreshRevokes, RefreshRotates, vars
<1> QED BY <1>11 DEF Goal

\* Authentication gives a principal whose session is in use.
LEMMA AuthenticatedActor ==
    ASSUME IInv, NEW r \in Request, NEW k \in Token, NEW op \in Ops, NEW u \in User,
           Authenticate(r, k, op, u)
    PROVE  /\ req'[r].actor # None /\ req'[r].actor.token = k /\ tokens[k].status = "live"
           /\ req'[r].actor.family = tokens[k].family
           /\ req'[r].actor.family \in Family
           /\ families[req'[r].actor.family].status = "active"
           /\ req'[r].op \in AdminOp => req'[r].actor.role = "admin" /\ ~req'[r].actor.mustChange
<1> DEFINE f == tokens[k].family
           row == users[families[f].user]
           principal == [user |-> families[f].user, role |-> row.role,
                         mustChange |-> row.mustChange, family |-> f, token |-> k]
<1>1. tokens[k].status = "live" /\ f \in Family /\ families[f].status = "active" /\ Admitted(row, op)
      BY DEF Authenticate, IInv, TokenOwners, TokenExists
<1>2. families[f].user \in User
      BY <1>1 DEF IInv, SessionMatchesAccount
<1>3. principal \in Principal
      BY <1>1, <1>2 DEF Principal, IInv, TypeOK, UserRow
<1>4. req'[r].actor = principal /\ req'[r].op = op
      BY DEF Authenticate, IdleRequest, IInv, TypeOK
<1>5. principal # None
      BY <1>3, NoneIsNoValue
<1> QED BY <1>1, <1>4, <1>5 DEF Admitted

LEMMA ActorStep ==
    ASSUME IInv, ActorFacts, [Next]_vars
    PROVE  ActorFacts'
<1> SUFFICES ASSUME NEW r \in Request
             PROVE  /\ req'[r].actor # None =>
                         /\ families'[req'[r].actor.family].status # "unused"
                         /\ tokens'[req'[r].actor.token].status # "unused"
                    /\ req'[r].op \in AdminOp =>
                         req'[r].actor.role = "admin" /\ ~req'[r].actor.mustChange
    BY DEF ActorFacts
<1>1. CASE req'[r].actor = req[r].actor /\ req'[r].op = req[r].op
  <2>1. req[r].actor # None => req[r].actor.family \in Family /\ req[r].actor.token \in Token
        BY DEF IInv, TypeOK, RequestState, Principal
  <2> QED BY <1>1, <2>1, UsedOnce DEF ActorFacts
<1>2. CASE req'[r].actor = None /\ req'[r].op \notin AdminOp
      BY <1>2
<1>3. CASE \E k \in Token, op \in Ops, u \in User : Authenticate(r, k, op, u)
      BY <1>3, AuthenticatedActor, UsedOnce
<1> QED BY <1>1, <1>2, <1>3, RequestSteps

LEMMA ActorsAuthenticated == Spec => []ActorFacts
<1>1. Init => ActorFacts
      BY DEF Init, ActorFacts, IdleRequest, AdminOp
<1>2. IInv /\ ActorFacts /\ [Next]_vars => ActorFacts'
      BY ActorStep
<1> QED BY <1>1, <1>2, SessionInvariant, PTL DEF Spec

\* assert_current: once it would refuse a waiting request's principal it refuses it for
\* good, since identifiers are used once and a change of the account takes its sessions.
THEOREM AuthorityNotRegained == Spec => LostAuthorityStaysLost
<1>1. IInv /\ ActorFacts /\ [Next]_vars =>
        \A r \in Request :
          req[r].actor # None /\ req'[r].actor = req[r].actor /\ ~Current(req[r].actor)
            => ~Current(req[r].actor)'
  <2> SUFFICES ASSUME IInv, ActorFacts, [Next]_vars, NEW r \in Request, req[r].actor # None,
                      req'[r].actor = req[r].actor, Current(req[r].actor)'
               PROVE  Current(req[r].actor)
      OBVIOUS
  <2> PICK a \in Principal : req[r].actor = a
      BY DEF IInv, TypeOK, RequestState
  <2>1. a.family \in Family /\ a.token \in Token
        BY DEF Principal
  <2>2. /\ tokens'[a.token].status = "live" /\ tokens'[a.token].family = a.family
        /\ families'[a.family].status = "active" /\ families'[a.family].user = a.user
        /\ ~users'[a.user].disabled /\ users'[a.user].role = a.role
        /\ users'[a.user].mustChange = a.mustChange
        BY DEF Current
  <2>3. families[a.family].status # "unused" /\ tokens[a.token].status # "unused"
        BY DEF ActorFacts
  <2>4. tokens[a.token].status = "live" /\ tokens[a.token].family = a.family
        BY <2>1, <2>2, <2>3, UsedOnce
  <2>5. families[a.family].status = "active" /\ families[a.family].user = a.user
        BY <2>1, <2>2, <2>3, UsedOnce
  <2>6. /\ users'[a.user].disabled = users[a.user].disabled
        /\ users'[a.user].role = users[a.user].role
        /\ users'[a.user].mustChange = users[a.user].mustChange
        BY <2>1, <2>2, <2>5, SurvivingSession
  <2> QED BY <2>2, <2>4, <2>5, <2>6 DEF Current
<1> QED BY <1>1, SessionInvariant, ActorsAuthenticated, PTL DEF Spec, LostAuthorityStaysLost

-----------------------------------------------------------------------------
(* Administrators *)

\* A transaction of an administrative handler is that of an administrator who is one now.
LEMMA MutationByAdmin ==
    ASSUME IInv, ActorFacts, NEW r \in Request, NEW op \in AdminOp, Mutation(r, op)
    PROVE  LET a == req[r].actor IN
           /\ req[r].op \in AdminOp /\ req'[r] # req[r]
           /\ a.user \in ActiveAdmins /\ ~users[a.user].mustChange
           /\ families[a.family].status = "active"
           /\ tokens[a.token].status = "live"
<1> DEFINE a == req[r].actor
<1>1. req[r].pc = "commit" /\ req[r].op = op /\ Current(a) /\ End(r)
      BY DEF Mutation, Authorised
<1>2. a \in Principal /\ a.role = "admin" /\ ~a.mustChange
      BY <1>1 DEF IInv, RequestFacts, ActorFacts
<1>3. /\ families[a.family].status = "active" /\ families[a.family].user = a.user
      /\ tokens[a.token].status = "live" /\ ~users[a.user].disabled
      /\ users[a.user].role = "admin" /\ ~users[a.user].mustChange
      BY <1>1, <1>2 DEF Current
<1>4. a.user \in User /\ users[a.user].exists
      BY <1>2, <1>3 DEF Principal, IInv, SessionMatchesAccount
<1>5. req'[r] # req[r]
  <2>1. req'[r].pc = "idle"
        BY <1>1 DEF End, IdleRequest, IInv, TypeOK
  <2> QED BY <1>1, <2>1
<1> QED BY <1>1, <1>3, <1>4, <1>5 DEF ActiveAdmins

\* A password change leaves roles and standing alone, and no temporary password of its own.
LEMMA ChangeKeeps ==
    ASSUME TypeOK, NEW r \in Request, NEW p \in Password, ChangePassword(r, p)
    PROVE  \A v \in User : /\ users'[v].exists = users[v].exists
                           /\ users'[v].disabled = users[v].disabled
                           /\ users'[v].role = users[v].role
                           /\ users'[v].revision = users[v].revision \/ ~users'[v].mustChange
<1> DEFINE u == req[r].actor.user
<1>1. \A v \in User : /\ users'[v].exists = users[v].exists
                      /\ users'[v].disabled = users[v].disabled
                      /\ users'[v].role = users[v].role
      BY DEF ChangePassword, TypeOK, UserRow
<1>2. \A v \in User : v # u => users'[v] = users[v]
      BY DEF ChangePassword, TypeOK
<1>3. ASSUME u \in User PROVE users'[u].mustChange = FALSE
      BY <1>3 DEF ChangePassword, TypeOK, UserRow
<1> QED BY <1>1, <1>2, <1>3

\* _mutation asks again inside the transaction: whatever changes an account's role or
\* standing, creates it or resets its password is done by somebody who is an enabled
\* administrator with a password of their own and an unrevoked session at that moment.
THEOREM OnlyAdminsChange == Spec => ChangedByAdmin
<1> DEFINE Changed == \E u \in User :
                        \/ users'[u].role # users[u].role
                        \/ users'[u].disabled # users[u].disabled
                        \/ users'[u].exists # users[u].exists
                        \/ (users'[u].mustChange /\ users'[u].revision # users[u].revision)
<1> DEFINE ByAdmin == \E r \in Request :
                        LET a == req[r].actor IN
                        /\ req[r].op \in AdminOp /\ req'[r] # req[r]
                        /\ a.user \in ActiveAdmins /\ ~users[a.user].mustChange
                        /\ families[a.family].status = "active"
                        /\ tokens[a.token].status = "live"
<1>1. IInv /\ ActorFacts /\ [Next]_vars => (Changed => ByAdmin)
  <2> SUFFICES ASSUME IInv, ActorFacts, [Next]_vars, Changed PROVE ByAdmin
      OBVIOUS
  <2>1. users' # users
        OBVIOUS
  <2>2. ASSUME NEW r \in Request, LoginCommit(r) PROVE FALSE
    <3>1. \A v \in User : /\ users'[v].exists = users[v].exists
                          /\ users'[v].disabled = users[v].disabled
                          /\ users'[v].role = users[v].role
                          /\ users'[v].revision = users[v].revision
          BY <2>2 DEF LoginCommit, IInv, TypeOK, UserRow
    <3> QED BY <3>1
  <2>3. ASSUME NEW r \in Request, NEW p \in Password, ChangePassword(r, p) PROVE FALSE
    <3>1. \A v \in User : /\ users'[v].exists = users[v].exists
                          /\ users'[v].disabled = users[v].disabled
                          /\ users'[v].role = users[v].role
                          /\ users'[v].revision = users[v].revision \/ ~users'[v].mustChange
      <4>1. TypeOK
            BY DEF IInv
      <4>2. ChangePassword(r, p)
            BY <2>3
      <4> QED BY <4>1, <4>2, ChangeKeeps
    <3> QED BY <3>1
  <2>4. ASSUME NEW r \in Request, NEW op \in AdminOp, Mutation(r, op) PROVE ByAdmin
        BY <2>4, MutationByAdmin
  <2>5. PICK r \in Request : Handle(r)
        BY <2>1 DEF Next, RefreshRevokes, RefreshRotates, Restart, database, vars
  <2>6. \E op \in AdminOp : Mutation(r, op)
    <3>1. \/ users' = users \/ LoginCommit(r)
          \/ \E p \in Password : ChangePassword(r, p)
          \/ \E role \in Role, p \in Password : CreateUser(r, role, p)
          \/ \E role \in Role, disabled \in BOOLEAN : UpdateUser(r, role, disabled)
          \/ \E p \in Password : ResetPassword(r, p)
          BY <2>5 DEF Handle, database, Login, Authenticate, TakeSlot, Verified, Hashed,
                      Refused, Logout, ChangeRead, RevokeSession, Denied
    <3>2. Mutation(r, "create") \/ Mutation(r, "update") \/ Mutation(r, "reset")
          BY <2>1, <2>2, <2>3, <3>1 DEF CreateUser, UpdateUser, ResetPassword
    <3> QED BY <3>2 DEF AdminOp
  <2> HIDE DEF ByAdmin
  <2> QED BY <2>4, <2>6
<1> QED BY <1>1, SessionInvariant, ActorsAuthenticated, PTL DEF Spec, ChangedByAdmin

\* What an administrator's request changed is the last event of the log, as a success,
\* and a request that logs a denial changed nothing.
THEOREM LogTruthful == Spec => AuditTruthful
<1> DEFINE Told(r) ==
       req[r].op \in AdminOp /\ req[r].pc = "commit" /\ req'[r] # req[r] =>
           LET last == audit'[Len(audit')] IN
           <<users, families, tokens>>' # <<users, families, tokens>>
             => /\ Len(audit') > 0
                /\ last.status = "success"
                /\ last.action = req[r].op
                /\ last.actor = req[r].actor.user
<1>1. IInv /\ [Next]_vars => \A r \in Request : Told(r)
  <2> SUFFICES ASSUME IInv, [Next]_vars, NEW r \in Request,
                      req[r].op \in AdminOp, req[r].pc = "commit", req'[r] # req[r],
                      ~UNCHANGED <<users, families, tokens>>
               PROVE  /\ Len(audit') > 0
                      /\ audit'[Len(audit')].status = "success"
                      /\ audit'[Len(audit')].action = req[r].op
                      /\ audit'[Len(audit')].actor = req[r].actor.user
      OBVIOUS
  <2>1. Handle(r)
    <3>1. UNCHANGED <<users, families, tokens>> \/ UNCHANGED req \/ \E s \in Request : Handle(s)
          BY DEF Next, RefreshRevokes, RefreshRotates, Restart, database, vars
    <3> QED BY <3>1, OneThread
  <2>2. \/ \E role \in Role, p \in Password : CreateUser(r, role, p)
        \/ \E role \in Role, disabled \in BOOLEAN : UpdateUser(r, role, disabled)
        \/ \E p \in Password : ResetPassword(r, p)
        \/ \E f \in Family : RevokeSession(r, f)
        BY <2>1 DEF Handle, database, Login, Authenticate, TakeSlot, Verified, Hashed, AdminOp,
                    LoginCommit, Refused, Logout, ChangeRead, ChangePassword, Authorised
  <2>3. \E target \in User \cup Family : Audit(r, "success", target)
    <3>1. CASE \E f \in Family : RevokeSession(r, f)
          BY <3>1 DEF RevokeSession, Denied
    <3>2. CASE ~\E f \in Family : RevokeSession(r, f)
      <4>1. req[r].op \in {"create", "update", "reset"}
            BY <2>2, <3>2 DEF CreateUser, UpdateUser, ResetPassword, Mutation, Authorised
      <4>2. req[r].user \in User
            BY <4>1 DEF IInv, RequestFacts
      <4>3. Audit(r, "success", req[r].user)
            BY <2>2, <3>2 DEF CreateUser, UpdateUser, ResetPassword, Denied
      <4> QED BY <4>2, <4>3
    <3> QED BY <3>1, <3>2
  <2>4. req[r].actor \in Principal
        BY DEF IInv, RequestFacts
  <2>5. PICK target \in User \cup Family :
          /\ Len(audit') \in 1..MaxAuditEvents
          /\ audit'[Len(audit')] = [action |-> req[r].op, status |-> "success",
                                    actor |-> req[r].actor.user, target |-> target]
        BY <2>3, <2>4, AuditFacts DEF IInv
  <2> QED BY <2>5, SessionLimits
<1> QED BY <1>1, SessionInvariant, PTL DEF Spec, AuditTruthful
=============================================================================
