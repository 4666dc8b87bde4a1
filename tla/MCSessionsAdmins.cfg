SPECIFICATION Spec
CONSTANTS
    u1 = u1
    u2 = u2
    old = old
    new = new
    None = None
    User = {u1, u2}
    Password = {old, new}
    Family = {f1, f2}
    Token = {t1, t2}
    Request = {r1, r2}
    Ops = {"login", "update", "revoke", "reset"}
    Installed <- TwoAdmins
    PasswordSlots = 1
    MaxUsers = 2
    MaxFamilies = 2
    MaxTokens = 2
    MaxAuditEvents = 1
    MaxRevision = 3
SYMMETRY Symmetry
INVARIANTS
    SomeActiveAdmin
    SessionMatchesAccount
PROPERTIES
    LostAuthorityStaysLost
    ChangedByAdmin
    AuditTruthful
