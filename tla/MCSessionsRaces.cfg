SPECIFICATION Spec
CONSTANTS
    u1 = u1
    u2 = u2
    old = old
    new = new
    None = None
    User = {u1, u2}
    Password = {old, new}
    Family = {f1, f2, f3}
    Token = {t1, t2, t3}
    Request = {r1, r2}
    Ops = {"login", "change", "create", "logout"}
    Installed <- OneAdmin
    PasswordSlots = 1
    MaxUsers = 2
    MaxFamilies = 2
    MaxTokens = 2
    MaxAuditEvents = 1
    MaxRevision = 2
SYMMETRY Symmetry
INVARIANTS
    TypeOK
    SessionMatchesAccount
    SlotsBalanced
    OneLiveToken
    TemporaryPasswordSession
    RetainedRows
