\* An administrator, an account with an old hash, a third person; two workers.
SPECIFICATION Spec
CONSTANTS
    e1 = e1  e2 = e2  e3 = e3  p1 = p1  p2 = p2  w1 = w1  w2 = w2
    None = None
    Emails = {e1, e2, e3}
    Passwords = {p1, p2}
    Workers = {w1, w2}
    Founders <- MCFounders
    FirstPassword = p1
    Administrators = {e1}
    MaxRequests = 1
    ResetWindow = 1
    Expiry = 1
    MaxTime = 3
    MaxAccounts = 3
    MaxTokens = 2
    MaxTasks = 4
SYMMETRY MCSymmetry
INVARIANTS
    AccountsTypeOK
    RevokedStaysOut
    ResetPasswordStands
    SpentTokenRevokes
    TokenSpentByOverlapOnly
    ResetRequestsCapped
    AdministratorsWereNamed
    AdminDeletedByLateGrantOnly
CHECK_DEADLOCK FALSE
