\* One user, unknown or with a session and a reset token, and three calls of any kind.
CONSTANTS
    e1 = e1
    s1 = s1
    t1 = t1
    c1 = c1
    c2 = c2
    c3 = c3
    Earlier = Earlier
    NoRow = NoRow
    Emails = {e1}
    Calls = {c1, c2, c3}
    Requests <- AllRequests
    OldSessions = {s1}
    OldTokens = {t1}
    OwnerOf <- OneOwner
SYMMETRY Symmetry
SPECIFICATION Spec
INVARIANTS TypeOK OneSessionPerLogin OldSessionsEnd ResetsPerMail AnswersHold
CHECK_DEADLOCK FALSE
PROPERTIES ImplementsLogins
