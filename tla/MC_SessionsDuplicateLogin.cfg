\* Two browsers, one user, two session ids, sessions that live one tick.
CONSTANTS
    c1 = c1
    c2 = c2
    u1 = u1
    s1 = s1
    s2 = s2
    Clients = {c1, c2}
    Users = {u1}
    Ids = {s1, s2}
    MaxAge = 1
    TMax = 2
    NoId = NoId
    NoUser = NoUser
    NoSess = NoSess
    Wrong = Wrong
    Malformed = Malformed
    NoBody = NoBody
    AI = AI
    MAN = MAN
SPECIFICATION Spec
INVARIANT OneLoginPerUser
