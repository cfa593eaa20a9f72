CONSTANTS
    r1 = r1
    k1 = k1
    Admins = {a1}
    Calls = {c1}
    Passwords = {p1, p2}
    Merchants = {m1, m2}
    Wallets = {w1, w2}
    Keys = {k1}
    Settings = {s1, s2}
    DefaultSettings = s1
    Requests = {r1}
    KeyOf <- MCKeyOf
    Nothing = Nothing
    SessionTTL = 1
    MaxTime = 2
    MaxRestarts = 1
SPECIFICATION Spec
INVARIANTS
    TermsInForce
    OneWallet
    KeyRespected
PROPERTIES
    ChangesByRecentLogin
