\* Two requests in flight over either store: two accounts, two sessions, a
\* token, and a session that expires.
SPECIFICATION Spec
CONSTANTS
    Account = {a1, a2}
    Email = {e1, e2}
    Session = {s1, s2}
    Key = {k1}
    Request = {r1, r2}
    Wanted = {FALSE}
    Ttl = 1
    Nobody = Nobody
    Idle = Idle
    Accepted = Accepted
    Refused = Refused
    Torn = Torn
    Free = Free
    Orphaned = Orphaned
    MaxTime = 1
SYMMETRY Symmetry
INVARIANTS
    EmailsAreUnique
    WhatWasAnsweredIsKept
PROPERTIES
    EndedCredentialsAreRefused
    GoodSessionIsAccepted
