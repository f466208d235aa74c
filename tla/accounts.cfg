SPECIFICATION FairSpec
CONSTANTS
    phone1 = phone1
    phone2 = phone2
    e1 = e1
    e2 = e2
    e3 = e3
    jam = jam
    secure = secure
    short = short
    Empty = Empty
    None = None
    Device = {phone1, phone2}
    Email = {e1, e2, e3}
    Username = {jam}
    Password = {secure, short}
    Kinds <- MCKinds
    Length <- MCLength
    MaxCalls = 2
    MaxTaps = 3
    MaxFaults = 1
INVARIANTS
    TypeOK
    NameClashHasCause
    LoggedInHasProfile
    SessionIsOne
PROPERTIES
    AccountGetsProfile
CHECK_DEADLOCK FALSE
