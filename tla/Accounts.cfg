SPECIFICATION Spec
CONSTANTS
    e1 = e1
    google1 = google1
    apple1 = apple1
    Request = {r1, r2}
    User = {21, 22}
    Email = {e1}
    Session = {1, 2, 3}
    Token = {11, 12}
    Subject = {google1, apple1}
    Apple = {apple1}
    Address <- MCAddress
    None = 0
    Workload <- MCWorkload
    MaxVersion = 1
INVARIANTS OneLivePerFamily RevocationEndsSessions LinkWorksOnce LinkedIsVerified
CHECK_DEADLOCK FALSE
