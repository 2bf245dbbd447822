SPECIFICATION Spec
CONSTANTS
    a1 = a1
    a2 = a2
    Addresses = {a1, a2}
    NoAddress = NoAddress
    MaxPasswords = 2
    Wishes <- MCNewPassword
    Hosts <- MCHosts
    Reverts = FALSE
    MaxCommands = 3
    MaxChanges = 1
    MaxFaults = 1
PROPERTY ServesSettings
CHECK_DEADLOCK FALSE
