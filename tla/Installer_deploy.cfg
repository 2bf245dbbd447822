SPECIFICATION Spec
CONSTANTS
    a1 = a1
    a2 = a2
    Addresses = {a1, a2}
    NoAddress = NoAddress
    MaxPasswords = 2
    Wishes <- MCWishes
    Hosts <- MCHosts
    Reverts = FALSE
    MaxCommands = 3
    MaxChanges = 2
    MaxFaults = 1
INVARIANTS HashOfPassword
PROPERTIES Delivered SwitchOnlyOnAnswer
CHECK_DEADLOCK FALSE
