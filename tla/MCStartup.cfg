SPECIFICATION FairSpec
CONSTANTS
    Servers = {server}
    Admins = {admin}
    Accounts = {u1}
    Inputs <- MCInputs
    MaxCrashes = 1
    None = None
INVARIANTS SchemaMatchesLedger ValidatedIsAccepted
PROPERTIES StartupEnds
