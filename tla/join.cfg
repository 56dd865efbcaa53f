SPECIFICATION LaunchSpec
CONSTANTS
    Clients = {c1, c2}
    Launched = c1
    Secrets = {"ticket", "secret"}
    Settings <- MCSettings
CHECK_DEADLOCK FALSE
INVARIANTS
    OnlyWelcome
    CredentialUsed
PROPERTIES
    JoinEnds
    JoinSettles
