\* One daemon that may die and two calls, one of them by the gateway, with and
\* without a secret.
CONSTANTS
    daemon = daemon
    c1 = c1
    c2 = c2
    Nil = Nil
    Process = {daemon}
    Release <- Releases
    Call = {c1, c2}
    Daemon = daemon
    Requests <- AsksOf
    Secrets <- KeyOrNone
    Holds <- Keys
    AdminBridge = TRUE
    Unconfigured = {"mcp_sandbox_probe"}
    Patience <- Waits
    Tolerance = 2
    NonceLimit = 1
SPECIFICATION MigratedSpec
INVARIANTS TypeOK AnswersAreTrue
PROPERTIES KeyHoldersAreAdmitted ForwardedCallsFit CallersAreReleased
CHECK_DEADLOCK FALSE
