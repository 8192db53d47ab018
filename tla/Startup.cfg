CONSTANTS
    Workers = {w0, w1, w2}
    Main = w0
    Updater = updater
    Modes = {"plain", "tls", "quic"}
    MaxSignals = 2
CHECK_DEADLOCK FALSE
SPECIFICATION Spec
INVARIANTS StartupOrder
PROPERTIES StartupCompletes NotifiedShutdown
