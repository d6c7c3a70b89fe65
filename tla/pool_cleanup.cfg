\* One tunnel: a worker connects it after Stop has returned.
SPECIFICATION SafetySpec
CONSTANTS
    Tunnels = {t1}
    MaxRetries = 1
    Readers = {}
    Width = 16
    IntMax = 16
PROPERTIES
    StoppedIsNotReconnected
CHECK_DEADLOCK FALSE
