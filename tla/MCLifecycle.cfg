\* Two provider agents and the consumer agent; three starts, so each once or one of them twice.
CONSTANTS
    Providers = {p1, p2}
    Consumer = c
    NumConn = 2
    MaxStarts = 3
SPECIFICATION Spec
INVARIANTS RegisteredIsListening ServingIsReady
PROPERTIES StartUpProgress KeysVanish
\* The agents may all have ended.
CHECK_DEADLOCK FALSE
