SPECIFICATION MCSpec
CONSTANTS
    Groups = {g1, g2}
    Slots = {1, 2, 3}
    Messages = 2
    Retries = 2
    Threshold = 1
    MaxCalls = 1
    MaxFaults = 2
INVARIANTS TypeOK OneSession ReadyMeansRunning StoppedForGood
PROPERTIES Recovers Stops AllHandled ImplementsDelivery
CHECK_DEADLOCK FALSE
