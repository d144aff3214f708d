\* The registry with two processes, two listeners that both provide tX,
\* and three addListeners calls.
CONSTANTS
    manager = manager
    configdb = configdb
    lA = lA
    lB = lB
    LISTENER = LISTENER
    LOGLISTENER = LOGLISTENER
    tX = tX
    tY = tY
    Owners <- MCOwners
    Listeners <- MCListeners
    Tags <- MCTags
    NotifTypes <- MCTypes
    TypesOf <- MCTypesOf
    MaxAdds = 3
    None = None
SPECIFICATION Spec
INVARIANTS
    TypeOK
    OwnerLookupFindsFirst
    AllListenersComplete
