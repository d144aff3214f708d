------------------------ MODULE MCListenerCollection ------------------------
EXTENDS ListenerCollection

CONSTANTS manager, configdb, lA, lB, LISTENER, LOGLISTENER, tX, tY

MCOwners    == {manager, configdb}
MCListeners == {lA, lB}
MCTags      == {LISTENER, LOGLISTENER}
MCTypes     == {tX, tY}

\* lA handles tX; lB handles tX and tY, so a lookup of tX has two answers.
MCTypesOf == (lA :> {tX}) @@ (lB :> {tX, tY})
=============================================================================
