SPECIFICATION Spec
CONSTANTS ExitCodes = {0, 3} Signals = {15}
INVARIANTS NoResizeAfterClose CleanAtRelease StatusFaithful
PROPERTY DisconnectFreesSlot
