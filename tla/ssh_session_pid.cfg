SPECIFICATION Spec
CONSTANTS ExitCodes = {0, 3} Signals = {15}
PROPERTY NoStrangerSignalled
