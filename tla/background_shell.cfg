SPECIFICATION Spec
CONSTANTS
    Loop = loop
    Others = {shell}
    Futures = {f1}
CHECK_DEADLOCK FALSE
PROPERTY CallReturns
