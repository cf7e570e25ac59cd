SPECIFICATION Spec
CONSTANTS
    Sizes = {0, 3}
    MaximumWindow = 2
    MaxLinks = 3
INVARIANTS HostHoldsPrefix WholeFileOnSuccess
PROPERTIES PartialIsRemoved CopySucceeds
CHECK_DEADLOCK FALSE
