CONSTANTS
    Operations <- MCOperations
    Statuses <- MCStatuses
    Bodies <- MCBodies
SPECIFICATION Spec
INVARIANTS
    TypeOK
    CanceledCallYieldsNoResult
    HTTPErrorKeepsStatusAndBody
    StructuredErrorMatchesStatus
    SuccessOnlyFor2xx
    SentIffNetworkOutcome

PROPERTIES
    CanceledCallReturns
    ImplementsContract
