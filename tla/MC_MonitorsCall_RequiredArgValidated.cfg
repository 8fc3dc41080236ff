CONSTANTS
    Operations <- MCOperations
    Statuses <- MCStatuses
    Bodies <- MCBodies
SPECIFICATION Spec
INVARIANT RequiredArgValidated
