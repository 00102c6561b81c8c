SPECIFICATION Spec
CONSTANTS
    Headers = {"x-apikey"}
    ContentTypes = {"json"}
    Bodies <- MCBodies
    Forms <- MCForms
    MaxHeaders = 1
    MaxCalls = 3
INVARIANTS TypeOK WireIsIntent NoDanglingUse NothingLeaked
CHECK_DEADLOCK FALSE
