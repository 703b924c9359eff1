CONSTANTS
    MaxEvents = 3
    MaxFailures = 2
SPECIFICATION Spec
INVARIANTS
    OneGoesOn
    WholeEventsAreHeard
PROPERTIES
    StreamIsAskedForAgain
    IsEventStream
