SPECIFICATION Spec

CONSTANTS
    ThreadChoices = {TRUE, FALSE}
    MaxEvents = 2
    MaxActions = 1
    MaxGames = 2
    NoSave = NoSave

CHECK_DEADLOCK FALSE

INVARIANTS
    EventsArrive
