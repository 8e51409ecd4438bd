SPECIFICATION Spec
CONSTANTS
    Channel = {0, 14}
    Note = {7, 60}
    Controller = {7}
    Value = {1, 2}
    NONE = NONE
    MaxNotes = 2
    MaxEvents = 3
INVARIANTS
    TypeOK
    EventsInJournal
    NothingStale
    ReadsAsPacked
CHECK_DEADLOCK TRUE
