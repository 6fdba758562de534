SPECIFICATION Spec
CONSTANTS
    sheet = sheet
    modal = modal
    Overlays = {sheet, modal}
    Stubborn = {modal}
    MaxActs = 10
    MaxTraversals = 3
CHECK_DEADLOCK FALSE
INVARIANTS TypeOK EntriesFollowLevels
PROPERTIES  NoOrphanedEntry
