SPECIFICATION FirmwareSpec
INVARIANTS
    MarkedRuns
    LinkscanOwnsMbox
    LedStateKnown
CHECK_DEADLOCK FALSE
