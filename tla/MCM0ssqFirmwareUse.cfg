SPECIFICATION FirmwareSpec
INVARIANTS
    LinkscanKeepsFirmware
CHECK_DEADLOCK FALSE
