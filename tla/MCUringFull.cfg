SPECIFICATION UringSpec
CONSTANTS
 UringCap = 2
 SqEntries = 2
 ReadBuf = 2
 UringMaxReq = 2
 Rings <- MCRings
INVARIANT AcceptStaysArmed
CHECK_DEADLOCK FALSE
