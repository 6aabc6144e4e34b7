SPECIFICATION WorkersSpec
CONSTANTS
 RxCap = 3
 TxCap = 5
 AppCap = 2
 MaxEarly = 1
 Lifetime = 1
 Tickets = 1
 Ios = {"kernel", "packet"}
 Table <- MCTable
 Clients = {1, 2}
 Plans <- MCPlans
 PlainCap = 2
 AnswerRecs = 2
 Hints = TRUE
 MaxReqs = 3
 IdleAge = 0
 PartAge = 0
 Quitters = {1}
 UringCap = 2
 SqEntries = 5
 ReadBuf = 2
 UringMaxReq = 2
 Rings <- MCRings
INVARIANTS WorkersTypeOK  NoncesInStep EarlyDataOnce
 OneOpEach UringAnswersInOrder
PROPERTIES TlsConnectionsEnd GivesUpForAReason UringServes
CHECK_DEADLOCK FALSE
