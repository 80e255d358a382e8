CONSTANT MaxLines = 5
SPECIFICATION FairSpec
INVARIANTS TypeOK ResponsesInOrder CallbackContract OnlyPipelinedWait HonoursConnectionHeader
 
CHECK_DEADLOCK FALSE
