CONSTANTS
    Top = 7
    InitRegions = 2
    WordSize = 16
    Asked <- AskedPages
    Abutting = FALSE
SPECIFICATION MemblockSpec
INVARIANTS TablesCanonical SearchExact
 
CHECK_DEADLOCK FALSE
