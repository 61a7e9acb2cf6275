SPECIFICATION PaperSpec
CONSTANTS
    Ms = {1, 2}
PROPERTY PaperCatchesUp
CHECK_DEADLOCK FALSE
