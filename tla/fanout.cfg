SPECIFICATION MCSpec
CONSTANTS
    Sessions = {1, 2}
    Cells = {0, 1}
    Radius = 0
    MaxNetID = 2
    Capacity = 2
    MaxIncidents = 2
    MaxMoves = 3
    MaxDeaths = 1
    MaxLost = 1

    
    
PROPERTIES
    ControlsAnswered
CHECK_DEADLOCK FALSE
