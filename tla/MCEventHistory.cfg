CONSTANTS
    Rows = {1,2,3,4,5,6,7,8,9,10,11,12}
    Horizon = 4
    Occurrences <- Life
SPECIFICATION Spec
INVARIANTS StageIsMeaning
PROPERTIES ForwardOnly LostIsLeftByAnInbound
CHECK_DEADLOCK FALSE
