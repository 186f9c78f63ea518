CONSTANTS
    MaxPage = 2
    Data = {a}
    Zero = Zero
    Torn = Torn
    MaxFaults = 0
    MaxReopened = 1
SPECIFICATION FPSpec
PROPERTIES WrittenStaysReadable
CHECK_DEADLOCK FALSE
