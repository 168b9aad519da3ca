SPECIFICATION FairSpec
CONSTANTS
    Devices = {a, b}
    Static = {a}
    Secured = {b}
PROPERTIES
    ChosenForAReason
    
