\* The file is exported from a machine whose history lacks the points.
SPECIFICATION ImportSpec
CONSTANTS
    Listed = {a}
    OffList = {o}
    HandMade = {h}
    Issue = {1, 2}
    Desk = {desk}
    Host = {host}
    Together = 1
PROPERTIES FileNeverPoorer
