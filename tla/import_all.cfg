SPECIFICATION ImportSpec
CONSTANTS
    Listed = {a}
    OffList = {o}
    HandMade = {h}
    Issue = {1, 2}
    Desk = {desk}
    Host = {host}
    Together = 1
PROPERTIES WayBack HistoryKept FileGrows HandKept
