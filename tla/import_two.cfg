\* Two imports into one price history at the same time.
SPECIFICATION ImportSpec
CONSTANTS
    Listed = {a}
    OffList = {o}
    HandMade = {h}
    Issue = {1, 2}
    Desk = {d1, d2}
    Host = {host}
    Together = 2
PROPERTIES NeverPoorer
