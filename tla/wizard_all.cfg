CONSTANTS
    c1 = c1
    c2 = c2
    b1 = b1
    b2 = b2
    w1 = w1
    w2 = w2
    Code = {c1, c2}
    Dictionary = {c2}
    Batch = {b1, b2}
    CodeOf <- MC_CodeOf
    Place = {w1, w2}
    PlaceOf <- MC_PlaceOf
    Default = w1
    Ann = Ann
    New = New
    None = None
    Flows = {"sale", "receipt", "writeoff", "correction", "transfer"}
    Devices = {"desk", "phone"}
    Dates = {"past", "future"}
    MaxHeld = 1
    MaxLines = 2
    MaxShort = 1
SPECIFICATION WizardSpec
PROPERTIES EnteredStored BatchesRespected
CHECK_DEADLOCK FALSE
