\* The shell and a thread of the application on two keys; a volume operation that
\* fails or a power failure.
CONSTANTS
    t1 = t1
    t2 = t2
    on = on
    zero = zero
    one = one
    byte = byte
    None = None
    Absent = Absent
    NotFound = NotFound
    NoBytes = NoBytes
    Threads = {t1, t2}
    Shell = t1
    Keys = {1, 2}
    Texts = {on, zero, one}
    NumberOf <- Number
    TextOf <- Text
    BlobOf <- Blob
    Enums <- Enum
    Asked = {65530}
    MaxAccidents = 1
SPECIFICATION Spec
INVARIANTS TypeOK ScratchIsOwn WellTyped StrvalRoundTrip EnumerationComplete StepsGoRound
PROPERTIES StrvalKeepsType
