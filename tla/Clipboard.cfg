SPECIFICATION Spec
CONSTANTS
    Client = {c1, c2}
    NoClient = NoClient
    Text = {a, b}
    Broken = {b}
    Property = {clip, other}
    TextClipboard = clip
    Absent = Absent
    Empty = Empty
    Cancelled = Cancelled
    Offer <- MCOffer
    Capability <- MCCapability
    MaxChanges = 1
    MaxLen = 1
    MaxWire = 2
SYMMETRY Symmetry
CHECK_DEADLOCK FALSE
INVARIANTS GetIsLatest PasteIsLatest DeafOnlyIfRefused ClipboardReady CursorReaches NoGhostRepeats
 
