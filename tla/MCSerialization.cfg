SPECIFICATION SerialSpec
CONSTANTS
    InitialSize = 3
    Values = {"Point2", "Box2", "u", "v"}
    Junk = junk
    Types <- MCTypes
    FieldsOf <- MCFieldsOf
    Plain = {"u"}
    Storable <- MCObjects
INVARIANTS
    ReadsBack
    NothingBeyondLimit
PROPERTIES
    Serialized
