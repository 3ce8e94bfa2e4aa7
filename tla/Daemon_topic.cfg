SPECIFICATION Spec
\* A program ends, by itself or by an assertion.
CHECK_DEADLOCK FALSE
CONSTANTS
    Words = {"-t", "-v", "--verbosity", "-s", "-h", "dark", "4x", "blocking", "wrong"}
    MaxWords = 4
    Numerals <- MCNumerals
    Null = Null
    Inputs <- MCInputs
    Foreign <- MCForeign
    MaxMessages = 3
    MaxOutbox = 1
    Sasl = {"mechanism", "protocol", "username", "password"}
INVARIANTS
    SubTypeOK
    SettingsAsAsked
    ReceivedInOrder
    UsesLive
PROPERTIES
    DestructorEnds
    Delivered
