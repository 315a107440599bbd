SPECIFICATION WireSpec
CONSTANTS
    MaxArray = 128
    Samples <- AllSamples
    MaxArgs = 2
    MaxMessage = 300
    Serials = {0, 258}
    Tests <- MessageTests
    Described <- MCDescribed
    Documents <- MCReadDocuments
    Dotted <- MCDotted
    TypeOf <- CppTypeOf
CHECK_DEADLOCK FALSE
INVARIANTS
    BodyFollowsTheSpecification
    ReadBack
    HeadersSurvive
    VariantsGiveTheirValue
    ProxiesFitTheObject
    MembersStayHome
