SPECIFICATION Spec
CONSTANTS
    Words <- AllWords
    Mojibake <- TheMojibake
    Escapes <- TheEscapes
    BadEscapes = {}
    Documents <- AllDocuments
    Numbers <- TheNumbers
    Versions <- TheVersions
    Digits <- TheDigits
    Mentioned <- TheMentioned
    Identifiers <- TheIdentifiers
    KeyValues <- TheKeyValues
    Files <- TheFiles
    Parents <- TheParents
    CppFiles <- TheCppFiles
    Environments <- TheEnvironments
INVARIANT TypeOK
INVARIANT ReadsAsMeant
INVARIANT MissingDelimiterIsAnError
INVARIANT VersionsCompare
INVARIANT NearbyGodotIsFound
INVARIANT DoctorGatesTheBuild
INVARIANT NoSourceIsLost
