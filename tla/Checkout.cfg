SPECIFICATION Spec
CONSTANTS
    MaxEdits = 1
    Names = {a, b}
    Contents = {c1, c2}
    Extensions = {x}
    MaxCommands = 3
    MaxChanges = 2
    a = a
    b = b
    c1 = c1
    c2 = c2
    x = x
SYMMETRY Symmetry
INVARIANT TypeOK
INVARIANT HostMatchesMode
INVARIANT OneTestLibrary
INVARIANT FreshFixtureIsComplete
INVARIANT GreenScaffoldIsWired
PROPERTY BackupComesFirst
PROPERTY UserFilesAreKept
