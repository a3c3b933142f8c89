SPECIFICATION Spec
CONSTANTS
    ScriptDocs <- MCScriptDocs
    LibraryDocs <- MCLibraryDocs
    LibraryNames <- MCLibraryNames
    Sources <- MCSources
    MaxCalls = 2
    Malformed <- MCMalformed
    Bare <- MCBare
    CompounddefOf <- MCCompounddefOf
    CompoundsOf <- MCCompoundsOf
    Description <- MCDescription
INVARIANTS
    AbortsExactly
    OutputComplete
    CachesFresh
    SharedByRefid
    MembersOfFile
    CopySaysTheSame
PROPERTY
    ReadOnce
CHECK_DEADLOCK FALSE
