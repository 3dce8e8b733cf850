\* Three of four modules fit; three items; pages of two words.
SPECIFICATION Spec
CONSTANTS
    Modules <- Lists
    NameSize = 6
    ListSize = 3
    ConfName <- ConfPath
    High = 100
    IndexSize = 3
    Ask <- Names
    Bits = 8
    DefaultBase = 2
    DefaultStack = 14
    PageSize = 2
    Page <- Pages
    PinionPage <- PinionPages
    NONE = none
INVARIANTS RightObjects ConfigSafe CursorInText ParsedAsMeant LookupExact PtrExact
           LoadsSafely ImageAsLinked
PROPERTY BootDecides
CHECK_DEADLOCK FALSE
