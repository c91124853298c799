SPECIFICATION Spec
CONSTANTS
    Nodes = {n1, n2}
    Namespaces = {ns}
    Mixed = TRUE
    NoName = NoName
    NoPpr = NoPpr
PROPERTY
    LastSeenPprIsAnswered
