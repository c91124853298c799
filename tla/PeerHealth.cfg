SPECIFICATION Spec
CONSTANTS
    Nodes = {n1, n2}
    Namespaces = {ns}
    Mixed = FALSE
    NoName = NoName
    NoPpr = NoPpr
PROPERTIES
    ReconciledPprIsAnswered
    UnhealthyIsReported
