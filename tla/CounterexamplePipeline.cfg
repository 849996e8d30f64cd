CONSTANTS
    Jobs = {j1, j2}
    Graphs = {g1}
    NoGraph = NoGraph
    MaxInconclusive = 1
SPECIFICATION Spec
SYMMETRY JobSymmetry
INVARIANTS
    CertificatesAreBacked
PROPERTIES
    ImplementsCertification
