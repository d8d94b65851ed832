SPECIFICATION Spec
CONSTANTS
    Nodes = {n1, n2}
    Workers = {w1}
    None = None
    MaxEpoch = 2
    MaxGen = 1
    Kinds = {"crash", "drain", "redis", "lapse", "fail"}
    MaxFaults = 1
SYMMETRY Symmetry
PROPERTIES
    AcceptedInOrder
