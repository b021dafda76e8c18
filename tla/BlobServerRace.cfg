CONSTANTS
    Client = {c1, c2, c3}
    Data = {d1, d2}
    NoBlob = noblob
    MaxVersion = 2

SPECIFICATION Spec

PROPERTIES AcceptedOnlyOnMatchingBase
