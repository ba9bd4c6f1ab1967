SPECIFICATION Spec
CONSTANTS
    a = a
    b = b
    Clients = {a, b}
    Subject = a
    ClientOf <- MCClientOf
    k1 = k1
    h1 = h1
    h2 = h2
    d1 = d1
    c1 = c1
    o1 = o1
    o2 = o2
    w1 = w1
    w2 = w2
    Holders = {h1, h2, k1}
    Shares = {60}
    Documents = {d1}
    Required = {d1}
    Controllers = {c1}
    Operations = {o1, o2}
    Amounts = {6, 10}
    IdThreshold = 10
    NoticeThreshold = 12
    Workers = {w1, w2}
    Inputs <- MCInputs
    NoParent = NoParent
    Keep = Keep
SYMMETRY Symmetry
VIEW Seen
CONSTRAINT Apart
INVARIANTS
    OwnershipCap
    LevelsAsCreated
    
