SPECIFICATION Spec
CONSTANTS
    m1 = m1
    m2 = m2
    b1 = b1
    s1 = s1
    s2 = s2
    Lots <- ReverseLot
    Offers <- ReverseOffers
    Bidders = {b1}
    Msgs = {m1, m2}
    Author <- MCAuthor
    Sessions = {s1, s2}
SYMMETRY Symmetry
INVARIANTS
    AcceptedIsStored
