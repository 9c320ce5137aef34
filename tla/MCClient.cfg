SPECIFICATION Spec
CONSTANTS
    AccountRead = FALSE
    s1 = s1
    s2 = s2
    mk = mk
    h1 = h1
    h2 = h2
    Symbol = {s1, s2}
    Market = {mk}
    Header = {h1, h2}
    Offers <- MCOffers
INVARIANTS TypeOK FailClosed DatasetIsWhole
PROPERTIES OutageHeals RestartHeals
