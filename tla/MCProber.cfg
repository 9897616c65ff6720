SPECIFICATION FairSpec
CONSTANTS
    a1 = a1
    a2 = a2
    a3 = a3
    Authorizations <- ThreeAuthz
    Offers <- WildcardOrNot
INVARIANTS TypeOK ServedWhileNeeded ServedAlone
PROPERTIES ImplementsContract SolveReturns
