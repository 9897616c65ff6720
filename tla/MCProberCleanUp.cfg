SPECIFICATION Spec
CONSTANTS
    a1 = a1
    a2 = a2
    a3 = a3
    Authorizations <- TwoAuthz
    Offers <- WildcardOrNot
INVARIANT CleanUpOnlyAfterPresent
