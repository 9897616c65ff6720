SPECIFICATION FairSpec
CONSTANTS
    Rounds = 4
    DomainOf <- MCDomainOf
    Headers <- MCHeaders
INVARIANTS AnswersItsDomain CleanUpIsAnswered
PROPERTIES CleanUpReturns Served
