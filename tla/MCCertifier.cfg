SPECIFICATION FairSpec
CONSTANTS
    d1 = d1
    d2 = d2
    d3 = d3
    u1 = u1
    u2 = u2
    u3 = u3
    Requests <- ThreeDomains
    Encodable <- AllEncodable
    URLs <- ThreeURLs
    Policy = "one each"
    Chains <- ManyChains
INVARIANTS TypeOK NoGoroutineLeft FinalizedOnlyWhenValid FailureTidied CertificateAsAsked
PROPERTIES ImplementsObtain ObtainReturns
