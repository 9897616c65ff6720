SPECIFICATION Spec
CONSTANTS
    d1 = d1
    d2 = d2
    d3 = d3
    u1 = u1
    u2 = u2
    u3 = u3
    Requests <- TwoDomains
    Encodable <- AllEncodable
    URLs <- TwoURLs
    Policy = "none"
    Chains <- OneChain
INVARIANT CertificateUnlessError
