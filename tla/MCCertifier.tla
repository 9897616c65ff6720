---------------------------- MODULE MCCertifier ----------------------------
EXTENDS Certifier

CONSTANTS d1, d2, d3, u1, u2, u3

TwoDomains == {<< >>, <<d1>>, <<d1, d2>>}
ThreeDomains == {<< >>, <<d1, d2>>, <<d1, d2, d3>>}
AllEncodable == {d1, d2, d3}
OneEncodable == {d1}
TwoURLs == <<u1, u2>>
ThreeURLs == <<u1, u2, u3>>
OneChain == {<<"plain">>}
ManyChains == {<<"plain">>, <<"bare">>, <<"plain", "preferred">>,
               <<"preferred", "plain">>, <<"plain", "preferred", "preferred">>}
============================================================================
