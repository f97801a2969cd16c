---------------------------- MODULE MCJSONCache ----------------------------
EXTENDS JSONCache

CONSTANTS s1, s2, c1, c2

TwoSetters == {s1, s2}
TwoClients == {c1, c2}
=============================================================================
