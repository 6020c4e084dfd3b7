--------------------------- MODULE MCOnlineAudit ---------------------------
EXTENDS OnlineAudit, TLC

ItemSymmetry == Permutations(Items)

\* An attachment, other bytes under its key, and a second attachment.
a1 == [id |-> <<"attachment", "k1">>, bytes |-> "b1"]
a2 == [id |-> <<"attachment", "k1">>, bytes |-> "b2"]
c1 == [id |-> <<"attachment", "k2">>, bytes |-> "b1"]

SomeIdentities == {a1.id, c1.id}
SomeCaptures == {{a1}, {a2}, {a1, c1}}
TwoCaptures == {{a1}, {a1, c1}}
=============================================================================
