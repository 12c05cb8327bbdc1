------------------------- MODULE MCConnectionTable -------------------------
EXTENDS ConnectionTable

CONSTANTS i1, i2, i3, p1, p2, p3, u1

MCIds == {i1, i2, i3}
MCPairs == {p1, p2, p3}
MCNameBytes == 0 .. 2
MCUserNames == {u1}

=============================================================================
