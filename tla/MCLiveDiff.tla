------------------------------ MODULE MCLiveDiff ------------------------------
EXTENDS LiveDiff

CONSTANTS W1, W2

R(i, h) == [id |-> i, hash |-> h]

MCInputs == {<<>>,
             <<R(3, "x"), R(2, "x")>>,
             <<R(3, "x"), R(1, "x"), R(2, "y")>>,
             <<R(2, "x"), R(1, "y"), R(4, "x"), R(3, "y"), R(5, "x")>>}
MCStoredRefs == {<<>>, <<R(1, "x"), R(2, "x"), R(4, "x")>>, <<R(2, "y"), R(3, "x")>>}
MCWants == [type : {"added", "removed", "modified"}, offset : {-1, 1}, limit : {0, 1}]
=============================================================================
