------------------------------ MODULE MCClient ------------------------------
EXTENDS Client

CONSTANTS ann, ben, k1, k2

\* One user signs and refreshes without, another signs.
MCAsks ==
    {[user |-> ann, signs |-> TRUE], [user |-> ann, signs |-> FALSE],
     [user |-> ben, signs |-> TRUE]}
=============================================================================
