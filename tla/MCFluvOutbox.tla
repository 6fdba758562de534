---------------------------- MODULE MCFluvOutbox ----------------------------
\* FluvOutbox for TLC: the requests in progress are interchangeable, and so are
\* the accounts a purchase is not filed in by default.
EXTENDS FluvOutbox, TLC

Symmetry == Permutations(Jobs) \cup Permutations(Users)
=============================================================================
