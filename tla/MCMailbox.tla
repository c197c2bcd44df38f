----------------------------- MODULE MCMailbox ------------------------------
\* Mailbox for TLC: the host connections that append are interchangeable.
EXTENDS Mailbox, TLC

Symmetry == Permutations(Writer)
=============================================================================
