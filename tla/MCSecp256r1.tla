---------------------------- MODULE MCSecp256r1 ------------------------------
\* The curve y^2 = x^3 - 3x + 15 over 23 elements, of order 17.
EXTENDS Secp256r1

\* Every public key, every r and s from 1 to just above the order.
MCScalars == 1..nn+1
=============================================================================
