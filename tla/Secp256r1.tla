------------------------------ MODULE Secp256r1 ------------------------------
(***************************************************************************)
(* Signature verification in Solidity (Secp256r1.sol) on a curve            *)
(* y^2 = x^3 - 3x + b of prime order: the Jacobian arithmetic with its       *)
(* word-size additions and subtractions, the double-and-add loop one bit   *)
(* a step, and verify.  It is checked against the affine group law and     *)
(* against ECDSA as the precompile of op-geth computes it (Go's            *)
(* ecdsa.Verify, external).                                                *)
(***************************************************************************)
EXTENDS Integers

CONSTANTS
    pp, nn,         \* the field and the order of the curve, nn < pp
    b, gx, gy,      \* the curve and its generator
    Word,           \* 2^256: pp < Word < 2 pp, so a sum of two may wrap around
    PublicKeys, Rs, Ss, Hashes      \* the inputs of verify

Points == {P \in (0..pp-1) \X (0..pp-1) :
              (P[2] * P[2]) % pp = (P[1] * P[1] * P[1] + (pp - 3) * P[1] + b) % pp}

ASSUME CurveAssumption ==
    /\ {pp, nn, b, Word} \subseteq Nat
    /\ 3 < pp /\ pp < Word /\ Word < 2 * pp
    /\ 2 < nn /\ nn < pp
    /\ <<gx, gy>> \in Points
    /\ PublicKeys \subseteq Points
    /\ Rs \cup Ss \subseteq 1..Word-1   \* ECDSA takes r and s from 1 up
    /\ Hashes \subseteq 0..Word-1

VARIABLES
    X, Y, r, s, e,  \* verify's parameters
    B, acc, k,      \* scalarMultJacobian: (Bx, By, Bz), (x, y, z) and what is left of k
    u2, baseMult,   \* the second scalar, and the result of the first multiplication
    pc, valid

inputs == <<X, Y, r, s, e>>
vars == <<inputs, B, acc, k, u2, baseMult, pc, valid>>
-----------------------------------------------------------------------------
mulmod(x, y) == (x * y) % pp
addmod(x, y) == (x + y) % pp
add(x, y) == (x + y) % Word
sub(x, y) == (x - y) % Word

\* if lt(x, y) { x := add(pd, x) }, then sub(x, y).
SubRaw(x, y) == sub(x, y)                                           \* mutant
submod(x, y) == sub(IF x < y THEN add(pp, x) ELSE x, y)

\* The modexp precompile (external), and Fermat's inverse.
modexp(base, exp, mod) ==
    LET pow[n \in 0..exp] == IF n = 0 THEN 1 ELSE (pow[n - 1] * base) % mod
    IN  pow[exp]
primemod(value, p) == modexp(value, p - 2, p)

\* pp and nn are prime, and so Fermat's little theorem holds.
ASSUME FermatAssumption ==
    \A p \in {pp, nn} : \A v \in 1..p-1 : (v * primemod(v, p)) % p = 1

\* _jAdd: there is no case for equal points.
jAdd(P, Q) ==
    LET z1z1 == mulmod(P[3], P[3])
        z2z2 == mulmod(Q[3], Q[3])
        v1 == mulmod(P[1], z2z2)
        s1 == mulmod(P[2], mulmod(z2z2, Q[3]))
        s2 == mulmod(Q[2], mulmod(z1z1, P[3]))
        h == submod(mulmod(Q[1], z1z1), v1)
        i == mulmod(mulmod(2, h), mulmod(2, h))
        j == mulmod(h, i)
        rr == mulmod(2, submod(s2, s1))
        v == mulmod(v1, i)
        x3 == submod(mulmod(rr, rr), addmod(j, mulmod(2, v)))
        y3 == submod(mulmod(rr, submod(v, x3)), mulmod(mulmod(2, s1), j))
        zz == mulmod(addmod(P[3], Q[3]), addmod(P[3], Q[3]))
    IN  IF P[3] = 0 THEN Q
        ELSE IF Q[3] = 0 THEN P
        ELSE <<x3, y3, mulmod(submod(zz, addmod(z1z1, z2z2)), h)>>

modifiedJacobianDouble(P) ==
    LET z2 == mulmod(P[3], P[3])
        y2 == mulmod(P[2], P[2])
        ss == mulmod(4, mulmod(P[1], y2))
        m == addmod(mulmod(3, mulmod(P[1], P[1])), mulmod(pp - 3, mulmod(z2, z2)))
        x3 == submod(mulmod(m, m), mulmod(2, ss))
        y3 == submod(mulmod(m, submod(ss, x3)), mulmod(8, mulmod(y2, y2)))
    IN  <<x3, y3, mulmod(2, mulmod(P[2], P[3]))>>

affineFromJacobian(P) ==
    LET zinv == primemod(P[3], pp)
        zinvsq == mulmod(zinv, zinv)
    IN  IF P[3] = 0 THEN <<0, 0>>
        ELSE <<mulmod(P[1], zinvsq), mulmod(P[2], mulmod(zinvsq, zinv))>>
-----------------------------------------------------------------------------
Infinity == <<0, 0, 0>>

Init ==
    /\ \E key \in PublicKeys : X = key[1] /\ Y = key[2]
    /\ r \in Rs /\ s \in Ss /\ e \in Hashes
    /\ B = Infinity /\ acc = Infinity /\ baseMult = Infinity
    /\ k = 0 /\ u2 = 0
    /\ pc = "verify" /\ valid = FALSE

\* scalarMultJacobian, up to its loop.
StartMult(Bx, By, scalar) ==
    /\ B' = <<Bx, By, 1>>
    /\ acc' = Infinity
    /\ k' = scalar

OutOfRange == r >= nn \/ s >= nn

Refuse ==
    /\ pc = "verify"
    /\ OutOfRange
    /\ pc' = "done"
    /\ UNCHANGED <<inputs, B, acc, k, u2, baseMult, valid>>

\* The scalars of verify, then scalarBaseMultJacobian.
ScalarModField(x, w) == (x * w) % pp                                \* mutant
ScalarOf(x, w) == (x * w) % nn

Scalars ==
    LET w == primemod(s, nn)
    IN  /\ pc = "verify"
        /\ ~OutOfRange
        /\ StartMult(gx, gy, ScalarOf(e, w))
        /\ u2' = ScalarOf(r, w)
        /\ pc' = "base"
        /\ UNCHANGED <<inputs, baseMult, valid>>

\* The body of the loop: the lowest bit of k, a doubling, a shift.
DoubleFirst ==                                                      \* mutant
    LET twice == modifiedJacobianDouble(B)
    IN  B' = twice /\ acc' = IF k % 2 = 1 THEN jAdd(twice, acc) ELSE acc
AddAndDouble ==
    /\ acc' = IF k % 2 = 1 THEN jAdd(B, acc) ELSE acc
    /\ B' = modifiedJacobianDouble(B)

LoopBody ==
    /\ pc \in {"base", "key"}
    /\ k > 0
    /\ AddAndDouble
    /\ k' = k \div 2
    /\ UNCHANGED <<inputs, u2, baseMult, pc, valid>>

BaseDone ==
    /\ pc = "base" /\ k = 0
    /\ baseMult' = acc
    /\ StartMult(X, Y, u2)
    /\ pc' = "key"
    /\ UNCHANGED <<inputs, u2, valid>>

\* The end of scalarMultiplications, and x == r.
CompareY(P) == P[2] = r                                             \* mutant
CompareX(P) == P[1] = r

KeyDone ==
    /\ pc = "key" /\ k = 0
    /\ valid' = CompareX(affineFromJacobian(jAdd(baseMult, acc)))
    /\ pc' = "done"
    /\ UNCHANGED <<inputs, B, acc, k, u2, baseMult>>

Next == Refuse \/ Scalars \/ LoopBody \/ BaseDone \/ KeyDone

Spec == Init /\ [][Next]_vars
-----------------------------------------------------------------------------
\* The reference: the affine group law, with O for the point at infinity.
O == <<>>

Inverse(v, m) == CHOOSE w \in 1..m-1 : (v * w) % m = 1

AffineAdd(P, Q) ==
    IF P = O THEN Q
    ELSE IF Q = O THEN P
    ELSE IF P[1] = Q[1] /\ (P[2] + Q[2]) % pp = 0 THEN O
    ELSE LET slope == IF P = Q
                      THEN ((3 * P[1] * P[1] - 3) * Inverse((2 * P[2]) % pp, pp)) % pp
                      ELSE ((Q[2] - P[2]) * Inverse((Q[1] - P[1]) % pp, pp)) % pp
             x3 == (slope * slope - P[1] - Q[1]) % pp
         IN  <<x3, (slope * (P[1] - x3) - P[2]) % pp>>

Multiples == [P \in Points |->
    LET times[n \in 0..nn-1] == IF n = 0 THEN O ELSE AffineAdd(times[n - 1], P)
    IN  times]
Times(n, P) == IF P = O THEN O ELSE Multiples[P][n % nn]

\* The curve is a group, of order nn.
ASSUME GroupAssumption ==
    /\ \A P, Q \in Points \cup {O} : AffineAdd(P, Q) \in Points \cup {O}
    /\ \A P, Q, R \in Points \cup {O} :
           AffineAdd(AffineAdd(P, Q), R) = AffineAdd(P, AffineAdd(Q, R))
    /\ \A P \in Points : AffineAdd(Multiples[P][nn - 1], P) = O

\* The affine point of Jacobian coordinates.
Affine(P) ==
    IF P[3] = 0 THEN O
    ELSE LET zinv == Inverse(P[3], pp)
         IN  <<(P[1] * zinv * zinv) % pp, (((P[2] * zinv * zinv) % pp) * zinv) % pp>>

\* ECDSA: what secp256r1Verify answers on Pixel.
R1 == Times(e * Inverse(s, nn), <<gx, gy>>)
R2 == Times(r * Inverse(s, nn), <<X, Y>>)
EcdsaVerify ==
    /\ r < nn /\ s < nn
    /\ AffineAdd(R1, R2) # O
    /\ AffineAdd(R1, R2)[1] % nn = r
-----------------------------------------------------------------------------
\* Coordinates stay reduced, although the additions wrap around at Word.
TypeOK ==
    /\ {B[i] : i \in 1..3} \cup {acc[i] : i \in 1..3} \cup {baseMult[i] : i \in 1..3} \subseteq 0..pp-1
    /\ {k, u2} \subseteq 0..nn-1
    /\ pc \in {"verify", "base", "key", "done"}
    /\ valid \in BOOLEAN

\* The loop invariant of scalarMultJacobian, in terms of the affine group: what
\* is accumulated plus what is left of k times B is the product asked for.  It
\* holds although _jAdd cannot add a point to itself: k < nn keeps it from
\* being asked to.
LoopInvariant ==
    pc \in {"base", "key"} =>
        AffineAdd(Affine(acc), Times(k, Affine(B)))
            = (IF pc = "base" THEN R1 ELSE R2)

\* Only what ECDSA accepts is accepted, and so the Solidity verifier accepts
\* nothing on Goerli that the precompile refuses on Pixel.
AcceptedIsSigned == pc = "done" /\ valid => EcdsaVerify

\* What ECDSA accepts is accepted, with two exceptions that Secp256r1.sol has
\* and that are out of reach on the real curve: the two products are the same
\* point (which the last _jAdd cannot double), or the abscissa is at least nn
\* (it is compared with r without a reduction).
SignedIsAccepted ==
    pc = "done" /\ EcdsaVerify =>
        valid \/ R1 = R2 \/ AffineAdd(R1, R2)[1] >= nn
=============================================================================
