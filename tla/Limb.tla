-------------------------------- MODULE Limb --------------------------------
(***************************************************************************)
(* The limb arithmetic of mini-gmp.c: the macros on one and two limbs and  *)
(* the reciprocals that division multiplies by.  A limb has LimbBits bits; *)
(* the C code takes the width from sizeof (mp_limb_t) and nothing in it    *)
(* depends on the number but on its being even, so a narrow limb shows     *)
(* every carry and every adjustment.  Two limbs are a pair <<high, low>>.  *)
(***************************************************************************)
EXTENDS Integers, FiniteSets, FiniteSetsExt

LOCAL INSTANCE Bitwise

CONSTANT LimbBits      \* GMP_LIMB_BITS

ASSUME LimbAssumption == LimbBits \in Nat \ {0} /\ LimbBits % 2 = 0

B == 2 ^ LimbBits                \* one more than GMP_LIMB_MAX

HighBit == B \div 2              \* GMP_LIMB_HIGHBIT

Hb == 2 ^ (LimbBits \div 2)       \* GMP_HLIMB_BIT; the mask of the low half is Hb - 1

Limb == 0 .. B - 1

\* The halves of a limb.
Lo(x) == x % Hb

Hi(x) == x \div Hb

\* Unsigned arithmetic wraps around.
W(x) == x % B

\* F(x), where x is evaluated first.
Then(x, F(_)) == CHOOSE r \in {F(y) : y \in {x}} : TRUE

\* A C comparison used as a number.
Bit(c) == IF c THEN 1 ELSE 0

\* The bits that are set in x.
Ones(x) == {i \in 0 .. LimbBits - 1 : (x \div 2 ^ i) % 2 = 1}

\* The bitwise operators on limbs, as tables.
AndL == [x \in Limb |-> [y \in Limb |-> CHOOSE z \in Limb : Ones(z) = Ones(x) \cap Ones(y)]]

OrL == [x \in Limb |-> [y \in Limb |-> x + y - AndL[x][y]]]

XorL == [x \in Limb |-> [y \in Limb |-> x + y - 2 * AndL[x][y]]]

Com(x) == B - 1 - x

\* C's -x of an unsigned limb.
Neg(x) == (B - x) % B

\* x << n and x >> n, for 0 <= n < LimbBits.
Shl(x, n) == (x * 2 ^ n) % B

Shr(x, n) == x \div 2 ^ n

\* Number of leading and of trailing zero bits of x > 0.
gmp_clz(x) == CHOOSE c \in 0 .. LimbBits - 1 : HighBit <= x * 2 ^ c /\ x * 2 ^ c < B

gmp_ctz(x) == LimbBits - 1 - gmp_clz(AndL[x][Neg(x)])

gmp_add_ssaaaa(a, c) ==
  Then(W(a[2] + c[2]), LAMBDA x : <<W(a[1] + c[1] + Bit(x < a[2])), x>>)

gmp_sub_ddmmss(a, c) ==
  <<W((a[1] - c[1]) - Bit(a[2] < c[2])), W(a[2] - c[2])>>

\* The double product of two limbs, from half-limb products.
gmp_umul_ppmm(u, v) ==
  Then(Lo(u) * Lo(v), LAMBDA x0 :
  Then(Hi(u) * Lo(v), LAMBDA x2 :
  Then(W(Lo(u) * Hi(v) + Hi(x0) + x2), LAMBDA x1 :
    <<W(Hi(u) * Hi(v) + (IF x1 < x2 THEN Hb ELSE 0) + Hi(x1)), W(W(x1 * Hb) + Lo(x0))>>)))

\* Quotient and remainder of <<nh, nl>> by d, where di is the reciprocal of d.
gmp_udiv_qrnnd_preinv(nh, nl, d, di) ==
  Then(gmp_add_ssaaaa(gmp_umul_ppmm(nh, di), <<W(nh + 1), nl>>), LAMBDA p :
  Then(W(nl - p[1] * d), LAMBDA r0 :
  Then(IF r0 > p[2] THEN W(r0 + d) ELSE r0, LAMBDA r1 :
    [q |-> W(p[1] - Bit(r0 > p[2]) + Bit(r1 >= d)), r |-> IF r1 >= d THEN r1 - d ELSE r1])))

\* Quotient and two-limb remainder of <<n2, n1, n0>> by <<d1, d0>>.
gmp_udiv_qr_3by2(n2, n1, n0, d1, d0, dinv) ==
  Then(gmp_add_ssaaaa(gmp_umul_ppmm(n2, dinv), <<n2, n1>>), LAMBDA p :
  Then(gmp_sub_ddmmss(<<W(n1 - d1 * p[1]), n0>>, <<d1, d0>>), LAMBDA ra :
  Then(gmp_sub_ddmmss(ra, gmp_umul_ppmm(d0, p[1])), LAMBDA rb :
  Then(IF rb[1] >= p[2] THEN gmp_add_ssaaaa(rb, <<d1, d0>>) ELSE rb, LAMBDA rc :
    LET up == rc[1] > d1 \/ (rc[1] = d1 /\ rc[2] >= d0)
    IN [q |-> W(p[1] + 1 - Bit(rb[1] >= p[2]) + Bit(up)),
        r |-> IF up THEN gmp_sub_ddmmss(rc, <<d1, d0>>) ELSE rc]))))

-----------------------------------------------------------------------------
(***************************************************************************)
(* mpn_invert_3by2 in its three stages: the high half of the quotient, the *)
(* low half, and the correction for the second divisor limb.               *)
(***************************************************************************)
\* Half-limb reciprocal of u1, adjusted at most twice.
InvertHigh(u1) ==
  Then(Com(u1) \div Hi(u1), LAMBDA q0 :
  Then(q0 * Lo(u1), LAMBDA p :
  Then(W((Com(u1) - q0 * Hi(u1)) * Hb) + Hb - 1, LAMBDA r0 :
  Then(W(r0 + u1), LAMBDA r1 :
    LET twice == r0 < p /\ r1 >= u1 /\ r1 < p
        r == CASE twice -> W(r1 + u1) [] r0 < p /\ ~twice -> r1 [] r0 >= p -> r0
    IN [q |-> q0 - Bit(r0 < p) - Bit(twice), r |-> W(r - p)]))))

\* The 2/1 reciprocal of u1 and the remainder that belongs to it.
InvertLimb(u1) ==
  Then(InvertHigh(u1), LAMBDA h :
  Then(W(Hi(h.r) * h.q + h.r), LAMBDA p :
  Then(W(W(h.r * Hb) + Hb - 1 - (Hi(p) + 1) * u1), LAMBDA r0 :
  Then(r0 >= W(p * Hb), LAMBDA dn :
  Then(W(r0 + (IF dn THEN u1 ELSE 0)), LAMBDA r1 :
    [m |-> W(W(h.q * Hb + Hi(p) + 1 - Bit(dn)) + Bit(r1 >= u1)),
     r |-> IF r1 >= u1 THEN r1 - u1 ELSE r1])))))

mpn_invert_3by2(u1, u0) ==
  Then(InvertLimb(u1), LAMBDA i :
    IF u0 = 0 THEN i.m
    ELSE Then(W(Com(i.r) + u0), LAMBDA r0 :
         Then(Bit(r0 < u0) + Bit(r0 < u0 /\ r0 >= u1), LAMBDA down :
         Then(W(i.m - down), LAMBDA m0 :
         Then(gmp_umul_ppmm(u0, m0), LAMBDA t :
         Then(W(r0 - down * u1 + t[1]), LAMBDA r2 :
           W(m0 - Bit(r2 < t[1])
                - Bit(r2 < t[1] /\ (r2 > u1 \/ (r2 = u1 /\ t[2] > u0))))))))))

mpn_invert_limb(x) == mpn_invert_3by2(x, 0)

\* Sixteen bits at a time: sums of neighbouring bits, pairs, nibbles, bytes.
popcount16(x) ==
  Then(((x \div 2) & 21845) + (x & 21845), LAMBDA w1 :
  Then(((w1 \div 4) & 13107) + (w1 & 13107), LAMBDA w2 :
  Then(((w2 \div 16) & 3855) + (w2 & 3855), LAMBDA w3 :
    w3 \div 256 + (w3 & 255))))

gmp_popcount_limb(x) ==
  LET c[y \in 0 .. x] == IF y = 0 THEN 0 ELSE popcount16(y % 65536) + c[y \div 65536]
  IN c[x]

\* Greatest common divisor of two limbs, not both zero, by shifts and subtraction.
mpn_gcd_11(u, v) ==
  LET Odd[x \in 1 .. B] == IF x % 2 = 1 THEN x ELSE Odd[x \div 2]
      G[x \in 1 .. B, y \in 1 .. B] ==
        CASE x = y -> x [] x > y -> G[Odd[x - y], y] [] x < y -> G[x, Odd[y - x]]
  IN CASE u = 0 -> v
       [] v = 0 /\ u # 0 -> u
       [] OTHER -> Then(gmp_ctz(OrL[u][v]), LAMBDA s :
                   Then(Shr(u, s), LAMBDA x :
                   Then(Shr(v, s), LAMBDA y :
                     Shl(IF x % 2 = 0 THEN G[y, Odd[x]] ELSE G[x, Odd[y]], s))))

=============================================================================
