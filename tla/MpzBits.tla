------------------------------ MODULE MpzBits -------------------------------
(***************************************************************************)
(* Bits of signed integers in mini-gmp.c.  Integers are stored as sign and *)
(* absolute value and seen as two's complement numbers, sign-extended      *)
(* without end; the conversion is made limb by limb, with a carry, while   *)
(* an operation runs.                                                      *)
(***************************************************************************)
EXTENDS MpzDiv

mpz_tstbit(s, d, bit) ==
  LET k == bit \div LimbBits
      w == Rd(s.m, D(d), k)
      b == Shr(w, bit % LimbBits) % 2
      below == w % 2 ^ (bit % LimbBits) # 0 \/ ~mpn_zero_p(s.m, D(d), k)
  IN CASE k >= Size(s, d) -> Bit(s.sz[d] < 0)
       [] k < Size(s, d) -> IF s.sz[d] < 0 /\ below THEN 1 - b ELSE b

\* Beyond the end the number grows, its new limbs are zero but the last.
mpz_abs_add_bit(s, d, bit) ==
  LET dn == Size(s, d)
      k  == bit \div LimbBits
      b  == 2 ^ (bit % LimbBits)
      neg == s.sz[d] < 0
  IN IF k >= dn
       THEN Then(MPZ_REALLOC(s, d, k + 1), LAMBDA t :
              SetSize([t EXCEPT !.m = mpn_zero(Wr(@, D(d), k, b), D(d) ++ dn, k - dn)],
                      d, Signed(neg, k + 1)))
       ELSE Then(mpn_add_1(s.m, D(d) ++ k, D(d) ++ k, dn - k, b), LAMBDA x :
              IF x.cy = 0 THEN SetSize([s EXCEPT !.m = x.m], d, Signed(neg, dn))
              ELSE Then(MPZ_REALLOC([s EXCEPT !.m = x.m], d, dn + 1), LAMBDA t :
                     SetSize([t EXCEPT !.m = Wr(@, D(d), dn, x.cy)], d, Signed(neg, dn + 1))))

mpz_abs_sub_bit(s, d, bit) ==
  LET dn == Size(s, d)
      k  == bit \div LimbBits
  IN Then(mpn_sub_1(s.m, D(d) ++ k, D(d) ++ k, dn - k, 2 ^ (bit % LimbBits)).m, LAMBDA m :
       SetSize([s EXCEPT !.m = m], d, Signed(s.sz[d] < 0, mpn_normalized_size(m, D(d), dn))))

mpz_setbit(s, d, bit) ==
  IF mpz_tstbit(s, d, bit) = 1 THEN s
  ELSE IF s.sz[d] >= 0 THEN mpz_abs_add_bit(s, d, bit) ELSE mpz_abs_sub_bit(s, d, bit)

mpz_clrbit(s, d, bit) ==
  IF mpz_tstbit(s, d, bit) = 0 THEN s
  ELSE IF s.sz[d] >= 0 THEN mpz_abs_sub_bit(s, d, bit) ELSE mpz_abs_add_bit(s, d, bit)

mpz_combit(s, d, bit) ==
  IF (mpz_tstbit(s, d, bit) = 1) # (s.sz[d] < 0) THEN mpz_abs_sub_bit(s, d, bit)
  ELSE mpz_abs_add_bit(s, d, bit)

mpz_com(s, r, u) == mpz_sub_ui(mpz_neg(s, r, u), r, r, 1)

\* Limb i of the two's complement of a number of which c is the sign, then the carry:
\* (p[i] ^ -c) + carry.
Twos(m, p, i, sign, carry) == W(XorL[Rd(m, p, i)][Neg(sign)] + carry)

\* The loops that mpz_and, mpz_ior and mpz_xor share: Op on the rn low limbs of u and v,
\* where v is the shorter one and is sign-extended, then the result's sign.
BitwiseLoop(s, r, u, v, un, vn, rn, Op, sign) ==
  LET uc == Bit(s.sz[u] < 0)
      vc == Bit(s.sz[v] < 0)
  IN Then(MPZ_REALLOC(s, r, rn + sign), LAMBDA t :
     Then(Iterate(rn, LAMBDA x, i :
            Then(Twos(x.m, D(u), i, uc, x.uc), LAMBDA ul :
            Then(IF i < vn THEN Twos(x.m, D(v), i, vc, x.vc) ELSE Neg(vc), LAMBDA vl :
            Then(W(XorL[Op[ul][vl]][Neg(sign)] + x.rc), LAMBDA rl :
              [m |-> Wr(x.m, D(r), i, rl), uc |-> Bit(ul < x.uc),
               vc |-> IF i < vn THEN Bit(vl < x.vc) ELSE x.vc, rc |-> Bit(rl < x.rc)]))),
            [m |-> t.m, uc |-> uc, vc |-> vc, rc |-> sign]), LAMBDA x :
       IF x.rc = 1 THEN SetSize([t EXCEPT !.m = Wr(x.m, D(r), rn, 1)], r, Signed(sign = 1, rn + 1))
       ELSE SetSize([t EXCEPT !.m = x.m], r, Signed(sign = 1, mpn_normalized_size(x.m, D(r), rn)))))

mpz_and(s, r, a, b) ==
  LET u == Longer(s, a, b)[1]  v == Longer(s, a, b)[2]
      un == Size(s, u)         vn == Size(s, v)
  IN IF vn = 0 THEN SetSize(s, r, 0)
     ELSE BitwiseLoop(s, r, u, v, un, vn, IF s.sz[v] < 0 THEN un ELSE vn, AndL,
                      Bit(s.sz[u] < 0 /\ s.sz[v] < 0))

mpz_ior(s, r, a, b) ==
  LET u == Longer(s, a, b)[1]  v == Longer(s, a, b)[2]
      un == Size(s, u)         vn == Size(s, v)
  IN IF vn = 0 THEN mpz_set(s, r, u)
     ELSE BitwiseLoop(s, r, u, v, un, vn, IF s.sz[v] < 0 THEN vn ELSE un, OrL,
                      Bit(s.sz[u] < 0 \/ s.sz[v] < 0))

mpz_xor(s, r, a, b) ==
  LET u == Longer(s, a, b)[1]  v == Longer(s, a, b)[2]
      un == Size(s, u)         vn == Size(s, v)
  IN IF vn = 0 THEN mpz_set(s, r, u)
     ELSE BitwiseLoop(s, r, u, v, un, vn, un, XorL, Bit(~SameSign(s, u, v)))

mpz_popcount(s, u) == IF s.sz[u] < 0 THEN NoBit ELSE mpn_popcount(s.m, D(u), s.sz[u])

mpz_hamdist(s, a, b) ==
  LET u == Longer(s, a, b)[1]  v == Longer(s, a, b)[2]
      neg == Bit(s.sz[u] < 0)
  IN IF ~SameSign(s, a, b) THEN NoBit
     ELSE Iterate(Size(s, u), LAMBDA x, i :
            Then(Twos(s.m, D(u), i, neg, x.uc), LAMBDA ul :
            Then(IF i < Size(s, v) THEN Twos(s.m, D(v), i, neg, x.vc) ELSE Neg(neg), LAMBDA vl :
              [uc |-> Bit(ul < x.uc), vc |-> IF i < Size(s, v) THEN Bit(vl < x.vc) ELSE x.vc,
               c |-> x.c + gmp_popcount_limb(XorL[ul][vl])])),
            [uc |-> neg, vc |-> neg, c |-> 0]).c

mpz_scan1(s, u, bit) ==
  LET us == s.sz[u]
      i  == bit \div LimbBits
      l0 == Rd(s.m, D(u), i)
      z  == Bit(mpn_zero_p(s.m, D(u), i))
      l1 == W(Com(l0) + z)
      Mask(l) == AndL[l][Shl(B - 1, bit % LimbBits)]
  IN CASE i >= Abs(us) -> IF us >= 0 THEN NoBit ELSE bit
       [] i < Abs(us) /\ bit = 0 -> mpn_common_scan(s.m, l0, 0, D(u), Abs(us), 0)
       [] i < Abs(us) /\ bit # 0 /\ us >= 0 -> mpn_common_scan(s.m, Mask(l0), i, D(u), us, 0)
       [] i < Abs(us) /\ bit # 0 /\ us < 0 ->
            mpn_common_scan(s.m, Mask(l1), i, D(u), -us, IF l1 >= z THEN B - 1 ELSE 0)

mpz_scan0(s, u, bit) ==
  LET us == s.sz[u]
      ux == IF us >= 0 THEN B - 1 ELSE 0
      i  == bit \div LimbBits
      l0 == XorL[Rd(s.m, D(u), i)][ux]
      l1 == IF ux = 0 THEN W(l0 - Bit(mpn_zero_p(s.m, D(u), i))) ELSE l0
  IN IF i >= Abs(us) THEN (IF us >= 0 THEN bit ELSE NoBit)
     ELSE mpn_common_scan(s.m, AndL[l1][Shl(B - 1, bit % LimbBits)], i, D(u), Abs(us), ux)

=============================================================================
