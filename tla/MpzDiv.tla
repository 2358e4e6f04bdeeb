------------------------------- MODULE MpzDiv -------------------------------
(***************************************************************************)
(* Division of signed integers in mini-gmp.c, with the three roundings, by *)
(* integers, limbs and powers of two.  A quotient or remainder that is not *)
(* wanted is the null pointer; D("NULL") is the null limb pointer.         *)
(***************************************************************************)
EXTENDS Mpz

Modes == {"floor", "ceil", "trunc"}     \* enum mpz_div_round_mode

\* if (o) s = F (s), for a pointer that may be null.
IfGiven(o, s, F(_)) == IF o = "NULL" THEN s ELSE F(s)

\* Rounding moves the quotient away from zero, for an operand of this sign.
Away(mode, neg) == mode = (IF neg THEN "floor" ELSE "ceil")

\* A zero dividend.
DivZero(s, q, r) ==
  IfGiven(r, IfGiven(q, s, LAMBDA x : SetSize(x, q, 0)), LAMBDA x : SetSize(x, r, 0))

\* nn < dn: the truncated quotient is zero.
DivSmall(s, q, r, n, d, mode) ==
  LET neg == ~SameSign(s, n, d)
  IN Then(IfGiven(r, s, LAMBDA x : CASE mode = "ceil" /\ ~neg -> mpz_sub(x, r, n, d)
                                     [] mode = "floor" /\ neg -> mpz_add(x, r, n, d)
                                     [] OTHER -> mpz_set(x, r, n)), LAMBDA t :
       IfGiven(q, t, LAMBDA x : mpz_set_si(x, q, CASE mode = "ceil" /\ ~neg -> 1
                                                   [] mode = "floor" /\ neg -> -1
                                                   [] OTHER -> 0)))

\* nn >= dn: quotient and remainder of the absolute values in tq and tr, with their signs.
DivTrunc(s, q, n, d) ==
  LET nn == Size(s, n)
      dn == Size(s, d)
  IN Then(mpz_init_set(s, "div_tr", n), LAMBDA s1 :
     Then(IfGiven(q, s1, LAMBDA x : mpz_init2(x, "div_tq", (nn - dn + 1) * LimbBits)), LAMBDA s2 :
     Then(mpn_div_qr(s2.m, IF q = "NULL" THEN NULL ELSE D("div_tq"), D("div_tr"), nn, D(d), dn), LAMBDA m1 :
     Then(SetSize([s2 EXCEPT !.m = m1], "div_tr",
                  Signed(s.sz[n] < 0, mpn_normalized_size(m1, D("div_tr"), dn))), LAMBDA s3 :
       IfGiven(q, s3, LAMBDA x :
         SetSize(x, "div_tq",
                 Signed(~SameSign(s, n, d), nn - dn + Bit(Rd(m1, D("div_tq"), nn - dn) # 0))))))))

\* The rounding, then the results.
DivRound(s, q, r, d, adjust, neg) ==
  Then(IfGiven(q, s, LAMBDA x : CASE ~adjust -> x
                                  [] adjust /\ neg -> mpz_sub_ui(x, "div_tq", "div_tq", 1)
                                  [] adjust /\ ~neg -> mpz_add_ui(x, "div_tq", "div_tq", 1)), LAMBDA s1 :
  Then(IfGiven(r, s1, LAMBDA x : CASE ~adjust -> x
                                   [] adjust /\ neg -> mpz_add(x, "div_tr", "div_tr", d)
                                   [] adjust /\ ~neg -> mpz_sub(x, "div_tr", "div_tr", d)), LAMBDA s2 :
  Then(IfGiven(q, s2, LAMBDA x : mpz_clear(mpz_swap(x, "div_tq", q), "div_tq")), LAMBDA s3 :
    mpz_clear(IfGiven(r, s3, LAMBDA x : mpz_swap(x, "div_tr", r)), "div_tr"))))

DivLarge(s, q, r, n, d, mode) ==
  LET neg == ~SameSign(s, n, d)
  IN Then(DivTrunc(s, q, n, d), LAMBDA t :
       LET rest == t.sz["div_tr"] # 0
       IN [s |-> DivRound(t, q, r, d, rest /\ Away(mode, neg), neg), ret |-> Bit(rest)])

\* For d # 0; the result tells whether there is a remainder.
mpz_div_qr(s, q, r, n, d, mode) ==
  CASE s.sz[n] = 0 -> [s |-> DivZero(s, q, r), ret |-> 0]
    [] s.sz[n] # 0 /\ Size(s, n) < Size(s, d) ->
         [s |-> DivSmall(s, q, r, n, d, mode), ret |-> 1]
    [] s.sz[n] # 0 /\ Size(s, n) >= Size(s, d) -> DivLarge(s, q, r, n, d, mode)

mpz_mod(s, r, n, d) ==
  mpz_div_qr(s, "NULL", r, n, d, IF s.sz[d] >= 0 THEN "floor" ELSE "ceil").s

mpz_divisible_p(s, n, d) == mpz_div_qr(s, "NULL", "NULL", n, d, "trunc").ret = 0

mpz_congruent_p(s, a, b, m) ==
  IF mpz_sgn(s, m) = 0 THEN mpz_cmp(s, a, b) = 0
  ELSE mpz_divisible_p(mpz_sub(mpz_init(s, "cong_t"), "cong_t", a, b), "cong_t", m)

-----------------------------------------------------------------------------
\* q receives the qn limbs of u above lc, shifted by k bits.
ShiftRight(s, q, u, lc, qn, k) ==
  Then(IF k # 0 THEN mpn_rshift(s.m, D(q), D(u) ++ lc, qn, k).m
       ELSE mpn_copyi(s.m, D(q), D(u) ++ lc, qn), LAMBDA m :
    SetSize([s EXCEPT !.m = m], q, qn - Bit(k # 0 /\ Rd(m, D(q), qn - 1) = 0)))

mpz_div_q_2exp(s, q, u, bits, mode) ==
  LET us == s.sz[u]
      lc == bits \div LimbBits
      k  == bits % LimbBits
      qn == Abs(us) - lc
      adjust == /\ Away(mode, us < 0)
                /\ \/ qn <= 0
                   \/ ~mpn_zero_p(s.m, D(u), lc)
                   \/ Rd(s.m, D(u), lc) % 2 ^ k # 0
  IN IF us = 0 THEN SetSize(s, q, 0)
     ELSE Then(adjust, LAMBDA up :
          Then(IF qn <= 0 THEN SetSize(s, q, 0) ELSE ShiftRight(MPZ_REALLOC(s, q, qn), q, u, lc, qn, k), LAMBDA s1 :
          Then(IF up THEN mpz_add_ui(s1, q, q, 1) ELSE s1, LAMBDA s2 :
            IF us < 0 THEN mpz_neg(s2, q, q) ELSE s2)))

mpz_div_r_2exp(s, r, u, bits, mode) ==
  LET us == s.sz[u]
      un == Abs(us)
      rn == (bits + LimbBits - 1) \div LimbBits
      mask == Shr(B - 1, rn * LimbBits - bits)
      away == Away(mode, us < 0)
      Copy(m, n) == IF r # u THEN mpn_copyi(m, D(r), D(u), n) ELSE m
      \* rn > un: the number itself, or its two's complement in bits bits
      Long(m) == IF ~away THEN Copy(m, un)
                 ELSE Wr(Iterate(rn - 1 - un, LAMBDA x, i : Wr(x, D(r), un + i, B - 1),
                                 mpn_neg(m, D(r), D(u), un).m), D(r), rn - 1, mask)
      \* rn <= un: the low bits, negated if need be
      Mask(m, p) == Wr(m, D(r), rn - 1, AndL[Rd(m, p, rn - 1)][mask])
      Short(m) == Then(Mask(Copy(m, rn - 1), D(u)), LAMBDA cut :
                    IF away THEN Mask(mpn_neg(cut, D(r), D(r), rn).m, D(r)) ELSE cut)
  IN IF us = 0 \/ bits = 0 THEN SetSize(s, r, 0)
     ELSE Then(MPZ_REALLOC(s, r, rn), LAMBDA t :
          Then(IF rn > un THEN Long(t.m) ELSE Short(t.m), LAMBDA m :
            SetSize([t EXCEPT !.m = m], r,
                    Signed((us < 0) # away,
                           mpn_normalized_size(m, D(r), IF rn > un /\ ~away THEN un ELSE rn)))))

\* Division by a limb d > 0; the result is the absolute value of the remainder.
mpz_div_qr_ui(s, q, r, n, d, mode) ==
  LET ns == s.sz[n]
      qn == Abs(ns)
  IN IF ns = 0 THEN [s |-> DivZero(s, q, r), ret |-> 0]
     ELSE Then(IfGiven(q, s, LAMBDA x : MPZ_REALLOC(x, q, qn)), LAMBDA s1 :
          Then(mpn_div_qr_1(s1.m, D(q), D(n), qn, d), LAMBDA x :
          Then(x.r > 0 /\ Away(mode, ns < 0), LAMBDA adjust :
          Then(IF adjust THEN d - x.r ELSE x.r, LAMBDA rl :
          Then(IF adjust /\ q # "NULL" THEN mpn_add_1(x.m, D(q), D(q), qn, 1).m ELSE x.m, LAMBDA m1 :
          Then(IfGiven(r, [s1 EXCEPT !.m = m1], LAMBDA y :
                 SetSize(SetLow(y, r, rl), r, Signed((ns < 0) # adjust, Bit(x.r > 0)))), LAMBDA s2 :
            [s |-> IfGiven(q, s2, LAMBDA y :
                     SetSize(y, q, Signed(ns < 0, qn - Bit(Rd(y.m, D(q), qn - 1) = 0)))),
             ret |-> rl]))))))

=============================================================================
