------------------------------- MODULE MpnStr -------------------------------
(***************************************************************************)
(* Conversion between limbs and digits in mini-gmp.c.  Digits are numbers  *)
(* (mpz_get_str turns them into characters), most significant first, in a  *)
(* block of their own.  Bases that are powers of two move bits; for the    *)
(* others a limb's worth of digits, info.exp of them, is handled at once.  *)
(***************************************************************************)
EXTENDS MpnDiv

mpn_base_power_of_two_p(b) == IF \E k \in 1 .. 8 : b = 2 ^ k THEN CHOOSE k \in 1 .. 8 : b = 2 ^ k ELSE 0

\* The largest power of the base which fits in one limb.
mpn_get_base_info(b) ==
  LET e == Max({k \in 1 .. LimbBits : b ^ (k - 1) <= (B - 1) \div b}) IN [exp |-> e, bb |-> b ^ e]

mpn_limb_size_in_base_2(u) == LimbBits - gmp_clz(u)

\* The number of bits of a number of un limbs.
BitSize(m, up, un) == (un - 1) * LimbBits + mpn_limb_size_in_base_2(Rd(m, up, un - 1))

\* Faulty variant: the bits of a digit that straddles two limbs are not put together.
GetStrNoStraddle(m, sp, bits, up, un) ==
  LET sn == (BitSize(m, up, un) + bits - 1) \div bits
      t == Iterate(sn, LAMBDA t, k :
             LET sh == t.shift + bits IN
             [m |-> Wr(t.m, sp, sn - 1 - k, Shr(Rd(t.m, up, t.i), t.shift) % 2 ^ bits),
              i |-> IF sh >= LimbBits THEN t.i + 1 ELSE t.i,
              shift |-> IF sh >= LimbBits /\ t.i + 1 < un THEN sh - LimbBits ELSE sh],
             [m |-> m, i |-> 0, shift |-> 0])
  IN [m |-> t.m, sn |-> sn]

mpn_get_str_bits(m, sp, bits, up, un) ==
  Then((BitSize(m, up, un) + bits - 1) \div bits, LAMBDA sn :
  Then(Iterate(sn, LAMBDA t, k :
         LET sh == t.shift + bits
             next == sh >= LimbBits /\ t.i + 1 < un
             low == Shr(Rd(t.m, up, t.i), t.shift)
         IN Then(IF next THEN OrL[low][Shl(Rd(t.m, up, t.i + 1), bits - (sh - LimbBits))]
                 ELSE low, LAMBDA digit :
              [m |-> Wr(t.m, sp, sn - 1 - k, digit % 2 ^ bits),
               i |-> IF sh >= LimbBits THEN t.i + 1 ELSE t.i,
               shift |-> IF next THEN sh - LimbBits ELSE sh]),
         [m |-> m, i |-> 0, shift |-> 0]), LAMBDA t :
    [m |-> t.m, sn |-> sn]))

\* The digits of one limb, least significant first; LimbBits of them at most.
mpn_limb_get_str(m, sp, w, binv) ==
  Iterate(LimbBits, LAMBDA t, i :
    IF t.w = 0 THEN t
    ELSE Then(gmp_udiv_qrnnd_preinv(Shr(t.w, LimbBits - binv.shift), Shl(t.w, binv.shift),
                                    binv.d1, binv.di), LAMBDA d :
           [m |-> Wr(t.m, sp, t.sn, Shr(d.r, binv.shift)), w |-> d.q, sn |-> t.sn + 1]),
    [m |-> m, w |-> w, sn |-> 0])

\* The digits generated from the least significant end are reversed in place.
Reversed(m, sp, sn) ==
  Iterate(sn \div 2, LAMBDA t, i : Wr(Wr(t, sp, i, Rd(t, sp, sn - i - 1)),
                                      sp, sn - i - 1, Rd(t, sp, i)), m)

\* Destroys up.
mpn_get_str_other(m, sp, base, info, up, un) ==
  Then(mpn_div_qr_1_invert(base), LAMBDA binv :
  Then(mpn_div_qr_1_invert(info.bb), LAMBDA bbinv :
  Then(Iterate(un * LimbBits, LAMBDA t, i :
         IF t.un <= 1 THEN t
         ELSE Then(mpn_div_qr_1_preinv(t.m, up, up, t.un, bbinv), LAMBDA d :
              Then(mpn_limb_get_str(d.m, sp ++ t.sn, d.r, binv), LAMBDA g :
                [m |-> mpn_zero(g.m, sp ++ (t.sn + g.sn), info.exp - g.sn),
                 un |-> t.un - Bit(Rd(d.m, up, t.un - 1) = 0),
                 sn |-> t.sn + info.exp])),
         [m |-> m, un |-> un, sn |-> 0]), LAMBDA t :
  Then(mpn_limb_get_str(t.m, sp ++ t.sn, Rd(t.m, up, 0), binv), LAMBDA g :
    [m |-> Reversed(g.m, sp, t.sn + g.sn), sn |-> t.sn + g.sn]))))

mpn_get_str(m, sp, base, up, un) ==
  LET bits == mpn_base_power_of_two_p(base) IN
  IF bits > 0 THEN mpn_get_str_bits(m, sp, bits, up, un)
  ELSE mpn_get_str_other(m, sp, base, mpn_get_base_info(base), up, un)

-----------------------------------------------------------------------------
mpn_set_str_bits(m, rp, sp, sn, bits) ==
  Then(Iterate(sn, LAMBDA t, k :
         LET d == Rd(t.m, sp, sn - 1 - k)
             over == t.shift + bits - LimbBits
         IN IF t.shift = 0 THEN [m |-> Wr(t.m, rp, t.rn, d), rn |-> t.rn + 1, shift |-> bits]
            ELSE Then(Wr(t.m, rp, t.rn - 1, OrL[Rd(t.m, rp, t.rn - 1)][Shl(d, t.shift)]), LAMBDA m1 :
                   CASE over < 0 -> [m |-> m1, rn |-> t.rn, shift |-> t.shift + bits]
                     [] over = 0 -> [m |-> m1, rn |-> t.rn, shift |-> 0]
                     [] over > 0 -> [m |-> Wr(m1, rp, t.rn, Shr(d, bits - over)),
                                     rn |-> t.rn + 1, shift |-> over]),
         [m |-> m, rn |-> 0, shift |-> 0]), LAMBDA t :
    [m |-> t.m, rn |-> mpn_normalized_size(t.m, rp, t.rn)])

\* The value of the k digits from sp[j] on.
Chunk(m, sp, j, k, b) == Iterate(k, LAMBDA w, i : W(w * b + Rd(m, sp, j + i)), 0)

\* The result is normalised unless all digits are zero.
mpn_set_str_other(m, rp, sp, sn, b, info) ==
  LET k == 1 + ((sn - 1) % info.exp)
  IN Iterate((sn - k) \div info.exp, LAMBDA t, c :
       Then(mpn_mul_1(t.m, rp, rp, t.rn, info.bb), LAMBDA x :
       Then(mpn_add_1(x.m, rp, rp, t.rn, Chunk(m, sp, k + c * info.exp, info.exp, b)), LAMBDA y :
         IF x.cy + y.cy > 0 THEN [m |-> Wr(y.m, rp, t.rn, x.cy + y.cy), rn |-> t.rn + 1]
         ELSE [m |-> y.m, rn |-> t.rn])),
       [m |-> Wr(m, rp, 0, Chunk(m, sp, 0, k, b)), rn |-> 1])

mpn_set_str(m, rp, sp, sn, base) ==
  LET bits == mpn_base_power_of_two_p(base) IN
  CASE sn = 0 -> [m |-> m, rn |-> 0]
    [] sn > 0 /\ bits > 0 -> mpn_set_str_bits(m, rp, sp, sn, bits)
    [] sn > 0 /\ bits = 0 -> mpn_set_str_other(m, rp, sp, sn, base, mpn_get_base_info(base))

=============================================================================
