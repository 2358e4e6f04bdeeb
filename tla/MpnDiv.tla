------------------------------- MODULE MpnDiv -------------------------------
(***************************************************************************)
(* Division of natural numbers in mini-gmp.c.  The divisor is shifted      *)
(* until its high bit is set and replaced by a reciprocal of its top limb  *)
(* or limbs; quotient limbs are then found by multiplications, guessed     *)
(* from the top two limbs of the divisor and corrected.                    *)
(***************************************************************************)
EXTENDS Mpn

\* struct gmp_div_inverse, for one, two and more limbs.  A shift by a whole limb, which
\* the code avoids by testing shift > 0, gives 0.
mpn_div_qr_1_invert(d) ==
  Then(gmp_clz(d), LAMBDA sh :
    [shift |-> sh, d1 |-> Shl(d, sh), d0 |-> "?", di |-> mpn_invert_limb(Shl(d, sh))])

mpn_div_qr_2_invert(d1, d0) ==
  Then(gmp_clz(d1), LAMBDA sh :
  Then(OrL[Shl(d1, sh)][Shr(d0, LimbBits - sh)], LAMBDA n1 :
    [shift |-> sh, d1 |-> n1, d0 |-> Shl(d0, sh), di |-> mpn_invert_3by2(n1, Shl(d0, sh))]))

mpn_div_qr_invert(m, dp, dn) ==
  LET d1 == Rd(m, dp, dn - 1)
      d0 == Rd(m, dp, dn - 2)
  IN CASE dn = 1 -> mpn_div_qr_1_invert(d1)
       [] dn = 2 -> mpn_div_qr_2_invert(d1, d0)
       [] dn > 2 ->
            Then(gmp_clz(d1), LAMBDA sh :
            Then(OrL[Shl(d1, sh)][Shr(d0, LimbBits - sh)], LAMBDA n1 :
            Then(OrL[Shl(d0, sh)][Shr(Rd(m, dp, dn - 3), LimbBits - sh)], LAMBDA n0 :
              [shift |-> sh, d1 |-> n1, d0 |-> n0, di |-> mpn_invert_3by2(n1, n0)])))

\* The dividend shifted into a new block tp, if there is something to shift.
Shifted(m, np, nn, shift) ==
  IF shift > 0
    THEN Then(mpn_lshift(malloc(m, "tp", nn), <<"tp", 0>>, np, nn, shift), LAMBDA t :
           [m |-> t.m, cy |-> t.cy, np |-> <<"tp", 0>>])
    ELSE [m |-> m, cy |-> 0, np |-> np]

mpn_div_qr_1_preinv(m, qp, np, nn, inv) ==
  Then(Shifted(m, np, nn, inv.shift), LAMBDA s :
  Then(Iterate(nn, LAMBDA t, i :
         Then(gmp_udiv_qrnnd_preinv(t.r, Rd(t.m, s.np, nn - 1 - i), inv.d1, inv.di), LAMBDA d :
           [m |-> WrOpt(t.m, qp, nn - 1 - i, d.q), r |-> d.r]),
         [m |-> s.m, r |-> s.cy]), LAMBDA t :
    [m |-> free(t.m, "tp"), r |-> Shr(t.r, inv.shift)]))

mpn_div_qr_1(m, qp, np, nn, d) ==
  IF AndL[d][d - 1] = 0
    THEN [r |-> AndL[Rd(m, np, 0)][d - 1],
          m |-> CASE qp = NULL -> m
                  [] qp # NULL /\ d = 1 -> mpn_copyi(m, qp, np, nn)
                  [] qp # NULL /\ d # 1 -> mpn_rshift(m, qp, np, nn, gmp_ctz(d)).m]
    ELSE mpn_div_qr_1_preinv(m, qp, np, nn, mpn_div_qr_1_invert(d))

mpn_div_qr_2_preinv(m, qp, rp, np, nn, inv) ==
  Then(Shifted(m, np, nn, inv.shift), LAMBDA s :
  Then(Iterate(nn - 1, LAMBDA t, i :
         LET k == nn - 2 - i
         IN Then(gmp_udiv_qr_3by2(t.r[1], t.r[2], Rd(t.m, s.np, k), inv.d1, inv.d0, inv.di), LAMBDA d :
              [m |-> WrOpt(t.m, qp, k, d.q), r |-> d.r]),
         [m |-> s.m, r |-> <<s.cy, Rd(s.m, s.np, nn - 1)>>]), LAMBDA t :
    Wr(Wr(free(t.m, "tp"), rp, 1, Shr(t.r[1], inv.shift)),
       rp, 0, OrL[Shr(t.r[2], inv.shift)][W(Shl(t.r[1], LimbBits - inv.shift))])))

\* Faulty variant: a quotient limb that is one too large is not corrected.
Pi1NoAddBack(t, i, qp, np, dp, dn, d1, d0, dinv) ==
  Then(gmp_udiv_qr_3by2(t.n1, Rd(t.m, np, dn - 1 + i), Rd(t.m, np, dn - 2 + i), d1, d0, dinv), LAMBDA u :
  Then(mpn_submul_1(t.m, np ++ i, dp, dn - 2, u.q), LAMBDA s :
    [m |-> WrOpt(Wr(s.m, np, dn - 2 + i, W(u.r[2] - s.cy)), qp, i, u.q),
     n1 |-> W(u.r[1] - Bit(u.r[2] < s.cy))]))

\* Limb i of the quotient: estimated, multiplied and subtracted, and corrected if that
\* was too much.
Pi1Step(t, i, qp, np, dp, dn, d1, d0, dinv) ==
  LET n0 == Rd(t.m, np, dn - 1 + i) IN
  IF t.n1 = d1 /\ n0 = d0
    THEN Then(mpn_submul_1(t.m, np ++ i, dp, dn, B - 1).m, LAMBDA m :
           [m |-> WrOpt(m, qp, i, B - 1), n1 |-> Rd(m, np, dn - 1 + i)])
    ELSE Then(gmp_udiv_qr_3by2(t.n1, n0, Rd(t.m, np, dn - 2 + i), d1, d0, dinv), LAMBDA u :
         Then(mpn_submul_1(t.m, np ++ i, dp, dn - 2, u.q), LAMBDA s :
         Then(Wr(s.m, np, dn - 2 + i, W(u.r[2] - s.cy)), LAMBDA m :
           LET cy1 == Bit(u.r[2] < s.cy) IN
           IF u.r[1] < cy1
             THEN Then(mpn_add_n(m, np ++ i, np ++ i, dp, dn - 1), LAMBDA a :
                    [m |-> WrOpt(a.m, qp, i, W(u.q - 1)), n1 |-> W(u.r[1] - cy1 + d1 + a.cy)])
             ELSE [m |-> WrOpt(m, qp, i, u.q), n1 |-> u.r[1] - cy1])))

\* Schoolbook division by a normalised divisor of dn > 2 limbs; the remainder replaces
\* the dn low limbs of the dividend.
mpn_div_qr_pi1(m, qp, np, nn, nh, dp, dn, dinv) ==
  Then(Iterate(nn - dn + 1, LAMBDA t, k :
         Pi1Step(t, nn - dn - k, qp, np, dp, dn, Rd(m, dp, dn - 1), Rd(m, dp, dn - 2), dinv),
         [m |-> m, n1 |-> nh]), LAMBDA t :
    Wr(t.m, np, dn - 1, t.n1))

mpn_div_qr_preinv(m, qp, np, nn, dp, dn, inv) ==
  CASE dn = 1 -> Then(mpn_div_qr_1_preinv(m, qp, np, nn, inv), LAMBDA t : Wr(t.m, np, 0, t.r))
    [] dn = 2 -> mpn_div_qr_2_preinv(m, qp, np, np, nn, inv)
    [] dn > 2 ->
         Then(IF inv.shift > 0 THEN mpn_lshift(m, np, np, nn, inv.shift) ELSE [m |-> m, cy |-> 0], LAMBDA l :
         Then(mpn_div_qr_pi1(l.m, qp, np, nn, l.cy, dp, dn, inv.di), LAMBDA t :
           IF inv.shift > 0 THEN mpn_rshift(t, np, np, dn, inv.shift).m ELSE t))

\* The divisor shifted to the left into a new block.
ShiftedDivisor(m, blk, dp, dn, shift) ==
  mpn_lshift(malloc(m, blk, dn), <<blk, 0>>, dp, dn, shift).m

\* qp receives the nn - dn + 1 limbs of the quotient, the dn low limbs of np the
\* remainder.
mpn_div_qr(m, qp, np, nn, dp, dn) ==
  Then(mpn_div_qr_invert(m, dp, dn), LAMBDA inv :
  Then(IF dn > 2 /\ inv.shift > 0
         THEN [m |-> ShiftedDivisor(m, "dtp", dp, dn, inv.shift), dp |-> <<"dtp", 0>>]
         ELSE [m |-> m, dp |-> dp], LAMBDA t :
    free(mpn_div_qr_preinv(t.m, qp, np, nn, t.dp, dn, inv), "dtp")))

=============================================================================
