------------------------------ MODULE MpzPower ------------------------------
(***************************************************************************)
(* Powers, modular powers, roots, factorials and binomials in mini-gmp.c.  *)
(***************************************************************************)
EXTENDS MpzGcd

mpz_init_set_ui(s, r, x) == mpz_set_ui(mpz_init(s, r), r, x)

\* tr = tr * tr, then tr * b where the bit of e is set.
SquareMultiply(s, tr, b, e, bit) ==
  Then(mpz_mul(s, tr, tr, tr), LAMBDA t : IF Shr(e, bit) % 2 = 1 THEN mpz_mul(t, tr, tr, b) ELSE t)

mpz_pow_ui(s, r, b, e) ==
  Then(Iterate(LimbBits, LAMBDA t, i : SquareMultiply(t, "pow_tr", b, e, LimbBits - 1 - i),
               mpz_init_set_ui(s, "pow_tr", 1)), LAMBDA t :
    mpz_clear(mpz_swap(t, r, "pow_tr"), "pow_tr"))

mpz_ui_pow_ui(s, r, b, e) == mpz_clear(mpz_pow_ui(mpz_roinit_n(s, "ro_b", b), r, "ro_b", e), "ro_b")

\* mpn_div_qr_preinv of o by the mn limbs at mp, for the remainder.
Reduce(s, o, mp, mn, minv) ==
  Then(mpn_div_qr_preinv(s.m, NULL, D(o), s.sz[o], mp, mn, minv), LAMBDA m :
    SetSize([s EXCEPT !.m = m], o, mpn_normalized_size(m, D(o), mn)))

\* |b| reduced by the shifted modulus, its complement for a negative b.
PowmBase(s, b, mp, mn, minv) ==
  LET bp == D("pm_base")
      Store(t, m, bn) == SetSize([t EXCEPT !.m = m], "pm_base", mpn_normalized_size(m, bp, bn))
  IN Then(mpz_abs(s, "pm_base", b), LAMBDA s1 : Then(s1.sz["pm_base"], LAMBDA bs :
     Then(IF bs >= mn THEN [s1 EXCEPT !.m = mpn_div_qr_preinv(@, NULL, bp, bs, mp, mn, minv)]
          ELSE s1, LAMBDA s2 :
       IF s.sz[b] >= 0 THEN Store(s2, s2.m, Min({bs, mn}))
       ELSE Then(MPZ_REALLOC(s2, "pm_base", mn), LAMBDA s3 :
            Then(mpn_sub(s3.m, bp, mp, mn, bp, Min({bs, mn})).m, LAMBDA m : Store(s3, m, mn))))))

\* The bits of e from the top.
PowmLoop(s, e, en, mp, mn, minv) ==
  Iterate(en * LimbBits, LAMBDA t, i :
    Then(SquareMultiply(t, "pm_tr", "pm_base", Rd(t.m, D(e), en - 1 - (i \div LimbBits)),
                        LimbBits - 1 - (i % LimbBits)), LAMBDA t1 :
      IF t1.sz["pm_tr"] > mn THEN Reduce(t1, "pm_tr", mp, mn, minv) ELSE t1),
    mpz_init_set_ui(s, "pm_tr", 1))

\* The base, or its inverse for a negative exponent.
PowmStart(s, b, e, m, mp, mn, minv) ==
  IF s.sz[e] < 0 THEN mpz_invert(s, "pm_base", b, m).s ELSE PowmBase(s, b, mp, mn, minv)

\* m shifted to the left.
PowmModulus(s, m, mn, shift) ==
  IF shift = 0 THEN s
  ELSE [s EXCEPT !.m = mpn_lshift(malloc(@, "pm_tp", mn), <<"pm_tp", 0>>, D(m), mn, shift).m]

\* For m # 0, and a b with an inverse if e < 0.  All reductions but the last one are by m
\* shifted to the left, with the same reciprocal.
mpz_powm(s, r, b, e, m) ==
  LET mn == Size(s, m)
  IN IF s.sz[e] = 0 THEN mpz_set_ui(s, r, 1)
     ELSE Then(mpn_div_qr_invert(s.m, D(m), mn), LAMBDA inv :
          Then([inv EXCEPT !.shift = 0], LAMBDA minv :
          Then(IF inv.shift > 0 THEN <<"pm_tp", 0>> ELSE D(m), LAMBDA mp :
          Then(PowmModulus(mpz_init(s, "pm_base"), m, mn, inv.shift), LAMBDA t1 :
          Then(PowmStart(t1, b, e, m, mp, mn, minv), LAMBDA t2 :
          Then(PowmLoop(t2, e, Size(s, e), mp, mn, minv), LAMBDA t3 :
          Then(IF t3.sz["pm_tr"] >= mn THEN Reduce(t3, "pm_tr", mp, mn, inv) ELSE t3, LAMBDA t4 :
            ClearAll(mpz_swap(t4, r, "pm_tr"), {"pm_tp", "pm_tr", "pm_base"}))))))))

mpz_powm_ui(s, r, b, e, m) == mpz_clear(mpz_powm(mpz_roinit_n(s, "ro_e", e), r, b, "ro_e", m), "ro_e")

-----------------------------------------------------------------------------
\* One Newton step from u to t, for the square root and for the others.
SqrtStep(s, y) ==
  Then(tdiv_q(mpz_swap(s, "rt_u", "rt_t"), "rt_t", y, "rt_u"), LAMBDA t :
    mpz_div_q_2exp(mpz_add(t, "rt_t", "rt_t", "rt_u"), "rt_t", "rt_t", 1, "trunc"))

RootStep(s, y, z) ==
  Then(mpz_pow_ui(mpz_swap(s, "rt_u", "rt_t"), "rt_t", "rt_u", z - 1), LAMBDA s1 :
  Then(mpz_mul_ui(tdiv_q(s1, "rt_t", y, "rt_t"), "rt_v", "rt_u", z - 1), LAMBDA s2 :
    mpz_div_qr_ui(mpz_add(s2, "rt_t", "rt_t", "rt_v"), "rt_t", "NULL", "rt_t", z, "trunc").s))

\* While the step makes |t| smaller than |u|.
RECURSIVE Newton(_, _, _)
Newton(s, y, z) ==
  Then(IF z = 2 THEN SqrtStep(s, y) ELSE RootStep(s, y, z), LAMBDA t :
    IF mpz_cmpabs(t, "rt_t", "rt_u") < 0 THEN Newton(t, y, z) ELSE t)

\* From a power of two above the root to the root in u.
RootLoop(s, y, z) ==
  Then(mpz_setbit(InitAll(s, {"rt_t", "rt_u"}), "rt_t", mpz_sizeinbase(s, y, 2) \div z + 1), LAMBDA t :
  Then(IF z = 2 THEN t ELSE mpz_init(t, "rt_v"), LAMBDA t1 :
  Then(IF z # 2 /\ s.sz[y] < 0 THEN mpz_neg(t1, "rt_t", "rt_t") ELSE t1, LAMBDA t2 :
    ClearAll(Newton(t2, y, z), {"rt_v"}))))

\* For z > 0, odd if y < 0.  x and r may be null.
mpz_rootrem(s, x, r, y, z) ==
  IF mpz_cmpabs_ui(s, y, 1) <= 0
    THEN IfGiven(r, IfGiven(x, s, LAMBDA t : mpz_set(t, x, y)), LAMBDA t : SetSize(t, r, 0))
    ELSE Then(RootLoop(s, y, z), LAMBDA s1 :
         Then(IfGiven(r, s1, LAMBDA t : mpz_sub(mpz_pow_ui(t, "rt_t", "rt_u", z), r, y, "rt_t")), LAMBDA s2 :
           ClearAll(IfGiven(x, s2, LAMBDA t : mpz_swap(t, x, "rt_u")), {"rt_t", "rt_u"})))

\* With whether the root is exact.
mpz_root(s, x, y, z) ==
  Then(mpz_rootrem(mpz_init(s, "root_r"), x, "root_r", y, z), LAMBDA t :
    [s |-> mpz_clear(t, "root_r"), ret |-> t.sz["root_r"] = 0])

mpz_perfect_square_p(s, u) == IF s.sz[u] <= 0 THEN s.sz[u] = 0 ELSE mpz_root(s, "NULL", u, 2).ret

mpz_fac_ui(s, x, n) ==
  Iterate(Max({0, n - 2}), LAMBDA t, i : mpz_mul_ui(t, x, x, n - 1 - i), mpz_set_ui(s, x, n + Bit(n = 0)))

mpz_bin_uiui(s, r, n, k0) ==
  LET k == CASE k0 <= n \div 2 -> k0
             [] k0 > n \div 2 -> IF k0 <= n THEN n - k0 ELSE 0
      s1 == mpz_fac_ui(mpz_init(mpz_set_ui(s, r, Bit(k0 <= n)), "bin_t"), "bin_t", k)
      s2 == Iterate(k, LAMBDA t, i : mpz_mul_ui(t, r, r, n - i), s1)
  IN mpz_clear(tdiv_q(s2, r, r, "bin_t"), "bin_t")

=============================================================================
