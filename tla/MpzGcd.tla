------------------------------ MODULE MpzGcd -------------------------------
(***************************************************************************)
(* Greatest common divisors in mini-gmp.c, with cofactors, multiples and   *)
(* inverses.  The functions are sequences and loops of the functions of    *)
(* the modules below this one, on local integers of their own.             *)
(***************************************************************************)
EXTENDS MpzStr

InitAll(s, os) ==
  [m |-> s.m @@ [o \in os |-> [i \in {} |-> "?"]], sz |-> s.sz @@ [o \in os |-> 0]]

ClearAll(s, os) ==
  [m  |-> [o \in DOMAIN s.m \ os |-> s.m[o]], sz |-> [o \in DOMAIN s.sz \ os |-> s.sz[o]]]

\* A read-only integer of one limb.
mpz_roinit_n(s, o, limb) ==
  [m |-> s.m @@ (o :> [i \in {0} |-> limb]), sz |-> s.sz @@ (o :> Bit(limb # 0))]

tdiv_q(s, q, n, d) == mpz_div_qr(s, q, "NULL", n, d, "trunc").s

mpz_odd_p(s, z) == s.sz[z] # 0 /\ Rd(s.m, D(z), 0) % 2 = 1

-----------------------------------------------------------------------------
\* With the greatest common divisor that it returns.
mpz_gcd_ui(s, g, u, v) ==
  LET un == Size(s, u)
  IN IF v = 0 THEN [s |-> IfGiven(g, s, LAMBDA x : mpz_abs(x, g, u)), ret |-> 0]
     ELSE Then(IF un = 0 THEN v ELSE mpn_gcd_11(mpn_div_qr_1(s.m, NULL, D(u), un, v).r, v), LAMBDA w :
            [s |-> IfGiven(g, s, LAMBDA x : mpz_set_ui(x, g, w)), ret |-> w])

\* r > 0 without its factors of two, and their number.
mpz_make_odd(s, r) ==
  Then(mpn_common_scan(s.m, Rd(s.m, D(r), 0), 0, D(r), 0, 0), LAMBDA shift :
    [s |-> mpz_div_q_2exp(s, r, r, shift, "trunc"), n |-> shift])

\* The odd parts of |u| and |v| in tu and tv, tu not the one with fewer limbs, with the
\* factors of two of tu and of tv and whether the two were swapped.
OddParts(s, u, v) ==
  Then(mpz_make_odd(mpz_abs(s, "tu", u), "tu"), LAMBDA a :
  Then(mpz_make_odd(mpz_abs(a.s, "tv", v), "tv"), LAMBDA b :
    IF b.s.sz["tu"] < b.s.sz["tv"]
      THEN [s |-> mpz_swap(b.s, "tu", "tv"), uz |-> b.n, vz |-> a.n, sw |-> TRUE]
      ELSE [s |-> b.s, uz |-> a.n, vz |-> b.n, sw |-> FALSE]))

\* The loop of mpz_gcd on the locals tu and tv, tv odd.
RECURSIVE GcdLoop(_, _)
GcdLoop(s, g) ==
  Then(mpz_make_odd(s, "tu").s, LAMBDA s1 : Then(mpz_cmp(s1, "tu", "tv"), LAMBDA c :
  Then(IF c < 0 THEN mpz_swap(s1, "tu", "tv") ELSE s1, LAMBDA s2 :
    LET vl == Rd(s2.m, D("tv"), 0)
    IN CASE c = 0 -> mpz_swap(s1, g, "tu")
         [] c # 0 /\ s2.sz["tv"] = 1 ->
              mpz_set_ui(s2, g, mpn_gcd_11(mpz_div_qr_ui(s2, "NULL", "NULL", "tu", vl, "trunc").ret, vl))
         [] c # 0 /\ s2.sz["tv"] # 1 ->
              Then(mpz_sub(s2, "tu", "tu", "tv"), LAMBDA t : GcdLoop(t, g)))))

mpz_gcd(s, g, u, v) ==
  CASE s.sz[u] = 0 -> mpz_abs(s, g, v)
    [] s.sz[u] # 0 /\ s.sz[v] = 0 -> mpz_abs(s, g, u)
    [] s.sz[u] # 0 /\ s.sz[v] # 0 ->
         Then(OddParts(InitAll(s, {"tu", "tv"}), u, v), LAMBDA x :
         Then(mpz_div_qr(x.s, "NULL", "tu", "tu", "tv", "trunc").s, LAMBDA t :
         Then(IF t.sz["tu"] = 0 THEN mpz_swap(t, g, "tv") ELSE GcdLoop(t, g), LAMBDA t2 :
           mpz_mul_2exp(ClearAll(t2, {"tu", "tv"}), g, g, Min({x.uz, x.vz})))))

\* The bigger operand less the smaller one, without its factors of two; the coefficients
\* keep u and v the same combinations of the two.
ExtStep(x, big, small, c0, c1, d0, d1) ==
  Then(mpz_add(mpz_add(mpz_sub(x.s, big, big, small), c0, c0, c1), d0, d0, d1), LAMBDA t :
  Then(mpz_make_odd(t, big), LAMBDA o :
    [x EXCEPT !.s = mpz_mul_2exp(mpz_mul_2exp(o.s, c1, c1, o.n), d1, d1, o.n), !.power = @ + o.n]))

RECURSIVE ExtLoop(_)
ExtLoop(x) ==
  Then(mpz_cmp(x.s, "tu", "tv"), LAMBDA c :
    CASE c = 0 -> x
      [] c < 0 -> Then(ExtStep(x, "tv", "tu", "t0", "t1", "s0", "s1"), ExtLoop)
      [] c > 0 -> Then(ExtStep(x, "tu", "tv", "t1", "t0", "s1", "s0"), ExtLoop))

\* 2^power g = s0 u + t0 v: one factor of two less.
Halve(s) ==
  Then(IF mpz_odd_p(s, "s0") \/ mpz_odd_p(s, "t0")
         THEN mpz_add(mpz_sub(s, "s0", "s0", "s1"), "t0", "t0", "t1") ELSE s, LAMBDA t :
    mpz_div_qr_ui(mpz_div_qr_ui(t, "s0", "NULL", "s0", 2, "trunc").s,
                  "t0", "NULL", "t0", 2, "trunc").s)

ExtLocals == {"tu", "tv", "s0", "s1", "t0", "t1"}

\* Odd parts in tu, not the shorter one, and tv; first division; the coefficients of
\* u = t0 tu + t1 tv and v = s0 tu + s1 tv.
ExtStart(s, u0, v0) ==
  Then(OddParts(InitAll(s, ExtLocals), u0, v0), LAMBDA x :
    LET gz == Min({x.uz, x.vz})
        uz == x.uz - gz
        vz == x.vz - gz
    IN Then(mpz_setbit(x.s, "t0", uz), LAMBDA t1 :
       Then(mpz_mul_2exp(mpz_div_qr(t1, "t1", "tu", "tu", "tv", "trunc").s, "t1", "t1", uz), LAMBDA t2 :
         [s |-> mpz_setbit(t2, "s1", vz), power |-> uz + vz, gz |-> gz, sw |-> x.sw])))

ExtReduce(x) ==
  IF x.s.sz["tu"] = 0 THEN x
  ELSE Then(mpz_make_odd(x.s, "tu"), LAMBDA o :
         ExtLoop([x EXCEPT !.s = mpz_mul_2exp(mpz_mul_2exp(o.s, "t0", "t0", o.n), "s0", "s0", o.n),
                           !.power = @ + o.n]))

\* g in tv, v / g in s1, u / g in t1, then the powers of two.
ExtCofactors(x, u, v) ==
  Then(mpz_neg(mpz_mul_2exp(x.s, "tv", "tv", x.gz), "s0", "s0"), LAMBDA t1 :
  Then(mpz_abs(tdiv_q(t1, "s1", v, "tv"), "s1", "s1"), LAMBDA t2 :
  Then(mpz_abs(tdiv_q(t2, "t1", u, "tv"), "t1", "t1"), LAMBDA t3 :
    Iterate(x.power, LAMBDA t, i : Halve(t), t3))))

\* The smaller of two possible cofactors, signs, results.
ExtEnd(s, g, sc, tc, u, v) ==
  Then(mpz_add(s, "s1", "s0", "s1"), LAMBDA t1 :
  Then(IF mpz_cmpabs(t1, "s0", "s1") > 0
         THEN mpz_sub(mpz_swap(t1, "s0", "s1"), "t0", "t0", "t1") ELSE t1, LAMBDA t2 :
  Then(IF t2.sz[u] < 0 THEN mpz_neg(t2, "s0", "s0") ELSE t2, LAMBDA t3 :
  Then(IF t3.sz[v] < 0 THEN mpz_neg(t3, "t0", "t0") ELSE t3, LAMBDA t4 :
  Then(IfGiven(sc, mpz_swap(t4, g, "tv"), LAMBDA x : mpz_swap(x, sc, "s0")), LAMBDA t5 :
    ClearAll(IfGiven(tc, t5, LAMBDA x : mpz_swap(x, tc, "t0")), ExtLocals))))))

\* One operand is zero, o is the other.
ExtTrivial(s, g, sc, tc, o, cs, ct) ==
  IfGiven(tc, IfGiven(sc, mpz_abs(s, g, o), LAMBDA x : mpz_set_si(x, sc, cs)),
          LAMBDA x : mpz_set_si(x, tc, ct))

\* g = gcd (u, v) = sc u + tc v; sc and tc may be null.
mpz_gcdext(s, g, sc, tc, u, v) ==
  CASE s.sz[u] = 0 -> ExtTrivial(s, g, sc, tc, v, 0, mpz_sgn(s, v))
    [] s.sz[u] # 0 /\ s.sz[v] = 0 -> ExtTrivial(s, g, sc, tc, u, mpz_sgn(s, u), 0)
    [] s.sz[u] # 0 /\ s.sz[v] # 0 ->
         Then(ExtStart(s, u, v), LAMBDA x1 : Then(ExtReduce(x1), LAMBDA x2 :
         Then(IF x2.sw THEN <<v, u, tc, sc>> ELSE <<u, v, sc, tc>>, LAMBDA p :
         Then(ExtCofactors(x2, p[1], p[2]), LAMBDA t : ExtEnd(t, g, p[3], p[4], p[1], p[2])))))

mpz_lcm(s, r, u, v) ==
  IF s.sz[u] = 0 \/ s.sz[v] = 0 THEN SetSize(s, r, 0)
  ELSE Then(mpz_gcd(mpz_init(s, "lcm_g"), "lcm_g", u, v), LAMBDA t :
         mpz_abs(mpz_clear(mpz_mul(tdiv_q(t, "lcm_g", u, "lcm_g"), r, "lcm_g", v), "lcm_g"), r, r))

mpz_lcm_ui(s, r, u, v) ==
  IF v = 0 \/ s.sz[u] = 0 THEN SetSize(s, r, 0)
  ELSE mpz_abs(mpz_mul_ui(s, r, u, v \div mpz_gcd_ui(s, "NULL", u, v).ret), r, r)

\* A negative inverse is made positive.
InvertEnd(s1, r, m) ==
  Then(CASE s1.sz["inv_tr"] >= 0 -> s1
         [] s1.sz["inv_tr"] < 0 /\ s1.sz[m] >= 0 -> mpz_add(s1, "inv_tr", "inv_tr", m)
         [] s1.sz["inv_tr"] < 0 /\ s1.sz[m] < 0 -> mpz_sub(s1, "inv_tr", "inv_tr", m), LAMBDA s2 :
    LET ok == mpz_cmp_ui(s1, "inv_g", 1) = 0
    IN [s |-> ClearAll(IF ok THEN mpz_swap(s2, r, "inv_tr") ELSE s1, {"inv_g", "inv_tr"}), ret |-> ok])

mpz_invert(s, r, u, m) ==
  IF s.sz[u] = 0 \/ mpz_cmpabs_ui(s, m, 1) <= 0 THEN [s |-> s, ret |-> FALSE]
  ELSE Then(mpz_gcdext(InitAll(s, {"inv_g", "inv_tr"}), "inv_g", "inv_tr", "NULL", u, m),
            LAMBDA t : InvertEnd(t, r, m))

=============================================================================
