-------------------------------- MODULE Mpz ---------------------------------
(***************************************************************************)
(* The signed integers of mini-gmp.c.  A state s holds the memory s.m, in  *)
(* which every mpz_t has a block as long as its _mp_alloc, and the signed  *)
(* sizes s.sz.  Each function takes the state and the names of its mpz_t   *)
(* arguments, any of which may be the same object, and returns the state   *)
(* it leaves (with what it returns, if anything).  Local variables of the  *)
(* C functions are blocks with names of their own.  An unsigned long is a  *)
(* limb.                                                                   *)
(***************************************************************************)
EXTENDS MpnDiv

D(o) == <<o, 0>>                        \* o->_mp_d

Abs(x) == IF x < 0 THEN -x ELSE x

Signed(neg, n) == IF neg THEN -n ELSE n

GMP_CMP(a, b) == Bit(a > b) - Bit(a < b)

Size(s, o) == Abs(s.sz[o])

SetSize(s, o, n) == [s EXCEPT !.sz[o] = n]

\* (a->_mp_size ^ b->_mp_size) >= 0.
SameSign(s, a, b) == (s.sz[a] < 0) = (s.sz[b] < 0)

mpz_init(s, r) == [m |-> malloc(s.m, r, 0), sz |-> s.sz @@ (r :> 0)]

mpz_init2(s, r, bits) ==
  [m |-> malloc(s.m, r, 1 + (bits - Bit(bits # 0)) \div LimbBits), sz |-> s.sz @@ (r :> 0)]

mpz_clear(s, r) == [m |-> free(s.m, r), sz |-> free(s.sz, r)]

mpz_realloc(s, r, size) ==
  LET n == Max({size, 1})
      old == s.m[r]
  IN [m  |-> [s.m EXCEPT ![r] = [i \in 0 .. n - 1 |-> IF i \in DOMAIN old THEN old[i] ELSE "?"]],
      sz |-> [s.sz EXCEPT ![r] = IF Abs(@) > n THEN 0 ELSE @]]

MPZ_REALLOC(s, z, n) == IF n > Cardinality(DOMAIN s.m[z]) THEN mpz_realloc(s, z, n) ELSE s

mpz_realloc2(s, x, n) == mpz_realloc(s, x, 1 + (n - Bit(n # 0)) \div LimbBits)

\* MPZ_REALLOC (r, 1)[0] = x.
SetLow(s, r, x) == Then(MPZ_REALLOC(s, r, 1), LAMBDA t : [t EXCEPT !.m = Wr(@, D(r), 0, x)])

mpz_set_ui(s, r, x) == IF x > 0 THEN SetLow(SetSize(s, r, 1), r, x) ELSE SetSize(s, r, 0)

mpz_set_si(s, r, x) == IF x >= 0 THEN mpz_set_ui(s, r, x) ELSE SetLow(SetSize(s, r, -1), r, -x)

mpz_set(s, r, x) ==
  IF r = x THEN s
  ELSE Then(MPZ_REALLOC(s, r, Size(s, x)), LAMBDA t :
         SetSize([t EXCEPT !.m = mpn_copyi(@, D(r), D(x), Size(s, x))], r, s.sz[x]))

mpz_init_set(s, r, x) == mpz_set(mpz_init(s, r), r, x)

mpz_get_ui(s, u) == IF s.sz[u] = 0 THEN 0 ELSE Rd(s.m, D(u), 0)

mpz_get_si(s, u) ==
  IF s.sz[u] < 0 THEN -1 - (W(Rd(s.m, D(u), 0) - 1) % HighBit) ELSE mpz_get_ui(s, u) % HighBit

mpz_fits_slong_p(s, u) ==
  CASE s.sz[u] = 1  -> Rd(s.m, D(u), 0) < HighBit
    [] s.sz[u] = -1 -> Rd(s.m, D(u), 0) <= HighBit
    [] OTHER        -> s.sz[u] = 0

mpz_fits_ulong_p(s, u) == s.sz[u] = Bit(s.sz[u] > 0)

mpz_getlimbn(s, u, n) == IF n >= 0 /\ n < Size(s, u) THEN Rd(s.m, D(u), n) ELSE 0

mpz_limbs_finish(s, x, xs) ==
  SetSize(s, x, Signed(xs < 0, mpn_normalized_size(s.m, D(x), Abs(xs))))

-----------------------------------------------------------------------------
mpz_sgn(s, u) == GMP_CMP(s.sz[u], 0)

mpz_cmp_ui(s, u, v) ==
  CASE s.sz[u] > 1 -> 1 [] s.sz[u] < 0 -> -1 [] OTHER -> GMP_CMP(mpz_get_ui(s, u), v)

mpz_cmp_si(s, u, v) ==
  CASE s.sz[u] < -1 -> -1
    [] s.sz[u] >= -1 /\ v >= 0 -> mpz_cmp_ui(s, u, v)
    [] s.sz[u] >= 0 /\ v < 0 -> 1
    [] s.sz[u] = -1 /\ v < 0 -> GMP_CMP(-v, Rd(s.m, D(u), 0))

mpz_cmp(s, a, b) ==
  CASE s.sz[a] # s.sz[b] -> IF s.sz[a] < s.sz[b] THEN -1 ELSE 1
    [] s.sz[a] = s.sz[b] /\ s.sz[a] >= 0 -> mpn_cmp(s.m, D(a), D(b), s.sz[a])
    [] s.sz[a] = s.sz[b] /\ s.sz[a] < 0 -> mpn_cmp(s.m, D(b), D(a), -s.sz[a])

mpz_cmpabs_ui(s, u, v) == IF Size(s, u) > 1 THEN 1 ELSE GMP_CMP(mpz_get_ui(s, u), v)

mpz_cmpabs(s, u, v) == mpn_cmp4(s.m, D(u), Size(s, u), D(v), Size(s, v))

mpz_abs(s, r, u) == Then(mpz_set(s, r, u), LAMBDA t : SetSize(t, r, Size(t, r)))

mpz_neg(s, r, u) == Then(mpz_set(s, r, u), LAMBDA t : SetSize(t, r, -t.sz[r]))

mpz_swap(s, u, v) == [m  |-> [s.m EXCEPT ![u] = s.m[v], ![v] = s.m[u]],
                      sz |-> [s.sz EXCEPT ![u] = s.sz[v], ![v] = s.sz[u]]]

-----------------------------------------------------------------------------
(***************************************************************************)
(* Addition and subtraction.  The functions on absolute values return the  *)
(* new size, negative on underflow, which their callers store.             *)
(***************************************************************************)
mpz_abs_add_ui(s, r, a, b) ==
  LET an == Size(s, a) IN
  IF an = 0 THEN [s |-> SetLow(s, r, b), n |-> Bit(b > 0)]
  ELSE Then(MPZ_REALLOC(s, r, an + 1), LAMBDA t :
       Then(mpn_add_1(t.m, D(r), D(a), an, b), LAMBDA x :
         [s |-> [t EXCEPT !.m = Wr(x.m, D(r), an, x.cy)], n |-> an + x.cy]))

mpz_abs_sub_ui(s, r, a, b) ==
  LET an == Size(s, a) IN
  IF an = 0 THEN [s |-> SetLow(s, r, b), n |-> -Bit(b > 0)]
  ELSE Then(MPZ_REALLOC(s, r, an), LAMBDA t :
       LET a0 == Rd(t.m, D(a), 0) IN
       IF an = 1 /\ a0 < b THEN [s |-> [t EXCEPT !.m = Wr(@, D(r), 0, b - a0)], n |-> -1]
       ELSE Then(mpn_sub_1(t.m, D(r), D(a), an, b).m, LAMBDA m :
              [s |-> [t EXCEPT !.m = m], n |-> mpn_normalized_size(m, D(r), an)]))

mpz_add_ui(s, r, a, b) ==
  IF s.sz[a] >= 0 THEN Then(mpz_abs_add_ui(s, r, a, b), LAMBDA x : SetSize(x.s, r, x.n))
  ELSE Then(mpz_abs_sub_ui(s, r, a, b), LAMBDA x : SetSize(x.s, r, -x.n))

mpz_sub_ui(s, r, a, b) ==
  IF s.sz[a] < 0 THEN Then(mpz_abs_add_ui(s, r, a, b), LAMBDA x : SetSize(x.s, r, -x.n))
  ELSE Then(mpz_abs_sub_ui(s, r, a, b), LAMBDA x : SetSize(x.s, r, x.n))

mpz_ui_sub(s, r, a, b) ==
  IF s.sz[b] < 0 THEN Then(mpz_abs_add_ui(s, r, b, a), LAMBDA x : SetSize(x.s, r, x.n))
  ELSE Then(mpz_abs_sub_ui(s, r, b, a), LAMBDA x : SetSize(x.s, r, -x.n))

\* The operand with more limbs, and the other one.
Longer(s, u, v) == IF Size(s, u) < Size(s, v) THEN <<v, u>> ELSE <<u, v>>

mpz_abs_add(s, r, u, v) ==
  Then(Longer(s, u, v), LAMBDA p :
  Then(Size(s, p[1]), LAMBDA an :
  Then(MPZ_REALLOC(s, r, an + 1), LAMBDA t :
  Then(mpn_add(t.m, D(r), D(p[1]), an, D(p[2]), Size(s, p[2])), LAMBDA x :
    [s |-> [t EXCEPT !.m = Wr(x.m, D(r), an, x.cy)], n |-> an + x.cy]))))

\* Faulty variant: leading zero limbs stay.
AbsSubRaw(s, r, u, v) ==
  Then(mpz_cmpabs(s, u, v), LAMBDA c :
  Then(IF c > 0 THEN <<u, v>> ELSE <<v, u>>, LAMBDA p :
  Then(Size(s, p[1]), LAMBDA an :
    IF c = 0 THEN [s |-> s, n |-> 0]
    ELSE Then(MPZ_REALLOC(s, r, an), LAMBDA t :
         Then(mpn_sub(t.m, D(r), D(p[1]), an, D(p[2]), Size(s, p[2])).m, LAMBDA m :
           [s |-> [t EXCEPT !.m = m], n |-> Signed(c < 0, an)])))))

mpz_abs_sub(s, r, u, v) ==
  Then(mpz_cmpabs(s, u, v), LAMBDA c :
  Then(IF c > 0 THEN <<u, v>> ELSE <<v, u>>, LAMBDA p :
  Then(Size(s, p[1]), LAMBDA an :
    IF c = 0 THEN [s |-> s, n |-> 0]
    ELSE Then(MPZ_REALLOC(s, r, an), LAMBDA t :
         Then(mpn_sub(t.m, D(r), D(p[1]), an, D(p[2]), Size(s, p[2])).m, LAMBDA m :
           [s |-> [t EXCEPT !.m = m], n |-> Signed(c < 0, mpn_normalized_size(m, D(r), an))])))))

\* Faulty variant: the sign is read from a after the result was stored.
AddSignLate(s, r, a, b) ==
  Then(IF SameSign(s, a, b) THEN mpz_abs_add(s, r, a, b) ELSE mpz_abs_sub(s, r, a, b), LAMBDA x :
  Then(SetSize(x.s, r, x.n), LAMBDA t : SetSize(t, r, Signed(t.sz[a] < 0, x.n))))

mpz_add(s, r, a, b) ==
  Then(IF SameSign(s, a, b) THEN mpz_abs_add(s, r, a, b) ELSE mpz_abs_sub(s, r, a, b), LAMBDA x :
    SetSize(x.s, r, Signed(x.s.sz[a] < 0, x.n)))

mpz_sub(s, r, a, b) ==
  Then(IF SameSign(s, a, b) THEN mpz_abs_sub(s, r, a, b) ELSE mpz_abs_add(s, r, a, b), LAMBDA x :
    SetSize(x.s, r, Signed(x.s.sz[a] < 0, x.n)))

-----------------------------------------------------------------------------
mpz_mul_ui(s, r, u, v) ==
  LET un == Size(s, u) IN
  IF un = 0 \/ v = 0 THEN SetSize(s, r, 0)
  ELSE Then(MPZ_REALLOC(s, r, un + 1), LAMBDA t :
       Then(mpn_mul_1(t.m, D(r), D(u), un, v), LAMBDA x :
         SetSize([t EXCEPT !.m = Wr(x.m, D(r), un, x.cy)], r, Signed(s.sz[u] < 0, un + Bit(x.cy > 0)))))

mpz_mul_si(s, r, u, v) ==
  IF v < 0 THEN mpz_neg(mpz_mul_ui(s, r, u, -v), r, r) ELSE mpz_mul_ui(s, r, u, v)

mpz_mul(s, r, u, v) ==
  LET un == Size(s, u)
      vn == Size(s, v)
  IN IF un = 0 \/ vn = 0 THEN SetSize(s, r, 0)
     ELSE Then(mpz_init2(s, "mul_t", (un + vn) * LimbBits), LAMBDA t :
          Then(Longer(s, u, v), LAMBDA p :
          Then(mpn_mul(t.m, D("mul_t"), D(p[1]), Size(s, p[1]), D(p[2]), Size(s, p[2])).m, LAMBDA m :
          Then(un + vn - Bit(Rd(m, D("mul_t"), un + vn - 1) = 0), LAMBDA rn :
            mpz_clear(mpz_swap(SetSize([t EXCEPT !.m = m], "mul_t", Signed(~SameSign(s, u, v), rn)),
                               r, "mul_t"), "mul_t")))))

\* r may be u: the limbs move upwards, from the top.
mpz_mul_2exp(s, r, u, bits) ==
  LET un == Size(s, u)
      limbs == bits \div LimbBits
      shift == bits % LimbBits
      rn == un + limbs + Bit(shift > 0)
  IN IF un = 0 THEN SetSize(s, r, 0)
     ELSE Then(MPZ_REALLOC(s, r, rn), LAMBDA t :
          Then(IF shift > 0 THEN mpn_lshift(t.m, D(r) ++ limbs, D(u), un, shift)
               ELSE [m |-> mpn_copyd(t.m, D(r) ++ limbs, D(u), un), cy |-> 0], LAMBDA x :
          Then(IF shift > 0 THEN Wr(x.m, D(r), rn - 1, x.cy) ELSE x.m, LAMBDA m :
            SetSize([t EXCEPT !.m = mpn_zero(m, D(r), limbs)], r,
                    Signed(t.sz[u] < 0, rn - Bit(shift > 0 /\ x.cy = 0))))))

\* A product in t, added or subtracted.
mpz_addmul_ui(s, r, u, v) ==
  mpz_clear(mpz_add(mpz_mul_ui(mpz_init(s, "acc_t"), "acc_t", u, v), r, r, "acc_t"), "acc_t")

mpz_submul_ui(s, r, u, v) ==
  mpz_clear(mpz_sub(mpz_mul_ui(mpz_init(s, "acc_t"), "acc_t", u, v), r, r, "acc_t"), "acc_t")

mpz_addmul(s, r, u, v) ==
  mpz_clear(mpz_add(mpz_mul(mpz_init(s, "acc_t"), "acc_t", u, v), r, r, "acc_t"), "acc_t")

mpz_submul(s, r, u, v) ==
  mpz_clear(mpz_sub(mpz_mul(mpz_init(s, "acc_t"), "acc_t", u, v), r, r, "acc_t"), "acc_t")

=============================================================================
