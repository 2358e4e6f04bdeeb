-------------------------------- MODULE Mpn ---------------------------------
(***************************************************************************)
(* The functions of mini-gmp.c on natural numbers: arrays of limbs, least  *)
(* significant first, given by a pointer and a length.  Operands and       *)
(* results may overlap, so every function takes the memory and returns the *)
(* memory it leaves, with the carry, borrow or remainder it returns.  A    *)
(* memory is a record of blocks (functions on 0 .. n - 1); a pointer is a  *)
(* block and an offset.  Reading a limb that is outside its block or was   *)
(* never written stops the evaluation; a write outside its block is kept   *)
(* in the field overrun.                                                   *)
(***************************************************************************)
EXTENDS Limb, TLC

NULL == <<"NULL", 0>>

p ++ i == <<p[1], p[2] + i>>

Rd(m, p, i) == m[p[1]][p[2] + i]

Wr(m, p, i, x) == IF p[2] + i \in DOMAIN m[p[1]] THEN [m EXCEPT ![p[1]][p[2] + i] = x]
                  ELSE [m EXCEPT !.overrun = TRUE]

\* A write through a pointer that may be null.
WrOpt(m, p, i, x) == IF p = NULL THEN m ELSE Wr(m, p, i, x)

\* gmp_xalloc_limbs: a new block, its limbs not initialised.
malloc(m, blk, n) == m @@ (blk :> [i \in 0 .. n - 1 |-> "?"])

free(m, blk) == [x \in DOMAIN m \ {blk} |-> m[x]]

\* The body Step of a loop, executed for the index 0, 1, ..., n - 1.  Each half of the
\* indices is a loop of its own, so that TLC does not nest n evaluations.
Iterate(n, Step(_, _), s) ==
  LET RECURSIVE Loop(_, _, _)
      Loop(i, k, t) == IF k = 1 THEN Step(t, i)
                       ELSE Then(Loop(i, k \div 2, t), LAMBDA u : Loop(i + k \div 2, k - k \div 2, u))
  IN IF n = 0 THEN s ELSE Then(s, LAMBDA s0 : Loop(0, n, s0))

-----------------------------------------------------------------------------
mpn_copyi(m, d, s, n) == Iterate(n, LAMBDA t, i : Wr(t, d, i, Rd(t, s, i)), m)

mpn_copyd(m, d, s, n) ==
  Iterate(n, LAMBDA t, i : Wr(t, d, n - 1 - i, Rd(t, s, n - 1 - i)), m)

mpn_cmp(m, ap, bp, n) ==
  LET Diff == {i \in 0 .. n - 1 : Rd(m, ap, i) # Rd(m, bp, i)} IN
  IF Diff = {} THEN 0
  ELSE IF Rd(m, ap, Max(Diff)) > Rd(m, bp, Max(Diff)) THEN 1 ELSE -1

mpn_cmp4(m, ap, an, bp, bn) ==
  IF an # bn THEN (IF an < bn THEN -1 ELSE 1) ELSE mpn_cmp(m, ap, bp, an)

mpn_normalized_size(m, xp, n) == Max({0} \cup {i \in 1 .. n : Rd(m, xp, i - 1) # 0})

mpn_zero_p(m, rp, n) == mpn_normalized_size(m, rp, n) = 0

mpn_zero(m, rp, n) == Iterate(n, LAMBDA t, i : Wr(t, rp, n - 1 - i, 0), m)

mpn_add_1(m, rp, ap, n, b) ==
  Iterate(n, LAMBDA t, i : LET r == W(Rd(t.m, ap, i) + t.cy)
                           IN [m |-> Wr(t.m, rp, i, r), cy |-> Bit(r < t.cy)],
          [m |-> m, cy |-> b])

\* Faulty variant: the carry of the second addition is not counted.
AddNoSecondCarry(m, rp, ap, bp, n) ==
  Iterate(n, LAMBDA t, i : LET r == W(Rd(t.m, ap, i) + t.cy)
                           IN [m |-> Wr(t.m, rp, i, W(r + Rd(t.m, bp, i))), cy |-> Bit(r < t.cy)],
          [m |-> m, cy |-> 0])

mpn_add_n(m, rp, ap, bp, n) ==
  Iterate(n, LAMBDA t, i : LET b == Rd(t.m, bp, i)
                               r == W(Rd(t.m, ap, i) + t.cy)
                               s == W(r + b)
                           IN [m |-> Wr(t.m, rp, i, s), cy |-> Bit(r < t.cy) + Bit(s < b)],
          [m |-> m, cy |-> 0])

mpn_add(m, rp, ap, an, bp, bn) ==
  Then(mpn_add_n(m, rp, ap, bp, bn), LAMBDA t :
    IF an > bn THEN mpn_add_1(t.m, rp ++ bn, ap ++ bn, an - bn, t.cy) ELSE t)

mpn_sub_1(m, rp, ap, n, b) ==
  Iterate(n, LAMBDA t, i : LET a == Rd(t.m, ap, i)
                           IN [m |-> Wr(t.m, rp, i, W(a - t.cy)), cy |-> Bit(a < t.cy)],
          [m |-> m, cy |-> b])

mpn_sub_n(m, rp, ap, bp, n) ==
  Iterate(n, LAMBDA t, i : LET a == Rd(t.m, ap, i)
                               b == W(Rd(t.m, bp, i) + t.cy)
                           IN [m |-> Wr(t.m, rp, i, W(a - b)), cy |-> Bit(b < t.cy) + Bit(a < b)],
          [m |-> m, cy |-> 0])

mpn_sub(m, rp, ap, an, bp, bn) ==
  Then(mpn_sub_n(m, rp, ap, bp, bn), LAMBDA t :
    IF an > bn THEN mpn_sub_1(t.m, rp ++ bn, ap ++ bn, an - bn, t.cy) ELSE t)

\* The product of up[i] and vl plus the carry, as <<low limb, carry>>.
MulStep(m, up, i, vl, cy) ==
  Then(gmp_umul_ppmm(Rd(m, up, i), vl), LAMBDA p :
  Then(W(p[2] + cy), LAMBDA l : <<l, W(p[1] + Bit(l < cy))>>))

mpn_mul_1(m, rp, up, n, vl) ==
  Iterate(n, LAMBDA t, i : Then(MulStep(t.m, up, i, vl, t.cy), LAMBDA p :
                             [m |-> Wr(t.m, rp, i, p[1]), cy |-> p[2]]),
          [m |-> m, cy |-> 0])

mpn_addmul_1(m, rp, up, n, vl) ==
  Iterate(n, LAMBDA t, i : Then(MulStep(t.m, up, i, vl, t.cy), LAMBDA p :
                           Then(W(Rd(t.m, rp, i) + p[1]), LAMBDA l :
                             [m |-> Wr(t.m, rp, i, l),
                              cy |-> W(p[2] + Bit(l < Rd(t.m, rp, i)))])),
          [m |-> m, cy |-> 0])

mpn_submul_1(m, rp, up, n, vl) ==
  Iterate(n, LAMBDA t, i : Then(MulStep(t.m, up, i, vl, t.cy), LAMBDA p :
                           Then(W(Rd(t.m, rp, i) - p[1]), LAMBDA l :
                             [m |-> Wr(t.m, rp, i, l),
                              cy |-> W(p[2] + Bit(l > Rd(t.m, rp, i)))])),
          [m |-> m, cy |-> 0])

mpn_mul(m, rp, up, un, vp, vn) ==
  Then(mpn_mul_1(m, rp, up, un, Rd(m, vp, 0)), LAMBDA t1 :
  Then(Iterate(vn - 1,
         LAMBDA t, i : Then(mpn_addmul_1(t, rp ++ (i + 1), up, un, Rd(t, vp, i + 1)), LAMBDA u :
                         Wr(u.m, rp, un + i + 1, u.cy)),
         Wr(t1.m, rp, un, t1.cy)), LAMBDA t :
    [m |-> t, cy |-> Rd(t, rp, un + vn - 1)]))

mpn_mul_n(m, rp, ap, bp, n) == mpn_mul(m, rp, ap, n, bp, n).m

mpn_sqr(m, rp, ap, n) == mpn_mul(m, rp, ap, n, ap, n).m

\* From the most significant limb downwards.
mpn_lshift(m, rp, up, n, cnt) ==
  Then(Rd(m, up, n - 1), LAMBDA top :
  Then(Iterate(n - 1, LAMBDA t, i :
         LET low == Rd(t.m, up, n - 2 - i)
         IN [m |-> Wr(t.m, rp, n - 1 - i, OrL[t.high][Shr(low, LimbBits - cnt)]),
             high |-> Shl(low, cnt)],
         [m |-> m, high |-> Shl(top, cnt)]), LAMBDA t :
    [m |-> Wr(t.m, rp, 0, t.high), cy |-> Shr(top, LimbBits - cnt)]))

\* From the least significant limb upwards.
mpn_rshift(m, rp, up, n, cnt) ==
  Then(Rd(m, up, 0), LAMBDA bottom :
  Then(Iterate(n - 1, LAMBDA t, i :
         LET high == Rd(t.m, up, i + 1)
         IN [m |-> Wr(t.m, rp, i, OrL[t.low][Shl(high, LimbBits - cnt)]),
             low |-> Shr(high, cnt)],
         [m |-> m, low |-> Shr(bottom, cnt)]), LAMBDA t :
    [m |-> Wr(t.m, rp, n - 1, t.low), cy |-> Shl(bottom, LimbBits - cnt)]))

\* All ones, as a bit number: there is no such bit.
NoBit == -1

\* The first bit that is set in limb, the limb i of up, or in a later limb xored with
\* ux.  With un = i the caller knows that there is one.
mpn_common_scan(m, limb, i, up, un, ux) ==
  LET last == IF un > i THEN un - 1 ELSE Max(DOMAIN m[up[1]]) - up[2]
  IN IF limb # 0 THEN i * LimbBits + gmp_ctz(limb)
     ELSE Then({j \in i + 1 .. last : XorL[ux][Rd(m, up, j)] # 0}, LAMBDA found :
            CASE found # {} -> Then(Min(found), LAMBDA j : j * LimbBits + gmp_ctz(XorL[ux][Rd(m, up, j)]))
              [] found = {} -> IF ux = 0 THEN NoBit ELSE un * LimbBits)

mpn_scan1(m, ptr, bit) ==
  LET i == bit \div LimbBits
  IN mpn_common_scan(m, AndL[Rd(m, ptr, i)][Shl(B - 1, bit % LimbBits)], i, ptr, i, 0)

mpn_scan0(m, ptr, bit) ==
  LET i == bit \div LimbBits
  IN mpn_common_scan(m, AndL[Com(Rd(m, ptr, i))][Shl(B - 1, bit % LimbBits)], i, ptr, i, B - 1)

mpn_com(m, rp, up, n) == Iterate(n, LAMBDA t, i : Wr(t, rp, i, Com(Rd(t, up, i))), m)

\* Zero limbs stay, the first other one is negated, the rest complemented.
mpn_neg(m, rp, up, n) ==
  Iterate(n, LAMBDA t, i : LET u == Rd(t.m, up, i)
                           IN [m |-> Wr(t.m, rp, i, IF t.cy = 1 THEN Com(u) ELSE Neg(u)),
                               cy |-> IF u = 0 THEN t.cy ELSE 1],
          [m |-> m, cy |-> 0])

mpn_popcount(m, p, n) == Iterate(n, LAMBDA c, i : c + gmp_popcount_limb(Rd(m, p, i)), 0)

=============================================================================
