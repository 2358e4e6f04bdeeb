------------------------------- MODULE MpzStr -------------------------------
(***************************************************************************)
(* Signed integers of mini-gmp.c as text and as words.  A character is a   *)
(* number: d for the digit or the small letter worth d, Upper + d for a    *)
(* capital, and one value for each other kind the code tells apart.  Text  *)
(* is a sequence without its closing NUL.                                  *)
(***************************************************************************)
EXTENDS MpzBits, MpnStr, Sequences

CONSTANT CharBits       \* CHAR_BIT

ASSUME CharAssumption == CharBits \in Nat \ {0} /\ LimbBits % CharBits = 0

LimbBytes == LimbBits \div CharBits     \* sizeof (mp_limb_t)

Minus == -1
Space == -2
NUL   == -3
Other == -4
Upper == 100

\* For base < HighBit, as the reciprocal of the base needs; the code's bases end at 36.
mpz_sizeinbase(s, u, base) ==
  LET un == Size(s, u)
      bits == BitSize(s.m, D(u), un)
      k  == mpn_base_power_of_two_p(base)
  IN CASE un = 0 -> 1
       [] un # 0 /\ k > 0 -> (bits + k - 1) \div k
       [] un # 0 /\ k = 0 ->
            Then(mpn_div_qr_1_invert(base), LAMBDA bi :
              Iterate(bits, LAMBDA t, i :
                IF t.un = 0 THEN t
                ELSE Then(mpn_div_qr_1_preinv(t.m, <<"sib", 0>>, <<"sib", 0>>, t.un, bi).m, LAMBDA m1 :
                       [m |-> m1, un |-> t.un - Bit(Rd(m1, <<"sib", 0>>, t.un - 1) = 0), n |-> t.n + 1]),
                [m |-> mpn_copyi(malloc(s.m, "sib", un), <<"sib", 0>>, D(u), un), un |-> un, n |-> 0]).n)

\* The text in a block of its own, or NULL.
mpz_get_str(s, base, u) ==
  LET b  == IF Abs(base) <= 1 THEN 10 ELSE Abs(base)
      sp == <<"str", 0>>
      un == Size(s, u)
      i  == Bit(s.sz[u] < 0)
      k  == mpn_base_power_of_two_p(b)
      Char(d) == IF base < 0 /\ d >= 10 THEN Upper + d ELSE d
  IN IF b > 36 THEN [m |-> s.m, sp |-> NULL]
     ELSE Then(malloc(s.m, "str", 2 + mpz_sizeinbase(s, u, b)), LAMBDA m0 :
          IF un = 0 THEN [m |-> Wr(Wr(m0, sp, 0, 0), sp, 1, NUL), sp |-> sp]
          ELSE Then(IF i = 1 THEN Wr(m0, sp, 0, Minus) ELSE m0, LAMBDA m1 :
               Then(IF k > 0 THEN mpn_get_str_bits(m1, sp ++ i, k, D(u), un)
                    ELSE mpn_get_str_other(mpn_copyi(malloc(m1, "gtp", un), <<"gtp", 0>>, D(u), un),
                                           sp ++ i, b, mpn_get_base_info(b), <<"gtp", 0>>, un), LAMBDA g :
               Then(Iterate(g.sn, LAMBDA t, j : Wr(t, sp, i + j, Char(Rd(t, sp, i + j))),
                            free(g.m, "gtp")), LAMBDA m3 :
                 [m |-> Wr(m3, sp, i + g.sn, NUL), sp |-> sp]))))

\* The characters before the NUL at sp.
Text(m, sp) ==
  LET n == Min({i \in DOMAIN m[sp[1]] : (\A j \in 0 .. i - 1 : m[sp[1]][j] # NUL) /\ m[sp[1]][i] = NUL})
  IN [k \in 1 .. n |-> Rd(m, sp, k - 1)]

\* A character that is no digit is worth base, which is refused.
Digit(c, base) == CASE c \in 0 .. 35 -> c
                    [] c \in Upper + 10 .. Upper + 35 -> c - Upper
                    [] OTHER -> base

\* The base and the length of the prefix of a number whose base is not given.
Prefix(str) ==
  CASE str = <<>> \/ str[1] # 0 -> <<10, 0>>
    [] Len(str) > 1 /\ str[1] = 0 /\ str[2] \in {33, Upper + 33} -> <<16, 2>>
    [] Len(str) > 1 /\ str[1] = 0 /\ str[2] \in {11, Upper + 11} -> <<2, 2>>
    [] OTHER -> <<8, 0>>

\* The number of the dn digits at dp.
FromDigits(s, r, sign, dn, b) ==
  LET k == mpn_base_power_of_two_p(b)
      dp == <<"dp", 0>>
      Store(t, m, rn) == SetSize([t EXCEPT !.m = free(m, "dp")], r, Signed(sign, rn))
  IN IF k > 0
       THEN Then(MPZ_REALLOC(s, r, (dn * k + LimbBits - 1) \div LimbBits), LAMBDA t :
            Then(mpn_set_str_bits(t.m, D(r), dp, dn, k), LAMBDA x : Store(t, x.m, x.rn)))
       ELSE Then(mpn_get_base_info(b), LAMBDA info :
            Then(MPZ_REALLOC(s, r, (dn + info.exp - 1) \div info.exp), LAMBDA t :
            Then(mpn_set_str_other(t.m, D(r), dp, dn, b, info), LAMBDA x :
              Store(t, x.m, x.rn - Bit(Rd(x.m, D(r), x.rn - 1) = 0)))))

mpz_set_str(s, r, str, base) ==
  LET first == Min({i \in 1 .. Len(str) + 1 : i > Len(str) \/ str[i] # Space})
      sign == first <= Len(str) /\ str[first] = Minus
      rest == SubSeq(str, first + Bit(sign), Len(str))
      b    == IF base = 0 THEN Prefix(rest)[1] ELSE base
      body == SubSeq(rest, 1 + (IF base = 0 THEN Prefix(rest)[2] ELSE 0), Len(rest))
      ds   == SelectSeq(body, LAMBDA c : c # Space)
  IN IF ds = <<>> \/ \E i \in 1 .. Len(ds) : Digit(ds[i], b) >= b
       THEN [s |-> SetSize(s, r, 0), ret |-> -1]
       ELSE Then(Iterate(Len(ds), LAMBDA t, i : Wr(t, <<"dp", 0>>, i, Digit(ds[i + 1], b)),
                         malloc(s.m, "dp", Len(body))), LAMBDA m :
              [s |-> FromDigits([s EXCEPT !.m = m], r, sign, Len(ds), b), ret |-> 0])

-----------------------------------------------------------------------------
(***************************************************************************)
(* Words: order says which of count words comes first (1: the most         *)
(* significant), endian which of the size bytes of a word does (0: as the  *)
(* machine has it, here the least significant one).                        *)
(***************************************************************************)
gmp_detect_endian == -1

\* Where p points for byte j of word k, counted from the least significant end: it starts
\* at the least significant byte, moves by -endian after a byte and by word_step after a word.
Walk(order, endian, size, count, k, j) ==
  LET e == IF endian = 0 THEN gmp_detect_endian ELSE endian
      step == (IF order # e THEN 2 * size ELSE 0) * (IF order = 1 THEN -1 ELSE 1)
      start == (IF order = 1 THEN size * (count - 1) ELSE 0) + (IF e = 1 THEN size - 1 ELSE 0)
  IN start + k * (step - size * e) - j * e

mpz_import(s, r, count, order, size, endian, src) ==
  Then(MPZ_REALLOC(s, r, (size * count + LimbBytes - 1) \div LimbBytes), LAMBDA t :
  Then(Iterate(count * size, LAMBDA x, c :
         LET byte == Rd(t.m, src, Walk(order, endian, size, count, c \div size, c % size))
         IN Then(OrL[x.limb][Shl(byte, x.bytes * CharBits)], LAMBDA limb :
              IF x.bytes + 1 = LimbBytes
                THEN [m |-> Wr(x.m, D(r), x.i, limb), limb |-> 0, bytes |-> 0, i |-> x.i + 1]
                ELSE [x EXCEPT !.limb = limb, !.bytes = @ + 1]),
         [m |-> t.m, limb |-> 0, bytes |-> 0, i |-> 0]), LAMBDA x :
    IF x.limb # 0 THEN SetSize([t EXCEPT !.m = Wr(x.m, D(r), x.i, x.limb)], r, x.i + 1)
    ELSE SetSize([t EXCEPT !.m = x.m], r, mpn_normalized_size(x.m, D(r), x.i))))

\* The words of |u| in a new block, and their number.
mpz_export(s, order, size, endian, u) ==
  LET un == Size(s, u)
      k  == Min({i \in 1 .. LimbBytes : Shr(Rd(s.m, D(u), un - 1), i * CharBits) = 0})
      count == (k + (un - 1) * LimbBytes + size - 1) \div size
      x  == Iterate(count * size, LAMBDA x, c :
              LET load == x.bytes = 0 /\ x.i < un
                  limb == IF load THEN Rd(s.m, D(u), x.i) ELSE x.limb
              IN [m |-> Wr(x.m, <<"words", 0>>, Walk(order, endian, size, count, c \div size, c % size),
                           limb % 2 ^ CharBits),
                  limb |-> Shr(limb, CharBits),
                  bytes |-> (IF x.bytes = 0 THEN LimbBytes ELSE x.bytes) - 1,
                  i |-> x.i + Bit(load)],
              [m |-> malloc(s.m, "words", count * size), limb |-> 0, bytes |-> 0, i |-> 0])
  IN IF un = 0 THEN [m |-> s.m, count |-> 0] ELSE [m |-> x.m, count |-> count]

=============================================================================
