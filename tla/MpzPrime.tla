------------------------------ MODULE MpzPrime ------------------------------
(***************************************************************************)
(* The primality test of mini-gmp.c.  It uses constants of 32 bits, so it  *)
(* is written on integers; the powers and comparisons it calls are those   *)
(* of MpzPower and Mpz.                                                    *)
(***************************************************************************)
EXTENDS MpzPower

\* mpz_powm on integers, for b, e >= 0 and m > 0.
RECURSIVE Powm(_, _, _)
Powm(b, e, m) ==
  IF e = 0 THEN 1 % m
  ELSE LET h == Powm(b, e \div 2, m) IN (((h * h) % m) * (IF e % 2 = 1 THEN b ELSE 1)) % m

\* The loop that squares y, k - 1 times at most.
RECURSIVE Squarings(_, _, _)
Squarings(n, y, k) ==
  LET z == (y * y) % n
  IN CASE k <= 1 -> 0
       [] k > 1 /\ z = n - 1 -> 1
       [] k > 1 /\ z # n - 1 -> IF z <= 1 THEN 0 ELSE Squarings(n, z, k - 1)

\* n = 1 + 2^k q; 1 if n passes for the base y.
gmp_millerrabin(n, y, q, k) ==
  LET z == Powm(y, q, n) IN IF z = 1 \/ z = n - 1 THEN 1 ELSE Squarings(n, z, k)

\* Faulty variant: the last factor is missing.
PrimeFactorsShort == {3, 5, 7, 11, 13, 17, 19, 23}

\* The prime factors of GMP_PRIME_PRODUCT.
PrimeFactors == {3, 5, 7, 11, 13, 17, 19, 23, 29}

\* GMP_PRIME_MASK, its high and its low 16 bits.
PrimeMask(i) == (IF i < 16 THEN 38620 \div 2 ^ i ELSE 51561 \div 2 ^ (i - 16)) % 2

\* The bases, until one is a witness, too large, or reps have passed.
RECURSIVE Bases41(_, _, _)
Bases41(n, j, reps) ==
  LET k == CHOOSE k \in 0 .. 31 : (n - 1) % 2 ^ k = 0 /\ ((n - 1) \div 2 ^ k) % 2 = 1
      y == j * j + j + 41
  IN CASE j >= reps \/ y >= n - 1 -> 1
       [] j < reps /\ y < n - 1 ->
            IF gmp_millerrabin(n, y, (n - 1) \div 2 ^ k, k) = 1 THEN Bases41(n, j + 1, reps) ELSE 0

mpz_probab_prime_p(n0, reps) ==
  LET n == Abs(n0)
  IN CASE n % 2 = 0 -> IF n = 2 THEN 2 ELSE 0
       [] n % 2 = 1 /\ n < 64 -> 2 * PrimeMask(n \div 2 + 1)
       [] n % 2 = 1 /\ n >= 64 /\ (\E p \in PrimeFactors : n % p = 0) -> 0
       [] n % 2 = 1 /\ n >= 64 /\ (\A p \in PrimeFactors : n % p # 0) ->
            IF n < 31 * 31 THEN 2 ELSE Bases41(n, 0, reps)

=============================================================================
