------------------------------ MODULE IntRegs -------------------------------
(***************************************************************************)
(* What the mpz functions of mini-gmp.c promise: registers that hold       *)
(* mathematical integers.  A step is one call; call says which function is *)
(* called, with which registers (r, q and t are results, a and b operands) *)
(* and with which small operand n, and ret is what it returns (0 if it     *)
(* returns nothing).  Bits are those of the two's complement without end.  *)
(***************************************************************************)
EXTENDS Integers, FiniteSets, FiniteSetsExt

CONSTANTS Obj,        \* the registers
          LimbBits,   \* an unsigned long has this many bits
          Width       \* no value of the instance needs more bits

VARIABLES val, call, ret

vars == <<val, call, ret>>

A == val[call'.a]
C == val[call'.b]
N == call'.n

Op(name) == call'.op = name

Sets(x) == val' = [val EXCEPT ![call'.r] = x]

Void(x) == Sets(x) /\ ret' = 0

Asks(x) == UNCHANGED val /\ ret' = x

Mag(x) == IF x < 0 THEN -x ELSE x
Sign(x) == IF x < 0 THEN -1 ELSE IF x > 0 THEN 1 ELSE 0
ULong == 0 .. 2 ^ LimbBits - 1
SLong == -(2 ^ (LimbBits - 1)) .. 2 ^ (LimbBits - 1) - 1

Arithmetic ==
  \/ Op("set") /\ Void(A)
  \/ Op("set_ui") /\ Void(N)
  \/ Op("set_si") /\ Void(N)
  \/ Op("abs") /\ Void(Mag(A))
  \/ Op("neg") /\ Void(-A)
  \/ Op("swap") /\ val' = [val EXCEPT ![call'.a] = C, ![call'.b] = A] /\ ret' = 0
  \/ Op("realloc2") /\ Void(A)
  \/ Op("add") /\ Void(A + C)
  \/ Op("sub") /\ Void(A - C)
  \/ Op("mul") /\ Void(A * C)
  \/ Op("addmul") /\ Void(val[call'.r] + A * C)
  \/ Op("submul") /\ Void(val[call'.r] - A * C)
  \/ Op("add_ui") /\ Void(A + N)
  \/ Op("sub_ui") /\ Void(A - N)
  \/ Op("ui_sub") /\ Void(N - A)
  \/ Op("mul_ui") /\ Void(A * N)
  \/ Op("mul_si") /\ Void(A * N)
  \/ Op("addmul_ui") /\ Void(val[call'.r] + A * N)
  \/ Op("submul_ui") /\ Void(val[call'.r] - A * N)
  \/ Op("mul_2exp") /\ Void(A * 2 ^ N)

Queries ==
  \/ Op("sgn") /\ Asks(Sign(A))
  \/ Op("cmp") /\ Asks(Sign(A - C))
  \/ Op("cmp_ui") /\ Asks(Sign(A - N))
  \/ Op("cmp_si") /\ Asks(Sign(A - N))
  \/ Op("cmpabs") /\ Asks(Sign(Mag(A) - Mag(C)))
  \/ Op("cmpabs_ui") /\ Asks(Sign(Mag(A) - N))
  \/ Op("get_ui") /\ Asks(Mag(A) % 2 ^ LimbBits)
  \/ Op("get_si") /\ UNCHANGED val /\ (A \in SLong => ret' = A)
  \/ Op("getlimbn") /\ Asks((Mag(A) \div 2 ^ (N * LimbBits)) % 2 ^ LimbBits)
  \/ Op("fits_slong_p") /\ Asks(A \in SLong)
  \/ Op("fits_ulong_p") /\ Asks(A \in ULong)

-----------------------------------------------------------------------------
Quot(mode, n, d) ==
  LET floor == IF d > 0 THEN n \div d ELSE (-n) \div (-d)
      ceil  == IF d > 0 THEN -((-n) \div d) ELSE -(n \div (-d))
  IN CASE mode = "floor" -> floor
       [] mode = "ceil" -> ceil
       [] mode = "trunc" -> IF (n < 0) = (d < 0) THEN floor ELSE ceil

\* Quotient and remainder by d, each stored unless its register is NULL.
Divides(d) ==
  LET x == Quot(call'.mode, A, d)
  IN val' = [o \in Obj |-> CASE o = call'.q -> x
                             [] o = call'.r -> A - x * d
                             [] OTHER -> val[o]]

Division ==
  \/ Op("div_qr") /\ Divides(C) /\ ret' = (IF Mag(A) % Mag(C) = 0 THEN 0 ELSE 1)
  \/ Op("mod") /\ Void(A % Mag(C))
  \/ Op("divisible_p") /\ Asks(A % Mag(C) = 0)
  \/ Op("congruent_p") /\ Asks(IF N = 0 THEN A = C ELSE (A - C) % N = 0)
  \/ Op("div_q_2exp") /\ Void(Quot(call'.mode, A, 2 ^ N))
  \/ Op("div_r_2exp") /\ Void(A - 2 ^ N * Quot(call'.mode, A, 2 ^ N))
  \/ Op("div_qr_ui") /\ Divides(N) /\ ret' = Mag(A - N * Quot(call'.mode, A, N))

-----------------------------------------------------------------------------
BitOf(x, k) == (x \div 2 ^ k) % 2

\* The integer with these bits; the one at Width is the sign.
FromBits(F(_)) ==
  MapThenSumSet(LAMBDA k : F(k) * 2 ^ k, 0 .. Width - 1) - F(Width) * 2 ^ Width

\* The lowest bit from k on that is b, or -1.
Scan(x, k, b) ==
  LET Found == {i \in k .. k + Width : BitOf(x, i) = b} IN IF Found = {} THEN -1 ELSE Min(Found)

Ones(x) == Cardinality({i \in 0 .. Width : BitOf(x, i) = 1})

Bits ==
  \/ Op("tstbit") /\ Asks(BitOf(A, N))
  \/ Op("setbit") /\ Void(A + 2 ^ N * (1 - BitOf(A, N)))
  \/ Op("clrbit") /\ Void(A - 2 ^ N * BitOf(A, N))
  \/ Op("combit") /\ Void(A + 2 ^ N * (1 - 2 * BitOf(A, N)))
  \/ Op("com") /\ Void(-A - 1)
  \/ Op("and") /\ Void(FromBits(LAMBDA k : BitOf(A, k) * BitOf(C, k)))
  \/ Op("ior") /\ Void(FromBits(LAMBDA k : Max({BitOf(A, k), BitOf(C, k)})))
  \/ Op("xor") /\ Void(FromBits(LAMBDA k : (BitOf(A, k) + BitOf(C, k)) % 2))
  \/ Op("popcount") /\ Asks(IF A < 0 THEN -1 ELSE Ones(A))
  \/ Op("hamdist") /\ Asks(IF (A < 0) # (C < 0) THEN -1
                           ELSE Cardinality({k \in 0 .. Width : BitOf(A, k) # BitOf(C, k)}))
  \/ Op("scan0") /\ Asks(Scan(A, N, 0))
  \/ Op("scan1") /\ Asks(Scan(A, N, 1))

-----------------------------------------------------------------------------
Gcd(x, y) ==
  IF x = 0 /\ y = 0 THEN 0
  ELSE Max({k \in 1 .. Max({Mag(x), Mag(y)}) : x % k = 0 /\ y % k = 0})

Lcm(x, y) == IF x = 0 \/ y = 0 THEN 0 ELSE Mag(x * y) \div Gcd(x, y)

\* Cofactors, in the registers q and t if they are wanted; one of them is as small as a
\* cofactor can be.
Cofactors ==
  LET p == IF call'.q = "NULL" THEN 0 ELSE val'[call'.q]
      m == IF call'.t = "NULL" THEN 0 ELSE val'[call'.t]
  IN /\ val'[call'.r] = Gcd(A, C)
     /\ call'.q # "NULL" /\ call'.t # "NULL" =>
          /\ A * p + C * m = Gcd(A, C)
          /\ A # 0 /\ C # 0 => 2 * Gcd(A, C) * Mag(p) <= Mag(C) \/ 2 * Gcd(A, C) * Mag(m) <= Mag(A)
     /\ call'.q # "NULL" /\ call'.t = "NULL" /\ C # 0 => (A * p - Gcd(A, C)) % Mag(C) = 0
     /\ \A o \in Obj \ {call'.r, call'.q, call'.t} : val'[o] = val[o]
     /\ ret' = 0

\* The inverse modulo |C|, the least positive one; nothing is stored if there is none.
Inverts ==
  IF A # 0 /\ Mag(C) > 1 /\ Gcd(A, C) = 1
    THEN /\ Sets(val'[call'.r])
         /\ val'[call'.r] \in 1 .. Mag(C) - 1
         /\ (A * val'[call'.r]) % Mag(C) = 1
         /\ ret' = TRUE
    ELSE Asks(FALSE)

Pow(x, n) == IF n = 0 THEN 1 ELSE x ^ n

PowMod(b, e, m) == LET f[i \in 0 .. e] == IF i = 0 THEN 1 % m ELSE (f[i - 1] * b) % m IN f[e]

\* A to the e modulo m.  A zero exponent gives 1 even if m is 1.
Powers(e, m) ==
  /\ Sets(val'[call'.r])
  /\ ret' = 0
  /\ CASE e = 0 -> val'[call'.r] = 1
       [] e > 0 -> val'[call'.r] = PowMod(A % m, e, m)
       [] e < 0 -> /\ val'[call'.r] \in 0 .. m - 1
                   /\ (val'[call'.r] * PowMod(A % m, -e, m)) % m = 1

\* x is the N-th root of A, rounded towards zero.
IsRoot(x) == /\ Mag(x) ^ N <= Mag(A) /\ Mag(A) < (Mag(x) + 1) ^ N
             /\ x # 0 => Sign(x) = Sign(A)

\* Root in q, remainder in r, each unless its register is NULL.
Roots ==
  \E x \in -Mag(A) .. Mag(A) :
    /\ IsRoot(x)
    /\ val' = [o \in Obj |-> CASE o = call'.q -> x
                               [] o = call'.r -> A - x ^ N
                               [] OTHER -> val[o]]

Exact == \E x \in -Mag(A) .. Mag(A) : x ^ N = A

Numbers ==
  \/ Op("gcd") /\ Void(Gcd(A, C))
  \/ Op("gcd_ui") /\ Sets(Gcd(A, N)) /\ ret' = (IF N = 0 THEN 0 ELSE Gcd(A, N))
  \/ Op("gcdext") /\ Cofactors
  \/ Op("lcm") /\ Void(Lcm(A, C))
  \/ Op("lcm_ui") /\ Void(Lcm(A, N))
  \/ Op("invert") /\ Inverts
  \/ Op("pow_ui") /\ Void(Pow(A, N))
  \/ Op("ui_pow_ui") /\ Void(Pow(call'.k, N))
  \/ Op("powm") /\ Powers(N, Mag(val[call'.t]))
  \/ Op("rootrem") /\ Roots /\ ret' = 0
  \/ Op("root") /\ Roots /\ ret' = Exact
  \/ Op("perfect_square_p") /\ Asks(\E x \in 0 .. Mag(A) : x * x = A)

-----------------------------------------------------------------------------
Init == val \in [Obj -> Int] /\ call.op = "none" /\ ret = 0

Next == Arithmetic \/ Queries \/ Division \/ Bits \/ Numbers

Spec == Init /\ [][Next]_vars
=============================================================================
