------------------------------ MODULE MpnCalls ------------------------------
(***************************************************************************)
(* A program that calls one of the functions of mini-gmp.c on limbs, one   *)
(* of its conversions, or one that counts, on memories made of limbs where *)
(* carries, corrections and digits are likely to go wrong.  The results    *)
(* are compared with the integers the limbs stand for, and with the memory *)
(* before the call: nothing outside the result may change.                 *)
(***************************************************************************)
EXTENDS MpzPrime

CONSTANTS Edges,        \* the limbs that memories are made of
          DivEdges,     \* those that divisors are made of
          Counts,       \* shift counts
          Bases,        \* number bases, each less than HighBit
          Chars,        \* characters of the texts that are parsed
          MaxChars,     \* their greatest length
          MaxN,         \* factorials and binomials of 0 .. MaxN
          Candidates,   \* numbers tested for primality
          Reps          \* bases tried for each

VARIABLES focus, s, call

vars == <<focus, s, call>>

NoCall == [op |-> "none"]

Fresh(n) == [i \in 0 .. n - 1 |-> "?"]

\* Operands anywhere in k, results there too or in r.
LinearInit ==
  \E k \in [0 .. 3 -> Edges] :
    focus = "linear" /\ s = [m |-> [k |-> k, r |-> Fresh(6), overrun |-> FALSE], sz |-> <<>>]

DivisionInit ==
  \E n \in [0 .. 3 -> {0, HighBit - 1, B - 1}], d \in [0 .. 2 -> DivEdges] :
    /\ focus = "division"
    /\ s = [m |-> [n |-> n, d |-> d, q |-> Fresh(4), overrun |-> FALSE], sz |-> <<>>]

\* A number of at most three limbs to write down or to export.
TextInit ==
  \E x \in [0 .. 2 -> Edges], neg \in BOOLEAN :
    LET n == Max({0} \cup {i \in 1 .. 3 : x[i - 1] # 0})
    IN /\ focus = "text"
       /\ s = [m  |-> [x |-> x, r |-> Fresh(0), overrun |-> FALSE],
               sz |-> [x |-> Signed(neg, n), r |-> 0]]

CountInit ==
  focus = "count" /\ s = [m |-> [r |-> Fresh(0), overrun |-> FALSE], sz |-> [r |-> 0]]

Init == (CountInit \/ TextInit \/ DivisionInit \/ LinearInit) /\ call = NoCall

-----------------------------------------------------------------------------
Calls(c, t) == s' = t /\ call' = c /\ UNCHANGED focus

\* n limbs from r are written, n limbs from a and b are read.
Linear(op, r, a, b, n, k, x) ==
  Calls([op |-> op, r |-> r, a |-> a, b |-> b, n |-> n, k |-> k, cy |-> x.cy], [s EXCEPT !.m = x.m])

Void(m) == [m |-> m, cy |-> 0]

Places(n) == {<<"k", i>> : i \in 0 .. 4 - n}

\* Loops that go upwards may write below what they read; those that go downwards, above.
Upwards(a, n) == {<<"r", 0>>} \cup {r \in Places(n) : r[2] <= a[2] \/ a[2] + n <= r[2]}

Downwards(a, n) == {<<"r", 0>>} \cup {r \in Places(n) : r[2] >= a[2] \/ r[2] + n <= a[2]}

Lengths == 2 .. 3

Linear2(op, F(_, _, _, _)) ==
  \E n \in Lengths : \E a, b \in Places(n) : \E r \in Upwards(a, n) \cap Upwards(b, n) :
    Linear(op, r, a, b, n, 0, F(r, a, b, n))

Linear1(op, Ks, F(_, _, _, _)) ==
  \E n \in Lengths, k \in Ks : \E a \in Places(n) : \E r \in Upwards(a, n) :
    Linear(op, r, a, NULL, n, k, F(r, a, n, k))

InPlace1(op, Ks, F(_, _, _, _)) ==
  \E n \in Lengths, k \in Ks : \E a \in Places(n) : \E r \in Upwards(a, n) \cap Places(n) :
    Linear(op, r, a, NULL, n, k, F(r, a, n, k))

LinearCall ==
  \/ Linear1("copyi", {0}, LAMBDA r, a, n, k : Void(mpn_copyi(s.m, r, a, n)))
  \/ \E n \in Lengths : \E a \in Places(n) : \E r \in Downwards(a, n) :
       Linear("copyd", r, a, NULL, n, 0, Void(mpn_copyd(s.m, r, a, n)))
  \/ Linear2("add_n", LAMBDA r, a, b, n : mpn_add_n(s.m, r, a, b, n))
  \/ Linear2("sub_n", LAMBDA r, a, b, n : mpn_sub_n(s.m, r, a, b, n))
  \/ Linear1("add_1", Edges, LAMBDA r, a, n, k : mpn_add_1(s.m, r, a, n, k))
  \/ Linear1("sub_1", Edges, LAMBDA r, a, n, k : mpn_sub_1(s.m, r, a, n, k))
  \/ Linear1("mul_1", Edges, LAMBDA r, a, n, k : mpn_mul_1(s.m, r, a, n, k))
  \/ InPlace1("addmul_1", Edges, LAMBDA r, a, n, k : mpn_addmul_1(s.m, r, a, n, k))
  \/ InPlace1("submul_1", Edges, LAMBDA r, a, n, k : mpn_submul_1(s.m, r, a, n, k))
  \/ \E n \in Lengths, k \in Counts : \E a \in Places(n) : \E r \in Downwards(a, n) :
       Linear("lshift", r, a, NULL, n, k, mpn_lshift(s.m, r, a, n, k))
  \/ Linear1("rshift", Counts, LAMBDA r, a, n, k : mpn_rshift(s.m, r, a, n, k))
  \/ Linear1("com", {0}, LAMBDA r, a, n, k : Void(mpn_com(s.m, r, a, n)))
  \/ Linear1("neg", {0}, LAMBDA r, a, n, k : mpn_neg(s.m, r, a, n))
  \/ \E n \in Lengths, k \in 1 .. 2 : \E a \in Places(n), b \in Places(k) :
       Linear("mul", <<"r", 0>>, a, b, n, k, mpn_mul(s.m, <<"r", 0>>, a, n, b, k))

DivisionCall ==
  \E dn \in 1 .. 3 :
    /\ Rd(s.m, <<"d", 0>>, dn - 1) > 0
    /\ Calls([op |-> "div_qr", n |-> dn],
             [s EXCEPT !.m = mpn_div_qr(@, <<"q", 0>>, <<"n", 0>>, 4, <<"d", 0>>, dn)])

\* The text of x, and the number that is read back from it.
TextCall ==
  \E base \in Bases \cup {-k : k \in Bases} : \E g \in {mpz_get_str(s, base, "x")} :
  \E p \in {mpz_set_str([s EXCEPT !.m = free(g.m, "str")], "r", Text(g.m, g.sp), Abs(base))} :
    Calls([op |-> "text", base |-> base, str |-> Text(g.m, g.sp),
           size |-> mpz_sizeinbase(s, "x", Abs(base)), ret |-> p.ret], p.s)

WordsCall ==
  \E order \in {1, -1}, size \in 1 .. 4, endian \in {1, 0, -1} :
    \E e \in {mpz_export(s, order, size, endian, "x")} :
    \E t \in {mpz_import([s EXCEPT !.m = e.m], "r", e.count, order, size, endian, <<"words", 0>>)} :
       Calls([op |-> "words", order |-> order, size |-> size, endian |-> endian, count |-> e.count,
              words |-> IF e.count = 0 THEN <<>> ELSE e.m.words],
             [t EXCEPT !.m = free(@, "words")])

ParseCall ==
  \E n \in 0 .. MaxChars, base \in {0, 2, 10, 16} : \E str \in [1 .. n -> Chars] :
    \E p \in {mpz_set_str(s, "r", str, base)} :
       Calls([op |-> "parse", base |-> base, str |-> str, ret |-> p.ret], p.s)

CountCall ==
  \/ \E n \in 0 .. MaxN : Calls([op |-> "fac_ui", n |-> n], mpz_fac_ui(s, "r", n))
  \/ \E n, k \in 0 .. MaxN : Calls([op |-> "bin_uiui", n |-> n, k |-> k], mpz_bin_uiui(s, "r", n, k))
  \/ \E n \in Candidates :
       Calls([op |-> "probab_prime_p", n |-> n, ret |-> mpz_probab_prime_p(n, Reps)], s)

\* A behaviour makes one call.
Next ==
  /\ call = NoCall
  /\ \/ focus = "linear" /\ LinearCall
     \/ focus = "division" /\ DivisionCall
     \/ focus = "text" /\ (TextCall \/ WordsCall)
     \/ focus = "count" /\ (ParseCall \/ CountCall)

Spec == Init /\ [][Next]_vars

-----------------------------------------------------------------------------
Val(m, p, n) == Iterate(n, LAMBDA v, i : v + Rd(m, p, i) * B ^ i, 0)

Number(t, o) == Signed(t.sz[o] < 0, Val(t.m, D(o), Abs(t.sz[o])))

\* The limbs a call may write.
Written(c) == {<<c.r[1], c.r[2] + i>> : i \in 0 .. (IF c.op = "mul" THEN c.n + c.k ELSE c.n) - 1}

\* What each function computes from the limbs it was given, for limbs a, b and r of the
\* memory before the call and R after it; P is the weight of the carry.
Equation(c, a, b, r, R, P) ==
  CASE c.op \in {"copyi", "copyd"} -> R = a
    [] c.op = "add_n" -> R + c.cy * P = a + b
    [] c.op = "sub_n" -> R - c.cy * P = a - b
    [] c.op = "add_1" -> R + c.cy * P = a + c.k
    [] c.op = "sub_1" -> R - c.cy * P = a - c.k
    [] c.op = "mul_1" -> R + c.cy * P = a * c.k
    [] c.op = "addmul_1" -> R + c.cy * P = r + a * c.k
    [] c.op = "submul_1" -> R - c.cy * P = r - a * c.k
    [] c.op = "lshift" -> R + c.cy * P = a * 2 ^ c.k
    [] c.op = "rshift" -> R * B + c.cy = a * 2 ^ (LimbBits - c.k)
    [] c.op = "com" -> R = P - 1 - a
    [] c.op = "neg" -> R = (P - a) % P /\ c.cy = Bit(a # 0)

\* The loops of mini-gmp.c on limb arrays compute the sum, difference, product or shift
\* with the carry they return, when the result overlaps an operand in the direction the
\* loop allows, and write no other limb.
LinearExact ==
  [][LET c == call' IN
     focus = "linear" =>
       /\ ~s'.m.overrun
       /\ \A blk \in {"k", "r"} : \A i \in DOMAIN s.m[blk] :
            <<blk, i>> \notin Written(c) => s'.m[blk][i] = s.m[blk][i]
       /\ IF c.op = "mul"
            THEN Val(s'.m, c.r, c.n + c.k) = Val(s.m, c.a, c.n) * Val(s.m, c.b, c.k)
            ELSE Equation(c, Val(s.m, c.a, c.n), IF c.b = NULL THEN 0 ELSE Val(s.m, c.b, c.n),
                          IF c.op \in {"addmul_1", "submul_1"} THEN Val(s.m, c.r, c.n) ELSE 0,
                          Val(s'.m, c.r, c.n), B ^ c.n)]_vars

\* mpn_div_qr leaves the quotient in q and the remainder in the low limbs of n, for
\* divisors of one, two and more limbs, whatever corrections the reciprocals need, and
\* frees what it allocated.
DivisionExact ==
  [][LET dn == call'.n
         n  == Val(s.m, <<"n", 0>>, 4)
         d  == Val(s.m, <<"d", 0>>, dn)
     IN focus = "division" =>
          /\ Val(s'.m, <<"q", 0>>, 5 - dn) = n \div d
          /\ Val(s'.m, <<"n", 0>>, dn) = n % d
          /\ s'.m.d = s.m.d
          /\ DOMAIN s'.m = DOMAIN s.m
          /\ ~s'.m.overrun]_vars

\* The number with these digits, most significant first.
Denotes(ds, base) == Iterate(Len(ds), LAMBDA v, i : v + ds[i + 1] * base ^ (Len(ds) - i - 1), 0)

Worth(c) == IF c >= Upper THEN c - Upper ELSE c

\* mpz_get_str writes the digits of |x| in the given base, without leading zeros, in the
\* case the sign of the base asks for, as many as mpz_sizeinbase says; mpz_set_str reads
\* the same number back.
TextExact ==
  [][LET c == call'
         x == Number(s, "x")
         ds == IF x < 0 THEN Tail(c.str) ELSE c.str
     IN c.op = "text" =>
          /\ x < 0 => Head(c.str) = Minus
          /\ \A i \in 1 .. Len(ds) : /\ Worth(ds[i]) \in 0 .. Abs(c.base) - 1
                                     /\ (ds[i] >= Upper) = (c.base < 0 /\ Worth(ds[i]) >= 10)
          /\ Denotes([i \in 1 .. Len(ds) |-> Worth(ds[i])], Abs(c.base)) = Abs(x)
          /\ x # 0 => ds[1] # 0
          /\ Len(ds) = c.size
          /\ c.ret = 0 /\ Number(s', "r") = x
          /\ DOMAIN s'.m = DOMAIN s.m
          /\ ~s'.m.overrun]_vars

\* Where the byte of significance j is among the exported words.
ByteAt(c, j) ==
  LET word == IF c.order = 1 THEN c.count - 1 - (j \div c.size) ELSE j \div c.size
      byte == IF c.endian = 1 THEN c.size - 1 - (j % c.size) ELSE j % c.size
  IN word * c.size + byte

\* mpz_export puts every byte of |x| where the order of the words and of the bytes says,
\* in as few words as hold it, and mpz_import reads |x| back.
WordsExact ==
  [][LET c == call'
         x == Abs(Number(s, "x"))
         Byte == 2 ^ CharBits
     IN c.op = "words" =>
          /\ \A j \in 0 .. c.count * c.size - 1 : c.words[ByteAt(c, j)] = (x \div Byte ^ j) % Byte
          /\ x < Byte ^ (c.count * c.size)
          /\ c.count > 0 => x >= Byte ^ ((c.count - 1) * c.size)
          /\ Number(s', "r") = x
          /\ ~s'.m.overrun]_vars

\* A text: spaces, a sign, a prefix if the base is left open, digits with spaces in between.
Body(str) ==
  LET from == Min({i \in 1 .. Len(str) + 1 : i > Len(str) \/ str[i] # Space})
  IN SubSeq(str, from, Len(str))

Unsigned(str) == IF Body(str) # <<>> /\ Head(Body(str)) = Minus THEN Tail(Body(str)) ELSE Body(str)

\* mpz_set_str accepts a text just if it has a digit, and no character that is neither a
\* digit of the base nor a space, after sign and prefix; it then yields the number the
\* digits denote, and otherwise zero.
ParseExact ==
  [][LET c == call'
         u == Unsigned(c.str)
         hex == c.base = 0 /\ Len(u) > 1 /\ u[1] = 0 /\ Worth(u[2]) = 33
         bin == c.base = 0 /\ Len(u) > 1 /\ u[1] = 0 /\ Worth(u[2]) = 11
         base == CASE c.base # 0 -> c.base [] hex -> 16 [] bin -> 2
                   [] OTHER -> IF u # <<>> /\ u[1] = 0 THEN 8 ELSE 10
         ds == SelectSeq(IF hex \/ bin THEN SubSeq(u, 3, Len(u)) ELSE u, LAMBDA d : d # Space)
         good == ds # <<>> /\ \A i \in 1 .. Len(ds) : Worth(ds[i]) \in 0 .. base - 1
         v == Denotes([i \in 1 .. Len(ds) |-> Worth(ds[i])], base)
     IN c.op = "parse" =>
          /\ c.ret = IF good THEN 0 ELSE -1
          /\ Number(s', "r") = IF ~good THEN 0 ELSE IF Body(c.str)[1] = Minus THEN -v ELSE v
          /\ DOMAIN s'.m = DOMAIN s.m
          /\ ~s'.m.overrun]_vars

\* The conversions of numbers to texts and words and back lose nothing.
ConversionsExact == TextExact /\ WordsExact /\ ParseExact

Pascal == [n \in 0 .. MaxN, k \in 0 .. MaxN |-> Cardinality(kSubset(k, 1 .. n))]

\* mpz_fac_ui and mpz_bin_uiui: the factorial, and the number of subsets of k elements.
CountsExact ==
  [][LET c == call' IN
     /\ c.op = "fac_ui" => Number(s', "r") = FoldSet(LAMBDA i, v : i * v, 1, 1 .. c.n)
     /\ c.op = "bin_uiui" => Number(s', "r") = Pascal[c.n, c.k]]_vars

IsPrime(n) == n > 1 /\ \A d \in 2 .. n - 1 : d * d > n \/ n % d # 0

\* mpz_probab_prime_p never rejects a prime, and calls certain (2) only what is prime;
\* among the candidates it also rejects every composite number.
PrimesExact ==
  [][LET c == call' IN
     c.op = "probab_prime_p" => /\ (c.ret # 0) = IsPrime(Abs(c.n))
                                /\ Abs(c.n) < 31 * 31 => c.ret \in {0, 2}]_vars

\* Factorials, binomial coefficients and the primality test agree with their definitions.
NumbersExact == CountsExact /\ PrimesExact
=============================================================================
