------------------------------ MODULE MpzCalls ------------------------------
(***************************************************************************)
(* A program that calls one mpz function of mini-gmp.c, with operands that *)
(* hold any of the chosen values and may be the same object as a result.   *)
(* The state is the memory and the sizes of the objects; call and ret      *)
(* record the call and what it returned.  Blocks are exactly as long as    *)
(* the number or longer, with limbs that were never written above it.      *)
(***************************************************************************)
EXTENDS MpzPower

CONSTANTS Magnitudes,   \* absolute values of the operands
          Slack,        \* limbs allocated and not used: a set of pairs, operands and results
          MaxLimbs,     \* they have at most this many limbs
          MaxBits,      \* bit numbers and shifts end here
          Exponents,    \* exponents of modular powers
          Width         \* no result has more bits

VARIABLES s, call, ret

vars == <<s, call, ret>>

Obj == {"x", "y", "z", "w", "v"}

Values == Magnitudes \cup {-k : k \in Magnitudes}

Value(t, o) ==
  Signed(t.sz[o] < 0, Iterate(Abs(t.sz[o]), LAMBDA w, i : w + Rd(t.m, D(o), i) * B ^ i, 0))

Limbs(k) == Min({n \in 0 .. MaxLimbs : Abs(k) < B ^ n})

\* The block of an object that holds k, with some limbs more than it needs.
Holding(k, more) ==
  [i \in 0 .. Limbs(k) + more - 1 |-> IF i < Limbs(k) THEN (Abs(k) \div B ^ i) % B ELSE "?"]

NoCall == [op |-> "none", r |-> "NULL", q |-> "NULL", t |-> "NULL", a |-> "NULL", b |-> "NULL",
           n |-> 0, k |-> 0, mode |-> "none"]

Init ==
  \E a, b \in Values, e \in Slack :
    /\ s = [m  |-> [x |-> Holding(a, e[1]), y |-> Holding(b, e[1]), z |-> Holding(0, e[2]),
                    w |-> Holding(0, e[2]), v |-> Holding(0, 0), overrun |-> FALSE],
            sz |-> [x |-> Signed(a < 0, Limbs(a)), y |-> Signed(b < 0, Limbs(b)),
                    z |-> 0, w |-> 0, v |-> 0]]
    /\ call = NoCall
    /\ ret = 0

-----------------------------------------------------------------------------
\* A call and its effect.
Calls(c, t, x) == s' = t /\ call' = c /\ ret' = x

\* A behaviour makes one call.
Ready == call = NoCall

\* Functions without a second operand are called while y is zero.
OneOperand == Ready /\ s.sz["y"] = 0

\* Result and operands, the ways they can coincide.
Three == {<<"z", "x", "y">>, <<"x", "x", "y">>, <<"y", "x", "y">>, <<"z", "x", "x">>, <<"x", "x", "x">>}

Two == {<<"z", "x">>, <<"x", "x">>}

Fn3(op, Ps, F(_, _, _)) ==
  Ready /\ \E p \in Ps : Calls([NoCall EXCEPT !.op = op, !.r = p[1], !.a = p[2], !.b = p[3]],
                         F(p[1], p[2], p[3]), 0)

\* A result, an operand and a number.
Fn2(op, Ns, F(_, _, _)) ==
  OneOperand /\ \E p \in Two, n \in Ns :
    Calls([NoCall EXCEPT !.op = op, !.r = p[1], !.a = p[2], !.n = n], F(p[1], p[2], n), 0)

\* One object, changed in place, and a number.
Fn1(op, Ns, F(_, _)) ==
  OneOperand /\ \E n \in Ns :
    Calls([NoCall EXCEPT !.op = op, !.r = "x", !.a = "x", !.n = n], F("x", n), 0)

\* Functions that only answer.
Ask1(op, Ns, F(_, _)) ==
  OneOperand /\ \E n \in Ns : Calls([NoCall EXCEPT !.op = op, !.a = "x", !.n = n], s, F("x", n))

Ask2(op, Bs, F(_, _)) ==
  Ready /\ \E b \in Bs : Calls([NoCall EXCEPT !.op = op, !.a = "x", !.b = b], s, F("x", b))

One   == {0}
SLong == -HighBit .. HighBit - 1
BitNo == 0 .. MaxBits

Arithmetic ==
  \/ Fn2("set", One, LAMBDA r, a, n : mpz_set(s, r, a))
  \/ Fn1("set_ui", Limb, LAMBDA r, n : mpz_set_ui(s, r, n))
  \/ Fn1("set_si", SLong, LAMBDA r, n : mpz_set_si(s, r, n))
  \/ Fn2("abs", One, LAMBDA r, a, n : mpz_abs(s, r, a))
  \/ Fn2("neg", One, LAMBDA r, a, n : mpz_neg(s, r, a))
  \/ Ready /\ \E b \in {"x", "y"} : Calls([NoCall EXCEPT !.op = "swap", !.a = "x", !.b = b], mpz_swap(s, "x", b), 0)
  \/ Fn1("realloc2", {k \in BitNo : k >= Size(s, "x") * LimbBits}, LAMBDA r, n : mpz_realloc2(s, r, n))
  \/ Fn3("add", Three, LAMBDA r, a, b : mpz_add(s, r, a, b))
  \/ Fn3("sub", Three, LAMBDA r, a, b : mpz_sub(s, r, a, b))
  \/ Fn3("mul", Three, LAMBDA r, a, b : mpz_mul(s, r, a, b))
  \/ Fn3("addmul", Three, LAMBDA r, a, b : mpz_addmul(s, r, a, b))
  \/ Fn3("submul", Three, LAMBDA r, a, b : mpz_submul(s, r, a, b))
  \/ Fn2("add_ui", Limb, LAMBDA r, a, n : mpz_add_ui(s, r, a, n))
  \/ Fn2("sub_ui", Limb, LAMBDA r, a, n : mpz_sub_ui(s, r, a, n))
  \/ Fn2("ui_sub", Limb, LAMBDA r, a, n : mpz_ui_sub(s, r, n, a))
  \/ Fn2("mul_ui", Limb, LAMBDA r, a, n : mpz_mul_ui(s, r, a, n))
  \/ Fn2("mul_si", SLong, LAMBDA r, a, n : mpz_mul_si(s, r, a, n))
  \/ Fn2("addmul_ui", Limb, LAMBDA r, a, n : mpz_addmul_ui(s, r, a, n))
  \/ Fn2("submul_ui", Limb, LAMBDA r, a, n : mpz_submul_ui(s, r, a, n))
  \/ Fn2("mul_2exp", BitNo, LAMBDA r, a, n : mpz_mul_2exp(s, r, a, n))

Queries ==
  \/ Ask1("sgn", One, LAMBDA a, n : mpz_sgn(s, a))
  \/ Ask2("cmp", {"x", "y"}, LAMBDA a, b : mpz_cmp(s, a, b))
  \/ Ask1("cmp_ui", Limb, LAMBDA a, n : mpz_cmp_ui(s, a, n))
  \/ Ask1("cmp_si", SLong, LAMBDA a, n : mpz_cmp_si(s, a, n))
  \/ Ask2("cmpabs", {"x", "y"}, LAMBDA a, b : mpz_cmpabs(s, a, b))
  \/ Ask1("cmpabs_ui", Limb, LAMBDA a, n : mpz_cmpabs_ui(s, a, n))
  \/ Ask1("get_ui", One, LAMBDA a, n : mpz_get_ui(s, a))
  \/ Ask1("get_si", One, LAMBDA a, n : mpz_get_si(s, a))
  \/ Ask1("getlimbn", 0 .. 4, LAMBDA a, n : mpz_getlimbn(s, a, n))
  \/ Ask1("fits_slong_p", One, LAMBDA a, n : mpz_fits_slong_p(s, a))
  \/ Ask1("fits_ulong_p", One, LAMBDA a, n : mpz_fits_ulong_p(s, a))

-----------------------------------------------------------------------------
\* Quotient, remainder, dividend and divisor.
Four == {<<"z", "w", "x", "y">>, <<"x", "y", "x", "y">>, <<"y", "x", "x", "y">>, <<"z", "w", "x", "x">>,
         <<"z", "NULL", "x", "y">>, <<"NULL", "z", "x", "y">>, <<"NULL", "NULL", "x", "y">>}

DivQr(p, mode) ==
  \E x \in {mpz_div_qr(s, p[1], p[2], p[3], p[4], mode)} :
     Calls([NoCall EXCEPT !.op = "div_qr", !.q = p[1], !.r = p[2], !.a = p[3], !.b = p[4], !.mode = mode],
           x.s, x.ret)

DivQrUi(p, n, mode) ==
  \E x \in {mpz_div_qr_ui(s, p[1], p[2], "x", n, mode)} :
     Calls([NoCall EXCEPT !.op = "div_qr_ui", !.q = p[1], !.r = p[2], !.a = "x", !.n = n, !.mode = mode],
           x.s, x.ret)

Div2exp(op, p, n, mode, t) ==
  Calls([NoCall EXCEPT !.op = op, !.r = p[1], !.a = p[2], !.n = n, !.mode = mode], t, 0)

\* For a divisor other than zero: the code stops the program for that.
Divisors == {o \in {"x", "y"} : s.sz[o] # 0}

Division ==
  \/ Ready /\ \E p \in Four, mode \in Modes : p[4] \in Divisors /\ DivQr(p, mode)
  \/ Fn3("mod", {p \in Three : p[3] \in Divisors}, LAMBDA r, a, b : mpz_mod(s, r, a, b))
  \/ Ask2("divisible_p", Divisors, LAMBDA a, b : mpz_divisible_p(s, a, b))
  \/ Ready /\ \E n \in {0, 1, 2, 3} :
       LET t == mpz_set_ui(mpz_init(s, "cm"), "cm", n)
       IN Calls([NoCall EXCEPT !.op = "congruent_p", !.a = "x", !.b = "y", !.n = n], s,
                mpz_congruent_p(t, "x", "y", "cm"))
  \/ OneOperand /\ \E p \in Two, n \in BitNo, mode \in Modes :
       Div2exp("div_q_2exp", p, n, mode, mpz_div_q_2exp(s, p[1], p[2], n, mode))
  \/ OneOperand /\ \E p \in Two, n \in BitNo, mode \in Modes :
       Div2exp("div_r_2exp", p, n, mode, mpz_div_r_2exp(s, p[1], p[2], n, mode))
  \/ OneOperand /\ \E p \in {<<q[1], q[2]>> : q \in Four}, n \in Limb \ {0}, mode \in Modes :
       DivQrUi(p, n, mode)

Bits ==
  \/ Ask1("tstbit", BitNo, LAMBDA a, n : mpz_tstbit(s, a, n))
  \/ Fn1("setbit", BitNo, LAMBDA r, n : mpz_setbit(s, r, n))
  \/ Fn1("clrbit", BitNo, LAMBDA r, n : mpz_clrbit(s, r, n))
  \/ Fn1("combit", BitNo, LAMBDA r, n : mpz_combit(s, r, n))
  \/ Fn2("com", One, LAMBDA r, a, n : mpz_com(s, r, a))
  \/ Fn3("and", Three, LAMBDA r, a, b : mpz_and(s, r, a, b))
  \/ Fn3("ior", Three, LAMBDA r, a, b : mpz_ior(s, r, a, b))
  \/ Fn3("xor", Three, LAMBDA r, a, b : mpz_xor(s, r, a, b))
  \/ Ask1("popcount", One, LAMBDA a, n : mpz_popcount(s, a))
  \/ Ask2("hamdist", {"x", "y"}, LAMBDA a, b : mpz_hamdist(s, a, b))
  \/ Ask1("scan0", BitNo, LAMBDA a, n : mpz_scan0(s, a, n))
  \/ Ask1("scan1", BitNo, LAMBDA a, n : mpz_scan1(s, a, n))

-----------------------------------------------------------------------------
GcdUi(p, n) ==
  \E x \in {mpz_gcd_ui(s, p[1], p[2], n)} :
     Calls([NoCall EXCEPT !.op = "gcd_ui", !.r = p[1], !.a = p[2], !.n = n], x.s, x.ret)

Gcdext(p) ==
  Calls([NoCall EXCEPT !.op = "gcdext", !.r = p[1], !.q = p[2], !.t = p[3], !.a = "x", !.b = "y"],
        mpz_gcdext(s, p[1], p[2], p[3], "x", "y"), 0)

Invert(p) ==
  \E x \in {mpz_invert(s, p[1], p[2], p[3])} :
     Calls([NoCall EXCEPT !.op = "invert", !.r = p[1], !.a = p[2], !.b = p[3]], x.s, x.ret)

\* x to the power e modulo y; for a negative exponent x must have an inverse.
Powm(r, e) ==
  LET t == [m  |-> s.m @@ ("e" :> Holding(e, 0)), sz |-> s.sz @@ ("e" :> Signed(e < 0, Limbs(e)))] IN
  /\ e < 0 => mpz_invert(s, "z", "x", "y").ret
  /\ Calls([NoCall EXCEPT !.op = "powm", !.r = r, !.a = "x", !.n = e, !.t = "y"],
           mpz_clear(mpz_powm(t, r, "x", "e", "y"), "e"), 0)

PowmUi(r, e) ==
  Calls([NoCall EXCEPT !.op = "powm", !.r = r, !.a = "x", !.n = e, !.t = "y"],
        mpz_powm_ui(s, r, "x", e, "y"), 0)

Root(op, x, r, n, t, res) ==
  Calls([NoCall EXCEPT !.op = op, !.q = x, !.r = r, !.a = "x", !.n = n], t, res)

\* No even root of a negative number: the code stops the program for that.
RootsOf(o) == {n \in Limb \ {0} : s.sz[o] < 0 => n % 2 = 1}

Numbers ==
  \/ Fn3("gcd", Three, LAMBDA r, a, b : mpz_gcd(s, r, a, b))
  \/ OneOperand /\ \E p \in Two, n \in Limb : GcdUi(p, n)
  \/ Ready /\ \E p \in {<<"z", "w", "v">>, <<"x", "y", "z">>, <<"y", "z", "x">>, <<"z", "w", "NULL">>} : Gcdext(p)
  \/ Fn3("lcm", Three, LAMBDA r, a, b : mpz_lcm(s, r, a, b))
  \/ Fn2("lcm_ui", Limb, LAMBDA r, a, n : mpz_lcm_ui(s, r, a, n))
  \/ Ready /\ \E p \in Three : Invert(p)
  \/ Fn2("pow_ui", Limb, LAMBDA r, a, n : mpz_pow_ui(s, r, a, n))
  \/ OneOperand /\ \E k, n \in Limb :
       Calls([NoCall EXCEPT !.op = "ui_pow_ui", !.r = "x", !.k = k, !.n = n], mpz_ui_pow_ui(s, "x", k, n), 0)
  \/ Ready /\ "y" \in Divisors /\ \E r \in {"x", "y", "z"}, e \in Exponents : Powm(r, e)
  \/ Ready /\ "y" \in Divisors /\ \E e \in Limb : PowmUi("x", e)
  \/ OneOperand /\ \E p \in {<<"z", "w">>, <<"x", "z">>, <<"z", "x">>, <<"NULL", "z">>}, n \in RootsOf("x") :
       Root("rootrem", p[1], p[2], n, mpz_rootrem(s, p[1], p[2], "x", n), 0)
  \/ OneOperand /\ \E x \in {"z", "x", "NULL"}, n \in RootsOf("x") :
       \E y \in {mpz_root(s, x, "x", n)} : Root("root", x, "NULL", n, y.s, y.ret)
  \/ Ask1("perfect_square_p", One, LAMBDA a, n : mpz_perfect_square_p(s, a))

Next == Arithmetic \/ Queries \/ Division \/ Bits \/ Numbers

Spec == Init /\ [][Next]_vars

-----------------------------------------------------------------------------
Ints == INSTANCE IntRegs WITH val <- [o \in Obj |-> Value(s, o)]

\* Each function of mini-gmp.c on mpz_t computes what it promises of mathematical integers,
\* whichever of its results and operands are the same object and however many limbs they
\* have allocated, and changes no object but its results.
ImplementsIntegers == Ints!Spec

\* After every call each object is as the next call needs it: its limbs were written, are
\* within its block, and the top one is not zero; no temporary object is left allocated
\* and nothing was written outside a block.
MpzCanonical ==
  /\ DOMAIN s.sz = Obj
  /\ DOMAIN s.m = Obj \cup {"overrun"}
  /\ ~s.m.overrun
  /\ \A o \in Obj : /\ Size(s, o) <= Cardinality(DOMAIN s.m[o])
                    /\ \A i \in 0 .. Size(s, o) - 1 : Rd(s.m, D(o), i) \in Limb
                    /\ s.sz[o] # 0 => Rd(s.m, D(o), Size(s, o) - 1) # 0

=============================================================================
