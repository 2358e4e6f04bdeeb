------------------------------- MODULE Request -------------------------------
(***************************************************************************)
(* The request protocol: how prove_client.ml writes a request as a line    *)
(* and how parse_request of src/src/server/request.c reads it back.  A     *)
(* line is a sequence of characters; a command name or a number is one     *)
(* character here, and the other characters are those of NameChar.         *)
(***************************************************************************)
EXTENDS Integers, Sequences, FiniteSetsExt

CONSTANTS
  Semi,         \* the character ;
  Digits,       \* characters that stand for numbers, with their values
  NameChar,     \* characters of which names consist
  MaxLine,      \* length of the arbitrary lines considered
  MaxRunLine    \* length of what follows `run' in the longer lines considered

Commands == {"run", "runstdin", "parallel", "interrupt"}

\* What the constants are; asserted where they are given values.
RequestAssumption ==
  /\ MaxLine \in Nat /\ MaxRunLine \in Nat
  /\ DOMAIN Digits \cap (Commands \cup NameChar) = {}
  /\ Semi \notin Commands \cup DOMAIN Digits \cup NameChar

VARIABLES
  line,         \* the line received
  origin,       \* the request a client wrote as this line, or None
  parsed        \* what parse_request made of it, or None before

vars == <<line, origin, parsed>>

None == [type |-> "none"]
Null == [type |-> "null"]     \* parse_request returns NULL and does nothing

Char == {Semi} \cup Commands \cup DOMAIN Digits \cup NameChar

\* atoi of a field: 0 unless it starts with a number.
atoi(s) == IF s # << >> /\ s[1] \in DOMAIN Digits THEN Digits[s[1]] ELSE 0

count_semicolons(s) == Cardinality({i \in DOMAIN s : s[i] = Semi})

\* Faulty variant: the semicolon is copied too.
CopyWithSemicolon(s, begin) ==
  LET ends == {i \in begin + 1 .. Len(s) : s[i] = Semi}
  IN  IF ends = {} THEN [result |-> SubSeq(s, begin + 1, Len(s)), pos |-> 0]
      ELSE [result |-> SubSeq(s, begin + 1, Min(ends)), pos |-> Min(ends)]

\* copy_up_to_semicolon: the field that starts at offset begin, and the offset
\* behind its semicolon, or 0 when the field ends the buffer.
copy_up_to_semicolon(s, begin) ==
  LET ends == {i \in begin + 1 .. Len(s) : s[i] = Semi}
  IN  IF ends = {} THEN [result |-> SubSeq(s, begin + 1, Len(s)), pos |-> 0]
      ELSE [result |-> SubSeq(s, begin + 1, Min(ends) - 1), pos |-> Min(ends)]

\* The k-th call of copy_up_to_semicolon, each from the offset the last one left.
Field(s, k) ==
  LET call[n \in Nat] == IF n = 1 THEN copy_up_to_semicolon(s, 0)
                         ELSE copy_up_to_semicolon(s, call[n - 1].pos)
  IN  call[k].result

\* The part of parse_request for lines with more than one semicolon.
parse_run(s) ==
  LET semic == count_semicolons(s)
      numargs == semic - 4
  IN  IF numargs < 0 \/ Field(s, 1) \notin {<<"run">>, <<"runstdin">>} THEN Null
      ELSE [type |-> "run", stdin |-> Field(s, 1) = <<"runstdin">>, id |-> Field(s, 2),
            timeout |-> atoi(Field(s, 3)), memlimit |-> atoi(Field(s, 4)),
            cmd |-> Field(s, 5), args |-> [k \in 1 .. numargs |-> Field(s, 5 + k)]]

\* parse_request.  A `parallel' line returns NULL after setting the global when
\* its argument is at least 1; this effect is the record of type "parallel".
parse_request(s) ==
  CASE count_semicolons(s) = 0 -> Null
    [] count_semicolons(s) = 1 ->
         IF Field(s, 1) = <<"parallel">>
           THEN IF atoi(Field(s, 2)) >= 1
                  THEN [type |-> "parallel", num |-> atoi(Field(s, 2))] ELSE Null
         ELSE IF Field(s, 1) = <<"interrupt">>
           THEN [type |-> "interrupt", id |-> Field(s, 2)]
         ELSE Null
    [] OTHER -> parse_run(s)

-----------------------------------------------------------------------------
(***************************************************************************)
(* The client side: a command line is a non-empty list of words.           *)
(***************************************************************************)
Name == {<<c>> : c \in NameChar}
Words == Name \cup {<< >>}

Number(n) == <<CHOOSE d \in DOMAIN Digits : Digits[d] = n>>

\* Faulty variant: the file of a runstdin request is not sent.
SendWithoutStdin(r) ==
  <<IF r.stdin # << >> THEN "runstdin" ELSE "run", Semi>> \o r.id
    \o <<Semi>> \o Number(r.timeout) \o <<Semi>> \o Number(r.memlimit)
    \o <<Semi>> \o r.cmd
    \o (IF r.arg = << >> THEN << >> ELSE <<Semi>> \o r.arg[1])

\* Prove_client.send_request; stdin is the optional use_stdin, arg the optional
\* word after the executable.
send_request(r) ==
  <<IF r.stdin # << >> THEN "runstdin" ELSE "run", Semi>> \o r.id
    \o <<Semi>> \o Number(r.timeout) \o <<Semi>> \o Number(r.memlimit)
    \o <<Semi>> \o r.cmd
    \o (IF r.arg = << >> THEN << >> ELSE <<Semi>> \o r.arg[1])
    \o (IF r.stdin = << >> THEN << >> ELSE <<Semi>> \o r.stdin[1])

\* Prove_client.send_interrupt and set_max_running_provers.
send_interrupt(id) == <<"interrupt", Semi>> \o id
set_max_running_provers(n) == <<"parallel", Semi>> \o Number(n)

ClientRun ==
  [type : {"run"}, id : Name, timeout : {Digits[d] : d \in DOMAIN Digits},
   memlimit : {0}, cmd : Name, arg : {<< >>} \cup {<<w>> : w \in Words},
   stdin : {<< >>} \cup {<<w>> : w \in Name}]
ClientInterrupt == [type : {"interrupt"}, id : Name]
ClientParallel == [type : {"parallel"}, num : {Digits[d] : d \in DOMAIN Digits} \ {0}]

Encoded(r) ==
  CASE r.type = "run" -> send_request(r)
    [] r.type = "interrupt" -> send_interrupt(r.id)
    [] r.type = "parallel" -> set_max_running_provers(r.num)

\* Any line, or a longer one that starts as a run, or one a client wrote.
Init ==
  /\ parsed = None
  /\ \/ /\ origin = None
        /\ line \in UNION {[1 .. n -> Char] : n \in 0 .. MaxLine}
     \/ /\ origin = None
        /\ \E n \in 0 .. MaxRunLine :
             \E rest \in [1 .. n -> {Semi} \cup NameChar \cup DOMAIN Digits] :
               line = <<"run">> \o rest
     \/ /\ origin \in ClientRun \cup ClientInterrupt \cup ClientParallel
        /\ line = Encoded(origin)

Parse ==
  /\ parsed = None
  /\ parsed' = parse_request(line)
  /\ UNCHANGED <<line, origin>>

Next == Parse

Spec == Init /\ [][Next]_vars

-----------------------------------------------------------------------------
(***************************************************************************)
(* The protocol of README.server, stated on the fields between semicolons. *)
(***************************************************************************)
SplitAt(s, k) ==
  LET cuts == {0, Len(s) + 1} \cup {i \in DOMAIN s : s[i] = Semi}
      before(i) == Cardinality({j \in cuts : j < i})
      from == CHOOSE i \in cuts : before(i) = k - 1
      to == CHOOSE i \in cuts : before(i) = k
  IN  SubSeq(s, from + 1, to - 1)

FieldCount(s) == Cardinality({i \in DOMAIN s : s[i] = Semi}) + 1

\* A line is a request exactly when its fields are as the protocol says, and the
\* request has these fields: no field is read twice or from the wrong place, even
\* though copy_up_to_semicolon restarts at 0 after the last one.
ParsesTheFields ==
  parsed # None =>
    LET F(k) == SplitAt(line, k)
        n == FieldCount(line)
    IN  CASE n >= 5 /\ F(1) \in {<<"run">>, <<"runstdin">>} ->
               /\ parsed.type = "run"
               /\ parsed.stdin = (F(1) = <<"runstdin">>)
               /\ parsed.id = F(2) /\ parsed.cmd = F(5)
               /\ parsed.timeout = atoi(F(3)) /\ parsed.memlimit = atoi(F(4))
               /\ parsed.args = [k \in 1 .. n - 5 |-> F(5 + k)]
          [] n = 2 /\ F(1) = <<"interrupt">> ->
               parsed = [type |-> "interrupt", id |-> F(2)]
          [] n = 2 /\ F(1) = <<"parallel">> /\ atoi(F(2)) >= 1 ->
               parsed = [type |-> "parallel", num |-> atoi(F(2))]
          [] OTHER -> parsed = Null

\* What the server understands is what the client asked for: the command, its
\* arguments, and the input file of a runstdin request as the last argument.
RoundTrip ==
  parsed # None /\ origin # None =>
    IF origin.type # "run" THEN parsed = origin
    ELSE /\ parsed.type = "run"
         /\ parsed.id = origin.id /\ parsed.cmd = origin.cmd
         /\ parsed.timeout = origin.timeout /\ parsed.memlimit = origin.memlimit
         /\ parsed.stdin = (origin.stdin # << >>)
         /\ parsed.args = origin.arg \o origin.stdin
=============================================================================
