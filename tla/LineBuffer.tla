----------------------------- MODULE LineBuffer ------------------------------
(***************************************************************************)
(* How the server cuts the byte stream of a client into lines: the read    *)
(* buffer of src/src/server/readbuf.c together with the loop of handle_msg *)
(* (server-unix.c).  read returns any number of bytes up to READ_ONCE, so  *)
(* a line may arrive in pieces and several lines at once.  Indices into    *)
(* the buffer are 1-based; old and cur count bytes, as in the code.        *)
(***************************************************************************)
EXTENDS Integers, Sequences, SequencesExt

CONSTANTS
  LineLens,      \* lengths of the lines a client may send
  MaxLines,      \* lines sent in a behaviour
  READ_ONCE,     \* bytes asked for by a read; init_readbuf's capacity
  CopyOrders,    \* orders in which memcpy may copy: "ascending", "descending"
  NL,            \* the byte \n
  Junk           \* contents of memory that was not written

ASSUME LineBufferAssumption ==
  /\ LineLens \subseteq Nat /\ MaxLines \in Nat
  /\ READ_ONCE \in Nat \ {0}
  /\ CopyOrders \subseteq {"ascending", "descending"} /\ CopyOrders # {}

VARIABLES
  data, len, capacity,    \* the fields of t_readbuf
  pc, old, cur,           \* handle_msg: where it is, and its locals
  stream,                 \* bytes sent by the client and not read yet
  sent,                   \* the lines the client has sent
  handled                 \* the lines given to parse_request

vars == <<data, len, capacity, pc, old, cur, stream, sent, handled>>

Init ==
  /\ capacity = READ_ONCE
  /\ len = 0
  /\ data = [i \in 1 .. READ_ONCE |-> Junk]
  /\ pc = "poll"
  /\ old = 0
  /\ cur = 0
  /\ stream = << >>
  /\ sent = << >>
  /\ handled = << >>

\* The client writes a line of n bytes; its bytes are told apart by their place.
SendLine(n) ==
  LET k == Len(sent) + 1
      line == [i \in 1 .. n |-> <<k, i>>]
  IN  /\ k <= MaxLines
      /\ sent' = Append(sent, line)
      /\ stream' = stream \o Append(line, NL)
      /\ UNCHANGED <<data, len, capacity, pc, old, cur, handled>>

\* prepare_read: the capacity it leaves.
prepare_read(size) ==
  IF len + size > capacity THEN (capacity + size) * 2 ELSE capacity

\* read_on_client: prepare_read, a read of n bytes, have_read; then handle_msg.
read_on_client(n) ==
  LET newcap == prepare_read(READ_ONCE)
  IN  /\ pc = "poll"
      /\ n <= Len(stream)
      /\ capacity' = newcap
      /\ data' = [i \in 1 .. newcap |->
                    IF i \in len + 1 .. len + n THEN stream[i - len]
                    ELSE IF i <= capacity THEN data[i] ELSE Junk]
      /\ len' = len + n
      /\ stream' = SubSeq(stream, n + 1, Len(stream))
      /\ pc' = "lines"
      /\ old' = 0
      /\ cur' = 0
      /\ UNCHANGED <<sent, handled>>

NewlineAt(j) == j \in cur + 1 .. len /\ data[j] = NL

\* An iteration of the outer loop of handle_msg that finds a newline.
handle_line ==
  /\ pc = "lines"
  /\ \E j \in 1 .. len :
       /\ NewlineAt(j)
       /\ \A i \in 1 .. j - 1 : ~ NewlineAt(i)
       /\ handled' = Append(handled, SubSeq(data, old + 1, j - 1))
       /\ cur' = j
       /\ old' = j
  /\ UNCHANGED <<data, len, capacity, pc, stream, sent>>

\* The bytes memcpy leaves in data[i]: source and destination overlap when more
\* than `size' bytes are kept, and a copy from the end then repeats bytes.
memcpy(order, size, i) ==
  LET n == len - size
  IN  IF order = "ascending" THEN data[i + size]
      ELSE data[i + size * ((n - i) \div size + 1)]

\* have_taken: the first `size' bytes are deleted.
have_taken(size) ==
  /\ \E order \in CopyOrders :
       data' = [i \in 1 .. capacity |->
                  IF i <= len - size THEN memcpy(order, size, i) ELSE data[i]]
  /\ len' = len - size

\* Faulty variant: have_taken is told of everything that was scanned.
EndTakesAll ==
  /\ pc = "lines"
  /\ ~ \E j \in 1 .. len : NewlineAt(j)
  /\ IF old > 0 THEN have_taken(len) ELSE UNCHANGED <<data, len>>
  /\ pc' = "poll"
  /\ UNCHANGED <<capacity, old, cur, stream, sent, handled>>

\* No newline is left: handle_msg ends with have_taken.
end_handle_msg ==
  /\ pc = "lines"
  /\ ~ \E j \in 1 .. len : NewlineAt(j)
  /\ IF old > 0 THEN have_taken(old) ELSE UNCHANGED <<data, len>>
  /\ pc' = "poll"
  /\ UNCHANGED <<capacity, old, cur, stream, sent, handled>>

ServerStep ==
  \/ \E n \in 1 .. READ_ONCE : read_on_client(n)
  \/ handle_line
  \/ end_handle_msg

Next == ServerStep \/ \E n \in LineLens : SendLine(n)

Spec == Init /\ [][Next]_vars

-----------------------------------------------------------------------------
\* The buffer holds at most capacity bytes (the assert of have_read), and the
\* locals of handle_msg stay inside it (the assert of have_taken).
TypeOK ==
  /\ capacity \in Nat /\ len \in 0 .. capacity
  /\ DOMAIN data = 1 .. capacity
  /\ pc \in {"poll", "lines"}
  /\ pc = "lines" => old \in 0 .. len /\ cur = old

Newlined(ls) == FlattenSeq([k \in DOMAIN ls |-> Append(ls[k], NL)])

\* The bytes in the buffer that are not part of a handled line.
Pending == SubSeq(data, IF pc = "lines" THEN old + 1 ELSE 1, len)

\* However the stream is cut by read, the lines handled are the lines sent, in
\* order and whole, and the rest is in the buffer or still to be read.
LinesIntact ==
  /\ IsPrefix(handled, sent)
  /\ Newlined(handled) \o Pending \o stream = Newlined(sent)
=============================================================================
