----------------------------- MODULE WriteBuffer -----------------------------
(***************************************************************************)
(* The write buffer of src/src/server/writebuf.c: the message being        *)
(* written (data, of which pointer bytes are out) and a queue of messages  *)
(* behind it.  On Unix write_to_client calls prepare_write, write and      *)
(* have_written in a row; on Windows messages are pushed between           *)
(* prepare_write and have_written, which comes with the completion of an   *)
(* overlapped WriteFile.  Both uses are behaviours of this module.         *)
(***************************************************************************)
EXTENDS Integers, Sequences, SequencesExt

CONSTANTS
  Msg,       \* messages, as pushed: non-empty strings, since each ends in \n
  MsgLen,    \* Msg -> strlen
  NoData,    \* the NULL of data
  MaxPush    \* pushes in a behaviour

\* What the model takes for granted of its constants.
WriteBufferAssumption ==
  /\ MsgLen \in [Msg -> Nat \ {0}]
  /\ NoData \notin Msg
  /\ MaxPush \in Nat

VARIABLES
  data, len, pointer, is_writing, writequeue,   \* the fields of t_writebuf
  wire,      \* the bytes the operating system has taken, as <<message, index>>
  pushed,    \* the messages pushed so far
  popped     \* the last message completed

vars == <<data, len, pointer, is_writing, writequeue, wire, pushed, popped>>

has_write_data == data # NoData
can_write == ~ is_writing

init_writebuf ==
  /\ data = NoData
  /\ len = 0
  /\ pointer = 0
  /\ is_writing = FALSE
  /\ writequeue = << >>

Init ==
  /\ init_writebuf
  /\ wire = << >>
  /\ pushed = << >>
  /\ popped = NoData

\* Faulty variant: push overwrites the message being written.
PushOverwrites(m) ==
  /\ Len(pushed) < MaxPush
  /\ pushed' = Append(pushed, m)
  /\ data' = m
  /\ pointer' = 0
  /\ len' = MsgLen[m]
  /\ UNCHANGED <<is_writing, writequeue, wire, popped>>

push_write_data(m) ==
  /\ Len(pushed) < MaxPush
  /\ pushed' = Append(pushed, m)
  /\ \/ /\ has_write_data
        /\ writequeue' = Append(writequeue, m)
        /\ UNCHANGED <<data, pointer, len>>
     \/ /\ ~ has_write_data
        /\ data' = m
        /\ pointer' = 0
        /\ len' = MsgLen[m]
        /\ UNCHANGED writequeue
  /\ UNCHANGED <<is_writing, wire, popped>>

\* Faulty variant: a message that was written in part is not taken up again.
PrepareWriteOnce ==
  /\ can_write
  /\ has_write_data
  /\ pointer = 0
  /\ is_writing' = TRUE
  /\ UNCHANGED <<data, len, pointer, writequeue, wire, pushed, popped>>

\* The callers test can_write and has_write_data, which the code asserts.
prepare_write ==
  /\ can_write
  /\ has_write_data
  /\ is_writing' = TRUE
  /\ UNCHANGED <<data, len, pointer, writequeue, wire, pushed, popped>>

\* The operating system has taken size bytes of those prepare_write returned.
have_written(size) ==
  /\ is_writing
  /\ wire' = wire \o [i \in 1 .. size |-> <<data, pointer + i>>]
  /\ is_writing' = FALSE
  /\ \/ /\ pointer + size < len
        /\ pointer' = pointer + size
        /\ UNCHANGED <<data, len, writequeue, popped>>
     \/ /\ pointer + size >= len
        /\ popped' = data
        /\ pointer' = 0
        /\ \/ /\ writequeue # << >>
              /\ data' = Head(writequeue)
              /\ len' = MsgLen[Head(writequeue)]
              /\ writequeue' = Tail(writequeue)
           \/ /\ writequeue = << >>
              /\ data' = NoData
              /\ len' = 0
              /\ UNCHANGED writequeue
  /\ UNCHANGED pushed

Next ==
  \/ \E m \in Msg : push_write_data(m)
  \/ prepare_write
  \/ \E size \in 1 .. len - pointer : have_written(size)

Spec == Init /\ [][Next]_vars

-----------------------------------------------------------------------------
\* The fields describe a message: len is its length, of which pointer bytes are
\* written and at least one is not; the asserts of prepare_write and have_written.
TypeOK ==
  /\ data \in Msg \cup {NoData}
  /\ IF has_write_data THEN len = MsgLen[data] /\ pointer \in 0 .. len - 1
                       ELSE len = 0 /\ pointer = 0 /\ writequeue = << >>
  /\ is_writing => has_write_data
  /\ writequeue \in Seq(Msg)

Bytes(m) == [i \in 1 .. MsgLen[m] |-> <<m, i>>]

Concat(ms) == FlattenSeq([k \in DOMAIN ms |-> Bytes(ms[k])])

Unsent ==
  IF has_write_data
    THEN SubSeq(Bytes(data), pointer + 1, len) \o Concat(writequeue)
    ELSE << >>

\* However the writes are split, the bytes on the wire and those still to be
\* written are the messages pushed, in order, each once and whole.
NothingLostOnTheWire == wire \o Unsent = Concat(pushed)

\* Messages in the buffer, oldest first.
Waiting == IF has_write_data THEN <<data>> \o writequeue ELSE << >>

Abstract == INSTANCE Fifo WITH Elt <- Msg, items <- Waiting

\* The buffer is a first-in first-out queue of messages.
ImplementsFifo == Abstract!Spec
=============================================================================
