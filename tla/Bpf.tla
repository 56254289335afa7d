---------------------------------- MODULE Bpf ----------------------------------
(***************************************************************************)
(* Reading frames from a BPF device on macOS: next_frame() of              *)
(* src/src/platform/bpf.rs and Capture::receive() of                       *)
(* src/src/platform/macos.rs, called by the reader of a session.           *)
(*                                                                         *)
(* One read fills the buffer with whole records.  A record is a header, as *)
(* long as the kernel made it, and the bytes it captured; the next begins  *)
(* at a multiple of four.  Only the lengths matter here, so a record is    *)
(*                                                                         *)
(*   [id, start, header, captured, original]                               *)
(*                                                                         *)
(* where "start" is its place among all the records there ever were, and   *)
(* what is at an offset where no record begins is garbage.                 *)
(***************************************************************************)
EXTENDS Integers, Sequences

CONSTANTS
  Headers,    \* lengths of headers: at least HeaderMin
  Lengths,    \* lengths of frames
  MaxFrame,   \* the filter's snapshot length (2048 in the code)
  BufferSize, \* BIOCGBLEN
  MaxArrived  \* bound: frames that arrive

HeaderMin == 18
Word == 4

Align(n) == ((n + Word - 1) \div Word) * Word

\* Assumed where the constants get their values.
BpfParameters ==
  /\ Headers \subseteq Nat /\ \A h \in Headers : h >= HeaderMin
  /\ Lengths \subseteq Nat /\ MaxFrame \in Nat /\ MaxArrived \in Nat
  /\ BufferSize \in Nat /\ \A h \in Headers : Align(h + MaxFrame) <= BufferSize

VARIABLES
  arrived, \* history: every record the filter let through
  kernel,  \* those in the kernel's buffer
  buffer,  \* the records of the last read
  used,    \* the bytes it returned
  offset,  \* where next_frame() goes on
  given,   \* the ids of the frames the reader was given
  stop,    \* Cancel.signalled
  pc       \* where receive() is, or how it ended

vars == <<arrived, kernel, buffer, used, offset, given, stop, pc>>

\* A frame longer than the snapshot length is cut.
Record(id, start, header, length) ==
  [id |-> id, start |-> start, header |-> header, original |-> length,
   captured |-> IF length <= MaxFrame THEN length ELSE MaxFrame]

End(r) == r.header + r.captured

\* Where the next record begins after the last of some.
After(records) ==
  IF records = <<>> THEN 0
  ELSE records[Len(records)].start + Align(End(records[Len(records)]))

\* Where record i of a buffer begins.
RecordStart(records, i) == records[i].start - records[1].start

\* The bytes of a read: the kernel may leave out the padding of the last record.
Sizes(records) ==
  LET last == RecordStart(records, Len(records))
      end == End(records[Len(records)])
  IN {last + end, last + Align(end)}

-----------------------------------------------------------------------------
(* next_frame()                                                            *)

At(o) == {i \in DOMAIN buffer : RecordStart(buffer, i) = o}

\* How far the offset moves past a record.  Mutant: records follow each other directly.
Step_Unaligned(r) == End(r)
Step(r) == Align(End(r))

\* Mutant: a record has to be there with its padding.
Whole_Padded(r, left) == Align(End(r)) <= left
Whole(r, left) == End(r) <= left

Valid(r) ==
  LET left == used - offset
  IN /\ left >= HeaderMin /\ r.header >= HeaderMin /\ r.header <= left
     /\ r.captured = r.original /\ r.captured <= MaxFrame
     /\ Whole(r, left)

-----------------------------------------------------------------------------
(* Capture::receive(), called again for every frame                        *)

Arrive ==
  /\ Len(arrived) < MaxArrived
  /\ \E h \in Headers, n \in Lengths :
       LET r == Record(Len(arrived) + 1, After(arrived), h, n)
       IN arrived' = Append(arrived, r) /\ kernel' = Append(kernel, r)
  /\ UNCHANGED <<buffer, used, offset, given, stop, pc>>

Cancel ==
  /\ ~stop /\ stop' = TRUE
  /\ UNCHANGED <<arrived, kernel, buffer, used, offset, given, pc>>

Stopped ==
  /\ pc \in {"next", "wait"} /\ stop /\ pc' = "stopped"
  /\ UNCHANGED <<arrived, kernel, buffer, used, offset, given, stop>>

Next_Frame ==
  /\ pc = "next" /\ ~stop /\ offset < used
  /\ \/ \E i \in At(offset) :
          /\ Valid(buffer[i])
          /\ offset' = offset + Step(buffer[i]) /\ given' = Append(given, buffer[i].id) /\ pc' = pc
     \/ /\ \A i \in At(offset) : ~Valid(buffer[i])
        /\ pc' = "failed" /\ UNCHANGED <<offset, given>>
  /\ UNCHANGED <<arrived, kernel, buffer, used, stop>>

\* The buffer is drained: wait for more.  Mutant: only one frame is taken from a read.
Drained_One == offset > 0 \/ used = 0
Drained == offset >= used

Wait ==
  /\ pc = "next" /\ ~stop /\ Drained /\ pc' = "wait"
  /\ UNCHANGED <<arrived, kernel, buffer, used, offset, given, stop>>

\* read(): as many records as fit, or none of them yet.
Read ==
  /\ pc = "wait" /\ ~stop /\ kernel # <<>>
  /\ pc' = "next" /\ offset' = 0
  /\ \E n \in 1..Len(kernel) :
       LET records == SubSeq(kernel, 1, n)
       IN /\ used' \in {s \in Sizes(records) : s <= BufferSize}
          /\ buffer' = records /\ kernel' = SubSeq(kernel, n + 1, Len(kernel))
  /\ UNCHANGED <<arrived, given, stop>>

ReadFails ==
  /\ pc = "wait" /\ ~stop /\ pc' = "failed"
  /\ UNCHANGED <<arrived, kernel, buffer, used, offset, given, stop>>

-----------------------------------------------------------------------------

Init ==
  /\ arrived = <<>> /\ kernel = <<>> /\ buffer = <<>> /\ used = 0 /\ offset = 0
  /\ given = <<>> /\ stop = FALSE /\ pc = "next"

Next == Arrive \/ Cancel \/ Stopped \/ Next_Frame \/ Wait \/ Read \/ ReadFails

\* The reader runs; frames need not arrive.
Fairness == WF_vars(Stopped \/ Next_Frame \/ Wait \/ Read)

-----------------------------------------------------------------------------
(* Properties.                                                             *)

TypeOK ==
  /\ used \in 0..BufferSize /\ offset \in Nat /\ stop \in BOOLEAN
  /\ given \in Seq(1..MaxArrived)
  /\ pc \in {"next", "wait", "stopped", "failed"}

Ids(records) == {records[i].id : i \in DOMAIN records}

\* Frames are handed out in the order of their arrival, each once and none skipped,
\* wherever the records of a read begin and end: what was not handed out is still there.
FramesInOrder ==
  /\ \A i \in DOMAIN given : given[i] = i
  /\ (Len(given) + 1)..Len(arrived) \subseteq Ids(buffer) \cup Ids(kernel)

\* The reader fails on a frame that was cut or because the device fails, never because
\* of where a record lies in the buffer.
FailsOnCutFrame ==
  pc = "next" /\ offset < used =>
    \E i \in At(offset) : Valid(buffer[i]) \/ buffer[i].captured # buffer[i].original
=============================================================================
