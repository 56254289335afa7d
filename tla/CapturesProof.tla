----------------------------- MODULE CapturesProof -----------------------------
(***************************************************************************)
(* The safety of a capture, whatever the lengths of frames and headers,    *)
(* the size of the buffer and the behaviour of the driver.                 *)
(*                                                                         *)
(* On macOS: the records of the last read and those still in the kernel    *)
(* are neighbours among all that arrived, and the offset is where the      *)
(* first of them begins that was not handed out.  On Windows: a     *)
(* request under way is marked, and its function waits for it.  Nothing on *)
(* one system touches the state of the other.                              *)
(***************************************************************************)
EXTENDS Captures, SequenceTheorems, TLAPS

-----------------------------------------------------------------------------
(* What holds of a BPF device.                                             *)

Records ==
  [id : Nat, start : Nat, header : Headers, original : Lengths, captured : 0..MaxFrame]

\* Where the record after one begins.
Beyond(r) == r.start + B!Align(B!End(r))

\* Every record begins where the last one ends, with its padding.
Stream ==
  /\ arrived \in Seq(Records) /\ kernel \in Seq(Records) /\ buffer \in Seq(Records)
  /\ \A i \in DOMAIN arrived : arrived[i].id = i
  /\ \A i \in DOMAIN arrived, j \in DOMAIN arrived : i < j => Beyond(arrived[i]) <= arrived[j].start

\* The records that were read, and those read before the buffer was last filled.
Fetched == Len(arrived) - Len(kernel)
Earlier == Fetched - Len(buffer)

Neighbours ==
  /\ Earlier >= 0
  /\ \A i \in DOMAIN kernel : kernel[i] = arrived[Fetched + i]
  /\ \A i \in DOMAIN buffer : buffer[i] = arrived[Earlier + i]

Consecutive == \A i \in DOMAIN arrived : i + 1 \in DOMAIN arrived => arrived[i + 1].start = Beyond(arrived[i])

\* The next record to hand out, in the buffer.
Upcoming == Len(given) - Earlier + 1

Position ==
  /\ given \in Seq(Nat) /\ \A i \in DOMAIN given : given[i] = i
  /\ Len(given) \in Earlier..Fetched
  /\ IF buffer = <<>> THEN offset = 0 /\ used = 0
     ELSE /\ used \in B!Sizes(buffer)
          /\ offset = IF Len(given) < Fetched THEN B!RecordStart(buffer, Upcoming)
                      ELSE Beyond(buffer[Len(buffer)]) - buffer[1].start
  /\ pc = "wait" => Len(given) = Fetched

BpfInv == Stream /\ Consecutive /\ Neighbours /\ Position
-----------------------------------------------------------------------------
(* Places and lengths.                                                     *)

LEMMA Lens ==
  /\ Headers \subseteq Nat /\ \A h \in Headers : h >= 18
  /\ Lengths \subseteq Nat /\ MaxFrame \in Nat
BY CapturesAssumption DEF B!BpfParameters, B!HeaderMin

LEMMA Padding ==
  ASSUME NEW n \in Nat
  PROVE  B!Align(n) \in Nat /\ n <= B!Align(n)
BY DEF B!Align, B!Word

LEMMA Ends ==
  ASSUME NEW r \in Records
  PROVE  /\ B!End(r) \in Nat /\ B!End(r) >= 18 /\ B!End(r) = r.header + r.captured
         /\ r.start \in Nat /\ Beyond(r) \in Nat /\ r.start + B!End(r) <= Beyond(r)
         /\ r.start < Beyond(r)
PROOF
<1>1. r.header \in Nat /\ r.header >= 18 /\ r.captured \in Nat /\ r.start \in Nat
  <2>1. r.header \in Headers /\ r.captured \in 0..MaxFrame /\ r.start \in Nat
    BY DEF Records
  <2>2. r.header \in Nat /\ r.header >= 18
    BY <2>1, Lens
  <2>3. r.captured \in Nat
    BY <2>1, Lens
  <2> QED
    BY <2>1, <2>2, <2>3
<1>2. B!End(r) \in Nat /\ B!End(r) >= 18 /\ B!End(r) = r.header + r.captured
  BY <1>1 DEF B!End
<1>3. B!Align(B!End(r)) \in Nat /\ B!End(r) <= B!Align(B!End(r))
  BY <1>2, Padding
<1> QED
  BY <1>1, <1>2, <1>3 DEF Beyond

\* The records of a buffer follow each other.
LEMMA InBuffer ==
  ASSUME BpfInv
  PROVE  /\ Len(buffer) \in Nat /\ DOMAIN buffer = 1..Len(buffer)
         /\ Len(given) \in Nat /\ Fetched \in Int /\ Earlier \in Nat /\ Fetched = Earlier + Len(buffer)
         /\ \A i \in DOMAIN buffer : buffer[i] \in Records /\ buffer[i].id = Earlier + i
         /\ \A i \in DOMAIN buffer, j \in DOMAIN buffer : i < j => Beyond(buffer[i]) <= buffer[j].start
         /\ \A i \in DOMAIN buffer : i + 1 \in DOMAIN buffer => buffer[i + 1].start = Beyond(buffer[i])
PROOF
<1>1. /\ arrived \in Seq(Records) /\ kernel \in Seq(Records) /\ buffer \in Seq(Records)
      /\ given \in Seq(Nat) /\ Earlier >= 0
  BY DEF BpfInv, Stream, Neighbours, Position
<1>2. /\ Len(buffer) \in Nat /\ DOMAIN buffer = 1..Len(buffer) /\ Len(given) \in Nat
      /\ Len(kernel) \in Nat /\ Len(arrived) \in Nat /\ DOMAIN arrived = 1..Len(arrived)
  BY <1>1
<1>3. Fetched \in Int /\ Earlier \in Nat /\ Fetched = Earlier + Len(buffer) /\ Fetched <= Len(arrived)
  BY <1>1, <1>2 DEF Fetched, Earlier
<1>4. \A i \in DOMAIN buffer : Earlier + i \in DOMAIN arrived /\ buffer[i] = arrived[Earlier + i]
  BY <1>2, <1>3 DEF BpfInv, Neighbours
<1>5. \A i \in DOMAIN buffer : buffer[i] \in Records /\ buffer[i].id = Earlier + i
  BY <1>1, <1>4 DEF BpfInv, Stream
<1>6. \A i \in DOMAIN buffer, j \in DOMAIN buffer : i < j => Beyond(buffer[i]) <= buffer[j].start
  <2> SUFFICES ASSUME NEW i \in DOMAIN buffer, NEW j \in DOMAIN buffer, i < j
               PROVE  Beyond(buffer[i]) <= buffer[j].start
    OBVIOUS
  <2>1. Earlier + i < Earlier + j
    BY <1>2, <1>3
  <2> QED
    BY <1>4, <2>1 DEF BpfInv, Stream
<1>7. \A i \in DOMAIN buffer : i + 1 \in DOMAIN buffer => buffer[i + 1].start = Beyond(buffer[i])
  <2> SUFFICES ASSUME NEW i \in DOMAIN buffer, i + 1 \in DOMAIN buffer
               PROVE  buffer[i + 1].start = Beyond(buffer[i])
    OBVIOUS
  <2>1. Earlier + (i + 1) = (Earlier + i) + 1
    BY <1>2, <1>3
  <2> QED
    BY <1>4, <2>1 DEF BpfInv, Consecutive
<1> QED
  BY <1>2, <1>3, <1>5, <1>6, <1>7

\* While a record is to come, the offset is where it begins and it is there as a whole;
\* after the last one nothing is left.
LEMMA Room ==
  ASSUME BpfInv
  PROVE  /\ Len(given) < Fetched =>
              /\ Upcoming \in DOMAIN buffer /\ offset = B!RecordStart(buffer, Upcoming)
              /\ offset \in Int /\ used \in Int /\ offset + B!End(buffer[Upcoming]) <= used
         /\ offset < used => Len(given) < Fetched
PROOF
<1> USE InBuffer
<1>1. Len(given) \in Earlier..Fetched
  BY DEF BpfInv, Position
<1>2. CASE buffer = <<>>
  BY <1>1, <1>2 DEF BpfInv, Position
<1>3. CASE buffer # <<>>
  <2> DEFINE n == Len(buffer)
  <2>1. n \in DOMAIN buffer /\ 1 \in DOMAIN buffer
    BY <1>3, EmptySeq DEF BpfInv, Stream
  <2>2. PICK a \in Nat, e \in Nat, p \in Nat, b \in Nat :
          /\ a = buffer[n].start /\ e = B!End(buffer[n]) /\ p = Beyond(buffer[n]) /\ b = buffer[1].start
    BY <2>1, Ends
  <2>3. a + e <= p /\ p = a + B!Align(e)
    BY <2>1, <2>2, Ends DEF Beyond
  <2>4. used \in {a - b + e, a - b + B!Align(e)}
    BY <1>3, <2>2 DEF BpfInv, Position, B!Sizes, B!RecordStart
  <2>5. B!Align(e) \in Nat /\ e <= B!Align(e)
    BY Padding
  <2>6. used \in Int /\ a - b + e <= used /\ used <= p - b
    BY ONLY <2>3, <2>4, <2>5, a \in Nat, e \in Nat, p \in Nat, b \in Nat
  <2>7. CASE Len(given) < Fetched
    <3>1. Upcoming \in DOMAIN buffer
      BY <1>1, <2>7 DEF Upcoming
    <3>2. offset = B!RecordStart(buffer, Upcoming)
      BY <1>3, <2>7 DEF BpfInv, Position
    <3>3. PICK u \in Nat, v \in Nat, w \in Nat :
            /\ u = buffer[Upcoming].start /\ v = B!End(buffer[Upcoming]) /\ w = Beyond(buffer[Upcoming])
            /\ u + v <= w
      BY <3>1, Ends
    <3>4. offset = u - b
      BY <2>2, <3>2, <3>3 DEF B!RecordStart
    <3>5. u + v <= a + e
      <4>1. CASE Upcoming = n
        BY <2>2, <3>3, <4>1
      <4>2. CASE Upcoming # n
        <5>1. Upcoming < n
          BY <3>1, <4>2
        <5>2. w <= a
          BY <2>1, <2>2, <3>1, <3>3, <5>1
        <5> QED
          BY ONLY <3>3, <5>2, a \in Nat, e \in Nat, u \in Nat, v \in Nat, w \in Nat
      <4> QED
        BY <4>1, <4>2
    <3>6. offset \in Int /\ offset + v <= used
      BY ONLY <2>6, <3>4, <3>5, a \in Nat, e \in Nat, u \in Nat, v \in Nat, b \in Nat
    <3> QED
      BY <2>6, <2>7, <3>1, <3>2, <3>3, <3>6
  <2>8. CASE ~(Len(given) < Fetched)
    <3>1. offset = p - b
      BY <1>3, <2>2, <2>8 DEF BpfInv, Position
    <3> QED
      BY ONLY <2>6, <2>8, <3>1, p \in Nat, b \in Nat
  <2> QED
    BY <2>7, <2>8
<1> QED
  BY <1>2, <1>3

\* A place in the buffer is the place of one record.
LEMMA OnePlace ==
  ASSUME BpfInv, NEW i \in DOMAIN buffer, NEW j \in DOMAIN buffer,
         B!RecordStart(buffer, i) = B!RecordStart(buffer, j)
  PROVE  i = j
PROOF
<1> USE InBuffer
<1>1. /\ buffer[i].start \in Nat /\ buffer[j].start \in Nat /\ Beyond(buffer[i]) \in Nat /\ Beyond(buffer[j]) \in Nat
      /\ buffer[i].start < Beyond(buffer[i]) /\ buffer[j].start < Beyond(buffer[j])
  <2>1. buffer[i] \in Records /\ buffer[j] \in Records
    OBVIOUS
  <2> QED
    BY ONLY <2>1, Ends
<1>2. 1 \in DOMAIN buffer /\ i \in Nat /\ j \in Nat
  <2>1. Len(buffer) \in Nat /\ DOMAIN buffer = 1..Len(buffer)
    OBVIOUS
  <2> QED
    BY ONLY <2>1, i \in DOMAIN buffer, j \in DOMAIN buffer
<1>3. buffer[1].start \in Nat
  BY <1>2, Ends
<1>4. buffer[i].start = buffer[j].start
  <2>1. buffer[i].start - buffer[1].start = buffer[j].start - buffer[1].start
    BY DEF B!RecordStart
  <2> QED
    BY ONLY <1>1, <1>3, <2>1
<1>5. ~(i < j) /\ ~(j < i)
  BY <1>1, <1>4
<1> QED
  BY <1>2, <1>5

-----------------------------------------------------------------------------
(* Steps of the reader on macOS.                                           *)

LEMMA InitBpf == Init => BpfInv
PROOF
<1> SUFFICES ASSUME Init PROVE BpfInv
  OBVIOUS
<1>1. arrived = <<>> /\ kernel = <<>> /\ buffer = <<>> /\ given = <<>> /\ used = 0 /\ offset = 0 /\ pc = "next"
  BY DEF Init, B!Init
<1>2. Stream /\ Consecutive
  BY <1>1 DEF Stream, Consecutive
<1>3. Fetched = 0 /\ Earlier = 0
  <2>1. Len(arrived) = 0 /\ Len(kernel) = 0 /\ Len(buffer) = 0
    BY <1>1
  <2> QED
    BY <2>1 DEF Fetched, Earlier
<1>4. Neighbours /\ Position
  BY <1>1, <1>3 DEF Neighbours, Position
<1> QED
  BY <1>2, <1>4 DEF BpfInv

\* A step that hands out nothing and takes nothing from the kernel.
LEMMA PositionKept ==
  ASSUME BpfInv, UNCHANGED <<buffer, used, offset, given>>, Fetched' = Fetched, Earlier' = Earlier,
         pc' = "wait" => Len(given) = Fetched
  PROVE  Position'
PROOF
<1>1. Upcoming' = Upcoming
  BY DEF Upcoming
<1> QED
  BY <1>1 DEF BpfInv, Position, B!Sizes, B!RecordStart, Beyond

LEMMA ArriveKeeps == BpfInv /\ B!Arrive => BpfInv'
PROOF
<1> SUFFICES ASSUME BpfInv, B!Arrive PROVE BpfInv'
  OBVIOUS
<1>1. PICK h \in Headers, n \in Lengths :
        LET r == B!Record(Len(arrived) + 1, B!After(arrived), h, n)
        IN arrived' = Append(arrived, r) /\ kernel' = Append(kernel, r)
  BY DEF B!Arrive
<1>2. arrived \in Seq(Records) /\ kernel \in Seq(Records) /\ buffer \in Seq(Records)
  BY DEF BpfInv, Stream
<1>3. Len(arrived) \in Nat /\ DOMAIN arrived = 1..Len(arrived) /\ Len(kernel) \in Nat /\ DOMAIN kernel = 1..Len(kernel)
  BY <1>2
<1>4. /\ B!After(arrived) \in Nat
      /\ \A i \in DOMAIN arrived : Beyond(arrived[i]) <= B!After(arrived)
      /\ Len(arrived) \in DOMAIN arrived => B!After(arrived) = Beyond(arrived[Len(arrived)])
  <2>1. CASE arrived = <<>>
    BY <2>1 DEF B!After
  <2>2. CASE arrived # <<>>
    <3>1. Len(arrived) \in DOMAIN arrived
      BY <1>2, <1>3, <2>2, EmptySeq
    <3>2. B!After(arrived) = Beyond(arrived[Len(arrived)])
      BY <2>2 DEF B!After, Beyond
    <3>3. \A i \in DOMAIN arrived : arrived[i].start \in Nat /\ Beyond(arrived[i]) \in Nat /\ arrived[i].start <= Beyond(arrived[i])
      BY <1>2, Ends
    <3>4. \A i \in DOMAIN arrived : i = Len(arrived) \/ Beyond(arrived[i]) <= arrived[Len(arrived)].start
      BY <1>3, <3>1 DEF BpfInv, Stream
    <3>5. \A i \in DOMAIN arrived : Beyond(arrived[i]) <= Beyond(arrived[Len(arrived)])
      BY <3>1, <3>3, <3>4
    <3> QED
      BY <3>1, <3>2, <3>3, <3>5
  <2> QED
    BY <2>1, <2>2
<1>5. PICK r \in Records : /\ arrived' = Append(arrived, r) /\ kernel' = Append(kernel, r)
                           /\ r.id = Len(arrived) + 1 /\ r.start = B!After(arrived)
  <2>1. B!Record(Len(arrived) + 1, B!After(arrived), h, n) \in Records
    <3>1. n \in Nat /\ MaxFrame \in Nat
      BY Lens
    <3>2. (IF n <= MaxFrame THEN n ELSE MaxFrame) \in 0..MaxFrame
      BY <3>1
    <3> QED
      BY <1>3, <1>4, <3>2 DEF B!Record, Records
  <2> QED
    BY <1>1, <2>1 DEF B!Record
<1>6. /\ arrived' \in Seq(Records) /\ Len(arrived') = Len(arrived) + 1 /\ arrived'[Len(arrived) + 1] = r
      /\ DOMAIN arrived' = 1..(Len(arrived) + 1) /\ \A i \in DOMAIN arrived : arrived'[i] = arrived[i]
  BY <1>2, <1>3, <1>5, AppendProperties
<1>7. /\ kernel' \in Seq(Records) /\ Len(kernel') = Len(kernel) + 1 /\ kernel'[Len(kernel) + 1] = r
      /\ DOMAIN kernel' = 1..(Len(kernel) + 1) /\ \A i \in DOMAIN kernel : kernel'[i] = kernel[i]
  BY <1>2, <1>3, <1>5, AppendProperties
<1>8. UNCHANGED <<buffer, used, offset, given, pc>>
  BY DEF B!Arrive
<1>9. Fetched' = Fetched /\ Earlier' = Earlier /\ Fetched = Len(arrived) - Len(kernel) /\ Fetched \in Nat
  <2>1. Fetched' = Fetched
    BY <1>3, <1>6, <1>7 DEF Fetched
  <2>2. Fetched \in Nat
    BY InBuffer
  <2> QED
    BY <1>8, <2>1, <2>2 DEF Earlier, Fetched
<1>10. Stream'
  <2>1. \A i \in DOMAIN arrived' : arrived'[i].id = i
    BY <1>3, <1>5, <1>6 DEF BpfInv, Stream
  <2>2. ASSUME NEW i \in DOMAIN arrived', NEW j \in DOMAIN arrived', i < j
        PROVE  Beyond(arrived'[i]) <= arrived'[j].start
    <3>1. i \in DOMAIN arrived /\ arrived'[i] = arrived[i]
      BY <1>3, <1>6, <2>2
    <3>2. CASE j \in DOMAIN arrived
      BY <1>6, <2>2, <3>1, <3>2 DEF BpfInv, Stream
    <3>3. CASE j = Len(arrived) + 1
      BY <1>4, <1>5, <1>6, <3>1, <3>3
    <3> QED
      BY <1>3, <1>6, <3>2, <3>3
  <2> QED
    BY <1>2, <1>6, <1>7, <1>8, <2>1, <2>2 DEF Stream, Beyond
<1>11. Consecutive'
  <2> SUFFICES ASSUME NEW i \in DOMAIN arrived', i + 1 \in DOMAIN arrived'
               PROVE  arrived'[i + 1].start = Beyond(arrived'[i])
    BY DEF Consecutive, Beyond
  <2>1. i \in DOMAIN arrived /\ arrived'[i] = arrived[i]
    BY <1>3, <1>6
  <2>2. CASE i + 1 \in DOMAIN arrived
    BY <1>6, <2>1, <2>2 DEF BpfInv, Consecutive
  <2>3. CASE i = Len(arrived)
    BY <1>4, <1>5, <1>6, <2>1, <2>3
  <2> QED
    BY <1>3, <2>1, <2>2, <2>3
<1>12. Neighbours'
  <2>1. \A i \in DOMAIN kernel' : kernel'[i] = arrived'[Fetched + i]
    <3> SUFFICES ASSUME NEW i \in DOMAIN kernel' PROVE kernel'[i] = arrived'[Fetched + i]
      OBVIOUS
    <3>1. CASE i \in DOMAIN kernel
      <4>1. Fetched + i \in DOMAIN arrived
        BY <1>3, <1>9, <3>1
      <4> QED
        BY <1>6, <1>7, <3>1, <4>1 DEF BpfInv, Neighbours
    <3>2. CASE i = Len(kernel) + 1
      <4>1. Fetched + i = Len(arrived) + 1
        BY <1>3, <1>9, <3>2
      <4> QED
        BY <1>6, <1>7, <3>2, <4>1
    <3> QED
      BY <1>3, <1>7, <3>1, <3>2
  <2>2. \A i \in DOMAIN buffer : buffer[i] = arrived'[Earlier + i]
    <3> SUFFICES ASSUME NEW i \in DOMAIN buffer PROVE buffer[i] = arrived'[Earlier + i]
      OBVIOUS
    <3>1. Earlier + i \in DOMAIN arrived
      BY <1>3, <1>9, InBuffer
    <3> QED
      BY <1>6, <3>1 DEF BpfInv, Neighbours
  <2> QED
    BY <1>8, <1>9, <2>1, <2>2 DEF BpfInv, Neighbours
<1>13. Position'
  BY <1>8, <1>9, PositionKept DEF BpfInv, Position
<1> QED
  BY <1>10, <1>11, <1>12, <1>13 DEF BpfInv

\* The offset moves past the record that is handed out.
LEMMA NextFrameKeeps == BpfInv /\ B!Next_Frame => BpfInv'
PROOF
<1> SUFFICES ASSUME BpfInv, B!Next_Frame PROVE BpfInv'
  OBVIOUS
<1>1. offset < used /\ pc = "next" /\ UNCHANGED <<arrived, kernel, buffer, used>>
  BY DEF B!Next_Frame
<1>2. Fetched' = Fetched /\ Earlier' = Earlier /\ Stream' /\ Consecutive' /\ Neighbours'
  BY <1>1 DEF BpfInv, Fetched, Earlier, Stream, Consecutive, Neighbours, Beyond
<1>3. CASE UNCHANGED <<offset, given>> /\ pc' = "failed"
  BY <1>1, <1>2, <1>3, PositionKept DEF BpfInv
<1>4. CASE ~(UNCHANGED <<offset, given>> /\ pc' = "failed")
  <2>1. PICK i \in B!At(offset) :
          offset' = offset + B!Step(buffer[i]) /\ given' = Append(given, buffer[i].id) /\ pc' = pc
    BY <1>4 DEF B!Next_Frame
  <2>2. Len(given) < Fetched /\ Upcoming \in DOMAIN buffer /\ offset = B!RecordStart(buffer, Upcoming)
    BY <1>1, Room
  <2>3. i = Upcoming
    BY <2>1, <2>2, OnePlace DEF B!At
  <2>4. /\ Len(buffer) \in Nat /\ DOMAIN buffer = 1..Len(buffer) /\ Len(given) \in Nat /\ Earlier \in Nat
        /\ Fetched = Earlier + Len(buffer)
        /\ buffer[i] \in Records /\ buffer[i].id = Earlier + i
        /\ i + 1 \in DOMAIN buffer => buffer[i + 1].start = Beyond(buffer[i])
    BY <2>2, <2>3, InBuffer
  <2>5. buffer[i].id = Len(given) + 1
    BY <2>3, <2>4 DEF Upcoming
  <2>6. given \in Seq(Nat) /\ DOMAIN given = 1..Len(given) /\ \A j \in DOMAIN given : given[j] = j
    BY DEF BpfInv, Position
  <2>7. /\ given' \in Seq(Nat) /\ Len(given') = Len(given) + 1 /\ DOMAIN given' = 1..(Len(given) + 1)
        /\ \A j \in DOMAIN given' : given'[j] = j
    BY <2>1, <2>4, <2>5, <2>6, AppendProperties
  <2>8. offset' = Beyond(buffer[i]) - buffer[1].start
    <3>1. PICK a \in Nat, b \in Nat, e \in Nat :
            a = buffer[i].start /\ b = buffer[1].start /\ e = B!Align(B!End(buffer[i]))
      <4>1. 1 \in DOMAIN buffer
        BY <2>2, <2>4
      <4> QED
        BY <2>4, <4>1, InBuffer, Ends, Padding
    <3>2. offset = a - b /\ offset' = offset + e
      BY <2>1, <2>2, <2>3, <3>1 DEF B!RecordStart, B!Step
    <3>3. Beyond(buffer[i]) = a + e
      BY <3>1 DEF Beyond
    <3> QED
      BY <3>1, <3>2, <3>3
  <2>9. buffer # <<>>
    BY <2>2, <2>4
  <2>10. Upcoming' = i + 1
    BY <1>2, <2>3, <2>4, <2>7 DEF Upcoming
  <2>11. offset' = IF Len(given') < Fetched THEN B!RecordStart(buffer, i + 1)
                   ELSE Beyond(buffer[Len(buffer)]) - buffer[1].start
    <3>1. CASE Len(given') < Fetched
      <4>1. i + 1 \in DOMAIN buffer
        BY <2>2, <2>3, <2>4, <2>7, <3>1 DEF Upcoming
      <4> QED
        BY <2>4, <2>8, <3>1, <4>1 DEF B!RecordStart
    <3>2. CASE ~(Len(given') < Fetched)
      <4>1. i = Len(buffer)
        BY <2>2, <2>3, <2>4, <2>7, <3>2 DEF Upcoming
      <4> QED
        BY <2>8, <3>2, <4>1
    <3> QED
      BY <3>1, <3>2
  <2>12. Len(given') \in Earlier..Fetched
    BY <2>2, <2>4, <2>7 DEF BpfInv, Position
  <2>13. used \in B!Sizes(buffer)
    BY <2>9 DEF BpfInv, Position
  <2>14. Position'
    BY <1>1, <1>2, <2>1, <2>7, <2>9, <2>10, <2>11, <2>12, <2>13
       DEF Position, B!Sizes, B!RecordStart, Beyond
  <2> QED
    BY <1>2, <2>14 DEF BpfInv
<1> QED
  BY <1>3, <1>4

\* The buffer is filled again when nothing of it is left.
LEMMA ReadKeeps == BpfInv /\ B!Read => BpfInv'
PROOF
<1> SUFFICES ASSUME BpfInv, B!Read PROVE BpfInv'
  OBVIOUS
<1>1. /\ pc = "wait" /\ pc' = "next" /\ offset' = 0 /\ UNCHANGED <<arrived, given>> /\ kernel # <<>>
  BY DEF B!Read
<1>2. PICK n \in 1..Len(kernel) :
        /\ used' \in B!Sizes(SubSeq(kernel, 1, n))
        /\ buffer' = SubSeq(kernel, 1, n) /\ kernel' = SubSeq(kernel, n + 1, Len(kernel))
  BY DEF B!Read
<1>3. /\ arrived \in Seq(Records) /\ kernel \in Seq(Records) /\ Len(kernel) \in Nat /\ DOMAIN kernel = 1..Len(kernel)
      /\ Len(arrived) \in Nat /\ DOMAIN arrived = 1..Len(arrived)
  BY DEF BpfInv, Stream
<1>4. n \in Nat /\ 1 <= n /\ n <= Len(kernel)
  BY <1>3
<1>5. /\ buffer' \in Seq(Records) /\ Len(buffer') = n /\ DOMAIN buffer' = 1..n
      /\ \A i \in 1..n : buffer'[i] = kernel[i]
  <2>1. \A i \in 1..n : kernel[i] \in Records
    BY <1>3, <1>4
  <2>2. /\ SubSeq(kernel, 1, n) \in Seq(Records) /\ Len(SubSeq(kernel, 1, n)) = n
        /\ \A i \in 1..n : SubSeq(kernel, 1, n)[i] = kernel[i]
    BY <1>4, <2>1, SubSeqProperties
  <2> QED
    BY <1>2, <2>2, LenProperties
<1>6. /\ kernel' \in Seq(Records) /\ Len(kernel') = Len(kernel) - n /\ DOMAIN kernel' = 1..(Len(kernel) - n)
      /\ \A i \in 1..(Len(kernel) - n) : kernel'[i] = kernel[n + i]
  <2>1. \A i \in (n + 1)..Len(kernel) : kernel[i] \in Records
    BY <1>3, <1>4
  <2> DEFINE rest == SubSeq(kernel, n + 1, Len(kernel))
  <2>2. /\ rest \in Seq(Records) /\ Len(rest) = IF n + 1 <= Len(kernel) THEN Len(kernel) - (n + 1) + 1 ELSE 0
        /\ \A i \in 1..(Len(kernel) - (n + 1) + 1) : rest[i] = kernel[(n + 1) + i - 1]
    BY <1>3, <1>4, <2>1, SubSeqProperties
  <2> HIDE DEF rest
  <2>3. rest \in Seq(Records) /\ Len(rest) = Len(kernel) - n /\ \A i \in 1..(Len(kernel) - n) : rest[i] = kernel[n + i]
    <3>1. Len(kernel) - (n + 1) + 1 = Len(kernel) - n /\ \A i \in Nat : (n + 1) + i - 1 = n + i
      BY <1>3, <1>4
    <3>2. Len(rest) = Len(kernel) - n
      <4>1. CASE n = Len(kernel)
        BY <1>3, <1>4, <2>2, <4>1
      <4>2. CASE n < Len(kernel)
        <5>1. n + 1 <= Len(kernel) /\ Len(kernel) - (n + 1) + 1 = Len(kernel) - n
          BY ONLY <1>3, <1>4, <4>2
        <5> QED
          BY <2>2, <5>1
      <4> QED
        <5>1. Len(kernel) \in Nat
          BY <1>3
        <5> QED
          BY ONLY <1>4, <4>1, <4>2, <5>1
    <3>3. \A i \in 1..(Len(kernel) - n) : i \in Nat
      BY <1>3, <1>4
    <3> QED
      BY <2>2, <3>1, <3>2, <3>3
  <2> QED
    BY <1>2, <2>3, LenProperties DEF rest
<1>7. Fetched' = Fetched + n /\ Earlier' = Fetched /\ Fetched \in Nat
  <2>1. Fetched \in Nat
    BY InBuffer
  <2>2. Fetched' = Len(arrived) - (Len(kernel) - n)
    BY <1>1, <1>6 DEF Fetched
  <2>3. Fetched' = Fetched + n
    BY <1>3, <1>4, <2>2 DEF Fetched
  <2> QED
    BY <1>4, <1>5, <2>1, <2>3 DEF Earlier
<1>8. Stream' /\ Consecutive'
  BY <1>1, <1>5, <1>6 DEF BpfInv, Stream, Consecutive, Beyond
<1>9. Neighbours'
  <2>1. \A i \in DOMAIN kernel' : kernel'[i] = arrived[Fetched' + i]
    <3> SUFFICES ASSUME NEW i \in 1..(Len(kernel) - n) PROVE kernel[n + i] = arrived[Fetched + n + i]
      BY <1>6, <1>7
    <3>1. n + i \in DOMAIN kernel /\ Fetched + n + i = Fetched + (n + i)
      BY <1>3, <1>4, <1>7
    <3> QED
      BY <3>1 DEF BpfInv, Neighbours
  <2>2. \A i \in DOMAIN buffer' : buffer'[i] = arrived[Fetched + i]
    BY <1>3, <1>4, <1>5 DEF BpfInv, Neighbours
  <2> QED
    BY <1>1, <1>7, <2>1, <2>2 DEF Neighbours
<1>10. Position'
  <2>1. Len(given) = Fetched /\ given \in Seq(Nat) /\ \A i \in DOMAIN given : given[i] = i
    BY <1>1 DEF BpfInv, Position
  <2>2. Upcoming' = 1 /\ buffer' # <<>>
    BY <1>1, <1>4, <1>5, <1>7, <2>1 DEF Upcoming
  <2>3. buffer'[1].start \in Nat
    BY <1>4, <1>5, Ends
  <2>4. B!RecordStart(buffer', 1) = 0
    BY <2>3 DEF B!RecordStart
  <2>5. Len(given') < Fetched' /\ Len(given') \in Earlier'..Fetched'
    BY <1>1, <1>4, <1>7, <2>1
  <2> QED
    BY <1>1, <1>2, <2>1, <2>2, <2>4, <2>5 DEF Position, B!Sizes, B!RecordStart
<1> QED
  BY <1>8, <1>9, <1>10 DEF BpfInv

LEMMA NextBpf == BpfInv /\ [Next]_vars => BpfInv'
PROOF
<1> SUFFICES ASSUME BpfInv, [Next]_vars PROVE BpfInv'
  OBVIOUS
<1>1. ASSUME UNCHANGED <<arrived, kernel, buffer, used, offset, given>>, pc' = "wait" => Len(given) = Fetched
      PROVE  BpfInv'
  <2>1. Fetched' = Fetched /\ Earlier' = Earlier /\ Stream' /\ Consecutive' /\ Neighbours'
    BY <1>1 DEF BpfInv, Fetched, Earlier, Stream, Consecutive, Neighbours, Beyond
  <2> QED
    BY <1>1, <2>1, PositionKept DEF BpfInv
<1>2. CASE MacOS
  <2>1. CASE B!Cancel \/ B!Stopped \/ B!ReadFails
    BY <1>1, <2>1 DEF B!Cancel, B!Stopped, B!ReadFails, BpfInv, Position
  <2>2. CASE B!Wait
    <3>1. ~(offset < used) \/ ~(offset \in Int) \/ ~(used \in Int)
      BY <2>2 DEF B!Wait, B!Drained
    <3>2. Len(given) = Fetched
      <4>1. SUFFICES ASSUME Len(given) < Fetched PROVE FALSE
        BY <4>1, InBuffer DEF BpfInv, Position
      <4>2. offset \in Int /\ used \in Int /\ offset + B!End(buffer[Upcoming]) <= used /\ Upcoming \in DOMAIN buffer
        BY <4>1, Room
      <4>3. B!End(buffer[Upcoming]) \in Nat /\ B!End(buffer[Upcoming]) >= 18
        BY <4>2, InBuffer, Ends
      <4> QED
        BY <3>1, <4>2, <4>3
    <3> QED
      BY <1>1, <2>2, <3>2 DEF B!Wait
  <2> QED
    BY <1>2, <2>1, <2>2, ArriveKeeps, NextFrameKeeps, ReadKeeps DEF MacOS, B!Next
<1>3. CASE Windows \/ UNCHANGED vars
  BY <1>1, <1>3 DEF Windows, vars, macos, BpfInv, Position
<1> QED
  BY <1>2, <1>3 DEF Next

LEMMA BpfInvariance == Spec => []BpfInv
BY InitBpf, NextBpf, PTL DEF Spec

\* Whatever the reads contain, the reader is given every frame once and in the order of
\* arrival (next_frame(), Capture::receive() of platform/macos.rs).
THEOREM GivenInOrder == Spec => []FramesInOrder
PROOF
<1>1. BpfInv => FramesInOrder
  <2> SUFFICES ASSUME BpfInv, NEW k \in (Len(given) + 1)..Len(arrived)
               PROVE  k \in B!Ids(buffer) \cup B!Ids(kernel)
    BY DEF BpfInv, Position, FramesInOrder, B!FramesInOrder
  <2>1. /\ Len(arrived) \in Nat /\ DOMAIN arrived = 1..Len(arrived)
        /\ Len(kernel) \in Nat /\ DOMAIN kernel = 1..Len(kernel) /\ Fetched = Len(arrived) - Len(kernel)
    BY DEF BpfInv, Stream, Fetched
  <2>2. /\ Len(buffer) \in Nat /\ DOMAIN buffer = 1..Len(buffer) /\ Len(given) \in Nat
        /\ Earlier \in Nat /\ Fetched = Earlier + Len(buffer) /\ Earlier <= Len(given)
        /\ \A i \in DOMAIN buffer : buffer[i].id = Earlier + i
    BY InBuffer DEF BpfInv, Position
  <2>3. CASE k <= Fetched
    <3>1. k - Earlier \in DOMAIN buffer /\ Earlier + (k - Earlier) = k
      BY <2>1, <2>2, <2>3
    <3> QED
      BY <2>2, <3>1 DEF B!Ids
  <2>4. CASE k > Fetched
    <3>1. k - Fetched \in DOMAIN kernel /\ Fetched + (k - Fetched) = k /\ k \in DOMAIN arrived
      BY <2>1, <2>2, <2>4
    <3>2. kernel[k - Fetched] = arrived[k] /\ arrived[k].id = k
      BY <3>1 DEF BpfInv, Stream, Neighbours
    <3> QED
      BY <3>1, <3>2 DEF B!Ids
  <2> QED
    BY <2>1, <2>2, <2>3, <2>4
<1> QED
  BY <1>1, BpfInvariance, PTL

\* While the reader goes on, the next bytes of the buffer are a whole record, which is
\* refused only if the filter cut it (next_frame()).
THEOREM FailsOnCutFrames == Spec => []FailsOnCutFrame
PROOF
<1>1. BpfInv => FailsOnCutFrame
  <2> SUFFICES ASSUME BpfInv, offset < used
               PROVE  \E i \in B!At(offset) : B!Valid(buffer[i]) \/ buffer[i].captured # buffer[i].original
    BY DEF FailsOnCutFrame, B!FailsOnCutFrame
  <2> DEFINE r == buffer[Upcoming]
  <2>1. /\ Upcoming \in DOMAIN buffer /\ offset = B!RecordStart(buffer, Upcoming)
        /\ offset \in Int /\ used \in Int /\ offset + B!End(r) <= used
    BY Room
  <2>2. r \in Records /\ B!End(r) \in Nat /\ B!End(r) >= 18 /\ B!End(r) = r.header + r.captured
    BY <2>1, InBuffer, Ends
  <2>3. r.header \in Nat /\ r.header >= 18 /\ r.captured \in Nat /\ r.captured <= MaxFrame
    <3>1. r.header \in Headers /\ r.captured \in 0..MaxFrame
      BY <2>2 DEF Records
    <3>2. r.header \in Nat /\ r.header >= 18
      BY <3>1, Lens
    <3>3. r.captured \in Nat /\ r.captured <= MaxFrame
      BY <3>1, Lens
    <3> QED
      BY <3>2, <3>3
  <2> HIDE DEF r
  <2>4. used - offset >= 18 /\ r.header <= used - offset /\ B!End(r) <= used - offset
    BY <2>1, <2>2, <2>3
  <2>5. r.captured = r.original => B!Valid(r)
    BY <2>3, <2>4 DEF B!Valid, B!Whole, B!HeaderMin
  <2>6. Upcoming \in B!At(offset)
    BY <2>1 DEF B!At
  <2> QED
    BY <2>5, <2>6 DEF r
<1> QED
  BY <1>1, BpfInvariance, PTL

-----------------------------------------------------------------------------
(* The requests to the driver on Windows.                                  *)

\* RequestsAreJoined is not inductive: what makes it hold is the flag, for a drop waits
\* only for a request that is marked, and that the owner is through with its own
\* requests and has joined the reader before it closes the device.

\* A request that is under way is marked, and its function waits for it.
Marks ==
  \A t \in U!Threads :
    /\ driver[t] = "busy" => at[t] \in {"waiting", "dropping"} /\ pending[t] = TRUE
    /\ driver[t] = "cancelled" => at[t] = "joining" /\ pending[t] = TRUE

\* The reader exists only while the session is open; a device is closed when neither
\* thread has anything to do with it.
Order ==
  /\ at["reader"] # "none" => owner \in {"sending", "closing"}
  /\ owner \in {"opened", "leaving"} => at["owner"] \in {"idle", "none"}
  /\ owner = "closing" => at["owner"] = "none"
  /\ ~handle => owner = "leaving"

UioInv == U!TypeOK /\ Marks /\ Order

LEMMA MarksSuffice == UioInv => U!RequestsAreJoined
  BY DEF UioInv, U!TypeOK, Marks, Order, U!RequestsAreJoined, U!InRequest, U!Threads

LEMMA UioInit == U!Init => UioInv
  BY DEF U!Init, UioInv, U!TypeOK, Marks, Order, U!Threads, U!Points

LEMMA ReturnsType ==
  ASSUME U!TypeOK, NEW t \in U!Threads, NEW ok, U!Returns(t, ok)
  PROVE  /\ at' \in [U!Threads -> U!Points]
         /\ owner' \in {"opening", "ether type", "opened", "sending", "closing", "leaving"}
PROOF
<1> USE DEF U!TypeOK, U!Points, U!Goes
<1>1. CASE t = "owner"
  BY <1>1 DEF U!Returns
<1>2. CASE t # "owner"
  BY <1>2 DEF U!Returns
<1> QED BY <1>1, <1>2

\* Every step of a request, of either thread, keeps the invariant.
LEMMA RequestSteps ==
  ASSUME UioInv, NEW t \in U!Threads,
         \/ U!Request(t) /\ (t = "owner" => owner \in {"opening", "ether type", "sending"})
         \/ U!Finish(t) \/ U!Drop(t) \/ U!Joined(t) \/ U!Completes(t)
  PROVE  UioInv'
PROOF
<1>1. CASE U!Request(t) /\ (t = "owner" => owner \in {"opening", "ether type", "sending"})
  <2>1. U!TypeOK'
    BY <1>1, ReturnsType DEF UioInv, U!TypeOK, U!Points, U!Request, U!Goes, U!Marked
  <2>2. Marks'
    BY <1>1, ZenonT(60) DEF UioInv, U!TypeOK, U!Threads, U!Points, Marks, U!Request, U!Goes, U!Marked, U!Returns
  <2>3. Order'
    BY <1>1 DEF UioInv, U!TypeOK, U!Threads, U!Points, Order, U!Request, U!Goes, U!Marked, U!Returns
  <2> QED
    BY <2>1, <2>2, <2>3 DEF UioInv
<1>2. CASE U!Finish(t)
  <2>1. U!TypeOK'
    BY <1>2 DEF UioInv, U!TypeOK, U!Threads, U!Points, U!Finish, U!Goes, U!Returns
  <2>2. Marks'
    BY <1>2 DEF UioInv, U!TypeOK, U!Threads, U!Points, Marks, U!Finish, U!Goes, U!Returns
  <2>3. Order'
    BY <1>2 DEF UioInv, U!TypeOK, U!Threads, U!Points, Order, U!Finish, U!Goes, U!Returns
  <2> QED
    BY <2>1, <2>2, <2>3 DEF UioInv
<1>3. CASE U!Drop(t)
  <2>1. U!TypeOK'
    BY <1>3, ReturnsType DEF UioInv, U!TypeOK, U!Points, U!Drop, U!Goes
  <2>2. Marks'
    BY <1>3, ZenonT(60) DEF UioInv, U!TypeOK, U!Threads, U!Points, Marks, U!Drop, U!Goes, U!Returns
  <2>3. Order'
    BY <1>3 DEF UioInv, U!TypeOK, U!Threads, U!Points, Order, U!Drop, U!Goes, U!Returns
  <2> QED
    BY <2>1, <2>2, <2>3 DEF UioInv
<1>4. CASE U!Joined(t)
  <2>1. U!TypeOK'
    BY <1>4 DEF UioInv, U!TypeOK, U!Threads, U!Points, U!Joined, U!Goes, U!Returns
  <2>2. Marks'
    BY <1>4 DEF UioInv, U!TypeOK, U!Threads, U!Points, Marks, U!Joined, U!Goes, U!Returns
  <2>3. Order'
    BY <1>4 DEF UioInv, U!TypeOK, U!Threads, U!Points, Order, U!Joined, U!Goes, U!Returns
  <2> QED
    BY <2>1, <2>2, <2>3 DEF UioInv
<1>5. CASE U!Completes(t)
  <2>1. U!TypeOK'
    BY <1>5 DEF UioInv, U!TypeOK, U!Threads, U!Points, U!Completes
  <2>2. Marks'
    BY <1>5 DEF UioInv, U!TypeOK, U!Threads, U!Points, Marks, U!Completes
  <2>3. Order'
    BY <1>5 DEF UioInv, U!TypeOK, U!Threads, U!Points, Order, U!Completes
  <2> QED
    BY <2>1, <2>2, <2>3 DEF UioInv
<1> QED BY <1>1, <1>2, <1>3, <1>4, <1>5

LEMMA UioNext == UioInv /\ [U!Next]_U!vars => UioInv'
PROOF
<1> SUFFICES ASSUME UioInv, [U!Next]_U!vars PROVE UioInv'
  OBVIOUS
<1> "owner" \in U!Threads /\ "reader" \in U!Threads
  BY DEF U!Threads
<1>1. CASE U!OwnerRequest
  BY <1>1, RequestSteps DEF U!OwnerRequest
<1>2. CASE U!Finish("owner") \/ U!Drop("owner") \/ U!Joined("owner")
  BY <1>2, RequestSteps
<1>3. CASE U!Request("reader") \/ U!FinishRead \/ U!Drop("reader") \/ U!Joined("reader")
  BY <1>3, RequestSteps DEF U!FinishRead
<1>4. CASE \E t \in U!Threads : U!Completes(t)
  BY <1>4, RequestSteps
<1>5. CASE U!TimedOut
  BY <1>5 DEF U!TimedOut, U!Goes, UioInv, U!TypeOK, Marks, Order, U!Threads, U!Points
<1>6. CASE U!Spawn
  BY <1>6 DEF U!Spawn, U!Goes, UioInv, U!TypeOK, Marks, Order, U!Threads, U!Points
<1>7. CASE U!Join \/ U!Close
  BY <1>7 DEF U!Join, U!Close, U!requests, U!Goes, UioInv, U!TypeOK, Marks, Order, U!Threads, U!Points
<1>8. CASE U!ReadStopped \/ U!WaitFails \/ U!Deliver
  BY <1>8, ZenonT(60) DEF U!ReadStopped, U!WaitFails, U!Deliver, U!Goes, UioInv, U!TypeOK, Marks, Order, U!Threads, U!Points
<1>9. CASE U!Cancel
  BY <1>9 DEF U!Cancel, U!Goes, UioInv, U!TypeOK, Marks, Order, U!Threads, U!Points
<1>10. CASE UNCHANGED U!vars
  BY <1>10 DEF U!vars, U!requests, UioInv, U!TypeOK, Marks, Order
<1> QED
  BY <1>1, <1>2, <1>3, <1>4, <1>5, <1>6, <1>7, <1>8, <1>9, <1>10 DEF U!Next, U!Owner, U!Reader

LEMMA MacOSInv == UioInv /\ MacOS => UioInv'
PROOF
<1> SUFFICES ASSUME UioInv, MacOS PROVE UioInv'
  OBVIOUS
<1>1. stop' \in BOOLEAN
  BY DEF MacOS, B!Next, B!Arrive, B!Cancel, B!Stopped, B!Next_Frame, B!Wait, B!Read, B!ReadFails,
         UioInv, U!TypeOK
<1>2. UNCHANGED <<owner, at, pending, driver, handle>>
  BY DEF MacOS, windows
<1> QED
  BY <1>1, <1>2 DEF UioInv, U!TypeOK, Marks, Order, U!Threads

\* No request to the driver outlives its buffers or its device: it is joined before its
\* function returns and before the device is closed, in a session that is opened, stopped
\* and closed at any moment, whatever the driver does and whoever gives up first
\* (windows_uio.rs:3, 67-77, platform/mod.rs:155).
THEOREM JoinedFirst == Spec => []RequestsAreJoined
PROOF
<1>1. Init => UioInv
  BY UioInit DEF Init
<1>2. UioInv /\ [Next]_vars => UioInv'
  <2> SUFFICES ASSUME UioInv, [Next]_vars PROVE UioInv'
    OBVIOUS
  <2>1. CASE MacOS
    BY <2>1, MacOSInv
  <2>2. CASE Windows
    BY <2>2, UioNext DEF Windows
  <2>3. CASE UNCHANGED vars
    BY <2>3 DEF vars, windows, UioInv, U!TypeOK, Marks, Order
  <2> QED
    BY <2>1, <2>2, <2>3 DEF Next
<1>3. UioInv => RequestsAreJoined
  BY MarksSuffice DEF RequestsAreJoined
<1> QED
  BY <1>1, <1>2, <1>3, PTL DEF Spec
=============================================================================
