----------------------------- MODULE SoundProofs -----------------------------
(***************************************************************************)
(* Proofs about the parts of the APU.  The ring of a sound FIFO is a       *)
(* queue, and its refills fit, for all capacities and for all sizes of a   *)
(* refill that fit once.  The rates, timers, counters and volumes of a     *)
(* channel stay in their ranges, for all sizes of the registers.  The      *)
(* sound buffer hands over the samples in order and the resampler keeps    *)
(* the pace, for all capacities and rates.                                 *)
(***************************************************************************)
EXTENDS Fifo, Psg, SoundBuffer, SequenceTheorems, TLAPS

(* The bytes that the refill has still to write, and why they fit: a refill is
   asked for when it fits, and until it has been written samples only leave. *)
Coming == IF refill = "scheduled" THEN RefillBytes ELSE left
RefillFits == ~direct => size + Coming <= capacity
LeftWhileRunning == refill = "running" <=> left > 0

Inv ==
    /\ TypeOK
    /\ RefillFits
    /\ LeftWhileRunning
    /\ NoSampleDropped

-----------------------------------------------------------------------------
(* The remainder of an index that is at most one round too large. *)
LEMMA Round ==
    ASSUME NEW n \in 0..(2 * capacity - 1)
    PROVE  n % capacity = (IF n < capacity THEN n ELSE n - capacity)
  <1>1. capacity \in Nat \ {0}
    BY FifoAssumption
  <1>2. \A m \in Nat : m < capacity => m % capacity = m
    BY <1>1
  <1>3. CASE n < capacity
    BY <1>2, <1>3
  <1>4. CASE n >= capacity
    <2>1. n = capacity + (n - capacity) /\ n - capacity \in 0..(capacity - 1)
      BY <1>1, <1>4
    <2>2. \A m \in 0..(capacity - 1) : (capacity + m) % capacity = m
      BY <1>1
    <2> QED BY <2>1, <2>2, <1>1, <1>4
  <1> QED BY <1>1, <1>3, <1>4

(* What a sample that comes or goes does to the ring. *)
RingOK ==
    /\ data \in [0..(capacity - 1) -> Samples]
    /\ read_idx \in 0..(capacity - 1) /\ write_idx \in 0..(capacity - 1)
    /\ size \in 0..capacity
    /\ write_idx = Index(size)

(* TypeOK without remainders. *)
RestOK ==
    /\ latch \in Samples
    /\ selected_timer_id \in Timers
    /\ dma_enabled \in BOOLEAN
    /\ refill \in {"none", "scheduled", "running"}
    /\ left \in 0..RefillBytes
    /\ dropped \in BOOLEAN /\ direct \in BOOLEAN

(* The index of the place a number of samples behind another. *)
LEMMA Wrap ==
    ASSUME NEW r \in 0..(capacity - 1), NEW n \in 0..capacity
    PROVE  (r + n) % capacity = IF r + n < capacity THEN r + n ELSE r + n - capacity
  <1>1. r + n \in 0..(2 * capacity - 1) /\ r + n \in Int /\ capacity \in Int
    BY FifoAssumption
  <1> QED BY <1>1, Round

(* An arithmetic fact about sums. *)
LEMMA LessFits == \A a, b, c, d \in Nat : a + b <= d /\ c <= a => c + b <= d
  OBVIOUS

(* What is coming still fits when samples have left. *)
LEMMA StillFits ==
    ASSUME RefillFits, capacity \in Nat, Coming \in Nat, size \in Nat, size' \in Nat,
           size' <= size, UNCHANGED <<refill, left, direct>>
    PROVE  RefillFits'
  <1> SUFFICES ASSUME ~direct' PROVE size' + Coming' <= capacity
    BY DEF RefillFits
  <1>1. size + Coming <= capacity
    BY DEF RefillFits
  <1>2. Coming' = Coming
    BY DEF Coming
  <1>3. size' + Coming <= capacity
    BY <1>1, LessFits, Zenon
  <1> QED BY <1>2, <1>3, Zenon

(* The types are those of the ring and those of the rest, *)
LEMMA TypeParts == TypeOK <=> RingOK /\ RestOK
  <1>1. read_idx \in 0..(capacity - 1) /\ size \in 0..capacity
          => (read_idx + size) % capacity = Index(size)
    BY Wrap DEF Index
  <1> QED BY <1>1 DEF TypeOK, RingOK, RestOK

(* in the next state too. *)
LEMMA TypePartsNext == TypeOK' <=> RingOK' /\ RestOK'
  <1>1. read_idx' \in 0..(capacity - 1) /\ size' \in 0..capacity
          => (read_idx' + size') % capacity = Index(size)'
    BY Wrap DEF Index
  <1> QED BY <1>1 DEF TypeOK, RingOK, RestOK

(* The index after another. *)
LEMMA Following ==
    ASSUME NEW n \in 0..(capacity - 1)
    PROVE  (n + 1) % capacity = IF n + 1 < capacity THEN n + 1 ELSE 0
  <1>1. n + 1 \in 0..(2 * capacity - 1) /\ n \in Int /\ capacity \in Int
    BY FifoAssumption
  <1>2. (n + 1) % capacity = (IF n + 1 < capacity THEN n + 1 ELSE n + 1 - capacity)
    BY <1>1, Round
  <1> QED BY <1>1, <1>2

(* A sample that is written leaves the ring whole, *)
LEMMA PushKeepsRing ==
    ASSUME RingOK, NEW sample \in Samples, Push(sample)
    PROVE  RingOK'
  <1>0. capacity \in Nat \ {0}
    BY FifoAssumption
  <1>1. CASE size < capacity
    <2>1. write_idx' = (IF write_idx + 1 < capacity THEN write_idx + 1 ELSE 0)
      <3>1. write_idx' = (write_idx + 1) % capacity
        BY <1>1 DEF Push
      <3> QED BY <3>1, Following DEF RingOK
    <2>2. size' = size + 1 /\ read_idx' = read_idx
          /\ data' = [data EXCEPT ![write_idx] = sample]
      BY <1>1 DEF Push
    <2>3. data' \in [0..(capacity - 1) -> Samples]
      BY <2>2 DEF RingOK
    <2> QED BY <1>0, <1>1, <2>1, <2>2, <2>3 DEF RingOK, Index
  <1>2. CASE ~(size < capacity)
    BY <1>2 DEF Push, ring, RingOK, Index
  <1> QED BY <1>1, <1>2

(* and so does one that is read. *)
LEMMA PopKeepsRing ==
    ASSUME RingOK, Pop
    PROVE  RingOK' /\ latch' \in Samples
  <1>0. capacity \in Nat \ {0}
    BY FifoAssumption
  <1>1. latch' \in Samples
    BY DEF Pop, RingOK
  <1>2. CASE size > 0
    <2>1. read_idx' = (IF read_idx + 1 < capacity THEN read_idx + 1 ELSE 0)
      <3>1. read_idx' = (read_idx + 1) % capacity
        BY <1>2 DEF Pop
      <3> QED BY <3>1, Following DEF RingOK
    <2>2. size' = size - 1 /\ write_idx' = write_idx /\ data' = data
      BY <1>2 DEF Pop
    <2> QED BY <1>0, <1>1, <1>2, <2>1, <2>2 DEF RingOK, Index
  <1>3. CASE ~(size > 0)
    BY <1>1, <1>3 DEF Pop, RingOK, Index
  <1> QED BY <1>2, <1>3

-----------------------------------------------------------------------------
(* A FIFO that was just constructed satisfies the invariant. *)
LEMMA InitInv == Init => Inv
  <1> SUFFICES ASSUME Init PROVE Inv
    OBVIOUS
  <1>1. RingOK
    <2>1. data \in [0..(capacity - 1) -> Samples]
      BY FifoAssumption DEF Init
    <2>2. /\ read_idx \in 0..(capacity - 1) /\ write_idx \in 0..(capacity - 1)
          /\ size \in 0..capacity /\ write_idx = Index(size)
      BY FifoAssumption DEF Init, Index
    <2> QED BY <2>1, <2>2 DEF RingOK
  <1>2. RestOK
    <2>1. left \in 0..RefillBytes
      BY FifoAssumption DEF Init
    <2>2. latch \in Samples /\ selected_timer_id \in Timers
      BY FifoAssumption DEF Init
    <2> QED BY <2>1, <2>2 DEF Init, RestOK
  <1> QED
    BY <1>1, <1>2, TypeParts, FifoAssumption DEF Init, Inv, RefillFits, Coming, LeftWhileRunning,
       NoSampleDropped

(* Every step preserves it. *)
LEMMA NextInv == Inv /\ [Next]_vars => Inv'
  <1> SUFFICES ASSUME Inv, [Next]_vars
               PROVE  RingOK' /\ RestOK' /\ RefillFits' /\ LeftWhileRunning' /\ NoSampleDropped'
    BY TypePartsNext DEF Inv
  <1>0. RingOK /\ RestOK /\ RefillFits /\ LeftWhileRunning /\ NoSampleDropped
    BY TypeParts DEF Inv
  <1>n. /\ capacity \in Nat /\ RefillBytes \in Nat \ {0} /\ RefillAt \in Nat
        /\ RefillAt + RefillBytes <= capacity /\ size \in Nat /\ size <= capacity
    BY <1>0, FifoAssumption DEF RingOK
  <1> USE <1>0 DEF RefillFits, Coming, LeftWhileRunning, NoSampleDropped
  <1>1. ASSUME NEW id \in Timers, OnTimerOverflow(id)
        PROVE  RingOK' /\ RestOK' /\ RefillFits' /\ LeftWhileRunning' /\ NoSampleDropped'
    <2>1. CASE selected_timer_id = id
      <3>1. Pop
        BY <1>1, <2>1 DEF OnTimerOverflow
      <3>2. RingOK' /\ latch' \in Samples
        BY <3>1, PopKeepsRing
      <3>3. size' <= size /\ size' \in Nat
        BY <3>1, <1>n DEF Pop
      <3>4. refill' = (IF Hungry(size') /\ Granted THEN "scheduled" ELSE refill)
        BY <1>1, <2>1 DEF OnTimerOverflow
      <3>5. UNCHANGED <<selected_timer_id, dma_enabled, left, dropped, direct>>
        BY <1>1 DEF OnTimerOverflow, ghosts
      <3>6. RestOK'
        BY <3>2, <3>4, <3>5 DEF RestOK
      <3>7. left \in Nat
        BY <1>n DEF RestOK
      <3>8. RefillFits'
        <4>1. CASE refill' = "scheduled" /\ refill # "scheduled"
          <5>1. size' <= RefillAt /\ Coming' = RefillBytes
            BY <3>4, <4>1 DEF Hungry
          <5>2. size' + RefillBytes <= capacity
            BY <1>n, <3>3, <5>1, LessFits, Zenon
          <5>3. size' + Coming' <= capacity
            <6> HIDE <1>0 DEF Coming
            <6> QED BY <5>1, <5>2, Zenon
          <5> QED BY <5>3, Zenon
        <4>2. CASE refill' = refill
          BY <1>n, <3>3, <3>5, <3>7, <4>2, StillFits
        <4> QED BY <3>4, <4>1, <4>2
      <3>9. LeftWhileRunning'
        BY <3>4, <3>5 DEF Granted
      <3>10. NoSampleDropped'
        BY <3>5
      <3> QED BY <3>2, <3>6, <3>8, <3>9, <3>10
    <2>2. CASE selected_timer_id # id
      BY <1>1, <2>2 DEF OnTimerOverflow, ring, ghosts, RingOK, RestOK, Index
    <2> QED BY <2>1, <2>2
  <1>2. CASE StartRefill
    BY <1>2, <1>n DEF StartRefill, ring, ghosts, RingOK, RestOK, Index
  <1>3. ASSUME NEW sample \in Samples, RefillByte(sample)
        PROVE  RingOK' /\ RestOK' /\ RefillFits' /\ LeftWhileRunning' /\ NoSampleDropped'
    <2>1. RingOK'
      BY <1>3, PushKeepsRing DEF RefillByte
    <2>2. left \in 1..RefillBytes
      BY <1>3, <1>n DEF RefillByte, RestOK
    <2>3. ~direct => size < capacity
      BY <1>3, <1>n, <2>2 DEF RefillByte
    <2>4. size' = (IF size < capacity THEN size + 1 ELSE size)
      BY <1>3 DEF RefillByte, Push, ring
    <2>5. /\ left' = left - 1
          /\ refill = "running" /\ refill' = (IF left = 1 THEN "none" ELSE "running")
          /\ dropped' = (dropped \/ size = capacity)
          /\ UNCHANGED <<latch, selected_timer_id, dma_enabled, direct>>
      BY <1>3 DEF RefillByte
    <2>6. RestOK'
      BY <2>2, <2>5, <1>n DEF RestOK
    <2>7. LeftWhileRunning' /\ RefillFits'
      BY <2>2, <2>3, <2>4, <2>5, <1>n
    <2>8. NoSampleDropped'
      <3>1. ~direct => size # capacity
        BY <2>3, <1>n
      <3> QED BY <2>5, <3>1, Zenon
    <2> QED BY <2>1, <2>6, <2>7, <2>8
  <1>4. ASSUME NEW sample \in Samples, WriteFifo(sample)
        PROVE  RingOK' /\ RestOK' /\ RefillFits' /\ LeftWhileRunning' /\ NoSampleDropped'
    <2>1. RingOK' /\ direct'
      BY <1>4, PushKeepsRing DEF WriteFifo
    <2> QED BY <1>4, <2>1 DEF WriteFifo, dma, RestOK
  <1>5. ASSUME NEW reset \in BOOLEAN, NEW id \in Timers, WriteSoundcntH(reset, id)
        PROVE  RingOK' /\ RestOK' /\ RefillFits' /\ LeftWhileRunning' /\ NoSampleDropped'
    <2>1. RingOK' /\ size' <= size
      <3>1. CASE reset
        <4>1. read_idx' = 0 /\ write_idx' = 0 /\ size' = 0 /\ data' = data
          BY <1>5, <3>1 DEF WriteSoundcntH
        <4>2. capacity > 0
          BY FifoAssumption
        <4> QED BY <1>n, <4>1, <4>2 DEF RingOK, Index
      <3>2. CASE ~reset
        BY <1>5, <1>n, <3>2 DEF WriteSoundcntH, ring, RingOK, Index
      <3> QED BY <3>1, <3>2
    <2>2. RestOK'
      BY <1>5 DEF WriteSoundcntH, dma, ghosts, RestOK
    <2>3. RefillFits'
      <3>1. size' \in Nat /\ Coming \in Nat
        BY <2>1, <1>n DEF RingOK, RestOK
      <3>2. UNCHANGED <<refill, left, direct>>
        BY <1>5 DEF WriteSoundcntH, dma, ghosts
      <3> QED BY <1>n, <2>1, <3>1, <3>2, StillFits
    <2>4. LeftWhileRunning' /\ NoSampleDropped'
      BY <1>5 DEF WriteSoundcntH, dma, ghosts
    <2> QED BY <2>1, <2>2, <2>3, <2>4
  <1>6. ASSUME NEW on \in BOOLEAN, WriteCntH(on)
        PROVE  RingOK' /\ RestOK' /\ RefillFits' /\ LeftWhileRunning' /\ NoSampleDropped'
    BY <1>6, <1>n DEF WriteCntH, ring, ghosts, RingOK, RestOK, Index
  <1>7. CASE UNCHANGED vars
    BY <1>7 DEF vars, ring, dma, ghosts, RingOK, RestOK, Index
  <1> QED BY <1>1, <1>2, <1>3, <1>4, <1>5, <1>6, <1>7 DEF Next

(* The state is well formed, and refills fit. *)
THEOREM Invariance == Spec => []Inv
  <1> QED BY InitInv, NextInv, PTL DEF Spec

(* fifo: the two indices are as far apart as the size says, for any capacity. *)
THEOREM TypeCorrect == Spec => []TypeOK
  <1>1. Inv => TypeOK
    BY DEF Inv
  <1> QED BY <1>1, Invariance, PTL

(* fifo::on_timer_overflow and the DMA channel that it wakes: a program that
   leaves the FIFO to the DMA loses no sample, if a refill fits into what is
   empty when it is asked for. *)
THEOREM NothingDropped == Spec => []NoSampleDropped
  <1>1. Inv => NoSampleDropped
    BY DEF Inv
  <1> QED BY <1>1, Invariance, PTL
-----------------------------------------------------------------------------
(* The samples that wait are a sequence of the size. *)
LEMMA WaitingIsSeq ==
    ASSUME RingOK
    PROVE  /\ Waiting \in Seq(Samples)
           /\ Len(Waiting) = size
           /\ \A i \in 1..size : Waiting[i] = data[Index(i - 1)]
  <1>1. \A i \in 1..size : data[Index(i - 1)] \in Samples
    BY FifoAssumption DEF RingOK, Index
  <1>2. size \in Nat
    BY DEF RingOK
  <1>3. Waiting \in [1..size -> Samples]
    BY <1>1 DEF Waiting
  <1> QED BY <1>1, <1>2, <1>3 DEF Waiting

(* A sample that is written goes to the end of the queue, if there is room. *)
LEMMA PushAppends ==
    ASSUME RingOK, NEW sample \in Samples, Push(sample)
    PROVE  Waiting' = IF Len(Waiting) < capacity THEN Append(Waiting, sample) ELSE Waiting
  <1>0. /\ capacity \in Nat \ {0}
        /\ RingOK'
    BY PushKeepsRing, FifoAssumption
  <1>1. CASE size < capacity
    <2>1. /\ data' = [data EXCEPT ![write_idx] = sample]
          /\ size' = size + 1 /\ read_idx' = read_idx
      BY <1>1 DEF Push
    <2>2. \A i \in 1..size' : Waiting'[i] = data'[Index(i - 1)]
      BY <2>1 DEF Waiting, Index
    <2>3. \A i \in 1..size : Index(i - 1) \in 0..(capacity - 1) /\ Index(i - 1) # write_idx
      BY <1>0, <1>1 DEF RingOK, Index
    <2>4. \A i \in 1..size : Waiting'[i] = Waiting[i]
      BY <2>1, <2>2, <2>3, WaitingIsSeq DEF RingOK
    <2>5. Waiting'[size + 1] = sample
      <3>1. Waiting'[size + 1] = data'[Index(size)]
        BY <2>1, <2>2 DEF RingOK
      <3> QED BY <2>1, <3>1 DEF RingOK
    <2>6. Waiting' \in Seq(Samples) /\ Len(Waiting') = size + 1
      <3>1. \A i \in 1..size' : data'[Index(i - 1)] \in Samples
        BY <1>0, <2>1 DEF RingOK, Index
      <3>2. Waiting' = [i \in 1..(size + 1) |-> data'[Index(i - 1)]]
        BY <2>1 DEF Waiting, Index
      <3>3. Waiting' \in [1..(size + 1) -> Samples]
        BY <2>1, <3>1, <3>2
      <3> QED BY <3>2, <3>3 DEF RingOK
    <2>7. /\ Append(Waiting, sample) \in Seq(Samples)
          /\ Len(Append(Waiting, sample)) = size + 1
          /\ \A i \in 1..size : Append(Waiting, sample)[i] = Waiting[i]
          /\ Append(Waiting, sample)[size + 1] = sample
      BY WaitingIsSeq DEF RingOK
    <2>8. \A i \in 1..(size + 1) : Waiting'[i] = Append(Waiting, sample)[i]
      BY <2>4, <2>5, <2>7 DEF RingOK
    <2>9. Waiting' = Append(Waiting, sample)
      BY <2>6, <2>7, <2>8, SeqEqual
    <2> QED BY <1>1, <2>9, WaitingIsSeq
  <1>2. CASE ~(size < capacity)
    BY <1>2, WaitingIsSeq DEF Push, ring, Waiting, Index
  <1> QED BY <1>1, <1>2

(* A sample that is read is the front of the queue. *)
LEMMA PopTakes ==
    ASSUME RingOK, Pop, size > 0
    PROVE  Waiting # <<>> /\ latch' = Head(Waiting) /\ Waiting' = Tail(Waiting)
  <1>0. capacity \in Nat \ {0} /\ RingOK'
    BY PopKeepsRing, FifoAssumption
  <1>1. read_idx' = Index(1) /\ size' = size - 1 /\ data' = data
    <2>1. read_idx' = (read_idx + 1) % capacity /\ size' = size - 1 /\ data' = data
      BY DEF Pop
    <2>2. read_idx' = (IF read_idx + 1 < capacity THEN read_idx + 1 ELSE 0)
      BY <2>1, Following DEF RingOK
    <2> QED BY <1>0, <2>1, <2>2 DEF RingOK, Index
  <1>2. Waiting # <<>> /\ Waiting \in Seq(Samples) /\ Len(Waiting) = size
    BY WaitingIsSeq DEF RingOK
  <1>3. latch' = Head(Waiting)
    <2>1. Head(Waiting) = data[Index(0)]
      BY <1>2, WaitingIsSeq DEF RingOK
    <2>2. Index(0) = read_idx
      BY <1>0 DEF RingOK, Index
    <2> QED BY <2>1, <2>2 DEF Pop
  <1>4. Waiting' = [i \in 1..(size - 1) |-> data[Index(i)]]
    <2>1. \A i \in 1..(size - 1) :
              (IF read_idx' + (i - 1) < capacity THEN read_idx' + (i - 1)
               ELSE read_idx' + (i - 1) - capacity) = Index(i)
      BY <1>0, <1>1 DEF RingOK, Index
    <2> QED BY <1>1, <2>1 DEF Waiting, Index
  <1>5. Tail(Waiting) = [i \in 1..(size - 1) |-> data[Index(i)]]
    <2>1. Tail(Waiting) \in Seq(Samples) /\ Len(Tail(Waiting)) = size - 1
          /\ \A i \in 1..(size - 1) : Tail(Waiting)[i] = data[Index(i)]
      <3>1. /\ Tail(Waiting) \in Seq(Samples) /\ Len(Tail(Waiting)) = size - 1
            /\ \A i \in 1..(size - 1) : Tail(Waiting)[i] = Waiting[i + 1]
        BY <1>2, HeadTailProperties
      <3>2. \A i \in 1..(size - 1) : i + 1 \in 1..size /\ (i + 1) - 1 = i
        BY DEF RingOK
      <3>3. \A i \in 1..(size - 1) : Waiting[i + 1] = data[Index(i)]
        BY <3>2, WaitingIsSeq
      <3> QED BY <3>1, <3>3
    <2>2. Tail(Waiting) \in [1..(size - 1) -> Samples]
      BY <2>1, LenProperties
    <2> QED BY <2>1, <2>2
  <1> QED BY <1>2, <1>3, <1>4, <1>5

(* Every step of the ring is one of the queue, or a stutter. *)
LEMMA NextSimulates == Inv /\ [Next]_vars => [Queue!Next]_(Queue!vars)
  <1> SUFFICES ASSUME Inv, [Next]_vars PROVE [Queue!Next]_(Queue!vars)
    OBVIOUS
  <1>0. RingOK
    BY TypeParts DEF Inv
  <1>1. ASSUME NEW id \in Timers, OnTimerOverflow(id) PROVE [Queue!Next]_(Queue!vars)
    <2>1. CASE selected_timer_id = id /\ size > 0
      <3>1. Pop
        BY <1>1, <2>1 DEF OnTimerOverflow
      <3>2. Queue!Take
        BY <1>0, <2>1, <3>1, PopTakes DEF Queue!Take
      <3> QED BY <3>2 DEF Queue!Next
    <2>2. CASE selected_timer_id = id /\ ~(size > 0)
      <3>1. Pop
        BY <1>1, <2>2 DEF OnTimerOverflow
      <3>2. latch' \in Samples
        BY <1>0, <3>1, PopKeepsRing
      <3>3. UNCHANGED Waiting
        BY <2>2, <3>1 DEF Pop, Waiting, Index
      <3>4. Waiting = <<>>
        BY <1>0, <2>2, WaitingIsSeq DEF RingOK
      <3>5. Queue!RunDry
        BY <3>2, <3>3, <3>4 DEF Queue!RunDry
      <3> QED BY <3>5 DEF Queue!Next
    <2>3. CASE selected_timer_id # id
      BY <1>1, <2>3 DEF OnTimerOverflow, ring, Waiting, Index, Queue!vars
    <2> QED BY <2>1, <2>2, <2>3
  <1>2. ASSUME NEW sample \in Samples, RefillByte(sample) \/ WriteFifo(sample)
        PROVE  [Queue!Next]_(Queue!vars)
    <2>1. Push(sample) /\ UNCHANGED latch
      BY <1>2 DEF RefillByte, WriteFifo
    <2>2. Queue!Put(sample)
      BY <1>0, <2>1, PushAppends DEF Queue!Put
    <2> QED BY <2>2 DEF Queue!Next
  <1>3. ASSUME NEW reset \in BOOLEAN, NEW id \in Timers, WriteSoundcntH(reset, id)
        PROVE  [Queue!Next]_(Queue!vars)
    <2>1. CASE reset
      <3>1. size' = 0 /\ UNCHANGED latch
        BY <1>3, <2>1 DEF WriteSoundcntH
      <3>2. Waiting' = <<>>
        BY <3>1 DEF Waiting
      <3> QED BY <3>1, <3>2 DEF Queue!Clear, Queue!Next
    <2>2. CASE ~reset
      BY <1>3, <2>2 DEF WriteSoundcntH, ring, Waiting, Index, Queue!vars
    <2> QED BY <2>1, <2>2
  <1>4. CASE StartRefill \/ (\E on \in BOOLEAN : WriteCntH(on)) \/ UNCHANGED vars
    BY <1>4 DEF StartRefill, WriteCntH, vars, ring, Waiting, Index, Queue!vars
  <1> QED BY <1>1, <1>2, <1>3, <1>4 DEF Next

(* fifo: the ring with its two indices implements the bounded queue, whoever
   writes to it. *)
THEOREM Refinement == Spec => ImplementsSampleQueue
  <1>1. Init => Queue!Init
    BY FifoAssumption DEF Init, Queue!Init, Waiting
  <1>2. Inv /\ [Next]_vars => [Queue!Next]_(Queue!vars)
    BY NextSimulates
  <1> QED BY <1>1, <1>2, Invariance, PTL DEF Spec, ImplementsSampleQueue, Queue!Spec

------------------------------------------------------------------------------
(* The programmable channels. *)
(* Shifting a number to the right makes it no greater. *)
LEMMA ShiftShrinks ==
    ASSUME NEW f \in Nat, NEW k \in Nat \ {0}
    PROVE  f \div k \in 0..f
<1>1. f \div k \in Nat
  BY SMT
<1>2. k * (f \div k) <= f
  BY SMT
<1>3. (k - 1) * (f \div k) >= 0
  BY <1>1, SMT
<1>4. f \div k <= f
  BY <1>1, <1>2, <1>3, SMT
<1> QED
  BY <1>1, <1>4

(* A rate that the sweep finds not to overflow is one that fits. *)
LEMMA SweepInRange ==
    ASSUME NEW f \in 0..(Rates - 1), NEW s \in Sweep, ~Overflows(f, s)
    PROVE  NewFreq(f, s) \in 0..(Rates - 1)
<1>1. 2^s.shift \in Nat \ {0}
  BY PsgAssumption DEF Sweep
<1> DEFINE d == f \div 2^s.shift
<1>2. d \in 0..f
  BY <1>1, ShiftShrinks, PsgAssumption
<1>3. NewFreq(f, s) = IF s.increase THEN f + d ELSE f - d
  BY DEF NewFreq
<1>4. NewFreq(f, s) < Rates
  <2>1. NewFreq(f, s) \in Int
    BY <1>2, <1>3, PsgAssumption
  <2> QED
    BY <2>1, PsgAssumption DEF Overflows
<1> HIDE DEF d
<1> QED
  BY <1>2, <1>3, <1>4, PsgAssumption DEF Sweep

(* Rates are a number of blocks of LowRates: replacing either part of a rate
   gives a rate. *)
LEMMA PartsInRange ==
    /\ \A h \in Highs, r \in 0..(Rates - 1) : h * LowRates + (r % LowRates) \in 0..(Rates - 1)
    /\ \A r \in 0..(Rates - 1), low \in 0..(LowRates - 1) :
           (r \div LowRates) * LowRates + low \in 0..(Rates - 1)
<1> DEFINE q == Rates \div LowRates
<1>1. /\ Rates \in Nat \ {0} /\ LowRates \in Nat \ {0}
      /\ q \in Nat /\ Rates = q * LowRates
  BY PsgAssumption, SMT
<1>2. ASSUME NEW h \in 0..(q - 1), NEW low \in 0..(LowRates - 1)
      PROVE  h * LowRates + low \in 0..(Rates - 1)
  <2>1. (q - 1 - h) * LowRates >= 0
    BY <1>1, <1>2, SMT
  <2>2. h * LowRates >= 0
    BY <1>1, <1>2, SMT
  <2>3. (q - 1 - h) * LowRates = q * LowRates - LowRates - h * LowRates
    BY <1>1, <1>2, SMT
  <2> QED
    BY <1>1, <1>2, <2>1, <2>2, <2>3, SMT
<1>3. ASSUME NEW r \in 0..(Rates - 1)
      PROVE  r % LowRates \in 0..(LowRates - 1) /\ r \div LowRates \in 0..(q - 1)
  <2>1. r % LowRates \in 0..(LowRates - 1)
    BY <1>1, SMT
  <2>2. r \div LowRates \in Nat /\ (r \div LowRates) * LowRates <= r
    BY <1>1, SMT
  <2>3. ASSUME r \div LowRates >= q
        PROVE  FALSE
    <3>1. (r \div LowRates - q) * LowRates >= 0
      BY <1>1, <2>2, <2>3, SMT
    <3>2. (r \div LowRates - q) * LowRates = (r \div LowRates) * LowRates - q * LowRates
      BY <1>1, <2>2, SMT
    <3> QED
      BY <1>1, <2>2, <3>1, <3>2, SMT
  <2> QED
    BY <1>1, <2>1, <2>2, <2>3
<1>4. Highs = 0..(q - 1)
  BY DEF Highs
<1> HIDE DEF q
<1> QED
  BY <1>2, <1>3, <1>4

(* A timer that is clicked, and one that starts again, is in its range. *)
LEMMA TimerInRange ==
    ASSUME NEW t \in 0..TimerMax, NEW p \in 0..(TimerMax - 1)
    PROVE  Reloaded(p) \in 0..TimerMax /\ Click(t, p) \in 0..TimerMax
BY PsgAssumption DEF Reloaded, Click, Expires

(* What a restart does to the parts of the note, with the rate f. *)
LEMMA RestartInRange ==
    ASSUME PsgTypeOK, NEW f \in 0..(Rates - 1), Restart(f)
    PROVE  /\ env_timer' \in 0..TimerMax /\ volume' \in 0..Volumes
           /\ swp_timer' \in 0..TimerMax /\ shadow' \in 0..(Rates - 1) /\ swp_enabled' \in BOOLEAN
           /\ length_counter' \in 0..Lengths /\ output' \in 0..Volumes
           /\ enabled' \in BOOLEAN /\ counted' \in BOOLEAN
<1> USE DEF PsgTypeOK, Restart
<1>1. env_timer' \in 0..TimerMax /\ volume' \in 0..Volumes
  <2>1. env.period \in 0..(TimerMax - 1) /\ env.initial \in 0..Volumes
    BY DEF Envelope
  <2> QED
    BY <2>1, TimerInRange, PsgAssumption DEF RestartEnvelope, envelope
<1>2. swp_timer' \in 0..TimerMax /\ shadow' \in 0..(Rates - 1) /\ swp_enabled' \in BOOLEAN
  <2>1. swp.period \in 0..(TimerMax - 1)
    BY DEF Sweep
  <2> QED
    BY <2>1, TimerInRange DEF RestartSweep, sweep
<1>3. length_counter' \in 0..Lengths
  BY PsgAssumption DEF NoteLength
<1>4. output' \in 0..Volumes
  BY PsgAssumption DEF Envelope
<1>5. enabled' \in BOOLEAN /\ counted' \in BOOLEAN
  BY DEF Pulse, Overflows
<1> QED
  BY <1>1, <1>2, <1>3, <1>4, <1>5

(* What the sequencer does to the parts of the note. *)
LEMMA ClicksInRange ==
    ASSUME PsgTypeOK
    PROVE  /\ LengthClick => length_counter' \in 0..Lengths
           /\ \A e \in BOOLEAN : Silence(e) => enabled' \in BOOLEAN /\ output' \in 0..Volumes
           /\ SweepClick => /\ swp_timer' \in 0..TimerMax /\ shadow' \in 0..(Rates - 1)
                            /\ swp_enabled' \in BOOLEAN /\ rate' \in 0..(Rates - 1)
           /\ EnvelopeClick => env_timer' \in 0..TimerMax /\ volume' \in 0..Volumes
<1> USE DEF PsgTypeOK
<1>1. LengthClick => length_counter' \in 0..Lengths
  BY PsgAssumption DEF LengthClick, Counts
<1>2. \A e \in BOOLEAN : Silence(e) => enabled' \in BOOLEAN /\ output' \in 0..Volumes
  BY PsgAssumption DEF Silence
<1>3. SweepClick => /\ swp_timer' \in 0..TimerMax /\ shadow' \in 0..(Rates - 1)
                    /\ swp_enabled' \in BOOLEAN /\ rate' \in 0..(Rates - 1)
  <2>1. swp.period \in 0..(TimerMax - 1)
    BY DEF Sweep
  <2>2. Moves => NewFreq(shadow, swp) \in 0..(Rates - 1)
    BY SweepInRange DEF Moves
  <2> QED
    BY <2>1, <2>2, TimerInRange DEF SweepClick, ShadowAfter
<1>4. EnvelopeClick => env_timer' \in 0..TimerMax /\ volume' \in 0..Volumes
  <2>1. env.period \in 0..(TimerMax - 1)
    BY DEF Envelope
  <2>2. Step(volume) \in 0..Volumes
    BY PsgAssumption DEF Step
  <2> QED
    BY <2>1, <2>2, TimerInRange DEF EnvelopeClick
<1> QED
  BY <1>1, <1>2, <1>3, <1>4

(* Registers that were cleared hold an envelope and a sweep. *)
LEMMA ClearedInRange == NoEnvelope \in Envelope /\ NoSweep \in Sweep
BY PsgAssumption DEF NoEnvelope, NoSweep, Envelope, Sweep

(* A channel that was just constructed is in range. *)
LEMMA TypeInit == PsgInit => PsgTypeOK
<1> SUFFICES ASSUME PsgInit PROVE PsgTypeOK
  OBVIOUS
<1>1. /\ power_on \in BOOLEAN /\ swp_enabled \in BOOLEAN /\ use_counter \in BOOLEAN
      /\ enabled \in BOOLEAN /\ dac_enabled \in BOOLEAN /\ counted \in BOOLEAN
  BY Zenon DEF PsgInit
<1>2. kind \in Kinds /\ env \in Envelope /\ swp \in Sweep
  BY ClearedInRange, Zenon DEF PsgInit
<1>3. /\ frame_sequencer \in 0..7
      /\ env_timer \in 0..TimerMax /\ swp_timer \in 0..TimerMax
      /\ shadow \in 0..(Rates - 1) /\ rate \in 0..(Rates - 1)
      /\ sound_length \in 0..Lengths /\ length_counter \in 0..Lengths
      /\ volume \in 0..Volumes /\ output \in 0..Volumes
  BY PsgAssumption, SMT DEF PsgInit
<1> QED
  BY <1>1, <1>2, <1>3, Zenon DEF PsgTypeOK

(* Every step keeps it there. *)
LEMMA TypeNext == PsgTypeOK /\ [PsgNext]_psgvars => PsgTypeOK'
<1> SUFFICES ASSUME PsgTypeOK, [PsgNext]_psgvars PROVE PsgTypeOK'
  OBVIOUS
<1>1. CASE TickSequencer
  <2> USE <1>1 DEF TickSequencer
  <2>1. frame_sequencer' \in 0..7
    BY DEF PsgTypeOK
  <2>2. CASE Lengthens
    BY <2>1, <2>2, ClicksInRange DEF PsgTypeOK, Lengthens, sweep, envelope, Over, Counts
  <2>3. CASE Sweeping
    <3>1. (SweptOut \/ Over) \in BOOLEAN
      BY DEF SweptOut, Over
    <3> QED
      BY <2>1, <2>3, <3>1, ClicksInRange DEF PsgTypeOK, Sweeping, envelope
  <2>4. CASE Envelops
    BY <2>1, <2>4, ClicksInRange DEF PsgTypeOK, Envelops, envelope, sweep, playing
  <2>5. CASE Idles
    BY <2>1, <2>5 DEF PsgTypeOK, Idles, envelope, sweep, playing
  <2> QED
    BY <2>2, <2>3, <2>4, <2>5
<1>2. CASE GenerateOutputSample
  BY <1>2, PsgAssumption DEF PsgTypeOK, GenerateOutputSample, envelope, sweep, registers
<1>3. ASSUME NEW s \in Sweeps, WriteSweep(s)
      PROVE  PsgTypeOK'
  BY <1>3, PsgAssumption DEF PsgTypeOK, WriteSweep, RegisterWrite, envelope, sweep, playing
<1>4. ASSUME NEW length \in 0..(Lengths - 1), WriteLength(length)
      PROVE  PsgTypeOK'
  <2>1. LengthRegister(length) \in 0..Lengths
    BY PsgAssumption DEF LengthRegister
  <2> QED
    BY <1>4, <2>1, PsgAssumption DEF PsgTypeOK, WriteLength, RegisterWrite, envelope, sweep
<1>5. ASSUME NEW e \in Envelopes[kind], WriteEnvelope(e)
      PROVE  PsgTypeOK'
  <2>1. e \in Envelope
    BY <1>5, PsgAssumption DEF PsgTypeOK
  <2>2. dac_enabled' \in BOOLEAN
    BY <1>5 DEF WriteEnvelope
  <2> QED
    BY <1>5, <2>1, <2>2 DEF PsgTypeOK, WriteEnvelope, RegisterWrite, envelope, sweep, playing
<1>6. ASSUME NEW dac \in BOOLEAN, WriteEnable(dac)
      PROVE  PsgTypeOK'
  BY <1>6 DEF PsgTypeOK, WriteEnable, RegisterWrite, envelope, sweep, playing
<1>7. ASSUME NEW low \in 0..(LowRates - 1), WriteFreqData(low)
      PROVE  PsgTypeOK'
  <2>1. rate' \in 0..(Rates - 1)
    BY <1>7, PartsInRange DEF PsgTypeOK, WriteFreqData
  <2> QED
    BY <1>7, <2>1 DEF PsgTypeOK, WriteFreqData, RegisterWrite, envelope, sweep, playing
<1>8. ASSUME NEW high \in Highs, NEW counter \in BOOLEAN,
             WriteFreqControl(high, counter) \/ Trigger(high, counter)
      PROVE  PsgTypeOK'
  <2>1. WithHigh(high) \in 0..(Rates - 1)
    BY PartsInRange DEF PsgTypeOK, WithHigh
  <2>2. FreqControl(high, counter)
    BY <1>8 DEF WriteFreqControl, Trigger
  <2>3. CASE WriteFreqControl(high, counter)
    BY <2>1, <2>2, <2>3
    DEF PsgTypeOK, WriteFreqControl, FreqControl, RegisterWrite, envelope, sweep, playing
  <2>4. CASE Trigger(high, counter)
    BY <2>1, <2>2, <2>4, RestartInRange DEF PsgTypeOK, Trigger, FreqControl, RegisterWrite
  <2> QED
    BY <1>8, <2>3, <2>4
<1>9. CASE PowerOff
  <2>1. LengthRegister(0) \in 0..Lengths
    BY PsgAssumption DEF LengthRegister
  <2>2. /\ env' \in Envelope /\ swp' \in Sweep /\ rate' \in 0..(Rates - 1)
        /\ use_counter' \in BOOLEAN /\ sound_length' \in 0..Lengths /\ dac_enabled' \in BOOLEAN
    <3>1. CASE power_on
      <4>1. /\ env' = NoEnvelope /\ swp' = NoSweep /\ rate' = 0
            /\ sound_length' = LengthRegister(0)
        BY <1>9, <3>1 DEF PowerOff, ClearedRegisters
      <4>2. use_counter' \in BOOLEAN /\ dac_enabled' \in BOOLEAN
        BY <1>9, <3>1, Zenon DEF PowerOff, ClearedRegisters
      <4> QED
        BY <2>1, <4>1, <4>2, ClearedInRange, PsgAssumption
    <3>2. CASE ~power_on
      BY <1>9, <3>2, Zenon DEF PsgTypeOK, PowerOff, registers
    <3> QED
      BY <3>1, <3>2
  <2>3. output' \in 0..Volumes /\ length_counter' \in 0..Lengths
    BY <1>9, PsgAssumption DEF PsgTypeOK, PowerOff
  <2>4. power_on' \in BOOLEAN /\ enabled' \in BOOLEAN
    BY <1>9, Zenon DEF PowerOff
  <2>5. UNCHANGED <<kind, frame_sequencer, env_timer, volume, swp_timer, shadow, swp_enabled,
                    counted>>
    BY <1>9, Zenon DEF PowerOff, envelope, sweep
  <2> QED
    BY <2>2, <2>3, <2>4, <2>5 DEF PsgTypeOK
<1>10. CASE PowerOn
  BY <1>10 DEF PsgTypeOK, PowerOn, envelope, sweep, playing, registers
<1>11. CASE UNCHANGED psgvars
  BY <1>11 DEF PsgTypeOK, psgvars, envelope, sweep, playing, registers
<1> QED
  BY <1>1, <1>2, <1>3, <1>4, <1>5, <1>6, <1>7, <1>8, <1>9, <1>10, <1>11
  DEF PsgNext, WritesSweep, WritesEnvelope, Triggers

(* The rate of a channel stays below its limit, so that its output always has a
   period, and every timer, counter and volume stays in its range, whatever the
   program writes and whenever. *)
THEOREM ChannelsInRange == PsgSpec => []PsgTypeOK
BY TypeInit, TypeNext, PTL DEF PsgSpec

------------------------------------------------------------------------------
(* The sound buffer and the resampler. *)
(* A buffer has its size, and the samples that are queued are the first of it. *)
Holds(buffer, room, filled, queued) ==
    /\ buffer \in Seq(Tones) /\ Len(buffer) = room
    /\ queued \in Seq(Tones) /\ Len(queued) = filled
    /\ \A i \in 1..filled : buffer[i] = queued[i]

(* The buffer is so, all that was handed over was so, and what is archived can be
   fitted into any capacity. *)
BufferInv ==
    /\ capacity_ \in Capacities /\ write_idx_ \in Nat /\ write_idx_ < capacity_
    /\ Holds(buffer_, capacity_, write_idx_, pending)
    /\ whole = TRUE
    /\ archived_sound.buffer \in Seq(Tones) /\ archived_sound.write_idx \in Nat
    /\ archived_sound.write_idx < Len(archived_sound.buffer)

(* A capacity is a number above zero. *)
LEMMA Sizes == \A c \in Capacities : c \in Nat /\ c > 0
  BY SoundBufferAssumption

(* Handing over what is full leaves an empty buffer. *)
LEMMA NotifyKeeps ==
    ASSUME NEW room \in Capacities, NEW w \in Nat, w <= room, NEW buffer, NEW queued,
           Holds(buffer, room, w, queued), whole = TRUE, Notify(w, room, buffer, queued)
    PROVE  /\ write_idx_' \in Nat /\ write_idx_' < room
           /\ Holds(buffer_', room, write_idx_', pending') /\ whole' = TRUE
  <1>1. room \in Nat /\ room > 0
    BY Sizes
  <1>2. CASE w = room
    <2>1. buffer = queued
      BY <1>1, <1>2, SeqEqual DEF Holds
    <2>2. write_idx_' = 0 /\ pending' = <<>> /\ whole' = TRUE /\ buffer_' = buffer
      BY <1>2, <2>1 DEF Notify
    <2>3. <<>> \in Seq(Tones) /\ Len(<<>>) = 0
      OBVIOUS
    <2>. QED  BY <1>1, <2>2, <2>3 DEF Holds
  <1>3. CASE w # room
    BY <1>1, <1>3 DEF Notify
  <1>. QED  BY <1>2, <1>3

(* Whatever buffer is fitted into whatever capacity, it holds its samples. *)
LEMMA FitKeeps ==
    ASSUME NEW room \in Capacities, NEW w \in Nat, NEW buffer \in Seq(Tones), w < Len(buffer),
           whole = TRUE, Fit(w, buffer, room)
    PROVE  /\ capacity_' = room
           /\ write_idx_' \in Nat /\ write_idx_' < room
           /\ Holds(buffer_', room, write_idx_', pending') /\ whole' = TRUE
  <1>. DEFINE k == Clipped(w, room)
              resized == Resized(buffer, room)
              queued == SubSeq(buffer, 1, k)
  <1>1. room \in Nat /\ room > 0 /\ Len(buffer) \in Nat
    BY Sizes
  <1>2. k \in Nat /\ k <= room /\ k <= Len(buffer)
    BY <1>1 DEF Clipped
  <1>3. queued \in Seq(Tones) /\ Len(queued) = k /\ \A i \in 1..k : queued[i] = buffer[i]
    BY <1>1, <1>2
  <1>4. /\ resized \in Seq(Tones) /\ Len(resized) = room
        /\ \A i \in 1..room : resized[i] = IF i <= Len(buffer) THEN buffer[i] ELSE 0
    <2>1. \A i \in 1..room : (IF i <= Len(buffer) THEN buffer[i] ELSE 0) \in Tones
      BY <1>1, SoundBufferAssumption
    <2>. QED  BY <1>1, <2>1 DEF Resized
  <1>. HIDE DEF k, resized, queued
  <1>5. Holds(resized, room, k, queued)
    BY <1>1, <1>2, <1>3, <1>4 DEF Holds
  <1>6. Notify(k, room, resized, queued) /\ capacity_' = room
    BY DEF Fit, k, resized, queued
  <1>. QED  BY <1>2, <1>5, <1>6, NotifyKeeps

(* It starts empty. *)
LEMMA BufferInit == SoundInit => BufferInv
  <1>. SUFFICES ASSUME SoundInit PROVE BufferInv
    OBVIOUS
  <1>1. capacity_ \in Capacities /\ capacity_ \in Nat /\ capacity_ > 0
    BY Sizes DEF SoundInit
  <1>2. buffer_ \in Seq(Tones) /\ Len(buffer_) = capacity_
    BY <1>1, SoundBufferAssumption DEF SoundInit
  <1>3. <<>> \in Seq(Tones) /\ Len(<<>>) = 0
    OBVIOUS
  <1>. QED  BY <1>1, <1>2, <1>3 DEF SoundInit, BufferInv, Holds

(* Every step preserves it. *)
LEMMA BufferNext == BufferInv /\ [SoundNext]_soundvars => BufferInv'
  <1>. SUFFICES ASSUME BufferInv, [SoundNext]_soundvars PROVE BufferInv'
    OBVIOUS
  <1>1. /\ capacity_ \in Capacities /\ capacity_ \in Nat /\ write_idx_ \in Nat /\ write_idx_ < capacity_
        /\ buffer_ \in Seq(Tones) /\ Len(buffer_) = capacity_ /\ pending \in Seq(Tones) /\ Len(pending) = write_idx_
    BY Sizes DEF BufferInv, Holds
  <1>2. CASE TickMixer \/ Resampled \/ SetSampleRate \/ UNCHANGED soundvars
    BY <1>2 DEF BufferInv, Holds, TickMixer, Resampled, SetSampleRate, soundvars, sink, rates
  <1>3. CASE Resample
    <2>1. PICK sample \in Tones : Write(sample)
      BY <1>3 DEF Resample
    <2>. DEFINE buffer == [buffer_ EXCEPT ![write_idx_ + 1] = sample]
                queued == Append(pending, sample)
    <2>2. buffer \in Seq(Tones) /\ Len(buffer) = capacity_
      BY <1>1
    <2>3. queued \in Seq(Tones) /\ Len(queued) = write_idx_ + 1
      BY <1>1
    <2>4. \A i \in 1..(write_idx_ + 1) : buffer[i] = queued[i]
      BY <1>1 DEF BufferInv, Holds
    <2>5. Notify(write_idx_ + 1, capacity_, buffer, queued) /\ capacity_' = capacity_
      BY <2>1 DEF Write
    <2>6. archived_sound' = archived_sound
      BY <1>3 DEF Resample
    <2>. HIDE DEF buffer, queued
    <2>7. Holds(buffer, capacity_, write_idx_ + 1, queued)
      BY <2>2, <2>3, <2>4 DEF Holds
    <2>8. write_idx_ + 1 \in Nat /\ write_idx_ + 1 <= capacity_
      BY <1>1
    <2>. QED  BY <1>1, <2>5, <2>6, <2>7, <2>8, NotifyKeeps DEF BufferInv
  <1>4. CASE SetCapacity
    <2>1. PICK room \in Capacities : Fit(write_idx_, buffer_, room)
      BY <1>4 DEF SetCapacity
    <2>2. archived_sound' = archived_sound
      BY <1>4 DEF SetCapacity
    <2>. QED  BY <1>1, <2>1, <2>2, FitKeeps DEF BufferInv
  <1>5. CASE Save
    <2>1. /\ archived_sound'.write_idx = write_idx_ /\ archived_sound'.buffer = buffer_
          /\ UNCHANGED sink
      BY <1>5 DEF Save
    <2>. QED  BY <1>1, <2>1 DEF BufferInv, Holds, sink
  <1>6. CASE Load
    <2>1. Fit(archived_sound.write_idx, archived_sound.buffer, capacity_) /\ archived_sound' = archived_sound
      BY <1>6 DEF Load
    <2>. QED  BY <1>1, <2>1, FitKeeps DEF BufferInv
  <1>. QED  BY <1>2, <1>3, <1>4, <1>5, <1>6 DEF SoundNext

(* Whatever capacities are set and states loaded, the next sample has its place,
   and the blocks that the host gets are the samples that were made, in order. *)
THEOREM SamplesInOrder == SoundSpec => []SoundInOrder
  <1>1. BufferInv => SoundInOrder
    <2>. SUFFICES ASSUME BufferInv PROVE SoundInOrder
      OBVIOUS
    <2>1. /\ write_idx_ \in Nat /\ write_idx_ < capacity_ /\ buffer_ \in Seq(Tones) /\ Len(buffer_) = capacity_
          /\ pending \in Seq(Tones) /\ Len(pending) = write_idx_
          /\ \A i \in 1..write_idx_ : buffer_[i] = pending[i]
      BY DEF BufferInv, Holds
    <2>. DEFINE first == SubSeq(buffer_, 1, write_idx_)
    <2>2. first \in Seq(Tones) /\ Len(first) = write_idx_ /\ \A i \in 1..write_idx_ : first[i] = buffer_[i]
      BY <2>1, Sizes DEF BufferInv
    <2>. HIDE DEF first
    <2>3. first = pending
      BY <2>1, <2>2, SeqEqual
    <2>. QED  BY <2>1, <2>3 DEF SoundInOrder, BufferInv, first
  <1>. QED  BY <1>1, BufferInit, BufferNext, PTL DEF SoundSpec

------------------------------------------------------------------------------
(* The phase at the start of the window. *)
Start ==
    resample_phase_ - made * resample_phase_shift_
        + (IF mixing THEN taken - 1 ELSE taken) * Interval

(* Between two samples of the mixer the phase is below the longest interval of
   the host, and so was the phase from which the window began. *)
PaceInv ==
    /\ resample_phase_shift_ \in PhaseShifts /\ mixing \in BOOLEAN
    /\ taken \in Nat /\ made \in Nat
    /\ resample_phase_ \in Nat
    /\ resample_phase_ < (IF mixing THEN Interval + LongestShift ELSE LongestShift)
    /\ archived_sound.phase \in Nat /\ archived_sound.phase < LongestShift
    /\ Start >= 0 /\ Start < LongestShift

(* There is a longest interval. *)
LEMMA Longest ==
    /\ LongestShift \in Nat /\ LongestShift > 0
    /\ \A s \in PhaseShifts : s \in Nat /\ s <= LongestShift
  <1>1. LongestShift \in PhaseShifts /\ \A t \in PhaseShifts : LongestShift >= t
    BY SoundBufferAssumption DEF LongestShift
  <1>. QED  BY <1>1, SoundBufferAssumption

(* A window in which nothing was taken or made begins at the phase at hand. *)
LEMMA FromZero == \A p, s \in Nat : p - 0 * s + 0 * Interval = p
  BY SoundBufferAssumption

(* The window begins with the phase at zero. *)
LEMMA PaceInit == SoundInit => PaceInv
  <1>. SUFFICES ASSUME SoundInit PROVE PaceInv
    OBVIOUS
  <1>1. /\ resample_phase_shift_ \in PhaseShifts /\ resample_phase_shift_ \in Nat /\ Interval \in Nat
        /\ mixing \in BOOLEAN /\ ~mixing /\ taken = 0 /\ made = 0 /\ resample_phase_ = 0
        /\ archived_sound.phase = 0
    BY Longest, SoundBufferAssumption DEF SoundInit
  <1>2. Start = 0
    BY <1>1, FromZero DEF Start
  <1>. QED  BY <1>1, <1>2, Longest DEF PaceInv

(* A sample moves the phase as far as it moves the samples that are compared. *)
LEMMA PaceNext == PaceInv /\ [SoundNext]_soundvars => PaceInv'
  <1>. SUFFICES ASSUME PaceInv, [SoundNext]_soundvars PROVE PaceInv'
    OBVIOUS
  <1>. DEFINE p == resample_phase_
              s == resample_phase_shift_
              n == made
              t == taken
              l == LongestShift
              a == archived_sound.phase
  <1>1. /\ s \in Nat /\ s <= l /\ l \in Nat /\ l > 0 /\ p \in Nat /\ n \in Nat /\ t \in Nat /\ Interval \in Nat
        /\ p < (IF mixing THEN Interval + l ELSE l) /\ a \in Nat /\ a < l
        /\ mixing \in BOOLEAN /\ Interval > 0 /\ s \in PhaseShifts
        /\ Start >= 0 /\ Start < l
    BY Longest, SoundBufferAssumption DEF PaceInv
  <1>2. CASE TickMixer
    <2>1. /\ ~mixing /\ mixing' /\ mixing' = TRUE /\ UNCHANGED <<resample_phase_, resample_phase_shift_, archived_sound>>
          /\ IF t < Window THEN taken' = t + 1 /\ made' = n ELSE taken' = 1 /\ made' = 0
      BY <1>2 DEF TickMixer
    <2>2. taken' \in Nat /\ made' \in Nat
      BY <1>1, <2>1
    <2>3. Start' = Start \/ Start' = p
      <3>1. CASE t < Window
        <4>1. taken' - 1 = t /\ made' = n
          BY <1>1, <2>1, <3>1
        <4>. QED  BY <2>1, <4>1 DEF Start
      <3>2. CASE ~(t < Window)
        <4>1. taken' - 1 = 0 /\ made' = 0
          BY <1>1, <2>1, <3>2
        <4>2. Start' = p - 0 * s + 0 * Interval
          BY <2>1, <4>1 DEF Start
        <4>. QED  BY <1>1, <4>2, FromZero
      <3>. QED  BY <3>1, <3>2
    <2>4. p < Interval + l /\ p < l
      BY <1>1, <2>1
    <2>5. Start' >= 0 /\ Start' < l
      BY <1>1, <2>3, <2>4
    <2>. QED  BY <1>1, <2>1, <2>2, <2>4, <2>5 DEF PaceInv
  <1>3. CASE Resample
    <2>1. /\ mixing /\ p < Interval /\ UNCHANGED <<resample_phase_shift_, taken, mixing, archived_sound>>
          /\ resample_phase_' = p + s /\ made' = n + 1
      BY <1>3 DEF Resample
    <2>2. Start' = Start
      <3>1. Start' = (p + s) - (n + 1) * s + (t - 1) * Interval
        BY <2>1 DEF Start
      <3>2. Start = p - n * s + (t - 1) * Interval
        BY <2>1 DEF Start
      <3>3. (n + 1) * s = n * s + s /\ n * s \in Int /\ (t - 1) * Interval \in Int
        BY <1>1
      <3>. HIDE DEF p, n, s, t
      <3>. QED  BY <1>1, <3>1, <3>2, <3>3
    <2>. QED  BY <1>1, <2>1, <2>2 DEF PaceInv
  <1>4. CASE Resampled
    <2>1. /\ mixing /\ p >= Interval /\ mixing' = FALSE /\ resample_phase_' = p - Interval
          /\ UNCHANGED <<resample_phase_shift_, taken, made, archived_sound>>
      BY <1>4 DEF Resampled, FromOldPhase
    <2>2. Start' = Start
      <3>1. Start' = (p - Interval) - n * s + t * Interval
        BY <2>1 DEF Start
      <3>2. Start = p - n * s + (t - 1) * Interval
        BY <2>1 DEF Start
      <3>3. (t - 1) * Interval = t * Interval - Interval /\ n * s \in Int /\ t * Interval \in Int
        BY <1>1
      <3>. HIDE DEF p, n, s, t
      <3>. QED  BY <1>1, <3>1, <3>2, <3>3
    <2>3. mixing' \in BOOLEAN /\ ~mixing'
      BY <2>1
    <2>4. p < Interval + l
      BY <1>1, <2>1
    <2>5. p - Interval \in Nat /\ p - Interval < l
      <3>. HIDE DEF p, l
      <3>. QED  BY <1>1, <2>1, <2>4
    <2>6. resample_phase_' \in Nat /\ resample_phase_' < l
      BY <2>1, <2>5
    <2>. QED  BY <1>1, <2>1, <2>2, <2>3, <2>6 DEF PaceInv
  <1>5. CASE SetSampleRate \/ Load
    <2>1. /\ ~mixing /\ mixing' = mixing /\ taken' = 0 /\ made' = 0 /\ archived_sound' = archived_sound
          /\ resample_phase_shift_' \in PhaseShifts
          /\ resample_phase_' \in {p, a}
      BY <1>1, <1>5 DEF SetSampleRate, Load
    <2>2. resample_phase_' \in Nat /\ resample_phase_' < l
      BY <1>1, <2>1
    <2>3. Start' = resample_phase_'
      <3>1. resample_phase_shift_' \in Nat
        BY <2>1, Longest
      <3>2. Start' = resample_phase_' - 0 * resample_phase_shift_' + 0 * Interval
        BY <1>1, <2>1 DEF Start
      <3>. QED  BY <2>2, <3>1, <3>2, FromZero
    <2>. QED  BY <1>1, <2>1, <2>2, <2>3 DEF PaceInv
  <1>6. CASE SetCapacity \/ Save \/ UNCHANGED soundvars
    <2>1. /\ UNCHANGED rates /\ UNCHANGED mixing /\ archived_sound'.phase \in {a, p}
          /\ (archived_sound'.phase = p => ~mixing \/ p = a)
      BY <1>6 DEF SetCapacity, Save, soundvars
    <2>2. Start' = Start
      BY <2>1 DEF Start, rates
    <2>. QED  BY <1>1, <2>1, <2>2 DEF PaceInv, rates
  <1>. QED  BY <1>2, <1>3, <1>4, <1>5, <1>6 DEF SoundNext

(* For all rates, over any number of samples, the samples of the host are as long
   as those of the mixer, up to one at each end. *)
THEOREM OutputPaced == SoundSpec => []OutputKeepsPace
  <1>1. PaceInv => OutputKeepsPace
    <2>. SUFFICES ASSUME PaceInv, ~mixing
                  PROVE  LET ahead == made * resample_phase_shift_ - taken * Interval
                         IN  ahead < LongestShift /\ -ahead < LongestShift
      BY DEF OutputKeepsPace
    <2>. DEFINE m == made * resample_phase_shift_
                k == taken * Interval
    <2>1. m \in Int /\ k \in Int /\ resample_phase_ \in Nat /\ resample_phase_ < LongestShift /\ LongestShift \in Nat
      BY Longest, SoundBufferAssumption DEF PaceInv
    <2>2. Start = resample_phase_ - m + k
      BY DEF Start
    <2>. HIDE DEF m, k
    <2>3. m - k < LongestShift /\ -(m - k) < LongestShift
      BY <2>1, <2>2 DEF PaceInv
    <2>. QED  BY <2>3 DEF m, k
  <1>. QED  BY <1>1, PaceInit, PaceNext, PTL DEF SoundSpec
==============================================================================
