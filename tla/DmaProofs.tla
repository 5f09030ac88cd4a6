------------------------------ MODULE DmaProofs -----------------------------
(***************************************************************************)
(* The lists of the DMA controller, for any channels, settings, counts and *)
(* lengths of bus accesses, under the discipline that Dma describes: the   *)
(* two lists and the event queue never disagree, and the channel of the    *)
(* highest priority runs.                                                  *)
(***************************************************************************)
EXTENDS Dma, SequenceTheorems, FiniteSetTheorems, TLAPS

(* No channel stands on the list twice. *)
Injective(list) == \A i, j \in 1..Len(list) : list[i] = list[j] => i = j
(* The last of the list has the highest priority: run_channels takes the back. *)
Descending(list) == \A i, j \in 1..Len(list) : i < j => list[i] > list[j]

(* Who waits, and who runs. *)
Waits(c) == Contains(scheduled, c)
Runs(c) == Contains(running, c)

(* Every channel that waits has the start event at its own place in the queue. *)
EventsOwned ==
    /\ Len(starts) = Len(scheduled)
    /\ \A i \in 1..Len(starts) : starts[i].owner = scheduled[i]

(* A channel stands on one list, once, and the running ones stand in order. *)
ListsDisjoint ==
    /\ Injective(scheduled)
    /\ Descending(running)
    /\ \A c \in Channels : ~(Waits(c) /\ Runs(c))

(* What is listed is enabled, or is channel 3 in the transfer that disables it,
   and has a count to work off. *)
Backed ==
    \A c \in Channels :
        /\ Waits(c) => cnt[c].enabled
        /\ Runs(c) => (cnt[c].enabled \/ c = 3) /\ count[c] > 0
        /\ cnt[c].enabled => count[c] > 0

(* A transfer is of a channel that runs, and the scheduler is only inside an access. *)
Placed ==
    /\ pc = "transfer" => active.channel \in Channels /\ Runs(active.channel)
    /\ in_loop => pc = "add" \/ (pc = "transfer" /\ accesses > 0)

(* The PPU triggers the channel, at most once in PpuGap accesses. *)
FromPpu(control, c) ==
    control[c].when \in {"vblank", "hblank"} \/ (c = 3 /\ control[c].when = "special")

(* Start events are ordered by the time they have left, which nothing but the
   scheduler's loop sees run out; and an event of the PPU has started its
   channels before the next one comes. *)
Timely ==
    /\ ~in_loop => \A i \in 1..Len(starts) : starts[i].left >= 1
    /\ \A i, j \in 1..Len(starts) : i < j => starts[i].left <= starts[j].left
    /\ \A i \in 1..Len(starts) : FromPpu(cnt, starts[i].owner) => starts[i].left + since_ppu <= Delay

IInv == TypeOK /\ EventsOwned /\ ListsDisjoint /\ Backed /\ Placed /\ Timely

-----------------------------------------------------------------------------
(* There are at most the four channels of the code. *)
LEMMA FewChannels == Channels \subseteq 0..3
  BY DmaAssumption

(* A list with a place removed, place by place. *)
LEMMA RemoveAtEffect ==
    ASSUME NEW S, NEW list \in Seq(S), NEW p \in 1..Len(list)
    PROVE  /\ RemoveAt(list, p) \in Seq(S)
           /\ Len(RemoveAt(list, p)) = Len(list) - 1
           /\ \A i \in 1..(Len(list) - 1) :
                RemoveAt(list, p)[i] = IF i < p THEN list[i] ELSE list[i + 1]
  <1>. DEFINE n == Len(list)
              before == SubSeq(list, 1, p - 1)
              after == SubSeq(list, p + 1, n)
              r == RemoveAt(list, p)
  <1>1. n \in Nat /\ p \in Nat /\ 1 <= p /\ p <= n
    OBVIOUS
  <1>2. /\ before \in Seq(S) /\ Len(before) = p - 1
        /\ \A i \in 1..(p - 1) : before[i] = list[i]
    OBVIOUS
  <1>3. /\ after \in Seq(S) /\ Len(after) = n - p
        /\ \A i \in 1..(n - p) : after[i] = list[p + i]
    OBVIOUS
  <1>4. r = before \o after
    BY DEF RemoveAt
  <1>. HIDE DEF before, after, n, r
  <1>5. /\ r \in Seq(S)
        /\ Len(r) = (p - 1) + (n - p)
        /\ \A i \in 1..((p - 1) + (n - p)) :
             r[i] = IF i <= p - 1 THEN before[i] ELSE after[i - (p - 1)]
    BY <1>2, <1>3, <1>4, ConcatProperties
  <1>6. Len(r) = n - 1 /\ (p - 1) + (n - p) = n - 1
    BY <1>1, <1>5
  <1>7. ASSUME NEW i \in 1..(n - 1) PROVE r[i] = IF i < p THEN list[i] ELSE list[i + 1]
    <2>1. CASE i < p
      BY <2>1, <1>1, <1>2, <1>5, <1>6
    <2>2. CASE ~(i < p)
      <3>1. r[i] = after[i - (p - 1)] /\ i - (p - 1) \in 1..(n - p) /\ p + (i - (p - 1)) = i + 1
        BY <2>2, <1>1, <1>5, <1>6
      <3>. QED  BY <3>1, <2>2, <1>3
    <2>. QED  BY <2>1, <2>2
  <1>. QED  BY <1>5, <1>6, <1>7 DEF n, r

(* The four places of the static vectors are enough. *)
LEMMA ShortList ==
    ASSUME NEW list \in Seq(Channels), Injective(list)
    PROVE  Len(list) \in Nat /\ Len(list) <= 4
  <1>. SUFFICES ASSUME Len(list) > 4 PROVE FALSE
    OBVIOUS
  <1>1. \A i \in 1..5 : list[i] \in Channels
    OBVIOUS
  <1>2. \A i \in 1..5 : list[i] \in 0..3
    BY <1>1, FewChannels
  <1>3. \A i, j \in 1..5 : list[i] = list[j] => i = j
    BY DEF Injective
  <1>. QED  BY <1>2, <1>3

(* The channels of a set, in order: one of them, *)
LEMMA OnlyEffect ==
    ASSUME NEW set, NEW c \in 0..3, c \in set => c \in Channels
    PROVE  /\ Only(c, set) \in Seq(Channels)
           /\ Injective(Only(c, set)) /\ Descending(Only(c, set))
           /\ \A d : Contains(Only(c, set), d) <=> d = c /\ c \in set
  <1>1. CASE c \notin set
    BY <1>1 DEF Only, Injective, Descending, Contains
  <1>2. CASE c \in set
    <2>. DEFINE one == <<c>>
    <2>1. one \in Seq(Channels) /\ Len(one) = 1 /\ one[1] = c
      BY <1>2
    <2>. HIDE DEF one
    <2>2. Injective(one) /\ Descending(one) /\ \A d : Contains(one, d) <=> d = c
      BY <2>1 DEF Injective, Descending, Contains
    <2>. QED  BY <1>2, <2>1, <2>2 DEF Only, one
  <1>. QED  BY <1>1, <1>2

(* the next one after those, *)
LEMMA OneMore ==
    ASSUME NEW list \in Seq(Channels), NEW set, NEW c \in 0..3,
           c \in set => c \in Channels /\ ~Contains(list, c)
    PROVE  LET more == list \o Only(c, set) IN
           /\ more \in Seq(Channels)
           /\ Injective(list) => Injective(more)
           /\ Descending(list) /\ (\A d \in Channels : Contains(list, d) => d > c) => Descending(more)
           /\ \A d : Contains(more, d) <=> Contains(list, d) \/ (d = c /\ c \in set)
  <1>1. CASE c \notin set
    BY <1>1 DEF Only
  <1>2. CASE c \in set
    <2>. DEFINE more == list \o <<c>>
    <2>1. /\ more \in Seq(Channels) /\ Len(more) = Len(list) + 1 /\ more[Len(list) + 1] = c
          /\ \A i \in 1..Len(list) : more[i] = list[i]
      BY <1>2
    <2>. HIDE DEF more
    <2>2. Injective(list) => Injective(more)
      BY <2>1, <1>2 DEF Injective, Contains
    <2>3. Descending(list) /\ (\A d \in Channels : Contains(list, d) => d > c) => Descending(more)
      BY <2>1, <1>2 DEF Descending, Contains
    <2>4. \A d : Contains(more, d) <=> Contains(list, d) \/ d = c
      BY <2>1, <1>2 DEF Contains
    <2>. QED  BY <2>1, <2>2, <2>3, <2>4, <1>2 DEF Only, more
  <1>. QED  BY <1>1, <1>2

(* and all four. *)
LEMMA InOrderEffect ==
    ASSUME NEW set \in SUBSET Channels
    PROVE  /\ InOrder(set) \in Seq(Channels)
           /\ Injective(InOrder(set))
           /\ \A c : Contains(InOrder(set), c) <=> c \in set
  <1>. DEFINE l0 == Only(0, set)
              l1 == l0 \o Only(1, set)
              l2 == l1 \o Only(2, set)
              l3 == l2 \o Only(3, set)
  <1>0. \A c \in set : c \in Channels /\ c \in {0, 1, 2, 3}
    BY FewChannels
  <1>1. l0 \in Seq(Channels) /\ Injective(l0) /\ \A c : Contains(l0, c) <=> c = 0 /\ c \in set
    BY OnlyEffect
  <1>. HIDE DEF l0
  <1>2. l1 \in Seq(Channels) /\ Injective(l1) /\ \A c : Contains(l1, c) <=> c \in {0, 1} /\ c \in set
    BY <1>1, OneMore
  <1>. HIDE DEF l1
  <1>3. l2 \in Seq(Channels) /\ Injective(l2) /\ \A c : Contains(l2, c) <=> c \in {0, 1, 2} /\ c \in set
    BY <1>2, OneMore
  <1>. HIDE DEF l2
  <1>4. l3 \in Seq(Channels) /\ Injective(l3) /\ \A c : Contains(l3, c) <=> c \in set
    BY <1>0, <1>3, OneMore
  <1>5. InOrder(set) = l3
    BY DEF InOrder, l0, l1, l2, Only
  <1>. QED  BY <1>4, <1>5

(* sort_by_priority returns the same channels with the highest priority last. *)
LEMMA ByPriorityEffect ==
    ASSUME NEW list \in Seq(Channels), Injective(list)
    PROVE  /\ ByPriority(list) \in Seq(Channels)
           /\ Descending(ByPriority(list))
           /\ \A c : Contains(ByPriority(list), c) <=> Contains(list, c)
  <1>. DEFINE set == {c \in Channels : Contains(list, c)}
              l3 == Only(3, set)
              l2 == l3 \o Only(2, set)
              l1 == l2 \o Only(1, set)
              l0 == l1 \o Only(0, set)
  <1>0. \A c : Contains(list, c) => c \in Channels
    BY DEF Contains
  <1>1. /\ \A c : c \in set <=> Contains(list, c)
        /\ \A c \in set : c \in Channels /\ c \in {0, 1, 2, 3}
    BY <1>0, FewChannels
  <1>2. \A c : Copies(list, c) = Only(c, set)
    <2>. SUFFICES ASSUME NEW c PROVE Copies(list, c) = Only(c, set)
      OBVIOUS
    <2>1. CASE c \notin set
      <3>1. {i \in DOMAIN list : list[i] = c} = {}
        BY <2>1, <1>1 DEF Contains
      <3>2. [k \in 1..0 |-> c] = <<>>
        OBVIOUS
      <3>. QED  BY <3>1, <3>2, <2>1, FS_EmptySet DEF Copies, Only
    <2>2. CASE c \in set
      <3>1. PICK i \in 1..Len(list) : list[i] = c
        BY <2>2, <1>1 DEF Contains
      <3>2. {j \in DOMAIN list : list[j] = c} = {i}
        BY <3>1 DEF Injective
      <3>3. Cardinality({i}) = 1
        BY FS_Singleton
      <3>4. [k \in 1..1 |-> c] = <<c>>
        OBVIOUS
      <3>. QED  BY <3>2, <3>3, <3>4, <2>2 DEF Copies, Only
    <2>. QED  BY <2>1, <2>2
  <1>. HIDE DEF set
  <1>3. l3 \in Seq(Channels) /\ Descending(l3) /\ \A c : Contains(l3, c) <=> c = 3 /\ c \in set
    BY <1>1, OnlyEffect DEF set
  <1>. HIDE DEF l3
  <1>4. l2 \in Seq(Channels) /\ Descending(l2) /\ \A c : Contains(l2, c) <=> c \in {3, 2} /\ c \in set
    BY <1>3, <1>1, OneMore
  <1>. HIDE DEF l2
  <1>5. l1 \in Seq(Channels) /\ Descending(l1) /\ \A c : Contains(l1, c) <=> c \in {3, 2, 1} /\ c \in set
    <2>1. \A d \in Channels : Contains(l2, d) => d > 1
      BY <1>4
    <2>. QED  BY <2>1, <1>4, <1>1, OneMore
  <1>. HIDE DEF l1
  <1>6. l0 \in Seq(Channels) /\ Descending(l0) /\ \A c : Contains(l0, c) <=> c \in set
    <2>1. \A d \in Channels : Contains(l1, d) => d > 0
      BY <1>5
    <2>. QED  BY <2>1, <1>5, <1>1, OneMore
  <1>7. ByPriority(list) = l0
    BY <1>2 DEF ByPriority, l1, l2, l3
  <1>. QED  BY <1>1, <1>6, <1>7

(* The first k places of the list, without place p. *)
Without(list, p, k, l) ==
    /\ l \in Seq(Channels)
    /\ Len(l) = (IF k <= Len(list) THEN k ELSE Len(list)) - (IF p <= k /\ p <= Len(list) THEN 1 ELSE 0)
    /\ \A i \in 1..Len(l) : l[i] = IF i < p THEN list[i] ELSE list[i + 1]

(* Place k of the list, unless it is place p. *)
KeptAt(list, p, k) == IF k <= Len(list) /\ k # p THEN <<list[k]>> ELSE <<>>

(* One more place of the list is gone through. *)
LEMMA OneKept ==
    ASSUME NEW list \in Seq(Channels), NEW p \in 1..(Len(list) + 1), NEW k \in 1..4,
           NEW j, j = k - 1, NEW upto, Without(list, p, j, upto)
    PROVE  Without(list, p, k, upto \o KeptAt(list, p, k))
  <1>. DEFINE n == Len(list)
  <1>1. n \in Nat /\ upto \in Seq(Channels) /\ Len(upto) \in Nat
    BY DEF Without
  <1>2. p \in 1..(n + 1)
    OBVIOUS
  <1>3. /\ Len(upto) = (IF j <= n THEN j ELSE n) - (IF p <= j /\ p <= n THEN 1 ELSE 0)
        /\ \A i \in 1..Len(upto) : upto[i] = IF i < p THEN list[i] ELSE list[i + 1]
    BY DEF Without
  <1>4. CASE k <= n /\ k # p
    <2>1. list[k] \in Channels
      BY <1>1, <1>4
    <2>. DEFINE more == upto \o <<list[k]>>
    <2>2. /\ more \in Seq(Channels) /\ Len(more) = Len(upto) + 1 /\ more[Len(upto) + 1] = list[k]
          /\ \A i \in 1..Len(upto) : more[i] = upto[i]
      BY <1>1, <2>1
    <2>. HIDE DEF more
    <2>3. Len(more) = (IF k <= n THEN k ELSE n) - (IF p <= k /\ p <= n THEN 1 ELSE 0)
      <3>. HIDE DEF n
      <3>. QED  BY <2>2, <1>1, <1>2, <1>3, <1>4
    <2>4. ASSUME NEW i \in 1..Len(more) PROVE more[i] = IF i < p THEN list[i] ELSE list[i + 1]
      <3>. HIDE DEF n
      <3>1. CASE i \in 1..Len(upto)
        BY <3>1, <1>3, <2>2
      <3>2. CASE i = Len(upto) + 1
        <4>1. k = IF i < p THEN i ELSE i + 1
          BY <3>2, <1>1, <1>2, <1>3, <1>4
        <4>. QED  BY <4>1, <3>2, <2>2
      <3>. QED  BY <3>1, <3>2, <2>2, <1>1
    <2>5. Without(list, p, k, more)
      BY <2>2, <2>3, <2>4 DEF Without
    <2>. QED  BY <2>5, <1>4 DEF more, KeptAt
  <1>5. CASE ~(k <= n /\ k # p)
    <2>1. upto \o KeptAt(list, p, k) = upto
      BY <1>1, <1>5 DEF KeptAt
    <2>2. (IF j <= n THEN j ELSE n) - (IF p <= j /\ p <= n THEN 1 ELSE 0)
            = (IF k <= n THEN k ELSE n) - (IF p <= k /\ p <= n THEN 1 ELSE 0)
      <3>. HIDE DEF n
      <3>. QED  BY <1>1, <1>2, <1>5
    <2>. QED  BY <2>1, <2>2, <1>1, <1>3 DEF Without
  <1>. QED  BY <1>4, <1>5

(* std::remove of a channel that stands at one place removes that place, *)
LEMMA DelistedWithout ==
    ASSUME NEW list \in Seq(Channels), NEW c,
           NEW p \in 1..(Len(list) + 1), \A i \in 1..Len(list) : list[i] = c <=> i = p
    PROVE  Without(list, p, 4, Delisted(list, c))
  <1>. DEFINE l1 == <<>> \o KeptAt(list, p, 1)
              l2 == l1 \o KeptAt(list, p, 2)
              l3 == l2 \o KeptAt(list, p, 3)
              l4 == l3 \o KeptAt(list, p, 4)
  <1>1. Without(list, p, 0, <<>>)
    BY DEF Without
  <1>2. Without(list, p, 1, l1)
    <2>1. 1 \in 1..4 /\ 0 = 1 - 1
      OBVIOUS
    <2>. QED  BY <1>1, <2>1, OneKept
  <1>3. Without(list, p, 2, l2)
    <2>1. 2 \in 1..4 /\ 1 = 2 - 1
      OBVIOUS
    <2>. HIDE DEF l1
    <2>. QED  BY <1>2, <2>1, OneKept
  <1>4. Without(list, p, 3, l3)
    <2>1. 3 \in 1..4 /\ 2 = 3 - 1
      OBVIOUS
    <2>. HIDE DEF l2
    <2>. QED  BY <1>3, <2>1, OneKept
  <1>5. Without(list, p, 4, l4)
    <2>1. 4 \in 1..4 /\ 3 = 4 - 1
      OBVIOUS
    <2>. HIDE DEF l3
    <2>. QED  BY <1>4, <2>1, OneKept
  <1>6. /\ KeptAt(list, p, 1) = IF 1 <= Len(list) /\ list[1] # c THEN <<list[1]>> ELSE <<>>
        /\ KeptAt(list, p, 2) = IF 2 <= Len(list) /\ list[2] # c THEN <<list[2]>> ELSE <<>>
        /\ KeptAt(list, p, 3) = IF 3 <= Len(list) /\ list[3] # c THEN <<list[3]>> ELSE <<>>
        /\ KeptAt(list, p, 4) = IF 4 <= Len(list) /\ list[4] # c THEN <<list[4]>> ELSE <<>>
    BY DEF KeptAt
  <1>7. KeptAt(list, p, 1) \in Seq(Channels)
    BY DEF KeptAt
  <1>8. l1 = KeptAt(list, p, 1)
    BY <1>7, ConcatEmptySeq
  <1>9. Delisted(list, c) = KeptAt(list, p, 1) \o KeptAt(list, p, 2) \o KeptAt(list, p, 3) \o KeptAt(list, p, 4)
    BY <1>6 DEF Delisted
  <1>. HIDE DEF l1
  <1>10. Delisted(list, c) = l4
    BY <1>8, <1>9
  <1>. HIDE DEF l4
  <1>. QED  BY <1>5, <1>10

(* or nothing when the channel is not on the list. *)
LEMMA DelistedEffect ==
    ASSUME NEW list \in Seq(Channels), Injective(list), NEW c
    PROVE  /\ ~Contains(list, c) => Delisted(list, c) = list
           /\ \A p \in 1..Len(list) : list[p] = c => Delisted(list, c) = RemoveAt(list, p)
  <1>1. Len(list) \in Nat /\ Len(list) <= 4
    BY ShortList
  <1>2. ASSUME ~Contains(list, c) PROVE Delisted(list, c) = list
    <2>1. Without(list, Len(list) + 1, 4, Delisted(list, c))
      BY <1>1, <1>2, DelistedWithout DEF Contains
    <2>. QED  BY <2>1, <1>1, SeqEqual DEF Without
  <1>3. ASSUME NEW p \in 1..Len(list), list[p] = c PROVE Delisted(list, c) = RemoveAt(list, p)
    <2>1. \A i \in 1..Len(list) : list[i] = c <=> i = p
      BY <1>3 DEF Injective
    <2>2. Without(list, p, 4, Delisted(list, c))
      BY <2>1, <1>1, DelistedWithout
    <2>. DEFINE n == Len(list)
                d == Delisted(list, c)
                r == RemoveAt(list, p)
    <2>3. /\ r \in Seq(Channels) /\ Len(r) = n - 1
          /\ \A i \in 1..(n - 1) : r[i] = IF i < p THEN list[i] ELSE list[i + 1]
      BY <1>3, RemoveAtEffect
    <2>4. /\ d \in Seq(Channels)
          /\ Len(d) = (IF 4 <= n THEN 4 ELSE n) - (IF p <= 4 /\ p <= n THEN 1 ELSE 0)
          /\ \A i \in 1..Len(d) : d[i] = IF i < p THEN list[i] ELSE list[i + 1]
      BY <2>2 DEF Without
    <2>5. p \in 1..n /\ n \in Nat /\ n <= 4
      BY <1>1, <1>3
    <2>. HIDE DEF d, r, n
    <2>6. Len(d) = n - 1
      BY <2>4, <2>5
    <2>7. d = r
      BY <2>3, <2>4, <2>6, SeqEqual
    <2>. QED  BY <2>7 DEF d, r
  <1>. QED  BY <1>2, <1>3

(* Removing a place keeps a list injective and in order. *)
LEMMA RemoveAtKeeps ==
    ASSUME NEW list \in Seq(Channels), NEW p \in 1..Len(list)
    PROVE  /\ Injective(list) => Injective(RemoveAt(list, p))
           /\ Descending(list) => Descending(RemoveAt(list, p))
           /\ Injective(list) =>
                \A d : Contains(RemoveAt(list, p), d) <=> Contains(list, d) /\ d # list[p]
  <1>. DEFINE n == Len(list)
              r == RemoveAt(list, p)
  <1>1. /\ r \in Seq(Channels) /\ Len(r) = n - 1
        /\ \A i \in 1..(n - 1) : r[i] = IF i < p THEN list[i] ELSE list[i + 1]
    BY RemoveAtEffect
  <1>2. n \in Nat /\ p \in 1..n
    OBVIOUS
  <1>. HIDE DEF n, r
  <1>3. \A i \in 1..Len(r) : \E k \in 1..n : r[i] = list[k] /\ k = (IF i < p THEN i ELSE i + 1)
    BY <1>1, <1>2
  <1>4. \A k \in 1..n : k # p => \E i \in 1..Len(r) : r[i] = list[k]
    <2>. SUFFICES ASSUME NEW k \in 1..n, k # p PROVE \E i \in 1..Len(r) : r[i] = list[k]
      OBVIOUS
    <2>1. CASE k < p
      BY <2>1, <1>1, <1>2
    <2>2. CASE p < k
      <3>1. k - 1 \in 1..Len(r) /\ ~(k - 1 < p) /\ (k - 1) + 1 = k
        BY <2>2, <1>1, <1>2
      <3>. QED  BY <3>1, <1>1
    <2>. QED  BY <2>1, <2>2, <1>2
  <1>5. Injective(list) => Injective(r)
    BY <1>1, <1>2, <1>3 DEF Injective, n
  <1>6. Descending(list) => Descending(r)
    BY <1>1, <1>2, <1>3 DEF Descending, n
  <1>7. Injective(list) => \A d : Contains(r, d) <=> Contains(list, d) /\ d # list[p]
    <2>. SUFFICES ASSUME Injective(list), NEW d
                  PROVE  Contains(r, d) <=> Contains(list, d) /\ d # list[p]
      OBVIOUS
    <2>1. ASSUME Contains(r, d) PROVE Contains(list, d) /\ d # list[p]
      <3>1. PICK i \in 1..Len(r) : r[i] = d
        BY <2>1 DEF Contains
      <3>2. PICK k \in 1..n : r[i] = list[k] /\ k # p
        BY <1>2, <1>3, <1>1
      <3>. QED  BY <3>1, <3>2, <1>2 DEF Contains, Injective, n
    <2>2. ASSUME Contains(list, d), d # list[p] PROVE Contains(r, d)
      <3>1. PICK k \in 1..n : list[k] = d /\ k # p
        BY <2>2, <1>2 DEF Contains, n
      <3>. QED  BY <3>1, <1>4 DEF Contains
    <2>. QED  BY <2>1, <2>2
  <1>. QED  BY <1>5, <1>6, <1>7 DEF r

(* A list in order holds no channel twice. *)
LEMMA DescendingInjective ==
    ASSUME NEW list \in Seq(Channels), Descending(list)
    PROVE  Injective(list)
  <1>1. \A i \in 1..Len(list) : list[i] \in Channels
    OBVIOUS
  <1>2. \A c \in Channels : c \in Nat
    BY FewChannels
  <1>3. \A i \in 1..Len(list) : list[i] \in Nat
    BY <1>1, <1>2
  <1>. QED  BY <1>3 DEF Descending, Injective

(* So does std::remove, and it removes that channel and no other. *)
LEMMA DelistedKeeps ==
    ASSUME NEW list \in Seq(Channels), Injective(list), NEW c
    PROVE  /\ Delisted(list, c) \in Seq(Channels)
           /\ Injective(Delisted(list, c))
           /\ Descending(list) => Descending(Delisted(list, c))
           /\ \A d : Contains(Delisted(list, c), d) <=> Contains(list, d) /\ d # c
  <1>1. CASE ~Contains(list, c)
    BY <1>1, DelistedEffect
  <1>2. CASE Contains(list, c)
    <2>1. PICK p \in 1..Len(list) : list[p] = c
      BY <1>2 DEF Contains
    <2>2. Delisted(list, c) = RemoveAt(list, p)
      BY <2>1, DelistedEffect
    <2>. QED  BY <2>1, <2>2, RemoveAtEffect, RemoveAtKeeps
  <1>. QED  BY <1>1, <1>2

-----------------------------------------------------------------------------
(* A controller that was just constructed satisfies the invariant. *)
LEMMA InitIInv == Init => IInv
  <1>. SUFFICES ASSUME Init PROVE IInv
    OBVIOUS
  <1>1. TypeOK
    <2>1. cnt \in [Channels -> Control]
      BY DEF Init, Control, Timings
    <2>2. count \in [Channels -> 0..(Modulus - 1)] /\ since_ppu \in 0..PpuGap
      BY DEF Init, Modulus, PpuGap
    <2>3. active \in [channel : Channels \cup {0}, for_fifo : BOOLEAN]
      BY DEF Init, Idle
    <2>4. <<>> \in Seq(Channels) /\ <<>> \in Seq([owner : Channels, left : 0..Delay])
      OBVIOUS
    <2>5. accesses \in 0..4 /\ since_write \in 0..2
      BY DEF Init
    <2>6. scheduled = <<>> /\ running = <<>> /\ starts = <<>> /\ pc = "cpu" /\ in_loop = FALSE /\ first_run = FALSE
      BY DEF Init
    <2>. QED  BY <2>1, <2>2, <2>3, <2>4, <2>5, <2>6 DEF TypeOK
  <1>2. EventsOwned /\ ListsDisjoint /\ Backed /\ Placed /\ Timely
    BY DEF Init, EventsOwned, ListsDisjoint, Backed, Placed, Timely, Injective, Descending, Waits, Runs, Contains
  <1>. QED  BY <1>1, <1>2 DEF IInv

(* Triggered channels that do not wait yet go to the end of both queues. *)
LEMMA ScheduleEffect ==
    ASSUME TypeOK, EventsOwned, Injective(scheduled),
           \A i, j \in 1..Len(starts) : i < j => starts[i].left <= starts[j].left,
           NEW channels \in Seq(Channels), Injective(channels),
           \A c : Contains(channels, c) => ~Waits(c),
           NEW control, ScheduleAll(control, channels)
    PROVE  /\ scheduled' \in Seq(Channels)
           /\ starts' \in Seq([owner : Channels, left : 0..Delay])
           /\ EventsOwned'
           /\ Injective(scheduled')
           /\ \A c : Contains(scheduled', c) <=> Waits(c) \/ Contains(channels, c)
           /\ \A i, j \in 1..Len(starts') : i < j => starts'[i].left <= starts'[j].left
           /\ \A i \in 1..Len(starts') :
                \/ i \in 1..Len(starts) /\ starts'[i] = starts[i]
                \/ starts'[i].left = Delay /\ Contains(channels, starts'[i].owner)
  <1>. DEFINE Start == [owner : Channels, left : 0..Delay]
              events == [i \in DOMAIN channels |-> [owner |-> channels[i], left |-> Delay]]
              n == Len(starts)
              m == Len(channels)
  <1>1. scheduled' = scheduled \o channels /\ starts' = starts \o events
    BY DEF ScheduleAll
  <1>2. scheduled \in Seq(Channels) /\ starts \in Seq(Start) /\ Len(scheduled) = n
    BY DEF TypeOK, EventsOwned
  <1>3. /\ events \in Seq(Start) /\ Len(events) = m
        /\ \A i \in 1..m : events[i] = [owner |-> channels[i], left |-> Delay]
    <2>1. events \in [DOMAIN channels -> Start]
      BY DEF Delay
    <2>. HIDE DEF Start
    <2>2. events \in Seq(Start) /\ Len(events) = m
      BY <2>1
    <2>. QED  BY <2>2
  <1>4. n \in Nat /\ m \in Nat
    BY <1>2
  <1>. HIDE DEF events, n, m, Start
  <1>5. /\ scheduled' \in Seq(Channels) /\ Len(scheduled') = n + m
        /\ \A i \in 1..(n + m) : scheduled'[i] = IF i <= n THEN scheduled[i] ELSE channels[i - n]
    BY <1>1, <1>2, ConcatProperties DEF m
  <1>6. /\ starts' \in Seq(Start) /\ Len(starts') = n + m
        /\ \A i \in 1..(n + m) : starts'[i] = IF i <= n THEN starts[i] ELSE events[i - n]
    <2>1. starts \in Seq(Start) /\ events \in Seq(Start)
      BY <1>2, <1>3
    <2>2. /\ starts \o events \in Seq(Start) /\ Len(starts \o events) = Len(starts) + Len(events)
          /\ \A i \in 1..(Len(starts) + Len(events)) : (starts \o events)[i] =
                IF i <= Len(starts) THEN starts[i] ELSE events[i - Len(starts)]
      BY <2>1, ConcatProperties
    <2>. QED  BY <2>2, <1>1, <1>3 DEF n
  <1>7. \A i \in 1..(n + m) : ~(i <= n) =>
            /\ i - n \in 1..m
            /\ starts'[i].owner = channels[i - n] /\ starts'[i].left = Delay
            /\ Contains(channels, channels[i - n])
    <2>. SUFFICES ASSUME NEW i \in 1..(n + m), ~(i <= n)
                  PROVE  /\ i - n \in 1..m
                         /\ starts'[i].owner = channels[i - n] /\ starts'[i].left = Delay
                         /\ Contains(channels, channels[i - n])
      OBVIOUS
    <2>1. i - n \in 1..m
      BY <1>4
    <2>2. starts'[i] = [owner |-> channels[i - n], left |-> Delay]
      BY <2>1, <1>3, <1>6
    <2>. QED  BY <2>1, <2>2 DEF Contains, m
  <1>8. \A i \in 1..n : starts[i].left \in Nat /\ starts[i].left <= Delay /\ scheduled[i] \in Channels
    <2>1. \A i \in 1..n : starts[i] \in Start /\ scheduled[i] \in Channels
      BY <1>2 DEF n
    <2>. QED  BY <2>1 DEF Start, Delay
  <1>9. EventsOwned'
    BY <1>4, <1>5, <1>6, <1>7 DEF EventsOwned, n
  <1>10. Injective(scheduled')
    <2>. SUFFICES ASSUME NEW i \in 1..(n + m), NEW j \in 1..(n + m), i <= j, scheduled'[i] = scheduled'[j]
                  PROVE  i = j
      BY <1>4, <1>5 DEF Injective
    <2>1. CASE j <= n
      BY <2>1, <1>2, <1>4, <1>5 DEF Injective
    <2>2. CASE i <= n /\ ~(j <= n)
      <3>1. Contains(channels, scheduled'[j])
        BY <2>2, <1>5, <1>7
      <3>2. Waits(scheduled[i])
        BY <2>2, <1>2, <1>4 DEF Waits, Contains
      <3>. QED  BY <3>1, <3>2, <2>2, <1>5
    <2>3. CASE ~(i <= n)
      <3>1. ~(j <= n)
        BY <2>3, <1>4
      <3>2. i - n \in 1..m /\ j - n \in 1..m /\ channels[i - n] = channels[j - n]
        BY <3>1, <2>3, <1>5, <1>7
      <3>3. i - n = j - n
        BY <3>2 DEF Injective, m
      <3>. QED  BY <3>3, <1>4
    <2>. QED  BY <2>1, <2>2, <2>3
  <1>11. \A c : Contains(scheduled', c) <=> Waits(c) \/ Contains(channels, c)
    <2>. SUFFICES ASSUME NEW c PROVE Contains(scheduled', c) <=> Waits(c) \/ Contains(channels, c)
      OBVIOUS
    <2>1. ASSUME Contains(scheduled', c) PROVE Waits(c) \/ Contains(channels, c)
      <3>1. PICK i \in 1..(n + m) : scheduled'[i] = c
        BY <2>1, <1>5 DEF Contains
      <3>2. CASE i <= n
        BY <3>1, <3>2, <1>2, <1>4, <1>5 DEF Waits, Contains
      <3>3. CASE ~(i <= n)
        BY <3>1, <3>3, <1>5, <1>7
      <3>. QED  BY <3>2, <3>3
    <2>2. ASSUME Waits(c) PROVE Contains(scheduled', c)
      BY <2>2, <1>2, <1>4, <1>5 DEF Waits, Contains
    <2>3. ASSUME Contains(channels, c) PROVE Contains(scheduled', c)
      <3>1. PICK k \in 1..m : channels[k] = c
        BY <2>3 DEF Contains, m
      <3>2. k + n \in 1..(n + m) /\ ~(k + n <= n) /\ (k + n) - n = k
        BY <1>4
      <3>. QED  BY <3>1, <3>2, <1>5 DEF Contains
    <2>. QED  BY <2>1, <2>2, <2>3
  <1>12. \A i, j \in 1..Len(starts') : i < j => starts'[i].left <= starts'[j].left
    <2>. SUFFICES ASSUME NEW i \in 1..(n + m), NEW j \in 1..(n + m), i < j
                  PROVE  starts'[i].left <= starts'[j].left
      BY <1>6
    <2>1. CASE j <= n
      BY <2>1, <1>4, <1>6 DEF n
    <2>2. CASE ~(j <= n)
      <3>1. starts'[j].left = Delay
        BY <2>2, <1>7
      <3>2. starts'[i].left <= Delay
        <4>1. CASE i <= n
          BY <4>1, <1>4, <1>6, <1>8
        <4>2. CASE ~(i <= n)
          BY <4>2, <1>7 DEF Delay
        <4>. QED  BY <4>1, <4>2
      <3>. QED  BY <3>1, <3>2
    <2>. QED  BY <2>1, <2>2
  <1>13. \A i \in 1..Len(starts') :
                \/ i \in 1..Len(starts) /\ starts'[i] = starts[i]
                \/ starts'[i].left = Delay /\ Contains(channels, starts'[i].owner)
    BY <1>4, <1>6, <1>7 DEF n
  <1>. QED  BY <1>5, <1>6, <1>9, <1>10, <1>11, <1>12, <1>13 DEF Start

(* The channel that owns an event waits. *)
LEMMA OwnersWait ==
    ASSUME TypeOK, EventsOwned, NEW i \in 1..Len(starts)
    PROVE  /\ starts[i].owner \in Channels /\ Waits(starts[i].owner)
           /\ starts[i].left \in 0..Delay
  <1>. DEFINE Start == [owner : Channels, left : 0..Delay]
  <1>1. starts \in Seq(Start)
    BY DEF TypeOK
  <1>2. starts[i] \in Start
    <2>. HIDE DEF Start
    <2>. QED  BY <1>1
  <1>3. starts[i].owner = scheduled[i] /\ i \in 1..Len(scheduled)
    BY DEF EventsOwned
  <1>. QED  BY <1>2, <1>3 DEF Waits, Contains

(* That preserves what the invariant says of the queues. *)
LEMMA ScheduleKeeps ==
    ASSUME IInv, NEW control, NEW channels \in Seq(Channels), Injective(channels),
           ScheduleAll(control, channels),
           running' = running, in_loop' = in_loop, in_loop \/ Timely, since_ppu \in 0..PpuGap,
           \A c \in Channels : Contains(channels, c) => ~Waits(c) /\ ~Runs(c) /\ (FromPpu(cnt', c) => since_ppu' = 0),
           \A c \in Channels : Waits(c) => cnt'[c].when = cnt[c].when,
           since_ppu' = since_ppu \/ since_ppu = PpuGap
    PROVE  /\ scheduled' \in Seq(Channels)
           /\ starts' \in Seq([owner : Channels, left : 0..Delay])
           /\ EventsOwned' /\ ListsDisjoint' /\ Timely'
           /\ \A c : Waits(c)' <=> Waits(c) \/ Contains(channels, c)
  <1>. USE DEF IInv
  <1>1. \A c : Contains(channels, c) => c \in Channels
    BY DEF Contains
  <1>2. /\ scheduled' \in Seq(Channels)
        /\ starts' \in Seq([owner : Channels, left : 0..Delay])
        /\ EventsOwned'
        /\ Injective(scheduled')
        /\ \A c : Contains(scheduled', c) <=> Waits(c) \/ Contains(channels, c)
        /\ \A i, j \in 1..Len(starts') : i < j => starts'[i].left <= starts'[j].left
        /\ \A i \in 1..Len(starts') :
                \/ i \in 1..Len(starts) /\ starts'[i] = starts[i]
                \/ starts'[i].left = Delay /\ Contains(channels, starts'[i].owner)
    BY <1>1, ScheduleEffect DEF ListsDisjoint, Timely
  <1>3. ListsDisjoint'
    BY <1>1, <1>2 DEF ListsDisjoint, Waits, Runs
  <1>4. ASSUME NEW i \in 1..Len(starts'), ~in_loop'
        PROVE  starts'[i].left >= 1
    BY <1>2, <1>4 DEF Timely, Delay
  <1>5. ASSUME NEW i \in 1..Len(starts'), FromPpu(cnt', starts'[i].owner)
        PROVE  starts'[i].left + since_ppu' <= Delay
    <2>1. CASE i \in 1..Len(starts) /\ starts'[i] = starts[i]
      <3>1. starts[i].owner \in Channels /\ Waits(starts[i].owner) /\ starts[i].left \in 0..Delay
        BY <2>1, OwnersWait
      <3>2. FromPpu(cnt, starts[i].owner)
        BY <3>1, <2>1, <1>5 DEF FromPpu
      <3>3. starts[i].left + since_ppu <= Delay
        BY <3>2, <2>1 DEF Timely
      <3>4. since_ppu # PpuGap
        BY <3>1, <3>3 DEF PpuGap, Delay
      <3>. QED  BY <3>3, <3>4, <2>1
    <2>2. CASE starts'[i].left = Delay /\ Contains(channels, starts'[i].owner)
      <3>1. since_ppu' = 0
        BY <2>2, <1>1, <1>5
      <3>. QED  BY <3>1, <2>2 DEF Delay
    <2>. QED  BY <2>1, <2>2, <1>2
  <1>6. Timely'
    BY <1>2, <1>4, <1>5 DEF Timely
  <1>. QED  BY <1>2, <1>3, <1>6 DEF Waits

(* Nothing that a step could disturb. *)
LEMMA ListsUnchanged ==
    ASSUME IInv, UNCHANGED <<cnt, count, lists, since_ppu>>, in_loop' = in_loop
    PROVE  EventsOwned' /\ ListsDisjoint' /\ Backed' /\ Timely'
  BY DEF IInv, EventsOwned, ListsDisjoint, Backed, Timely, FromPpu, Waits, Runs, lists

(* The CPU begins a bus access. *)
LEMMA CpuAccessInv == IInv /\ CpuAccess => IInv'
  <1>. SUFFICES ASSUME IInv, CpuAccess PROVE IInv'
    OBVIOUS
  <1>1. EventsOwned' /\ ListsDisjoint' /\ Backed' /\ Timely'
    BY ListsUnchanged DEF CpuAccess, clocks
  <1>2. TypeOK' /\ Placed'
    BY DEF IInv, TypeOK, Placed, CpuAccess, lists, clocks
  <1>. QED  BY <1>1, <1>2 DEF IInv

(* run_channels picks a channel. *)
LEMMA SelectChannelInv == IInv /\ SelectChannel => IInv'
  <1>. SUFFICES ASSUME IInv, SelectChannel PROVE IInv'
    OBVIOUS
  <1>1. EventsOwned' /\ ListsDisjoint' /\ Backed' /\ Timely'
    BY ListsUnchanged DEF SelectChannel, clocks
  <1>2. Picked \in Channels /\ Runs(Picked)
    BY DEF IInv, TypeOK, SelectChannel, Picked, Last, Runs, Contains
  <1>3. active' = [channel |-> Picked, for_fifo |-> IsForFifo(Picked, cnt[Picked])]
        /\ IsForFifo(Picked, cnt[Picked]) \in BOOLEAN
    BY DEF SelectChannel, IsForFifo
  <1>4. /\ accesses' \in {2, 4} /\ first_run' \in BOOLEAN /\ pc' = "transfer"
        /\ UNCHANGED <<cnt, count, lists, in_loop, clocks>> /\ pc = "run"
    BY DEF SelectChannel
  <1>5. TypeOK'
    BY <1>2, <1>3, <1>4 DEF IInv, TypeOK, lists, clocks
  <1>6. Placed'
    BY <1>2, <1>3, <1>4 DEF IInv, Placed, Runs, lists
  <1>. QED  BY <1>1, <1>5, <1>6 DEF IInv

(* run_channels has nothing left to run. *)
LEMMA RunEndsInv == IInv /\ RunEnds => IInv'
  <1>. SUFFICES ASSUME IInv, RunEnds PROVE IInv'
    OBVIOUS
  <1>1. EventsOwned' /\ ListsDisjoint' /\ Backed' /\ Timely'
    BY ListsUnchanged DEF RunEnds, clocks
  <1>2. TypeOK' /\ Placed'
    BY DEF IInv, TypeOK, Placed, RunEnds, lists, clocks
  <1>. QED  BY <1>1, <1>2 DEF IInv

(* The loop of the scheduler ends: every start event that was due has fired. *)
LEMMA LoopEndsInv == IInv /\ LoopEnds => IInv'
  <1>. SUFFICES ASSUME IInv, LoopEnds PROVE IInv'
    OBVIOUS
  <1>1. /\ UNCHANGED <<cnt, count, lists, first_run, active, clocks>> /\ in_loop' = FALSE
        /\ in_loop /\ ~StartDue
    BY DEF LoopEnds
  <1>2. EventsOwned' /\ ListsDisjoint' /\ Backed'
    BY <1>1 DEF IInv, EventsOwned, ListsDisjoint, Backed, Waits, Runs, lists
  <1>3. \A i \in 1..Len(starts) : starts[i].left >= 1
    <2>. SUFFICES ASSUME NEW i \in 1..Len(starts) PROVE starts[i].left >= 1
      OBVIOUS
    <2>1. starts # <<>> /\ 1 \in 1..Len(starts) /\ Head(starts) = starts[1]
      BY DEF IInv, TypeOK
    <2>2. starts[1].left # 0
      BY <2>1, <1>1 DEF StartDue
    <2>3. starts[1].left \in 0..Delay /\ starts[i].left \in 0..Delay
      BY <2>1, OwnersWait DEF IInv
    <2>4. i = 1 \/ starts[1].left <= starts[i].left
      BY <2>1 DEF IInv, Timely
    <2>. QED  BY <2>2, <2>3, <2>4 DEF Delay
  <1>4. Timely'
    BY <1>1, <1>3 DEF IInv, Timely, FromPpu, lists, clocks
  <1>5. TypeOK' /\ Placed'
    <2>1. CASE pc = "add"
      BY <2>1, <1>1 DEF LoopEnds, IInv, TypeOK, Placed, lists, clocks, Runs
    <2>2. CASE pc # "add"
      <3>1. pc' = "transfer" /\ pc = "transfer"
        BY <2>2 DEF LoopEnds, IInv, Placed
      <3>2. accesses' \in 0..4
        BY <2>2, <1>1 DEF LoopEnds, IInv, TypeOK, Placed
      <3>. QED  BY <3>1, <3>2, <1>1 DEF IInv, TypeOK, Placed, lists, clocks, Runs
    <2>. QED  BY <2>1, <2>2
  <1>. QED  BY <1>2, <1>4, <1>5 DEF IInv

(* The scheduler's clock advances by one access. *)
LEMMA AddCyclesInv == ASSUME IInv, NEW c \in 1..MaxTick, AddCycles(c) PROVE IInv'
  <1>. DEFINE Start == [owner : Channels, left : 0..Delay]
              n == Len(starts)
  <1>1. /\ UNCHANGED <<cnt, count, scheduled, running, pc, run>>
        /\ in_loop' = TRUE /\ ~in_loop
        /\ since_ppu' = IF since_ppu < PpuGap THEN since_ppu + 1 ELSE PpuGap
        /\ since_write' = IF since_write < 2 THEN since_write + 1 ELSE 2
        /\ pc = "add" \/ (pc = "transfer" /\ accesses > 0)
    BY DEF AddCycles
  <1>2. c \in Nat /\ c >= 1 /\ since_ppu \in 0..PpuGap
    BY DmaAssumption DEF IInv, TypeOK
  <1>3. n \in Nat /\ DOMAIN starts = 1..n
    BY DEF IInv, TypeOK
  <1>4. \A i \in 1..n : /\ starts[i].owner \in Channels
                        /\ starts[i].left \in 1..Delay
                        /\ starts[i] \in Start
    <2>. SUFFICES ASSUME NEW i \in 1..n
                  PROVE  starts[i].owner \in Channels /\ starts[i].left \in 1..Delay /\ starts[i] \in Start
      OBVIOUS
    <2>1. starts[i].owner \in Channels /\ starts[i].left \in 0..Delay
      BY OwnersWait DEF IInv
    <2>2. starts[i].left >= 1
      BY <1>1 DEF IInv, Timely
    <2>3. starts[i] \in Start
      <3>1. starts \in Seq(Start)
        BY DEF IInv, TypeOK
      <3>. HIDE DEF Start
      <3>. QED  BY <3>1
    <2>. QED  BY <2>1, <2>2, <2>3 DEF Delay
  <1>5. starts' = [i \in 1..n |-> [starts[i] EXCEPT !.left = Elapsed(starts[i].left, c)]]
    BY <1>3 DEF AddCycles
  <1>6. \A i \in 1..n : /\ Elapsed(starts[i].left, c) \in 0..Delay
                        /\ Elapsed(starts[i].left, c) <= starts[i].left - 1
    BY <1>2, <1>4 DEF Elapsed, Delay
  <1>7. \A i \in 1..n : /\ starts'[i] \in Start
                        /\ starts'[i].owner = starts[i].owner
                        /\ starts'[i].left = Elapsed(starts[i].left, c)
    BY <1>4, <1>5, <1>6
  <1>8. starts' \in [1..n -> Start]
    BY <1>5, <1>7
  <1>9. starts' \in Seq(Start) /\ Len(starts') = n
    <2>. HIDE DEF Start, n
    <2>. QED  BY <1>3, <1>8
  <1>. HIDE DEF n
  <1>10. EventsOwned' /\ ListsDisjoint' /\ Backed'
    BY <1>1, <1>7, <1>9 DEF IInv, EventsOwned, ListsDisjoint, Backed, Waits, Runs, n
  <1>11. \A i, j \in 1..n : i < j => starts'[i].left <= starts'[j].left
    <2>. SUFFICES ASSUME NEW i \in 1..n, NEW j \in 1..n, i < j
                  PROVE  starts'[i].left <= starts'[j].left
      OBVIOUS
    <2>1. starts[i].left <= starts[j].left
      BY DEF IInv, Timely, n
    <2>2. Elapsed(starts[i].left, c) <= Elapsed(starts[j].left, c)
      BY <1>2, <1>4, <2>1 DEF Elapsed, Delay
    <2>. QED  BY <2>2, <1>7
  <1>12. \A i \in 1..n : FromPpu(cnt, starts[i].owner) => starts'[i].left + since_ppu' <= Delay
    <2>. SUFFICES ASSUME NEW i \in 1..n, FromPpu(cnt, starts[i].owner)
                  PROVE  starts'[i].left + since_ppu' <= Delay
      OBVIOUS
    <2>1. starts[i].left + since_ppu <= Delay
      BY DEF IInv, Timely, n
    <2>2. since_ppu' <= since_ppu + 1 /\ since_ppu' \in Nat
      BY <1>1, <1>2 DEF PpuGap
    <2>. QED  BY <2>1, <2>2, <1>2, <1>4, <1>6, <1>7 DEF Delay
  <1>13. Timely'
    BY <1>1, <1>7, <1>9, <1>11, <1>12 DEF Timely, FromPpu
  <1>14. Placed'
    BY <1>1 DEF IInv, Placed, Runs, run
  <1>15. since_ppu' \in 0..PpuGap /\ since_write' \in 0..2
    BY <1>1, <1>2 DEF IInv, TypeOK, PpuGap
  <1>16. TypeOK'
    BY <1>1, <1>9, <1>15 DEF IInv, TypeOK, run
  <1>. QED  BY <1>10, <1>13, <1>14, <1>16 DEF IInv

(* A queue without its front. *)
LEMMA TailKeeps ==
    ASSUME NEW S, NEW list \in Seq(S), list # <<>>
    PROVE  /\ Tail(list) \in Seq(S) /\ Len(Tail(list)) = Len(list) - 1
           /\ Len(list) \in Nat /\ Len(list) >= 1 /\ Head(list) = list[1]
           /\ \A i \in 1..Len(Tail(list)) : Tail(list)[i] = list[i + 1] /\ i + 1 \in 1..Len(list)
  <1>1. /\ Tail(list) \in Seq(S) /\ Len(Tail(list)) = Len(list) - 1
        /\ \A i \in 1..Len(Tail(list)) : Tail(list)[i] = list[i + 1]
    BY HeadTailProperties
  <1>2. Len(list) \in Nat /\ Len(list) >= 1 /\ Head(list) = list[1]
    OBVIOUS
  <1>. QED  BY <1>1, <1>2

(* A start event fires: the front of one queue is the front of the other. *)
LEMMA OnChannelStartInv == IInv /\ OnChannelStart => IInv'
  <1>. SUFFICES ASSUME IInv, OnChannelStart PROVE IInv'
    OBVIOUS
  <1>. DEFINE Start == [owner : Channels, left : 0..Delay]
              n == Len(starts)
              h == Head(scheduled)
              longer == Append(running, h)
  <1>1. /\ UNCHANGED <<cnt, count, pc, in_loop, run, clocks>>
        /\ starts # <<>> /\ scheduled # <<>> /\ in_loop
        /\ starts' = Tail(starts) /\ scheduled' = Tail(scheduled)
        /\ running' = ByPriority(longer)
    BY DEF OnChannelStart, StartDue
  <1>2. scheduled \in Seq(Channels) /\ starts \in Seq(Start) /\ running \in Seq(Channels)
        /\ Len(scheduled) = n /\ n \in Nat
    BY DEF IInv, TypeOK, EventsOwned
  <1>3. /\ starts' \in Seq(Start) /\ Len(starts') = n - 1
        /\ \A i \in 1..(n - 1) : starts'[i] = starts[i + 1] /\ i + 1 \in 1..n
    <2>. HIDE DEF Start
    <2>. QED  BY <1>1, <1>2, TailKeeps
  <1>4. /\ scheduled' \in Seq(Channels) /\ Len(scheduled') = n - 1
        /\ \A i \in 1..(n - 1) : scheduled'[i] = scheduled[i + 1]
        /\ n >= 1 /\ h = scheduled[1]
    BY <1>1, <1>2, TailKeeps
  <1>5. h \in Channels /\ Waits(h) /\ ~Runs(h)
    <2>1. 1 \in 1..n
      BY <1>2, <1>4
    <2>. QED  BY <2>1, <1>2, <1>4 DEF IInv, ListsDisjoint, Waits, Contains
  <1>. HIDE DEF h, Start
  <1>6. /\ longer \in Seq(Channels) /\ Injective(longer)
        /\ \A c : Contains(longer, c) <=> Runs(c) \/ c = h
    <2>1. /\ longer \in Seq(Channels) /\ Len(longer) = Len(running) + 1 /\ Len(running) \in Nat
          /\ longer[Len(running) + 1] = h
          /\ \A i \in 1..Len(running) : longer[i] = running[i]
      BY <1>2, <1>5
    <2>. HIDE DEF longer
    <2>2. Injective(running)
      BY <1>2, DescendingInjective DEF IInv, ListsDisjoint
    <2>3. \A i \in 1..Len(running) : running[i] # h
      BY <1>5 DEF Runs, Contains
    <2>4. Injective(longer)
      BY <2>1, <2>2, <2>3 DEF Injective
    <2>5. \A c : Contains(longer, c) <=> Runs(c) \/ c = h
      BY <2>1 DEF Contains, Runs
    <2>. QED  BY <2>1, <2>4, <2>5
  <1>. HIDE DEF longer
  <1>7. /\ running' \in Seq(Channels) /\ Descending(running')
        /\ \A c : Contains(running', c) <=> Runs(c) \/ c = h
    BY <1>1, <1>6, ByPriorityEffect
  <1>8. /\ Injective(scheduled')
        /\ \A c : Contains(scheduled', c) => Waits(c) /\ c # h
    <2>1. \A i, j \in 1..n : scheduled[i] = scheduled[j] => i = j
      BY <1>2 DEF IInv, ListsDisjoint, Injective
    <2>2. \A i \in 1..(n - 1) : i + 1 \in 1..n /\ i + 1 # 1 /\ 1 \in 1..n
      BY <1>2, <1>4
    <2>3. Injective(scheduled')
      BY <2>1, <2>2, <1>4 DEF Injective
    <2>. QED  BY <2>1, <2>2, <2>3, <1>2, <1>4 DEF Contains, Waits
  <1>9. EventsOwned'
    BY <1>2, <1>3, <1>4 DEF IInv, EventsOwned, n
  <1>10. ListsDisjoint'
    BY <1>7, <1>8, <1>5 DEF IInv, ListsDisjoint, Waits, Runs
  <1>11. Backed'
    BY <1>1, <1>5, <1>7, <1>8 DEF IInv, Backed, Waits, Runs
  <1>12. Placed'
    BY <1>1, <1>7 DEF IInv, Placed, Runs, run
  <1>13. Timely'
    BY <1>1, <1>2, <1>3 DEF IInv, Timely, FromPpu, n, clocks
  <1>14. TypeOK'
    BY <1>1, <1>3, <1>4, <1>7 DEF IInv, TypeOK, run, clocks, Start
  <1>. QED  BY <1>9, <1>10, <1>11, <1>12, <1>13, <1>14 DEF IInv

(* A word was written, perhaps the last of the transfer. *)
LEMMA FinishTransferInv == IInv /\ FinishTransfer => IInv'
  <1>. SUFFICES ASSUME IInv, FinishTransfer PROVE IInv'
    OBVIOUS
  <1>. DEFINE c == active.channel
  <1>1. /\ pc = "transfer" /\ pc' = "run" /\ active' = Idle /\ ~in_loop
        /\ UNCHANGED <<scheduled, starts, in_loop, first_run, accesses, clocks>>
    BY DEF FinishTransfer
  <1>2. c \in Channels /\ Runs(c) /\ ~Waits(c) /\ count[c] > 0 /\ count[c] \in 0..(Modulus - 1)
    BY <1>1 DEF IInv, Placed, Backed, ListsDisjoint, TypeOK
  <1>3. running \in Seq(Channels) /\ Descending(running) /\ Injective(running)
    BY DescendingInjective DEF IInv, TypeOK, ListsDisjoint
  <1>. HIDE DEF c
  <1>4. Found(c) \in 1..Len(running) /\ running[Found(c)] = c
    <2>1. PICK i \in 1..Len(running) : running[i] = c
      BY <1>2 DEF Runs, Contains
    <2>2. \A j \in 1..(i - 1) : running[j] # c
      BY <2>1, <1>3 DEF Injective
    <2>3. DOMAIN running = 1..Len(running)
      BY <1>3
    <2>. QED  BY <2>1, <2>2, <2>3 DEF Found
  <1>5. /\ Drop(c) \in Seq(Channels) /\ Descending(Drop(c))
        /\ \A d : Contains(Drop(c), d) <=> Runs(d) /\ d # c
    BY <1>3, <1>4, RemoveAtEffect, RemoveAtKeeps DEF Drop, Runs
  <1>6. /\ running' \in Seq(Channels) /\ Descending(running')
        /\ \A d : Contains(running', d) => Runs(d)
        /\ count' \in [Channels -> 0..(Modulus - 1)]
        /\ cnt' \in [Channels -> Control]
        /\ \A d \in Channels \ {c} : cnt'[d] = cnt[d] /\ count'[d] = count[d]
        /\ \A d \in Channels : cnt'[d].when = cnt[d].when
        /\ Contains(running', c) => cnt' = cnt /\ count'[c] > 0
        /\ cnt'[c].enabled => count'[c] > 0
    <2>0. count \in [Channels -> 0..(Modulus - 1)] /\ cnt \in [Channels -> Control]
      BY DEF IInv, TypeOK
    <2>1. CASE ~Done(c)
      <3>1. count' = [count EXCEPT ![c] = (@ + Modulus - 1) % Modulus] /\ UNCHANGED <<cnt, running>>
        BY <2>1 DEF FinishTransfer, c
      <3>2. (count[c] + Modulus - 1) % Modulus = count[c] - 1 /\ count[c] - 1 \in 1..(Modulus - 1)
        BY <2>1, <1>2 DEF Done, Modulus
      <3>. QED  BY <3>1, <3>2, <2>0, <1>2, <1>3 DEF Runs, Modulus
    <2>2. CASE Done(c) /\ cnt[c].repeat
      <3>1. PICK n \in 1..15 : count' = [count EXCEPT ![c] = n] /\ cnt' = cnt /\ running' = Drop(c)
        BY <2>2, DmaAssumption DEF FinishTransfer, c
      <3>. QED  BY <3>1, <2>0, <1>2, <1>5 DEF Modulus
    <2>3. CASE Done(c) /\ ~cnt[c].repeat
      <3>1. /\ count' = [count EXCEPT ![c] = 0] /\ cnt' = [cnt EXCEPT ![c].enabled = FALSE]
            /\ running' = Drop(c)
        BY <2>3 DEF FinishTransfer, c
      <3>2. cnt' \in [Channels -> Control] /\ ~cnt'[c].enabled /\ cnt'[c].when = cnt[c].when
        BY <3>1, <2>0, <1>2 DEF Control
      <3>. QED  BY <3>1, <3>2, <2>0, <1>2, <1>5 DEF Modulus
    <2>. QED  BY <2>1, <2>2, <2>3
  <1>7. EventsOwned' /\ ListsDisjoint'
    BY <1>1, <1>6 DEF IInv, EventsOwned, ListsDisjoint, Waits, Runs
  <1>8. Backed'
    <2>. SUFFICES ASSUME NEW d \in Channels
                  PROVE  /\ Contains(scheduled, d) => cnt'[d].enabled
                         /\ Contains(running', d) => (cnt'[d].enabled \/ d = 3) /\ count'[d] > 0
                         /\ cnt'[d].enabled => count'[d] > 0
      BY <1>1 DEF Backed, Waits, Runs
    <2>1. CASE d = c
      BY <2>1, <1>2, <1>6 DEF IInv, Backed, Waits
    <2>2. CASE d # c
      BY <2>2, <1>6 DEF IInv, Backed, Waits
    <2>. QED  BY <2>1, <2>2
  <1>9. Timely'
    <2>1. \A i \in 1..Len(starts) : FromPpu(cnt', starts[i].owner) <=> FromPpu(cnt, starts[i].owner)
      BY <1>6, OwnersWait DEF IInv, FromPpu
    <2>. QED  BY <2>1, <1>1 DEF IInv, Timely, clocks
  <1>10. Placed'
    BY <1>1 DEF Placed
  <1>11. TypeOK'
    BY <1>1, <1>6 DEF IInv, TypeOK, clocks, Idle
  <1>. QED  BY <1>7, <1>8, <1>9, <1>10, <1>11 DEF IInv

-----------------------------------------------------------------------------
(* A control register is written. *)
(* The last event of a channel that waits is at the channel's own place. *)
LEMMA LastEventRemoved ==
    ASSUME IInv, NEW p \in 1..Len(starts)
    PROVE  WithoutLastEvent(starts[p].owner) = RemoveAt(starts, p)
  <1>1. scheduled \in Seq(Channels) /\ Len(scheduled) = Len(starts) /\ Len(starts) \in Nat
        /\ DOMAIN starts = 1..Len(starts)
    BY DEF IInv, TypeOK, EventsOwned
  <1>2. {i \in DOMAIN starts : starts[i].owner = starts[p].owner} = {p}
    BY <1>1 DEF IInv, EventsOwned, ListsDisjoint, Injective
  <1>3. (CHOOSE i \in {p} : \A j \in {p} : j <= i) = p
    OBVIOUS
  <1>. QED  BY <1>2, <1>3 DEF WithoutLastEvent

(* Disabling a channel removes it and its event, and nothing else. *)
LEMMA DisableKeeps ==
    ASSUME IInv, NEW c \in Channels, ~in_loop,
           scheduled' = Delisted(scheduled, c), starts' = WithoutLastEvent(c),
           running' = Delisted(running, c), UNCHANGED <<in_loop, since_ppu>>,
           \A d \in Channels \ {c} : cnt'[d] = cnt[d]
    PROVE  /\ scheduled' \in Seq(Channels) /\ running' \in Seq(Channels)
           /\ starts' \in Seq([owner : Channels, left : 0..Delay])
           /\ EventsOwned' /\ ListsDisjoint' /\ Timely'
           /\ \A d : Waits(d)' <=> Waits(d) /\ d # c
           /\ \A d : Runs(d)' <=> Runs(d) /\ d # c
  <1>. DEFINE Start == [owner : Channels, left : 0..Delay]
              n == Len(starts)
  <1>1. /\ scheduled \in Seq(Channels) /\ running \in Seq(Channels) /\ starts \in Seq(Start)
        /\ Len(scheduled) = n /\ n \in Nat /\ DOMAIN starts = 1..n
        /\ Injective(scheduled) /\ Descending(running) /\ Injective(running)
    BY DescendingInjective DEF IInv, TypeOK, EventsOwned, ListsDisjoint
  <1>2. /\ scheduled' \in Seq(Channels) /\ Injective(scheduled')
        /\ running' \in Seq(Channels) /\ Descending(running')
        /\ \A d : Contains(scheduled', d) <=> Waits(d) /\ d # c
        /\ \A d : Contains(running', d) <=> Runs(d) /\ d # c
    BY <1>1, DelistedKeeps DEF Waits, Runs
  <1>3. ListsDisjoint'
    BY <1>2 DEF IInv, ListsDisjoint, Waits, Runs
  <1>4. CASE ~Waits(c)
    <2>1. scheduled' = scheduled
      BY <1>1, <1>4, DelistedEffect DEF Waits
    <2>2. \A i \in 1..n : starts[i].owner # c
      BY <1>4, OwnersWait DEF IInv
    <2>3. {i \in DOMAIN starts : starts[i].owner = c} = {}
      BY <2>2, <1>1
    <2>4. starts' = starts
      BY <2>3 DEF WithoutLastEvent
    <2>5. EventsOwned'
      BY <2>1, <2>4 DEF IInv, EventsOwned
    <2>6. \A i \in 1..n : FromPpu(cnt', starts[i].owner) <=> FromPpu(cnt, starts[i].owner)
      BY <2>2, OwnersWait DEF IInv, FromPpu
    <2>7. Timely'
      BY <2>4, <2>6 DEF IInv, Timely
    <2>. QED  BY <1>1, <1>2, <1>3, <2>4, <2>5, <2>7 DEF Waits, Runs
  <1>5. CASE Waits(c)
    <2>1. PICK p \in 1..n : scheduled[p] = c
      BY <1>1, <1>5 DEF Waits, Contains
    <2>2. starts[p].owner = c
      BY <2>1 DEF IInv, EventsOwned
    <2>3. scheduled' = RemoveAt(scheduled, p)
      BY <1>1, <2>1, DelistedEffect
    <2>4. starts' = RemoveAt(starts, p)
      BY <2>1, <2>2, LastEventRemoved
    <2>5. /\ Len(scheduled') = n - 1
          /\ \A i \in 1..(n - 1) : scheduled'[i] = IF i < p THEN scheduled[i] ELSE scheduled[i + 1]
      <3>1. p \in 1..Len(scheduled) /\ Len(scheduled) = n
        BY <1>1, <2>1
      <3>2. /\ Len(scheduled') = Len(scheduled) - 1
            /\ \A i \in 1..(Len(scheduled) - 1) :
                 scheduled'[i] = IF i < p THEN scheduled[i] ELSE scheduled[i + 1]
        BY <1>1, <2>3, <3>1, RemoveAtEffect
      <3>. HIDE DEF n
      <3>. QED  BY <3>1, <3>2
    <2>6. /\ starts' \in Seq(Start) /\ Len(starts') = n - 1
          /\ \A i \in 1..(n - 1) : starts'[i] = IF i < p THEN starts[i] ELSE starts[i + 1]
      <3>. HIDE DEF Start
      <3>. QED  BY <1>1, <2>1, <2>4, RemoveAtEffect
    <2>7. \A i \in 1..(n - 1) : \E k \in 1..n :
            /\ k = (IF i < p THEN i ELSE i + 1) /\ k # p
            /\ starts'[i] = starts[k] /\ scheduled'[i] = scheduled[k]
      <3>. SUFFICES ASSUME NEW i \in 1..(n - 1)
                    PROVE  \E k \in 1..n : /\ k = (IF i < p THEN i ELSE i + 1) /\ k # p
                                           /\ starts'[i] = starts[k] /\ scheduled'[i] = scheduled[k]
        OBVIOUS
      <3>1. (IF i < p THEN i ELSE i + 1) \in 1..n /\ (IF i < p THEN i ELSE i + 1) # p
        BY <1>1, <2>1
      <3>. QED  BY <3>1, <2>5, <2>6
    <2>. HIDE DEF n
    <2>8. EventsOwned'
      BY <2>5, <2>6, <2>7 DEF IInv, EventsOwned, n
    <2>9. Timely'
      <3>1. \A i \in 1..(n - 1) : starts'[i].left >= 1
        BY <2>7 DEF IInv, Timely, n
      <3>2. \A i, j \in 1..(n - 1) : i < j => starts'[i].left <= starts'[j].left
        <4>. SUFFICES ASSUME NEW i \in 1..(n - 1), NEW j \in 1..(n - 1), i < j
                      PROVE  starts'[i].left <= starts'[j].left
          OBVIOUS
        <4>1. PICK k \in 1..n : k = (IF i < p THEN i ELSE i + 1) /\ starts'[i] = starts[k]
          BY <2>7
        <4>2. PICK l \in 1..n : l = (IF j < p THEN j ELSE j + 1) /\ starts'[j] = starts[l]
          BY <2>7
        <4>3. k < l
          BY <4>1, <4>2, <1>1, <2>1
        <4>. QED  BY <4>1, <4>2, <4>3 DEF IInv, Timely, n
      <3>3. \A i \in 1..(n - 1) : FromPpu(cnt', starts'[i].owner) => starts'[i].left + since_ppu <= Delay
        <4>. SUFFICES ASSUME NEW i \in 1..(n - 1), FromPpu(cnt', starts'[i].owner)
                      PROVE  starts'[i].left + since_ppu <= Delay
          OBVIOUS
        <4>1. PICK k \in 1..n : k # p /\ starts'[i] = starts[k]
          BY <2>7
        <4>2. starts[k].owner \in Channels /\ starts[k].owner = scheduled[k] /\ scheduled[k] # scheduled[p]
          BY <4>1, <1>1, OwnersWait, <2>1 DEF IInv, EventsOwned, Injective, n
        <4>3. cnt'[starts[k].owner] = cnt[starts[k].owner]
          BY <4>2, <2>1
        <4>. QED  BY <4>1, <4>3 DEF IInv, Timely, FromPpu, n
      <3>. QED  BY <3>1, <3>2, <3>3, <2>6 DEF Timely
    <2>. QED  BY <1>2, <1>3, <2>6, <2>8, <2>9 DEF Waits, Runs
  <1>. QED  BY <1>4, <1>5

(* The control register of a channel is written. *)
LEMMA WriteCntHInv ==
    ASSUME IInv, Disciplined, NEW c \in Channels, NEW control \in Settings[c], WriteCntH(c, control)
    PROVE  IInv'
  <1>. DEFINE new == [control EXCEPT !.repeat = @ /\ control.when # "immediately"]
  <1>1. /\ pc = "cpu" /\ ~Reconfigures(c, control) /\ cnt' = [cnt EXCEPT ![c] = new]
        /\ since_write' = 0 /\ UNCHANGED <<pc, in_loop, run, since_ppu>>
    BY DEF WriteCntH
  <1>2. ~in_loop
    BY <1>1 DEF IInv, Placed
  <1>3. control \in Control
    BY DmaAssumption
  <1>4. new \in Control /\ new.when = control.when /\ new.enabled = control.enabled
    BY <1>3 DEF Control
  <1>5. cnt \in [Channels -> Control] /\ count \in [Channels -> 0..(Modulus - 1)]
    BY DEF IInv, TypeOK
  <1>. HIDE DEF new
  <1>6. /\ cnt' \in [Channels -> Control] /\ cnt'[c] = new
        /\ \A d \in Channels \ {c} : cnt'[d] = cnt[d]
    BY <1>1, <1>4, <1>5
  <1>7. CASE ~control.enabled
    <2>1. /\ scheduled' = Delisted(scheduled, c) /\ running' = Delisted(running, c)
          /\ starts' = WithoutLastEvent(c) /\ count' = count
      BY <1>7 DEF WriteCntH
    <2>2. /\ scheduled' \in Seq(Channels) /\ running' \in Seq(Channels)
          /\ starts' \in Seq([owner : Channels, left : 0..Delay])
          /\ EventsOwned' /\ ListsDisjoint' /\ Timely'
          /\ \A d : Waits(d)' <=> Waits(d) /\ d # c
          /\ \A d : Runs(d)' <=> Runs(d) /\ d # c
      BY <1>1, <1>2, <1>6, <2>1, DisableKeeps
    <2>3. Backed'
      <3>. SUFFICES ASSUME NEW d \in Channels
                    PROVE  /\ Waits(d)' => cnt'[d].enabled
                           /\ Runs(d)' => (cnt'[d].enabled \/ d = 3) /\ count'[d] > 0
                           /\ cnt'[d].enabled => count'[d] > 0
        BY DEF Backed
      <3>1. CASE d = c
        BY <3>1, <2>2, <1>4, <1>6, <1>7
      <3>2. CASE d # c
        BY <3>2, <2>1, <2>2, <1>6 DEF IInv, Backed
      <3>. QED  BY <3>1, <3>2
    <2>4. Placed' /\ TypeOK'
      BY <1>1, <1>2, <1>6, <2>1, <2>2 DEF IInv, Placed, TypeOK, run
    <2>. QED  BY <2>2, <2>3, <2>4 DEF IInv
  <1>8. CASE control.enabled /\ cnt[c].enabled
    <2>1. UNCHANGED <<count, lists>>
      BY <1>8 DEF WriteCntH
    <2>2. cnt'[c].when = cnt[c].when /\ cnt'[c].enabled
      BY <1>1, <1>4, <1>6, <1>8 DEF Reconfigures
    <2>3. EventsOwned' /\ ListsDisjoint'
      BY <2>1 DEF IInv, EventsOwned, ListsDisjoint, Waits, Runs, lists
    <2>4. Backed'
      BY <1>6, <1>8, <2>1, <2>2 DEF IInv, Backed, Waits, Runs, lists
    <2>5. Timely'
      <3>1. \A i \in 1..Len(starts) : FromPpu(cnt', starts[i].owner) <=> FromPpu(cnt, starts[i].owner)
        BY <1>6, <2>2, OwnersWait DEF IInv, FromPpu
      <3>. QED  BY <3>1, <2>1, <1>1 DEF IInv, Timely, lists
    <2>6. Placed' /\ TypeOK'
      BY <1>1, <1>2, <1>6, <2>1 DEF IInv, Placed, TypeOK, run, lists
    <2>. QED  BY <2>3, <2>4, <2>5, <2>6 DEF IInv
  <1>9. CASE control.enabled /\ ~cnt[c].enabled
    <2>. DEFINE channels == IF Triggered(cnt', c, "immediately") THEN <<c>> ELSE <<>>
    <2>1. /\ \E n \in LatchedCounts(c, new) : count' = [count EXCEPT ![c] = n]
          /\ ScheduleAll(cnt', channels)
          /\ running' = running
      BY <1>9 DEF WriteCntH, new
    <2>2. /\ count' \in [Channels -> 0..(Modulus - 1)] /\ count'[c] > 0
          /\ \A d \in Channels \ {c} : count'[d] = count[d]
      <3>1. PICK n \in LatchedCounts(c, new) : count' = [count EXCEPT ![c] = n]
        BY <2>1
      <3>2. n \in 1..15
        BY DmaAssumption DEF LatchedCounts
      <3>. QED  BY <3>1, <3>2, <1>5 DEF Modulus
    <2>3. /\ channels \in Seq(Channels) /\ Injective(channels)
          /\ \A d : Contains(channels, d) <=> d = c /\ Triggered(cnt', c, "immediately")
      BY DEF Injective, Contains
    <2>. HIDE DEF channels
    <2>4. ~Waits(c)
      BY <1>9 DEF IInv, Backed
    <2>5. Triggered(cnt', c, "immediately") => ~Runs(c) /\ ~FromPpu(cnt', c)
      BY DEF Triggered, Runs, FromPpu
    <2>6. /\ scheduled' \in Seq(Channels)
          /\ starts' \in Seq([owner : Channels, left : 0..Delay])
          /\ EventsOwned' /\ ListsDisjoint' /\ Timely'
          /\ \A d : Waits(d)' <=> Waits(d) \/ Contains(channels, d)
      <3>1. \A d \in Channels : Contains(channels, d) => ~Waits(d) /\ ~Runs(d) /\ (FromPpu(cnt', d) => since_ppu' = 0)
        BY <2>3, <2>4, <2>5
      <3>2. \A d \in Channels : Waits(d) => cnt'[d].when = cnt[d].when
        BY <2>4, <1>6
      <3>3. since_ppu \in 0..PpuGap /\ since_ppu' = since_ppu /\ in_loop' = in_loop /\ Timely
        BY <1>1 DEF IInv, TypeOK
      <3>. QED  BY <2>1, <2>3, <3>1, <3>2, <3>3, ScheduleKeeps
    <2>7. Backed'
      <3>. SUFFICES ASSUME NEW d \in Channels
                    PROVE  /\ Waits(d)' => cnt'[d].enabled
                           /\ Runs(d)' => (cnt'[d].enabled \/ d = 3) /\ count'[d] > 0
                           /\ cnt'[d].enabled => count'[d] > 0
        BY DEF Backed
      <3>1. CASE d = c
        BY <3>1, <2>1, <2>2, <1>4, <1>6, <1>9
      <3>2. CASE d # c
        BY <3>2, <2>1, <2>2, <2>3, <2>6, <1>6 DEF IInv, Backed, Runs
      <3>. QED  BY <3>1, <3>2
    <2>8. Placed' /\ TypeOK'
      BY <1>1, <1>2, <1>6, <2>1, <2>2, <2>6 DEF IInv, Placed, TypeOK, run
    <2>. QED  BY <2>6, <2>7, <2>8 DEF IInv
  <1>. QED  BY <1>7, <1>8, <1>9

-----------------------------------------------------------------------------
(* Channels are triggered. *)
(* When the PPU may signal again, none of the channels it triggers still waits. *)
LEMMA NoneFromPpu ==
    ASSUME IInv, since_ppu = PpuGap, NEW d \in Channels, Waits(d)
    PROVE  ~FromPpu(cnt, d)
  <1>1. PICK i \in 1..Len(starts) : starts[i].owner = d
    BY DEF IInv, EventsOwned, Waits, Contains
  <1>2. starts[i].left \in 0..Delay
    BY OwnersWait DEF IInv
  <1>. QED  BY <1>1, <1>2 DEF IInv, Timely, PpuGap, Delay

(* Which channels each kind of request triggers. *)
LEMMA TriggeredSeqEffect ==
    ASSUME NEW timing
    PROVE  /\ TriggeredSeq(cnt, timing) \in Seq(Channels)
           /\ Injective(TriggeredSeq(cnt, timing))
           /\ \A c : Contains(TriggeredSeq(cnt, timing), c) <=> c \in Channels /\ Triggered(cnt, c, timing)
  BY InOrderEffect DEF TriggeredSeq

(* The video channel. *)
LEMMA TriggeredVideoEffect ==
    /\ TriggeredVideo(cnt) \in Seq(Channels)
    /\ Injective(TriggeredVideo(cnt))
    /\ \A c : Contains(TriggeredVideo(cnt), c) => c = 3 /\ c \in Channels /\ Triggered(cnt, c, "special")
  BY DEF TriggeredVideo, Injective, Contains

(* The channels of a sound FIFO. *)
LEMMA TriggeredFifoEffect ==
    ASSUME NEW fifo
    PROVE  /\ TriggeredFifo(cnt, fifo) \in Seq(Channels)
           /\ Injective(TriggeredFifo(cnt, fifo))
           /\ \A c : Contains(TriggeredFifo(cnt, fifo), c) <=>
                c \in Channels /\ c \in {1, 2} /\ FifoOf[c] = fifo /\ Triggered(cnt, c, "special")
  BY InOrderEffect DEF TriggeredFifo

(* Two lists with no channel in common. *)
LEMMA JoinEffect ==
    ASSUME NEW s \in Seq(Channels), NEW t \in Seq(Channels), Injective(s), Injective(t),
           \A c : ~(Contains(s, c) /\ Contains(t, c))
    PROVE  /\ s \o t \in Seq(Channels) /\ Injective(s \o t)
           /\ \A c : Contains(s \o t, c) => Contains(s, c) \/ Contains(t, c)
  <1>. DEFINE n == Len(s)
              m == Len(t)
              u == s \o t
  <1>1. /\ u \in Seq(Channels) /\ Len(u) = n + m /\ n \in Nat /\ m \in Nat
        /\ \A i \in 1..(n + m) : u[i] = IF i <= n THEN s[i] ELSE t[i - n]
    BY ConcatProperties
  <1>. HIDE DEF u
  <1>2. \A i \in 1..(n + m) : IF i <= n THEN u[i] = s[i] /\ Contains(s, u[i])
                                        ELSE i - n \in 1..m /\ u[i] = t[i - n] /\ Contains(t, u[i])
    <2>. SUFFICES ASSUME NEW i \in 1..(n + m)
                  PROVE  IF i <= n THEN u[i] = s[i] /\ Contains(s, u[i])
                                   ELSE i - n \in 1..m /\ u[i] = t[i - n] /\ Contains(t, u[i])
      OBVIOUS
    <2>1. CASE i <= n
      BY <2>1, <1>1 DEF Contains
    <2>2. CASE ~(i <= n)
      <3>1. i - n \in 1..m
        <4>. HIDE DEF n, m
        <4>. QED  BY <2>2, <1>1
      <3>. QED  BY <3>1, <2>2, <1>1 DEF Contains
    <2>. QED  BY <2>1, <2>2
  <1>. HIDE DEF n, m
  <1>3. Injective(u)
    <2>. SUFFICES ASSUME NEW i \in 1..(n + m), NEW j \in 1..(n + m), u[i] = u[j] PROVE i = j
      BY <1>1 DEF Injective
    <2>1. CASE i <= n /\ j <= n
      BY <2>1, <1>1, <1>2 DEF Injective, n
    <2>2. CASE ~(i <= n) /\ ~(j <= n)
      <3>1. i - n = j - n
        BY <2>2, <1>2 DEF Injective, m
      <3>. QED  BY <3>1, <1>1
    <2>. QED  BY <2>1, <2>2, <1>2
  <1>4. \A c : Contains(u, c) => Contains(s, c) \/ Contains(t, c)
    <2>. SUFFICES ASSUME NEW c, Contains(u, c)
                  PROVE  Contains(s, c) \/ Contains(t, c)
      OBVIOUS
    <2>1. PICK i \in 1..(n + m) : u[i] = c
      BY <1>1 DEF Contains
    <2>. QED  BY <2>1, <1>2
  <1>. QED  BY <1>1, <1>3, <1>4 DEF u

(* What is left of a request when the channels it triggers are known. *)
LEMMA RequestKeeps ==
    ASSUME IInv, NEW channels \in Seq(Channels), Injective(channels), ScheduleAll(cnt, channels),
           UNCHANGED <<cnt, count, running, pc, in_loop, run, since_write>>, in_loop,
           \A c \in Channels : Contains(channels, c) =>
                ~Waits(c) /\ ~Runs(c) /\ cnt[c].enabled /\ (FromPpu(cnt, c) => since_ppu' = 0),
           since_ppu' = since_ppu \/ (since_ppu = PpuGap /\ since_ppu' = 0)
    PROVE  IInv'
  <1>1. since_ppu \in 0..PpuGap /\ since_ppu' \in 0..PpuGap
    BY DEF IInv, TypeOK, PpuGap
  <1>2. /\ scheduled' \in Seq(Channels)
        /\ starts' \in Seq([owner : Channels, left : 0..Delay])
        /\ EventsOwned' /\ ListsDisjoint' /\ Timely'
        /\ \A c : Waits(c)' <=> Waits(c) \/ Contains(channels, c)
    BY <1>1, ScheduleKeeps
  <1>3. Backed'
    BY <1>2 DEF IInv, Backed, Runs
  <1>4. Placed' /\ TypeOK'
    BY <1>1, <1>2 DEF IInv, Placed, TypeOK, Runs, run
  <1>. QED  BY <1>2, <1>3, <1>4 DEF IInv

(* The PPU enters vertical blanking, *)
LEMMA OnVblankInv == IInv /\ OnVblank => IInv'
  <1>. SUFFICES ASSUME IInv, OnVblank PROVE IInv'
    OBVIOUS
  <1>1. \A c \in Channels : Triggered(cnt, c, "vblank") =>
            cnt[c].enabled /\ ~Runs(c) /\ FromPpu(cnt, c)
    BY DEF Triggered, Runs, FromPpu
  <1>2. since_ppu = PpuGap /\ since_ppu' = 0 /\ in_loop
        /\ UNCHANGED <<cnt, count, running, pc, in_loop, run, since_write>>
        /\ ScheduleAll(cnt, TriggeredSeq(cnt, "vblank"))
    BY DEF OnVblank, PpuEvent
  <1>3. \A c \in Channels : Triggered(cnt, c, "vblank") => ~Waits(c)
    BY <1>1, <1>2, NoneFromPpu
  <1>. QED  BY <1>1, <1>2, <1>3, TriggeredSeqEffect, RequestKeeps

(* horizontal blanking, *)
LEMMA OnHblankInv ==
    ASSUME IInv, NEW visible \in BOOLEAN, NEW video \in BOOLEAN, OnHblank(visible, video) PROVE IInv'
  <1>. DEFINE s == IF visible THEN TriggeredSeq(cnt, "hblank") ELSE <<>>
              t == IF video THEN TriggeredVideo(cnt) ELSE <<>>
  <1>1. since_ppu = PpuGap /\ since_ppu' = 0 /\ in_loop
        /\ UNCHANGED <<cnt, count, running, pc, in_loop, run, since_write>>
        /\ ScheduleAll(cnt, s \o t)
    BY DEF OnHblank, PpuEvent
  <1>2. <<>> \in Seq(Channels) /\ Injective(<<>>) /\ \A c : ~Contains(<<>>, c)
    BY DEF Injective, Contains
  <1>3. /\ s \in Seq(Channels) /\ Injective(s)
        /\ \A c : Contains(s, c) => c \in Channels /\ Triggered(cnt, c, "hblank")
    BY <1>2, TriggeredSeqEffect
  <1>4. /\ t \in Seq(Channels) /\ Injective(t)
        /\ \A c : Contains(t, c) => c = 3 /\ c \in Channels /\ Triggered(cnt, c, "special")
    BY <1>2, TriggeredVideoEffect
  <1>. HIDE DEF s, t
  <1>5. \A c : ~(Contains(s, c) /\ Contains(t, c))
    BY <1>3, <1>4 DEF Triggered
  <1>6. /\ s \o t \in Seq(Channels) /\ Injective(s \o t)
        /\ \A c : Contains(s \o t, c) => Contains(s, c) \/ Contains(t, c)
    BY <1>3, <1>4, <1>5, JoinEffect
  <1>7. \A c : Contains(s \o t, c) => cnt[c].enabled /\ ~Runs(c) /\ FromPpu(cnt, c) /\ c \in Channels
    BY <1>3, <1>4, <1>6 DEF Triggered, Runs, FromPpu
  <1>8. \A c : Contains(s \o t, c) => ~Waits(c)
    BY <1>1, <1>7, NoneFromPpu
  <1>. QED  BY <1>1, <1>6, <1>7, <1>8, RequestKeeps

(* or the end of the video transfer. *)
LEMMA DisableVideoTransferInv == IInv /\ DisableVideoTransfer => IInv'
  <1>. SUFFICES ASSUME IInv, DisableVideoTransfer PROVE IInv'
    OBVIOUS
  <1>1. /\ since_ppu = PpuGap /\ since_ppu' = 0 /\ in_loop /\ 3 \in Channels
        /\ UNCHANGED <<count, scheduled, starts, running, pc, in_loop, run, since_write>>
        /\ cnt[3].enabled /\ cnt[3].when = "special"
        /\ cnt' = [cnt EXCEPT ![3].enabled = FALSE]
    BY DEF DisableVideoTransfer, PpuEvent
  <1>2. cnt \in [Channels -> Control]
    BY DEF IInv, TypeOK
  <1>3. /\ cnt' \in [Channels -> Control] /\ ~cnt'[3].enabled
        /\ \A c \in Channels \ {3} : cnt'[c] = cnt[c]
        /\ \A c \in Channels : cnt'[c].when = cnt[c].when
    BY <1>1, <1>2 DEF Control
  <1>4. ~Waits(3)
    BY <1>1, NoneFromPpu DEF FromPpu
  <1>5. EventsOwned' /\ ListsDisjoint'
    BY <1>1 DEF IInv, EventsOwned, ListsDisjoint, Waits, Runs
  <1>6. Backed'
    BY <1>1, <1>3, <1>4 DEF IInv, Backed, Waits, Runs
  <1>7. \A i \in 1..Len(starts) : ~FromPpu(cnt', starts[i].owner)
    <2>. SUFFICES ASSUME NEW i \in 1..Len(starts) PROVE ~FromPpu(cnt', starts[i].owner)
      OBVIOUS
    <2>1. starts[i].owner \in Channels /\ Waits(starts[i].owner)
      BY OwnersWait DEF IInv
    <2>2. ~FromPpu(cnt, starts[i].owner)
      BY <2>1, <1>1, NoneFromPpu
    <2>. QED  BY <2>1, <2>2, <1>3 DEF FromPpu
  <1>8. Timely'
    BY <1>1, <1>7 DEF IInv, Timely
  <1>9. Placed' /\ TypeOK'
    BY <1>1, <1>3 DEF IInv, Placed, TypeOK, Runs, run, PpuGap
  <1>. QED  BY <1>5, <1>6, <1>8, <1>9 DEF IInv

(* A timer that feeds the sound FIFOs overflows. *)
LEMMA OnTimerOverflowInv ==
    ASSUME IInv, Disciplined, NEW fifos, OnTimerOverflow(fifos) PROVE IInv'
  <1>. DEFINE s == IF "fifo_a" \in fifos THEN TriggeredFifo(cnt, "fifo_a") ELSE <<>>
              t == IF "fifo_b" \in fifos THEN TriggeredFifo(cnt, "fifo_b") ELSE <<>>
  <1>1. in_loop /\ UNCHANGED <<cnt, count, running, pc, in_loop, run, clocks>>
        /\ (\A c \in {1, 2} : ~Waits(c))
        /\ ScheduleAll(cnt, s \o t)
    BY DEF OnTimerOverflow, SoundSpaced, Waits
  <1>2. <<>> \in Seq(Channels) /\ Injective(<<>>) /\ \A c : ~Contains(<<>>, c)
    BY DEF Injective, Contains
  <1>3. /\ s \in Seq(Channels) /\ Injective(s)
        /\ \A c : Contains(s, c) => c \in Channels /\ c \in {1, 2} /\ FifoOf[c] = "fifo_a" /\ Triggered(cnt, c, "special")
    BY <1>2, TriggeredFifoEffect
  <1>4. /\ t \in Seq(Channels) /\ Injective(t)
        /\ \A c : Contains(t, c) => c \in Channels /\ c \in {1, 2} /\ FifoOf[c] = "fifo_b" /\ Triggered(cnt, c, "special")
    BY <1>2, TriggeredFifoEffect
  <1>. HIDE DEF s, t
  <1>5. \A c : ~(Contains(s, c) /\ Contains(t, c))
    BY <1>3, <1>4
  <1>6. /\ s \o t \in Seq(Channels) /\ Injective(s \o t)
        /\ \A c : Contains(s \o t, c) => Contains(s, c) \/ Contains(t, c)
    BY <1>3, <1>4, <1>5, JoinEffect
  <1>7. \A c : Contains(s \o t, c) =>
            cnt[c].enabled /\ ~Runs(c) /\ ~FromPpu(cnt, c) /\ ~Waits(c)
    <2>. SUFFICES ASSUME NEW c, Contains(s \o t, c)
                  PROVE  cnt[c].enabled /\ ~Runs(c) /\ ~FromPpu(cnt, c) /\ ~Waits(c)
      OBVIOUS
    <2>1. c \in {1, 2} /\ Triggered(cnt, c, "special")
      BY <1>3, <1>4, <1>6
    <2>. QED  BY <2>1, <1>1 DEF Triggered, Runs, FromPpu
  <1>8. UNCHANGED <<cnt, count, running, pc, in_loop, run, since_write>> /\ since_ppu' = since_ppu
    BY <1>1 DEF clocks
  <1>. QED  BY <1>1, <1>6, <1>7, <1>8, RequestKeeps

-----------------------------------------------------------------------------
(* Every step of the controller preserves the invariant. *)
LEMMA NextIInv == ASSUME Disciplined, IInv, [Next]_vars PROVE IInv'
  <1>1. CASE \E c \in Channels : \E control \in Settings[c] : WriteCntH(c, control)
    BY <1>1, WriteCntHInv
  <1>2. CASE CpuAccess
    BY <1>2, CpuAccessInv
  <1>3. CASE SelectChannel
    BY <1>3, SelectChannelInv
  <1>4. CASE RunEnds
    BY <1>4, RunEndsInv
  <1>5. CASE \E c \in 1..MaxTick : AddCycles(c)
    BY <1>5, AddCyclesInv
  <1>6. CASE OnChannelStart
    BY <1>6, OnChannelStartInv
  <1>7. CASE LoopEnds
    BY <1>7, LoopEndsInv
  <1>8. CASE FinishTransfer
    BY <1>8, FinishTransferInv
  <1>9. CASE Request
    BY <1>9, OnVblankInv, OnHblankInv, DisableVideoTransferInv, OnTimerOverflowInv DEF Request
  <1>10. CASE UNCHANGED vars
    BY <1>10 DEF vars, lists, run, clocks, IInv, TypeOK, EventsOwned, ListsDisjoint, Backed, Placed,
              Timely, Waits, Runs, FromPpu
  <1>. QED  BY <1>1, <1>2, <1>3, <1>4, <1>5, <1>6, <1>7, <1>8, <1>9, <1>10 DEF Next

(* The inductive invariant holds in every reachable state. *)
THEOREM Invariance == ASSUME Disciplined PROVE Spec => []IInv
  BY InitIInv, NextIInv, PTL DEF Spec

(* It implies what the runs check. *)
LEMMA IInvGivesLists == IInv => ListsMatchEvents
  <1>. SUFFICES ASSUME IInv PROVE ListsMatchEvents
    OBVIOUS
  <1>1. /\ scheduled \in Seq(Channels) /\ running \in Seq(Channels) /\ Len(scheduled) = Len(starts)
        /\ Injective(scheduled) /\ Injective(running) /\ Len(starts) \in Nat /\ DOMAIN starts = 1..Len(starts)
    BY DescendingInjective DEF IInv, TypeOK, EventsOwned, ListsDisjoint
  <1>2. StartsMatchScheduled
    BY <1>1 DEF IInv, EventsOwned, StartsMatchScheduled
  <1>3. /\ scheduled \o running \in Seq(Channels) /\ Injective(scheduled \o running)
        /\ \A c : Contains(scheduled \o running, c) => Contains(scheduled, c) \/ Contains(running, c)
    <2>1. \A c : ~(Contains(scheduled, c) /\ Contains(running, c))
      BY <1>1 DEF IInv, ListsDisjoint, Waits, Runs, Contains
    <2>. QED  BY <1>1, <2>1, JoinEffect
  <1>4. ListedOnce
    BY <1>3 DEF ListedOnce, IsInjective, Injective
  <1>5. ListedIsEnabled /\ RunningHasWork
    BY <1>3 DEF IInv, Backed, ListedIsEnabled, RunningHasWork, Waits, Runs
  <1>. QED  BY <1>2, <1>4, <1>5 DEF IInv, ListsMatchEvents, ListsConsistent

(* Whatever the order of writes, requests, accesses and start events, the two
   lists and the event queue agree: on_channel_start finds the channel it was
   scheduled for at the front, no channel is listed twice, and a listed channel
   is enabled and has work. *)
THEOREM ListsConsistentWithEvents == ASSUME Disciplined PROVE Spec => []ListsMatchEvents
  BY Invariance, IInvGivesLists, PTL

(* run_channels takes the running channel of the highest priority, although
   channels start and are disabled while a transfer is under way. *)
THEOREM HighestPriorityRuns == ASSUME Disciplined PROVE Spec => PriorityRespected
  <1>1. IInv /\ [Next]_vars =>
            [pc = "run" /\ pc' = "transfer" =>
                \A c \in Channels : Contains(running, c) => active'.channel <= c]_vars
    <2>. SUFFICES ASSUME IInv, Next, pc = "run", pc' = "transfer", NEW c \in Channels, Contains(running, c)
                  PROVE  active'.channel <= c
      BY DEF vars
    <2>1. SelectChannel
      BY DEF Next, WriteCntH, CpuAccess, RunEnds, AddCycles, OnChannelStart, LoopEnds, FinishTransfer,
             Request, OnVblank, OnHblank, DisableVideoTransfer, OnTimerOverflow, PpuEvent
    <2>2. active'.channel = running[Len(running)] /\ running \in Seq(Channels)
      BY <2>1 DEF SelectChannel, Picked, Last, IInv, TypeOK
    <2>3. PICK i \in 1..Len(running) : running[i] = c
      BY DEF Contains
    <2>4. i = Len(running) \/ running[i] > running[Len(running)]
      BY <2>2, <2>3 DEF IInv, ListsDisjoint, Descending
    <2>5. running[i] \in Channels /\ running[Len(running)] \in Channels
      BY <2>2, <2>3
    <2>6. \A d \in Channels : d \in Nat
      BY FewChannels
    <2>. QED  BY <2>2, <2>3, <2>4, <2>5, <2>6
  <1>2. Spec => [](IInv)
    BY Invariance
  <1>. QED  BY <1>1, <1>2, PTL DEF Spec, PriorityRespected
=============================================================================
