--------------------------- MODULE CartridgeProofs ---------------------------
(***************************************************************************)
(* Proofs about the chips of the cartridge.  The state machine of the      *)
(* flash chip implements atomic commands, for memories of any size: the    *)
(* argument needs to know only that the writes of the program are          *)
(* addresses and bytes, and that a chip of one bank never has a bank to    *)
(* select.  The chip that the emulator made is the one of the game that is *)
(* loaded, for any games, files and database.  An EEPROM of any size stays *)
(* in step with the program that sends it requests bit by bit and gives    *)
(* back the words that were written.  The clock and its program understand *)
(* each other, whatever the commands, parameters and times are.            *)
(***************************************************************************)
EXTENDS Flash, Gamepak, Eeprom, Rtc, FiniteSets, FiniteSetTheorems, SequenceTheorems, TLAPS

Writes == [address : Offsets, value : 0..255]

FlashInv ==
    /\ data \in [0..(Banks - 1) -> [Offsets -> 0..255]]
    /\ current_bank \in 0..(Banks - 1)
    /\ current_cmds \subseteq {"device_id", "erase", "write_byte", "select_bank"}
    /\ "select_bank" \in current_cmds => Banks = 2
    /\ sending \in Seq(Writes)

-----------------------------------------------------------------------------
(* The sequences that the program sends consist of addresses and bytes. *)
LEMMA AtTyped ==
    ASSUME NEW address \in Offsets, NEW value \in 0..255
    PROVE  At(address, value) \in Writes
  BY DEF At, Writes

(* So do those of a whole command. *)
LEMMA IssueTyped ==
    ASSUME NEW value \in 0..255
    PROVE  Unlock \in Seq(Writes) /\ Issue(value) \in Seq(Writes)
  <1>1. cmd_addr1 \in Offsets /\ cmd_addr2 \in Offsets
    BY FlashAssumption DEF Offsets
  <1>2. At(cmd_addr1, 170) \in Writes /\ At(cmd_addr2, 85) \in Writes
        /\ At(cmd_addr1, value) \in Writes
    BY <1>1, AtTyped
  <1>3. Unlock \in Seq(Writes) /\ <<At(cmd_addr1, value)>> \in Seq(Writes)
    BY <1>2 DEF Unlock
  <1> QED BY <1>3, ConcatProperties DEF Issue

(* The sectors of a bank start within it. *)
LEMMA SectorStarts ==
    ASSUME NEW a \in Offsets
    PROVE  (a \div SectorSize) * SectorSize \in Offsets
  <1>1. SectorSize \in Nat \ {0} /\ a \in Nat /\ a <= BankSize - 1
    BY FlashAssumption DEF Offsets
  <1>2. \A n \in Nat, d \in Nat \ {0} : n \div d \in Nat /\ (n \div d) * d <= n
                                         /\ (n \div d) * d \in Nat
    OBVIOUS
  <1> QED BY <1>1, <1>2, FlashAssumption DEF Offsets

(* No write, in whatever state of the chip, breaks the invariant. *)
LEMMA WriteFlashInv ==
    ASSUME FlashInv, NEW w \in Writes, Write(w)
    PROVE  /\ data' \in [0..(Banks - 1) -> [Offsets -> 0..255]]
           /\ current_bank' \in 0..(Banks - 1)
           /\ current_cmds' \subseteq {"device_id", "erase", "write_byte", "select_bank"}
           /\ "select_bank" \in current_cmds' => Banks = 2
  <1>0. w.address \in Offsets /\ w.value \in 0..255
    BY DEF Writes
  <1>1. CASE AcceptCmd(w)
    BY <1>1 DEF AcceptCmd, FlashInv
  <1>2. CASE CmdPhase1(w)
    BY <1>2 DEF CmdPhase1, FlashInv
  <1>3. CASE CmdPhase2(w)
    <2>1. CASE Command(w)
      <3>1. AllErased \in [0..(Banks - 1) -> [Offsets -> 0..255]]
        BY DEF AllErased, Erased
      <3>2. /\ FlagsAfter(w.value) \subseteq {"device_id", "erase", "write_byte", "select_bank"}
            /\ "select_bank" \in FlagsAfter(w.value) => Banks = 2
        BY DEF FlagsAfter, FlashInv
      <3> QED BY <2>1, <1>3, <3>1, <3>2 DEF Command, CmdPhase2, FlashInv
    <2>2. CASE EraseSector(w)
      <3>1. SectorErased(w.address) \in [0..(Banks - 1) -> [Offsets -> 0..255]]
        <4> DEFINE erased == [a \in Offsets |->
                IF a \div SectorSize = w.address \div SectorSize THEN 255 ELSE data[current_bank][a]]
        <4>1. data[current_bank] \in [Offsets -> 0..255]
          BY DEF FlashInv
        <4>2. erased \in [Offsets -> 0..255]
          <5> SUFFICES ASSUME NEW a \in Offsets
                       PROVE  (IF a \div SectorSize = w.address \div SectorSize THEN 255
                               ELSE data[current_bank][a]) \in 0..255
            OBVIOUS
          <5>1. data[current_bank][a] \in 0..255
            BY <4>1
          <5> QED BY <5>1
        <4>3. SectorErased(w.address) = [data EXCEPT ![current_bank] = erased]
          BY DEF SectorErased, Erased
        <4> QED BY <4>2, <4>3 DEF FlashInv
      <3> QED BY <2>2, <1>3, <3>1, ZenonT(40) DEF EraseSector, CmdPhase2, FlashInv
    <2> QED BY <1>3, <2>1, <2>2 DEF CmdPhase2
  <1>4. CASE CmdPhase3(w)
    <2>1. CASE Selects(w)
      <3>1. w.value % 2 \in 0..1
        BY <1>0
      <3>2. Banks = 2
        BY <2>1 DEF Selects, FlashInv
      <3>3. /\ UNCHANGED data
            /\ current_bank' = w.value % 2
            /\ current_cmds' = current_cmds \ {"select_bank"}
        BY <1>4, <2>1 DEF CmdPhase3
      <3>4. current_bank' \in 0..(Banks - 1)
        BY <3>1, <3>2, <3>3
      <3>5. data' \in [0..(Banks - 1) -> [Offsets -> 0..255]]
        BY <3>3 DEF FlashInv
      <3>6. current_cmds' \subseteq {"device_id", "erase", "write_byte", "select_bank"}
        BY <3>3 DEF FlashInv
      <3> QED BY <3>2, <3>4, <3>5, <3>6
    <2>2. CASE ~Selects(w)
      <3>1. [data EXCEPT ![current_bank][w.address] = w.value]
              \in [0..(Banks - 1) -> [Offsets -> 0..255]]
        BY <1>0 DEF FlashInv
      <3>2. /\ data' = [data EXCEPT ![current_bank][w.address] = w.value]
            /\ current_cmds' = current_cmds \ {"write_byte"}
            /\ UNCHANGED current_bank
        BY <1>4, <2>2 DEF CmdPhase3
      <3>3. data' \in [0..(Banks - 1) -> [Offsets -> 0..255]]
        BY <3>1, <3>2
      <3>4. /\ current_cmds' \subseteq {"device_id", "erase", "write_byte", "select_bank"}
            /\ "select_bank" \in current_cmds' => Banks = 2
        BY <3>2 DEF FlashInv
      <3> QED BY <3>2, <3>3, <3>4 DEF FlashInv
    <2> QED BY <2>1, <2>2
  <1> QED BY <1>1, <1>2, <1>3, <1>4 DEF Write

(* The program begins a command. *)
LEMMA SendInv ==
    ASSUME FlashInv, NEW writes \in Seq(Writes), NEW meaning, Send(writes, meaning)
    PROVE  FlashInv'
  BY DEF Send, chip, FlashInv, Writes, Offsets

(* Every step preserves the invariant. *)
LEMMA FlashNextInv == FlashInv /\ [Next]_vars => FlashInv'
  <1> SUFFICES ASSUME FlashInv, [Next]_vars PROVE FlashInv'
    OBVIOUS
  <1>1. ASSUME NEW on \in BOOLEAN, SendIdentify(on) PROVE FlashInv'
    <2>1. (IF on THEN 144 ELSE 240) \in 0..255
      OBVIOUS
    <2>2. Issue(IF on THEN 144 ELSE 240) \in Seq(Writes)
      BY <2>1, IssueTyped
    <2> QED BY <1>1, <2>2, SendInv DEF SendIdentify
  <1>2. CASE SendEraseChip
    <2>1. Issue(128) \o Issue(16) \in Seq(Writes)
      BY IssueTyped, ConcatProperties
    <2> QED BY <1>2, <2>1, SendInv DEF SendEraseChip
  <1>3. ASSUME NEW a \in Offsets, SendEraseSector(a \div SectorSize) PROVE FlashInv'
    <2>1. <<At((a \div SectorSize) * SectorSize, 48)>> \in Seq(Writes)
      BY SectorStarts, AtTyped
    <2>2. Issue(128) \o Unlock \o <<At((a \div SectorSize) * SectorSize, 48)>> \in Seq(Writes)
      BY <2>1, IssueTyped, ConcatProperties
    <2> QED BY <1>3, <2>2, SendInv DEF SendEraseSector
  <1>4. ASSUME NEW address \in Offsets, NEW value \in Values, SendWriteByte(address, value)
        PROVE  FlashInv'
    <2>1. <<At(address, value)>> \in Seq(Writes)
      BY AtTyped, FlashAssumption
    <2>2. Issue(160) \o <<At(address, value)>> \in Seq(Writes)
      BY <2>1, IssueTyped, ConcatProperties
    <2> QED BY <1>4, <2>2, SendInv DEF SendWriteByte
  <1>5. ASSUME NEW b \in 0..1, SendSelectBank(b) PROVE FlashInv'
    <2>1. <<At(0, b)>> \in Seq(Writes)
      BY AtTyped, FlashAssumption DEF Offsets
    <2>2. Issue(176) \o <<At(0, b)>> \in Seq(Writes)
      BY <2>1, IssueTyped, ConcatProperties
    <2> QED BY <1>5, <2>2, SendInv DEF SendSelectBank
  <1>6. CASE SendNext
    <2>1. Head(sending) \in Writes /\ Tail(sending) \in Seq(Writes)
      BY <1>6 DEF SendNext, FlashInv
    <2>2. Write(Head(sending)) /\ sending' = Tail(sending)
      BY <1>6 DEF SendNext
    <2>3. Writes' = Writes
      BY DEF Writes, Offsets
    <2> QED BY <2>1, <2>2, <2>3, WriteFlashInv DEF FlashInv, Offsets
  <1>7. CASE UNCHANGED vars
    BY <1>7 DEF vars, chip, FlashInv, Writes, Offsets
  <1> QED BY <1>1, <1>2, <1>3, <1>4, <1>5, <1>6, <1>7 DEF Next

(* An erased chip satisfies it. *)
LEMMA FlashInitInv == Init => FlashInv
  <1> SUFFICES ASSUME Init PROVE FlashInv
    OBVIOUS
  <1>1. sending \in Seq(Writes)
    BY DEF Init
  <1> QED BY <1>1, FlashAssumption DEF Init, FlashInv, AllErased, Erased

-----------------------------------------------------------------------------
(* What a write does to the memory, the bank and the mode is one command of
   the abstract chip or nothing. *)
LEMMA WriteSimulates ==
    ASSUME FlashInv, NEW w \in Writes, Write(w)
    PROVE  [Chip!Next]_(Chip!vars)
  <1> USE DEF Chip!vars, Chip!Offsets, Offsets
  <1>0. w.address \in Offsets /\ w.value \in 0..255
    BY DEF Writes
  <1>1. CASE AcceptCmd(w)
    BY <1>1 DEF AcceptCmd, IdentifyMode
  <1>2. CASE CmdPhase1(w)
    BY <1>2 DEF CmdPhase1, IdentifyMode
  <1>3. CASE CmdPhase2(w)
    <2>1. UNCHANGED current_bank
      BY <1>3 DEF CmdPhase2
    <2>2. CASE Command(w)
      <3>1. CASE w.value \in {144, 240}
        <4>1. IdentifyMode' = (w.value = 144)
          BY <2>2, <3>1 DEF Command, FlagsAfter, IdentifyMode
        <4>2. UNCHANGED data
          BY <2>2, <3>1 DEF Command
        <4>3. Chip!Identify(w.value = 144)
          BY <2>1, <4>1, <4>2 DEF Chip!Identify
        <4>4. (w.value = 144) \in BOOLEAN
          OBVIOUS
        <4> QED BY <4>3, <4>4 DEF Chip!Next
      <3>2. CASE w.value \notin {144, 240}
        <4>1. UNCHANGED IdentifyMode
          BY <2>2, <3>2 DEF Command, FlagsAfter, IdentifyMode
        <4>2. CASE data' = AllErased
          BY <2>1, <4>1, <4>2 DEF Chip!Next, Chip!EraseChip, AllErased
        <4>3. CASE data' = data
          BY <2>1, <4>1, <4>3
        <4> QED BY <2>2, <4>2, <4>3 DEF Command
      <3> QED BY <3>1, <3>2
    <2>3. CASE EraseSector(w)
      <3>1. UNCHANGED IdentifyMode
        BY <2>3 DEF EraseSector, IdentifyMode
      <3>2. CASE data' = SectorErased(w.address)
        <4>1. Chip!EraseSector(w.address \div SectorSize)
          BY <2>1, <3>1, <3>2 DEF Chip!EraseSector, SectorErased
        <4> QED BY <1>0, <4>1 DEF Chip!Next
      <3>3. CASE UNCHANGED data
        BY <2>1, <3>1, <3>3
      <3> QED BY <2>3, <3>2, <3>3 DEF EraseSector
    <2> QED BY <1>3, <2>2, <2>3 DEF CmdPhase2
  <1>4. CASE CmdPhase3(w)
    <2>1. UNCHANGED IdentifyMode
      BY <1>4 DEF CmdPhase3, IdentifyMode
    <2>2. CASE Selects(w)
      <3>1. w.value % 2 \in 0..(Banks - 1)
        <4>1. Banks = 2
          BY <2>2 DEF Selects, FlashInv
        <4>2. w.value % 2 \in 0..1
          BY <1>0
        <4> QED BY <4>1, <4>2
      <3>2. Chip!SelectBank(w.value % 2)
        BY <1>4, <2>1, <2>2 DEF CmdPhase3, Chip!SelectBank
      <3> QED BY <3>1, <3>2 DEF Chip!Next
    <2>3. CASE ~Selects(w)
      <3>1. Chip!WriteByte(w.address, w.value)
        BY <1>4, <2>1, <2>3 DEF CmdPhase3, Chip!WriteByte
      <3> QED BY <1>0, <3>1 DEF Chip!Next
    <2> QED BY <2>2, <2>3
  <1> QED BY <1>1, <1>2, <1>3, <1>4 DEF Write

(* Beginning a command changes nothing that the abstract chip has. *)
LEMMA SendStutters ==
    ASSUME NEW writes, NEW meaning, Send(writes, meaning)
    PROVE  UNCHANGED Chip!vars
  BY DEF Send, chip, Chip!vars, IdentifyMode

(* Every step is one of the abstract chip, or a stutter. *)
LEMMA FlashSimulates == FlashInv /\ [Next]_vars => [Chip!Next]_(Chip!vars)
  <1> SUFFICES ASSUME FlashInv, [Next]_vars PROVE [Chip!Next]_(Chip!vars)
    OBVIOUS
  <1>1. CASE \/ \E on \in BOOLEAN : SendIdentify(on)
             \/ SendEraseChip
             \/ \E sector \in {a \div SectorSize : a \in Offsets} : SendEraseSector(sector)
             \/ \E address \in Offsets, value \in Values : SendWriteByte(address, value)
             \/ \E b \in 0..1 : SendSelectBank(b)
    BY <1>1, SendStutters
    DEF SendIdentify, SendEraseChip, SendEraseSector, SendWriteByte, SendSelectBank
  <1>2. CASE SendNext
    <2>1. Head(sending) \in Writes /\ Write(Head(sending))
      BY <1>2 DEF SendNext, FlashInv
    <2> QED BY <2>1, WriteSimulates
  <1>3. CASE UNCHANGED vars
    BY <1>3 DEF vars, chip, Chip!vars, IdentifyMode
  <1> QED BY <1>1, <1>2, <1>3 DEF Next

-----------------------------------------------------------------------------
(* The bank that is selected exists, the memory keeps its shape, and a chip of
   one bank never waits for a bank. *)
THEOREM FlashInvariance == Spec => []FlashInv
  <1>1. Init => FlashInv
    BY FlashInitInv
  <1>2. FlashInv /\ [Next]_vars => FlashInv'
    BY FlashNextInv
  <1> QED BY <1>1, <1>2, PTL DEF Spec

(* backup_flash::write implements the abstract chip, whose commands take effect
   at once: no write but the last one of a command changes the memory, the
   bank or the mode. *)
THEOREM FlashRefinement == Spec => ImplementsFlashChip
  <1>1. Init => Chip!Init
    BY DEF Init, Chip!Init, AllErased, Chip!Offsets, Offsets, IdentifyMode
  <1>2. FlashInv /\ [Next]_vars => [Chip!Next]_(Chip!vars)
    BY FlashSimulates
  <1> QED BY <1>1, <1>2, FlashInvariance, PTL DEF Spec, ImplementsFlashChip, Chip!Spec

-----------------------------------------------------------------------------
(* The commands of the flash chip. *)
(* What the program may want. *)
Memories == [0..(Banks - 1) -> [Offsets -> 0..255]]
Wants == [memory : Memories, bank : 0..(Banks - 1), identify : BOOLEAN]

(* The memory after a sector is erased, and after a byte is stored. *)
ErasedIn(sector) ==
    [data EXCEPT ![current_bank] =
        [a \in Offsets |-> IF a \div SectorSize = sector THEN Erased ELSE data[current_bank][a]]]
Stored(address, value) == [data EXCEPT ![current_bank][address] = value]

(* The program wants this memory and bank, and the mode that it has. *)
Meant(m, b) ==
    wanted.memory = m /\ wanted.bank = b /\ (wanted.identify <=> "device_id" \in current_cmds)

(* The flags between two commands, and in the middle of one. *)
Calm == current_cmds \subseteq {"device_id"}
With(flag) == flag \in current_cmds /\ current_cmds \subseteq {"device_id", flag}

(* The two unlocking writes, and the one that names a command. *)
First == At(cmd_addr1, 170)
Second == At(cmd_addr2, 85)
Code(value) == At(cmd_addr1, value)

(* How far an unlocking sequence has come, before one, two or four more writes. *)
Unlocking1(a) ==
    \/ state = "accept_cmd" /\ sending = <<First, Second, a>>
    \/ state = "cmd_phase1" /\ sending = <<Second, a>>
    \/ state = "cmd_phase2" /\ sending = <<a>>

Unlocking2(a, b) ==
    \/ state = "accept_cmd" /\ sending = <<First, Second, a, b>>
    \/ state = "cmd_phase1" /\ sending = <<Second, a, b>>
    \/ state = "cmd_phase2" /\ sending = <<a, b>>

Unlocking4(a, b) ==
    \/ state = "accept_cmd" /\ sending = <<First, Second, a, First, Second, b>>
    \/ state = "cmd_phase1" /\ sending = <<Second, a, First, Second, b>>
    \/ state = "cmd_phase2" /\ sending = <<a, First, Second, b>>

Sectors == {a \div SectorSize : a \in Offsets}

(* How far the program has come with each command, and what is to come of it. *)
Resting == sending = <<>> /\ state = "accept_cmd" /\ Calm /\ Meant(data, current_bank)
Identifying ==
    /\ Calm /\ wanted.memory = data /\ wanted.bank = current_bank
    /\ \/ wanted.identify /\ Unlocking1(Code(144))
       \/ ~wanted.identify /\ Unlocking1(Code(240))
ErasingChip ==
    /\ Meant(AllErased, current_bank)
    /\ \/ Calm /\ Unlocking4(Code(128), Code(16))
       \/ With("erase") /\ Unlocking1(Code(16))
ErasingSector ==
    \E sector \in Sectors :
        /\ Meant(ErasedIn(sector), current_bank)
        /\ \/ Calm /\ Unlocking4(Code(128), At(sector * SectorSize, 48))
           \/ With("erase") /\ Unlocking1(At(sector * SectorSize, 48))
Storing ==
    \E address \in Offsets, value \in Values :
        /\ Meant(Stored(address, value), current_bank)
        /\ \/ Calm /\ Unlocking2(Code(160), At(address, value))
           \/ With("write_byte") /\ state = "cmd_phase3" /\ sending = <<At(address, value)>>
Selecting ==
    \E b \in 0..1 :
        /\ Meant(data, IF Banks = 2 THEN b ELSE current_bank)
        /\ \/ Calm /\ Unlocking2(Code(176), At(0, b))
           \/ Banks = 2 /\ With("select_bank") /\ state = "cmd_phase3" /\ sending = <<At(0, b)>>
           \/ Banks = 1 /\ Calm /\ state = "accept_cmd" /\ sending = <<At(0, b)>>

(* It is somewhere in one command, and nothing else is under way in the chip. *)
ObeyInv ==
    /\ wanted \in Wants
    /\ \/ Resting \/ Identifying \/ ErasingChip \/ ErasingSector \/ Storing \/ Selecting
-----------------------------------------------------------------------------
(* The heads and tails of the sequences that the program sends. *)
LEMMA Rows ==
    ASSUME NEW a, NEW b, NEW c, NEW d, NEW e, NEW f
    PROVE  /\ Head(<<a>>) = a /\ Tail(<<a>>) = <<>>
           /\ Head(<<a, b>>) = a /\ Tail(<<a, b>>) = <<b>>
           /\ Head(<<a, b, c>>) = a /\ Tail(<<a, b, c>>) = <<b, c>>
           /\ Head(<<a, b, c, d>>) = a /\ Tail(<<a, b, c, d>>) = <<b, c, d>>
           /\ Head(<<a, b, c, d, e>>) = a /\ Tail(<<a, b, c, d, e>>) = <<b, c, d, e>>
           /\ Head(<<a, b, c, d, e, f>>) = a /\ Tail(<<a, b, c, d, e, f>>) = <<b, c, d, e, f>>
  <1>1. Head(<<a>>) = a /\ Tail(<<a>>) = <<>>
    OBVIOUS
  <1>2. Head(<<a, b>>) = a /\ Tail(<<a, b>>) = <<b>>
    OBVIOUS
  <1>3. Head(<<a, b, c>>) = a /\ Tail(<<a, b, c>>) = <<b, c>>
    OBVIOUS
  <1>4. Head(<<a, b, c, d>>) = a /\ Tail(<<a, b, c, d>>) = <<b, c, d>>
    OBVIOUS
  <1>5. Head(<<a, b, c, d, e>>) = a /\ Tail(<<a, b, c, d, e>>) = <<b, c, d, e>>
    OBVIOUS
  <1>6. Head(<<a, b, c, d, e, f>>) = a /\ Tail(<<a, b, c, d, e, f>>) = <<b, c, d, e, f>>
    OBVIOUS
  <1>. QED  BY <1>1, <1>2, <1>3, <1>4, <1>5, <1>6

(* A sequence is the concatenation of two when it has their members. *)
LEMMA Joined ==
    ASSUME NEW S, NEW s \in Seq(S), NEW t \in Seq(S), NEW u \in Seq(S),
           Len(u) = Len(s) + Len(t), \A i \in 1..Len(s) : u[i] = s[i],
           \A i \in 1..Len(t) : u[Len(s) + i] = t[i]
    PROVE  s \o t = u
  <1>. DEFINE x == s \o t
  <1>1. /\ x \in Seq(S) /\ Len(x) = Len(s) + Len(t)
        /\ \A i \in 1..(Len(s) + Len(t)) : x[i] = IF i <= Len(s) THEN s[i] ELSE t[i - Len(s)]
    BY ConcatProperties
  <1>. HIDE DEF x
  <1>2. ASSUME NEW i \in 1..Len(x) PROVE x[i] = u[i]
    <2>. DEFINE m == Len(s)
                n == Len(t)
    <2>1. m \in Nat /\ n \in Nat /\ i \in Int /\ i >= 1 /\ i <= m + n
      BY <1>1
    <2>2. CASE i <= m
      BY <1>1, <1>2, <2>1, <2>2
    <2>3. CASE i > m
      <3>. DEFINE k == i - m
      <3>1. k \in 1..n /\ m + k = i
        BY <2>1, <2>3
      <3>2. x[i] = t[k]
        BY <1>1, <2>1, <2>3
      <3>3. \A j \in 1..n : u[m + j] = t[j]
        OBVIOUS
      <3>. HIDE DEF k, m, n
      <3>4. u[m + k] = t[k]
        BY <3>1, <3>3
      <3>. QED  BY <3>1, <3>2, <3>4
    <2>. QED  BY <2>1, <2>2, <2>3
  <1>3. x = u
    BY <1>1, <1>2, SeqEqual
  <1>. QED  BY <1>3 DEF x

(* The concatenations that its commands are. *)
LEMMA Joins ==
    /\ \A a, b, c : <<a, b>> \o <<c>> = <<a, b, c>>
    /\ \A a, b, c, d : <<a, b, c>> \o <<d>> = <<a, b, c, d>>
    /\ \A a, b, c, d, e : <<a, b, c>> \o <<d, e>> = <<a, b, c, d, e>>
    /\ \A a, b, c, d, e, f : <<a, b, c>> \o <<d, e, f>> = <<a, b, c, d, e, f>>
    /\ \A a, b, c, d, e, f : <<a, b, c, d, e>> \o <<f>> = <<a, b, c, d, e, f>>
  <1>1. \A a, b, c : <<a, b>> \o <<c>> = <<a, b, c>>
    <2>. TAKE a, b, c
    <2>. DEFINE S == {a, b, c}
                s == <<a, b>>
                t == <<c>>
                u == <<a, b, c>>
    <2>1. /\ s \in Seq(S) /\ t \in Seq(S) /\ u \in Seq(S)
          /\ Len(s) = 2 /\ Len(t) = 1 /\ Len(u) = 3
      OBVIOUS
    <2>2. u[1] = s[1] /\ u[2] = s[2] /\ u[3] = t[1]
      OBVIOUS
    <2>. HIDE DEF s, t, u, S
    <2>3. Len(u) = Len(s) + Len(t)
      BY <2>1
    <2>4. (\A i \in 1..Len(s) : u[i] = s[i]) /\ (\A i \in 1..Len(t) : u[Len(s) + i] = t[i])
      BY <2>1, <2>2
    <2>5. s \o t = u
      BY <2>1, <2>3, <2>4, Joined, Zenon
    <2>. QED  BY <2>5 DEF s, t, u
  <1>2. \A a, b, c, d : <<a, b, c>> \o <<d>> = <<a, b, c, d>>
    <2>. TAKE a, b, c, d
    <2>. DEFINE S == {a, b, c, d}
                s == <<a, b, c>>
                t == <<d>>
                u == <<a, b, c, d>>
    <2>1. /\ s \in Seq(S) /\ t \in Seq(S) /\ u \in Seq(S)
          /\ Len(s) = 3 /\ Len(t) = 1 /\ Len(u) = 4
      OBVIOUS
    <2>2. u[1] = s[1] /\ u[2] = s[2] /\ u[3] = s[3] /\ u[4] = t[1]
      OBVIOUS
    <2>. HIDE DEF s, t, u, S
    <2>3. Len(u) = Len(s) + Len(t)
      BY <2>1
    <2>4. (\A i \in 1..Len(s) : u[i] = s[i]) /\ (\A i \in 1..Len(t) : u[Len(s) + i] = t[i])
      BY <2>1, <2>2
    <2>5. s \o t = u
      BY <2>1, <2>3, <2>4, Joined, Zenon
    <2>. QED  BY <2>5 DEF s, t, u
  <1>3. \A a, b, c, d, e : <<a, b, c>> \o <<d, e>> = <<a, b, c, d, e>>
    <2>. TAKE a, b, c, d, e
    <2>. DEFINE S == {a, b, c, d, e}
                s == <<a, b, c>>
                t == <<d, e>>
                u == <<a, b, c, d, e>>
    <2>1. /\ s \in Seq(S) /\ t \in Seq(S) /\ u \in Seq(S)
          /\ Len(s) = 3 /\ Len(t) = 2 /\ Len(u) = 5
      OBVIOUS
    <2>2. u[1] = s[1] /\ u[2] = s[2] /\ u[3] = s[3] /\ u[4] = t[1] /\ u[5] = t[2]
      OBVIOUS
    <2>. HIDE DEF s, t, u, S
    <2>3. Len(u) = Len(s) + Len(t)
      BY <2>1
    <2>4. (\A i \in 1..Len(s) : u[i] = s[i]) /\ (\A i \in 1..Len(t) : u[Len(s) + i] = t[i])
      BY <2>1, <2>2
    <2>5. s \o t = u
      BY <2>1, <2>3, <2>4, Joined, Zenon
    <2>. QED  BY <2>5 DEF s, t, u
  <1>4. \A a, b, c, d, e, f : <<a, b, c>> \o <<d, e, f>> = <<a, b, c, d, e, f>>
    <2>. TAKE a, b, c, d, e, f
    <2>. DEFINE S == {a, b, c, d, e, f}
                s == <<a, b, c>>
                t == <<d, e, f>>
                u == <<a, b, c, d, e, f>>
    <2>1. /\ s \in Seq(S) /\ t \in Seq(S) /\ u \in Seq(S)
          /\ Len(s) = 3 /\ Len(t) = 3 /\ Len(u) = 6
      OBVIOUS
    <2>2. u[1] = s[1] /\ u[2] = s[2] /\ u[3] = s[3] /\ u[4] = t[1] /\ u[5] = t[2] /\ u[6] = t[3]
      OBVIOUS
    <2>. HIDE DEF s, t, u, S
    <2>3. Len(u) = Len(s) + Len(t)
      BY <2>1
    <2>4. (\A i \in 1..Len(s) : u[i] = s[i]) /\ (\A i \in 1..Len(t) : u[Len(s) + i] = t[i])
      BY <2>1, <2>2
    <2>5. s \o t = u
      BY <2>1, <2>3, <2>4, Joined, Zenon
    <2>. QED  BY <2>5 DEF s, t, u
  <1>5. \A a, b, c, d, e, f : <<a, b, c, d, e>> \o <<f>> = <<a, b, c, d, e, f>>
    <2>. TAKE a, b, c, d, e, f
    <2>. DEFINE S == {a, b, c, d, e, f}
                s == <<a, b, c, d, e>>
                t == <<f>>
                u == <<a, b, c, d, e, f>>
    <2>1. /\ s \in Seq(S) /\ t \in Seq(S) /\ u \in Seq(S)
          /\ Len(s) = 5 /\ Len(t) = 1 /\ Len(u) = 6
      OBVIOUS
    <2>2. u[1] = s[1] /\ u[2] = s[2] /\ u[3] = s[3] /\ u[4] = s[4] /\ u[5] = s[5] /\ u[6] = t[1]
      OBVIOUS
    <2>. HIDE DEF s, t, u, S
    <2>3. Len(u) = Len(s) + Len(t)
      BY <2>1
    <2>4. (\A i \in 1..Len(s) : u[i] = s[i]) /\ (\A i \in 1..Len(t) : u[Len(s) + i] = t[i])
      BY <2>1, <2>2
    <2>5. s \o t = u
      BY <2>1, <2>3, <2>4, Joined, Zenon
    <2>. QED  BY <2>5 DEF s, t, u
  <1>. QED  BY <1>1, <1>2, <1>3, <1>4, <1>5

(* The writes of each command, one by one. *)
LEMMA IssueRow ==
    ASSUME NEW value, NEW last, NEW other
    PROVE  /\ Issue(value) = <<First, Second, Code(value)>>
           /\ Issue(value) \o <<last>> = <<First, Second, Code(value), last>>
           /\ Issue(value) \o Unlock \o <<last>> = <<First, Second, Code(value), First, Second, last>>
           /\ Issue(value) \o Issue(other) =
                 <<First, Second, Code(value), First, Second, Code(other)>>
  <1>. DEFINE c == Code(value)
              d == Code(other)
              a == First
              b == Second
  <1>1. Unlock = <<a, b>>
    BY DEF Unlock, First, Second
  <1>2. Issue(value) = Unlock \o <<c>> /\ Issue(other) = Unlock \o <<d>>
    BY DEF Issue, Code
  <1>. HIDE DEF a, b, c, d
  <1>3. Issue(value) = <<a, b, c>> /\ Issue(other) = <<a, b, d>>
    BY <1>1, <1>2, Joins, Zenon
  <1>4. Issue(value) \o <<last>> = <<a, b, c, last>>
    <2>1. <<a, b, c>> \o <<last>> = <<a, b, c, last>>
      BY Joins
    <2>. QED  BY <1>3, <2>1
  <1>5. Issue(value) \o Issue(other) = <<a, b, c, a, b, d>>
    <2>1. <<a, b, c>> \o <<a, b, d>> = <<a, b, c, a, b, d>>
      BY Joins
    <2>. QED  BY <1>3, <2>1
  <1>6. Issue(value) \o Unlock = <<a, b, c, a, b>>
    <2>1. <<a, b, c>> \o <<a, b>> = <<a, b, c, a, b>>
      BY Joins
    <2>. QED  BY <1>1, <1>3, <2>1
  <1>7. Issue(value) \o Unlock \o <<last>> = <<a, b, c, a, b, last>>
    <2>1. <<a, b, c, a, b>> \o <<last>> = <<a, b, c, a, b, last>>
      BY Joins
    <2>. QED  BY <1>6, <2>1
  <1>. QED  BY <1>3, <1>4, <1>5, <1>7 DEF a, b, c, d

(* The first address of a sector names it, and names no command. *)
LEMMA SectorStart ==
    ASSUME NEW sector \in Sectors
    PROVE  LET start == sector * SectorSize
           IN  /\ start \in Offsets /\ start % SectorSize = 0 /\ start \div SectorSize = sector
               /\ start # cmd_addr1 /\ sector \in Nat
  <1>1. PICK a \in Offsets : sector = a \div SectorSize
    BY DEF Sectors
  <1>2. sector \in Nat /\ SectorSize \in Nat \ {0}
    BY <1>1, FlashAssumption DEF Offsets
  <1>3. sector * SectorSize \in Offsets
    BY <1>1, SectorStarts
  <1>4. \A n \in Nat, d \in Nat \ {0} : (n * d) % d = 0 /\ (n * d) \div d = n
    OBVIOUS
  <1>. QED  BY <1>2, <1>3, <1>4, FlashAssumption
-----------------------------------------------------------------------------
(* What each write of a command does. *)
LEMMA UnlockWrites ==
    ASSUME NEW w, Write(w)
    PROVE  /\ state = "accept_cmd" /\ w = First =>
                  state' = "cmd_phase1" /\ UNCHANGED <<data, current_bank, current_cmds>>
           /\ state = "cmd_phase1" /\ w = Second =>
                  state' = "cmd_phase2" /\ UNCHANGED <<data, current_bank, current_cmds>>
  BY DEF Write, AcceptCmd, CmdPhase1, CmdPhase2, CmdPhase3, First, Second

(* The third write of a sequence. *)
LEMMA CodeWrite ==
    ASSUME NEW value, state = "cmd_phase2", Write(Code(value))
    PROVE  /\ current_cmds' = FlagsAfter(value)
           /\ state' = IF value = 160 \/ (value = 176 /\ Banks = 2) THEN "cmd_phase3" ELSE "accept_cmd"
           /\ data' = IF value = 16 /\ "erase" \in current_cmds THEN AllErased ELSE data
           /\ current_bank' = current_bank
  <1>1. CmdPhase2(Code(value))
    BY DEF Write, AcceptCmd, CmdPhase1, CmdPhase3
  <1>2. Code(value).address = cmd_addr1 /\ Code(value).value = value
    BY DEF Code, At
  <1>3. Command(Code(value)) /\ current_bank' = current_bank
    BY <1>1, <1>2 DEF CmdPhase2, EraseSector
  <1>. QED  BY <1>2, <1>3 DEF Command

(* The last write of an erase of a sector. *)
LEMMA SectorWrite ==
    ASSUME NEW sector \in Sectors, state = "cmd_phase2", "erase" \in current_cmds,
           Write(At(sector * SectorSize, 48))
    PROVE  /\ current_cmds' = current_cmds \ {"erase"}
           /\ state' = "accept_cmd"
           /\ data' = ErasedIn(sector)
           /\ current_bank' = current_bank
  <1>. DEFINE w == At(sector * SectorSize, 48)
              start == sector * SectorSize
  <1>1. start % SectorSize = 0 /\ start \div SectorSize = sector /\ start # cmd_addr1
    BY SectorStart
  <1>2. w.address = start /\ w.value = 48
    BY DEF At
  <1>3. CmdPhase2(w)
    BY DEF Write, AcceptCmd, CmdPhase1, CmdPhase3
  <1>. HIDE DEF w, start
  <1>4. EraseSector(w) /\ current_bank' = current_bank
    BY <1>1, <1>2, <1>3 DEF CmdPhase2, Command
  <1>5. data' = SectorErased(start) /\ current_cmds' = current_cmds \ {"erase"} /\ state' = "accept_cmd"
    BY <1>1, <1>2, <1>4 DEF EraseSector
  <1>6. SectorErased(start) = ErasedIn(sector)
    BY <1>1 DEF SectorErased, ErasedIn
  <1>. QED  BY <1>4, <1>5, <1>6

(* The write that completes a command in the third phase. *)
LEMMA LastWrite ==
    ASSUME NEW address, NEW value, state = "cmd_phase3", Write(At(address, value))
    PROVE  /\ state' = "accept_cmd"
           /\ "select_bank" \in current_cmds /\ address = 0 =>
                  /\ current_bank' = value % 2 /\ data' = data
                  /\ current_cmds' = current_cmds \ {"select_bank"}
           /\ "select_bank" \notin current_cmds =>
                  /\ data' = Stored(address, value) /\ current_bank' = current_bank
                  /\ current_cmds' = current_cmds \ {"write_byte"}
  <1>. DEFINE w == At(address, value)
  <1>1. CmdPhase3(w)
    BY DEF Write, AcceptCmd, CmdPhase1, CmdPhase2
  <1>2. w.address = address /\ w.value = value
    BY DEF At
  <1>. HIDE DEF w
  <1>. QED  BY <1>1, <1>2 DEF CmdPhase3, Selects, Stored

(* An unlocking sequence goes on, or its command is next. *)
LEMMA Unlock1 ==
    ASSUME NEW a, SendNext, Unlocking1(a)
    PROVE  \/ Unlocking1(a)' /\ UNCHANGED <<data, current_bank, current_cmds, wanted>>
           \/ state = "cmd_phase2" /\ Write(a) /\ sending' = <<>> /\ wanted' = wanted
  <1>1. Write(Head(sending)) /\ sending' = Tail(sending) /\ wanted' = wanted
    BY DEF SendNext
  <1>2. CASE state = "accept_cmd" /\ sending = <<First, Second, a>>
    <2>1. Head(sending) = First /\ sending' = <<Second, a>>
      BY <1>1, <1>2, Rows
    <2>2. state' = "cmd_phase1" /\ UNCHANGED <<data, current_bank, current_cmds>>
      BY <1>1, <1>2, <2>1, UnlockWrites
    <2>. QED  BY <1>1, <2>1, <2>2 DEF Unlocking1, Second, At
  <1>3. CASE state = "cmd_phase1" /\ sending = <<Second, a>>
    <2>1. Head(sending) = Second /\ sending' = <<a>>
      BY <1>1, <1>3, Rows
    <2>2. state' = "cmd_phase2" /\ UNCHANGED <<data, current_bank, current_cmds>>
      BY <1>1, <1>3, <2>1, UnlockWrites
    <2>. QED  BY <1>1, <2>1, <2>2 DEF Unlocking1
  <1>4. CASE state = "cmd_phase2" /\ sending = <<a>>
    BY <1>1, <1>4, Rows
  <1>. QED  BY <1>2, <1>3, <1>4 DEF Unlocking1

(* So does one that is two writes longer or shorter. *)
LEMMA Unlock2 ==
    ASSUME NEW a, NEW b, SendNext, Unlocking2(a, b)
    PROVE  \/ Unlocking2(a, b)' /\ UNCHANGED <<data, current_bank, current_cmds, wanted>>
           \/ state = "cmd_phase2" /\ Write(a) /\ sending' = <<b>> /\ wanted' = wanted
  <1>1. Write(Head(sending)) /\ sending' = Tail(sending) /\ wanted' = wanted
    BY DEF SendNext
  <1>2. CASE state = "accept_cmd" /\ sending = <<First, Second, a, b>>
    <2>1. Head(sending) = First /\ sending' = <<Second, a, b>>
      BY <1>1, <1>2, Rows
    <2>2. state' = "cmd_phase1" /\ UNCHANGED <<data, current_bank, current_cmds>>
      BY <1>1, <1>2, <2>1, UnlockWrites
    <2>. QED  BY <1>1, <2>1, <2>2 DEF Unlocking2, Second, At
  <1>3. CASE state = "cmd_phase1" /\ sending = <<Second, a, b>>
    <2>1. Head(sending) = Second /\ sending' = <<a, b>>
      BY <1>1, <1>3, Rows
    <2>2. state' = "cmd_phase2" /\ UNCHANGED <<data, current_bank, current_cmds>>
      BY <1>1, <1>3, <2>1, UnlockWrites
    <2>. QED  BY <1>1, <2>1, <2>2 DEF Unlocking2
  <1>4. CASE state = "cmd_phase2" /\ sending = <<a, b>>
    BY <1>1, <1>4, Rows
  <1>. QED  BY <1>2, <1>3, <1>4 DEF Unlocking2

(* So does the first of two. *)
LEMMA Unlock4 ==
    ASSUME NEW a, NEW b, SendNext, Unlocking4(a, b)
    PROVE  \/ Unlocking4(a, b)' /\ UNCHANGED <<data, current_bank, current_cmds, wanted>>
           \/ state = "cmd_phase2" /\ Write(a) /\ sending' = <<First, Second, b>> /\ wanted' = wanted
  <1>1. Write(Head(sending)) /\ sending' = Tail(sending) /\ wanted' = wanted
    BY DEF SendNext
  <1>2. CASE state = "accept_cmd" /\ sending = <<First, Second, a, First, Second, b>>
    <2>1. Head(sending) = First /\ sending' = <<Second, a, First, Second, b>>
      BY <1>1, <1>2, Rows
    <2>2. state' = "cmd_phase1" /\ UNCHANGED <<data, current_bank, current_cmds>>
      BY <1>1, <1>2, <2>1, UnlockWrites
    <2>. QED  BY <1>1, <2>1, <2>2 DEF Unlocking4, First, Second, At
  <1>3. CASE state = "cmd_phase1" /\ sending = <<Second, a, First, Second, b>>
    <2>1. Head(sending) = Second /\ sending' = <<a, First, Second, b>>
      BY <1>1, <1>3, Rows
    <2>2. state' = "cmd_phase2" /\ UNCHANGED <<data, current_bank, current_cmds>>
      BY <1>1, <1>3, <2>1, UnlockWrites
    <2>. QED  BY <1>1, <2>1, <2>2 DEF Unlocking4, First, Second, At
  <1>4. CASE state = "cmd_phase2" /\ sending = <<a, First, Second, b>>
    BY <1>1, <1>4, Rows
  <1>. QED  BY <1>2, <1>3, <1>4 DEF Unlocking4
-----------------------------------------------------------------------------
(* Each command, write by write, up to its effect. *)
LEMMA IdentifyObeys == ObeyInv /\ Identifying /\ SendNext => ObeyInv'
  <1>. SUFFICES ASSUME ObeyInv, Identifying, SendNext PROVE ObeyInv'
    OBVIOUS
  <1>1. ASSUME NEW value \in {144, 240}, wanted.identify <=> value = 144, Unlocking1(Code(value))
        PROVE  ObeyInv'
    <2>1. CASE Unlocking1(Code(value))' /\ UNCHANGED <<data, current_bank, current_cmds, wanted>>
      BY <1>1, <2>1 DEF ObeyInv, Wants, Memories, Offsets, Identifying, Calm
    <2>2. CASE state = "cmd_phase2" /\ Write(Code(value)) /\ sending' = <<>> /\ wanted' = wanted
      <3>1. /\ current_cmds' = FlagsAfter(value) /\ state' = "accept_cmd"
            /\ data' = data /\ current_bank' = current_bank
        BY <1>1, <2>2, CodeWrite
      <3>2. Calm' /\ ("device_id" \in current_cmds' <=> value = 144)
        BY <1>1, <3>1 DEF FlagsAfter, Identifying, Calm
      <3>3. Resting'
        BY <1>1, <2>2, <3>1, <3>2 DEF Resting, Meant, Identifying
      <3>. QED  BY <2>2, <3>3 DEF ObeyInv, Wants, Memories, Offsets
    <2>. QED  BY <1>1, <2>1, <2>2, Unlock1
  <1>. QED  BY <1>1 DEF Identifying

(* The whole chip is erased. *)
LEMMA ChipObeys == ObeyInv /\ ErasingChip /\ SendNext => ObeyInv'
  <1>. SUFFICES ASSUME ObeyInv, ErasingChip, SendNext PROVE ObeyInv'
    OBVIOUS
  <1>1. CASE Calm /\ Unlocking4(Code(128), Code(16))
    <2>1. CASE Unlocking4(Code(128), Code(16))' /\ UNCHANGED <<data, current_bank, current_cmds, wanted>>
      BY <1>1, <2>1 DEF ObeyInv, Wants, Memories, Offsets, ErasingChip, Calm, Meant, AllErased
    <2>2. CASE /\ state = "cmd_phase2" /\ Write(Code(128))
               /\ sending' = <<First, Second, Code(16)>> /\ wanted' = wanted
      <3>1. /\ current_cmds' = FlagsAfter(128) /\ state' = "accept_cmd"
            /\ data' = data /\ current_bank' = current_bank
        BY <2>2, CodeWrite
      <3>2. With("erase")' /\ ("device_id" \in current_cmds' <=> "device_id" \in current_cmds)
        BY <1>1, <3>1 DEF FlagsAfter, Calm, With
      <3>3. Unlocking1(Code(16))'
        BY <2>2, <3>1 DEF Unlocking1, First, Second, Code, At
      <3>4. ErasingChip'
        BY <2>2, <3>1, <3>2, <3>3 DEF ErasingChip, Meant, AllErased, Offsets
      <3>. QED  BY <2>2, <3>4 DEF ObeyInv, Wants, Memories, Offsets
    <2>. QED  BY <1>1, <2>1, <2>2, Unlock4
  <1>2. CASE With("erase") /\ Unlocking1(Code(16))
    <2>1. CASE Unlocking1(Code(16))' /\ UNCHANGED <<data, current_bank, current_cmds, wanted>>
      BY <1>2, <2>1 DEF ObeyInv, Wants, Memories, Offsets, ErasingChip, With, Meant, AllErased
    <2>2. CASE state = "cmd_phase2" /\ Write(Code(16)) /\ sending' = <<>> /\ wanted' = wanted
      <3>1. /\ current_cmds' = FlagsAfter(16) /\ state' = "accept_cmd"
            /\ data' = AllErased /\ current_bank' = current_bank
        BY <1>2, <2>2, CodeWrite DEF With
      <3>2. Calm' /\ ("device_id" \in current_cmds' <=> "device_id" \in current_cmds)
        BY <1>2, <3>1 DEF FlagsAfter, Calm, With
      <3>3. Resting'
        BY <2>2, <3>1, <3>2 DEF Resting, Meant, ErasingChip
      <3>. QED  BY <2>2, <3>3 DEF ObeyInv, Wants, Memories, Offsets
    <2>. QED  BY <1>2, <2>1, <2>2, Unlock1
  <1>. QED  BY <1>1, <1>2 DEF ErasingChip

(* A sector is erased. *)
LEMMA SectorObeys == ObeyInv /\ ErasingSector /\ SendNext => ObeyInv'
  <1>. SUFFICES ASSUME ObeyInv, ErasingSector, SendNext PROVE ObeyInv'
    OBVIOUS
  <1>1. PICK sector \in Sectors :
            /\ Meant(ErasedIn(sector), current_bank)
            /\ \/ Calm /\ Unlocking4(Code(128), At(sector * SectorSize, 48))
               \/ With("erase") /\ Unlocking1(At(sector * SectorSize, 48))
    BY DEF ErasingSector
  <1>. DEFINE last == At(sector * SectorSize, 48)
  <1>2. sector \in Sectors'
    BY DEF Sectors, Offsets
  <1>. HIDE DEF last
  <1>3. CASE Calm /\ Unlocking4(Code(128), last)
    <2>1. CASE Unlocking4(Code(128), last)' /\ UNCHANGED <<data, current_bank, current_cmds, wanted>>
      <3>1. ErasingSector'
        BY <1>1, <1>2, <1>3, <2>1 DEF ErasingSector, Calm, Meant, ErasedIn, Offsets, last
      <3>. QED  BY <2>1, <3>1 DEF ObeyInv, Wants, Memories, Offsets
    <2>2. CASE /\ state = "cmd_phase2" /\ Write(Code(128))
               /\ sending' = <<First, Second, last>> /\ wanted' = wanted
      <3>1. /\ current_cmds' = FlagsAfter(128) /\ state' = "accept_cmd"
            /\ data' = data /\ current_bank' = current_bank
        BY <2>2, CodeWrite
      <3>2. With("erase")' /\ ("device_id" \in current_cmds' <=> "device_id" \in current_cmds)
        BY <1>3, <3>1 DEF FlagsAfter, Calm, With
      <3>3. Unlocking1(last)'
        BY <2>2, <3>1 DEF Unlocking1, First, Second, At, last
      <3>4. Meant(ErasedIn(sector), current_bank)'
        BY <1>1, <2>2, <3>1, <3>2 DEF Meant, ErasedIn, Offsets
      <3>5. ErasingSector'
        BY <1>2, <3>2, <3>3, <3>4 DEF ErasingSector, last
      <3>. QED  BY <2>2, <3>5 DEF ObeyInv, Wants, Memories, Offsets
    <2>. QED  BY <1>3, <2>1, <2>2, Unlock4
  <1>4. CASE With("erase") /\ Unlocking1(last)
    <2>1. CASE Unlocking1(last)' /\ UNCHANGED <<data, current_bank, current_cmds, wanted>>
      <3>1. ErasingSector'
        BY <1>1, <1>2, <1>4, <2>1 DEF ErasingSector, With, Meant, ErasedIn, Offsets, last
      <3>. QED  BY <2>1, <3>1 DEF ObeyInv, Wants, Memories, Offsets
    <2>2. CASE state = "cmd_phase2" /\ Write(last) /\ sending' = <<>> /\ wanted' = wanted
      <3>1. /\ current_cmds' = current_cmds \ {"erase"} /\ state' = "accept_cmd"
            /\ data' = ErasedIn(sector) /\ current_bank' = current_bank
        BY <1>4, <2>2, SectorWrite DEF With, last
      <3>2. Calm' /\ ("device_id" \in current_cmds' <=> "device_id" \in current_cmds)
        BY <1>4, <3>1 DEF Calm, With
      <3>3. Resting'
        BY <1>1, <2>2, <3>1, <3>2 DEF Resting, Meant
      <3>. QED  BY <2>2, <3>3 DEF ObeyInv, Wants, Memories, Offsets
    <2>. QED  BY <1>4, <2>1, <2>2, Unlock1
  <1>. QED  BY <1>1, <1>3, <1>4 DEF last

(* A byte is stored. *)
LEMMA StoreObeys == ObeyInv /\ Storing /\ SendNext => ObeyInv'
  <1>. SUFFICES ASSUME ObeyInv, Storing, SendNext PROVE ObeyInv'
    OBVIOUS
  <1>1. PICK address \in Offsets, value \in Values :
            /\ Meant(Stored(address, value), current_bank)
            /\ \/ Calm /\ Unlocking2(Code(160), At(address, value))
               \/ With("write_byte") /\ state = "cmd_phase3" /\ sending = <<At(address, value)>>
    BY DEF Storing
  <1>. DEFINE last == At(address, value)
  <1>2. address \in Offsets'
    BY DEF Offsets
  <1>. HIDE DEF last
  <1>3. CASE Calm /\ Unlocking2(Code(160), last)
    <2>1. CASE Unlocking2(Code(160), last)' /\ UNCHANGED <<data, current_bank, current_cmds, wanted>>
      <3>1. Storing'
        BY <1>1, <1>2, <1>3, <2>1 DEF Storing, Calm, Meant, Stored, last
      <3>. QED  BY <2>1, <3>1 DEF ObeyInv, Wants, Memories, Offsets
    <2>2. CASE /\ state = "cmd_phase2" /\ Write(Code(160)) /\ sending' = <<last>> /\ wanted' = wanted
      <3>1. /\ current_cmds' = FlagsAfter(160) /\ state' = "cmd_phase3"
            /\ data' = data /\ current_bank' = current_bank
        BY <2>2, CodeWrite
      <3>2. With("write_byte")' /\ ("device_id" \in current_cmds' <=> "device_id" \in current_cmds)
        BY <1>3, <3>1 DEF FlagsAfter, Calm, With
      <3>3. Meant(Stored(address, value), current_bank)'
        BY <1>1, <2>2, <3>1, <3>2 DEF Meant, Stored
      <3>4. Storing'
        BY <1>2, <2>2, <3>1, <3>2, <3>3 DEF Storing, last
      <3>. QED  BY <2>2, <3>4 DEF ObeyInv, Wants, Memories, Offsets
    <2>. QED  BY <1>3, <2>1, <2>2, Unlock2
  <1>4. CASE With("write_byte") /\ state = "cmd_phase3" /\ sending = <<last>>
    <2>1. Write(last) /\ sending' = <<>> /\ wanted' = wanted
      BY <1>4, Rows DEF SendNext
    <2>2. /\ current_cmds' = current_cmds \ {"write_byte"} /\ state' = "accept_cmd"
          /\ data' = Stored(address, value) /\ current_bank' = current_bank
      BY <1>4, <2>1, LastWrite DEF With, last
    <2>3. Calm' /\ ("device_id" \in current_cmds' <=> "device_id" \in current_cmds)
      BY <1>4, <2>2 DEF Calm, With
    <2>4. Resting'
      BY <1>1, <2>1, <2>2, <2>3 DEF Resting, Meant
    <2>. QED  BY <2>1, <2>4 DEF ObeyInv, Wants, Memories, Offsets
  <1>. QED  BY <1>1, <1>3, <1>4 DEF last

(* A bank is selected, or the chip has one only and ignores both writes. *)
LEMMA SelectObeys == ObeyInv /\ Selecting /\ SendNext => ObeyInv'
  <1>. SUFFICES ASSUME ObeyInv, Selecting, SendNext PROVE ObeyInv'
    OBVIOUS
  <1>1. PICK b \in 0..1 :
            /\ Meant(data, IF Banks = 2 THEN b ELSE current_bank)
            /\ \/ Calm /\ Unlocking2(Code(176), At(0, b))
               \/ Banks = 2 /\ With("select_bank") /\ state = "cmd_phase3" /\ sending = <<At(0, b)>>
               \/ Banks = 1 /\ Calm /\ state = "accept_cmd" /\ sending = <<At(0, b)>>
    BY DEF Selecting
  <1>. DEFINE last == At(0, b)
  <1>2. Banks = 1 \/ Banks = 2
    BY FlashAssumption
  <1>. HIDE DEF last
  <1>3. CASE Calm /\ Unlocking2(Code(176), last)
    <2>1. CASE Unlocking2(Code(176), last)' /\ UNCHANGED <<data, current_bank, current_cmds, wanted>>
      <3>1. Selecting'
        BY <1>1, <1>3, <2>1 DEF Selecting, Calm, Meant, last
      <3>. QED  BY <2>1, <3>1 DEF ObeyInv, Wants, Memories, Offsets
    <2>2. CASE /\ state = "cmd_phase2" /\ Write(Code(176)) /\ sending' = <<last>> /\ wanted' = wanted
      <3>1. /\ current_cmds' = FlagsAfter(176)
            /\ state' = IF Banks = 2 THEN "cmd_phase3" ELSE "accept_cmd"
            /\ data' = data /\ current_bank' = current_bank
        BY <2>2, CodeWrite
      <3>2. ("device_id" \in current_cmds' <=> "device_id" \in current_cmds)
        BY <1>3, <3>1 DEF FlagsAfter
      <3>3. Meant(data, IF Banks = 2 THEN b ELSE current_bank)'
        BY <1>1, <2>2, <3>1, <3>2 DEF Meant
      <3>4. IF Banks = 2 THEN With("select_bank")' ELSE Calm'
        BY <1>3, <3>1 DEF FlagsAfter, Calm, With
      <3>5. Selecting'
        BY <1>2, <2>2, <3>1, <3>3, <3>4 DEF Selecting, last
      <3>. QED  BY <2>2, <3>5 DEF ObeyInv, Wants, Memories, Offsets
    <2>. QED  BY <1>3, <2>1, <2>2, Unlock2
  <1>4. CASE Banks = 2 /\ With("select_bank") /\ state = "cmd_phase3" /\ sending = <<last>>
    <2>1. Write(last) /\ sending' = <<>> /\ wanted' = wanted
      BY <1>4, Rows DEF SendNext
    <2>2. /\ current_cmds' = current_cmds \ {"select_bank"} /\ state' = "accept_cmd"
          /\ data' = data /\ current_bank' = b % 2
      BY <1>4, <2>1, LastWrite DEF With, last
    <2>3. b % 2 = b
      BY <1>1
    <2>4. Calm' /\ ("device_id" \in current_cmds' <=> "device_id" \in current_cmds)
      BY <1>4, <2>2 DEF Calm, With
    <2>5. Resting'
      BY <1>1, <1>4, <2>1, <2>2, <2>3, <2>4 DEF Resting, Meant
    <2>. QED  BY <2>1, <2>5 DEF ObeyInv, Wants, Memories, Offsets
  <1>5. CASE Banks = 1 /\ Calm /\ state = "accept_cmd" /\ sending = <<last>>
    <2>1. Write(last) /\ sending' = <<>> /\ wanted' = wanted
      BY <1>5, Rows DEF SendNext
    <2>2. last # At(cmd_addr1, 170)
      <3>1. last.address = 0 /\ At(cmd_addr1, 170).address = cmd_addr1 /\ cmd_addr1 # 0
        BY FlashAssumption DEF At, last
      <3>. QED  BY <3>1
    <2>3. UNCHANGED <<state, data, current_bank, current_cmds>>
      BY <1>5, <2>1, <2>2 DEF Write, AcceptCmd, CmdPhase1, CmdPhase2, CmdPhase3
    <2>4. Resting'
      BY <1>1, <1>5, <2>1, <2>3 DEF Resting, Meant, Calm
    <2>. QED  BY <2>1, <2>4 DEF ObeyInv, Wants, Memories, Offsets
  <1>. QED  BY <1>1, <1>3, <1>4, <1>5 DEF last
-----------------------------------------------------------------------------
(* A command begins when nothing else is under way. *)
LEMMA SendObeys ==
    ASSUME ObeyInv, NEW writes, NEW meaning, Send(writes, meaning)
    PROVE  /\ Resting /\ sending' = writes /\ wanted' = meaning
           /\ UNCHANGED <<data, current_bank, state, current_cmds>>
  <1>1. sending = <<>> /\ sending' = writes /\ wanted' = meaning
        /\ UNCHANGED <<data, current_bank, state, current_cmds>>
    BY DEF Send, chip
  <1>2. Resting
    <2>1. \A a, b, c, d, e, f : /\ <<a>> # <<>> /\ <<a, b>> # <<>> /\ <<a, b, c>> # <<>>
                                /\ <<a, b, c, d>> # <<>> /\ <<a, b, c, d, e>> # <<>>
                                /\ <<a, b, c, d, e, f>> # <<>>
      OBVIOUS
    <2>2. ~Unlocking1(Code(144)) /\ ~Unlocking1(Code(240)) /\ ~Unlocking1(Code(16))
      BY <1>1, <2>1 DEF Unlocking1
    <2>3. \A a, b : ~Unlocking1(b) /\ ~Unlocking2(a, b) /\ ~Unlocking4(a, b)
      BY <1>1, <2>1 DEF Unlocking1, Unlocking2, Unlocking4
    <2>. QED  BY <1>1, <2>1, <2>2, <2>3 DEF ObeyInv, Identifying, ErasingChip, ErasingSector, Storing, Selecting
  <1>. QED  BY <1>1, <1>2

(* Every step preserves the invariant. *)
LEMMA ObeyNext == FlashInv /\ ObeyInv /\ [Next]_vars => ObeyInv'
  <1>. SUFFICES ASSUME FlashInv, ObeyInv, [Next]_vars PROVE ObeyInv'
    OBVIOUS
  <1>0. /\ data \in Memories /\ current_bank \in 0..(Banks - 1) /\ wanted \in Wants
        /\ wanted.memory \in Memories /\ wanted.bank \in 0..(Banks - 1) /\ wanted.identify \in BOOLEAN
    BY DEF FlashInv, ObeyInv, Memories, Wants
  <1>w. ASSUME wanted' \in Wants PROVE wanted' \in Wants'
    BY <1>w DEF Wants, Memories, Offsets
  <1>1. ASSUME NEW on \in BOOLEAN, SendIdentify(on) PROVE ObeyInv'
    <2>. DEFINE value == IF on THEN 144 ELSE 240
    <2>1. /\ Resting /\ sending' = Issue(value) /\ wanted' = [wanted EXCEPT !.identify = on]
          /\ UNCHANGED <<data, current_bank, state, current_cmds>>
      BY <1>1, SendObeys DEF SendIdentify
    <2>2. /\ wanted' \in Wants /\ wanted'.memory = wanted.memory /\ wanted'.bank = wanted.bank
          /\ wanted'.identify = on
      BY <1>0, <2>1 DEF Wants
    <2>3. Unlocking1(Code(value))'
      BY <2>1, IssueRow, ZenonT(40) DEF Resting, Unlocking1, First, Second, Code, At
    <2>4. Identifying'
      BY <2>1, <2>2, <2>3 DEF Identifying, Resting, Meant, Calm
    <2>. QED  BY <1>w, <2>2, <2>4 DEF ObeyInv
  <1>2. CASE SendEraseChip
    <2>1. /\ Resting /\ sending' = Issue(128) \o Issue(16)
          /\ wanted' = [wanted EXCEPT !.memory = AllErased]
          /\ UNCHANGED <<data, current_bank, state, current_cmds>>
      BY <1>2, SendObeys DEF SendEraseChip
    <2>2. AllErased \in Memories
      BY DEF AllErased, Memories, Erased
    <2>3. /\ wanted' \in Wants /\ wanted'.memory = AllErased /\ wanted'.bank = wanted.bank
          /\ wanted'.identify = wanted.identify
      BY <1>0, <2>1, <2>2 DEF Wants
    <2>4. Unlocking4(Code(128), Code(16))'
      <3>1. Issue(128) \o Issue(16) =
               <<First, Second, Code(128), First, Second, Code(16)>>
        BY IssueRow, Zenon
      <3>2. sending' = <<First, Second, Code(128), First, Second, Code(16)>>
        BY <2>1, <3>1
      <3>3. state' = "accept_cmd"
        BY <2>1 DEF Resting
      <3>. QED  BY <3>2, <3>3, Zenon DEF Unlocking4, First, Second, Code, At
    <2>5. ErasingChip'
      BY <2>1, <2>3, <2>4 DEF ErasingChip, Resting, Meant, Calm, AllErased, Offsets
    <2>. QED  BY <1>w, <2>3, <2>5 DEF ObeyInv
  <1>3. ASSUME NEW sector \in Sectors, SendEraseSector(sector) PROVE ObeyInv'
    <2>. DEFINE m == [wanted.memory EXCEPT ![wanted.bank] =
                        [a \in Offsets |-> IF a \div SectorSize = sector THEN Erased ELSE @[a]]]
    <2>1. /\ Resting /\ sending' = Issue(128) \o Unlock \o <<At(sector * SectorSize, 48)>>
          /\ wanted' = [wanted EXCEPT !.memory = m]
          /\ UNCHANGED <<data, current_bank, state, current_cmds>>
      <3>1. [wanted EXCEPT !.memory[wanted.bank] =
                [a \in Offsets |-> IF a \div SectorSize = sector THEN Erased ELSE @[a]]]
            = [wanted EXCEPT !.memory = m]
        OBVIOUS
      <3>. QED  BY <1>3, <3>1, SendObeys DEF SendEraseSector
    <2>2. m = ErasedIn(sector)
      BY <2>1 DEF Resting, Meant, ErasedIn
    <2>3. m \in Memories
      <3>1. wanted.memory[wanted.bank] \in [Offsets -> 0..255]
        BY <1>0 DEF Memories
      <3>2. [a \in Offsets |-> IF a \div SectorSize = sector THEN Erased ELSE wanted.memory[wanted.bank][a]]
               \in [Offsets -> 0..255]
        BY <3>1 DEF Erased
      <3>. QED  BY <1>0, <3>2 DEF Memories
    <2>. HIDE DEF m
    <2>4. /\ wanted' \in Wants /\ wanted'.memory = ErasedIn(sector) /\ wanted'.bank = wanted.bank
          /\ wanted'.identify = wanted.identify
      BY <1>0, <2>1, <2>2, <2>3 DEF Wants
    <2>5. Unlocking4(Code(128), At(sector * SectorSize, 48))'
      <3>1. Issue(128) \o Unlock \o <<At(sector * SectorSize, 48)>> =
               <<First, Second, Code(128), First, Second, At(sector * SectorSize, 48)>>
        BY IssueRow, Zenon
      <3>2. sending' = <<First, Second, Code(128), First, Second, At(sector * SectorSize, 48)>>
        BY <2>1, <3>1
      <3>3. state' = "accept_cmd"
        BY <2>1 DEF Resting
      <3>. QED  BY <3>2, <3>3, Zenon DEF Unlocking4, First, Second, Code, At
    <2>6. Meant(ErasedIn(sector), current_bank)' /\ Calm'
      BY <2>1, <2>4 DEF Resting, Meant, Calm, ErasedIn, Offsets
    <2>7. sector \in Sectors'
      BY DEF Sectors, Offsets
    <2>8. ErasingSector'
      BY <2>5, <2>6, <2>7 DEF ErasingSector
    <2>. QED  BY <1>w, <2>4, <2>8 DEF ObeyInv
  <1>4. ASSUME NEW address \in Offsets, NEW value \in Values, SendWriteByte(address, value)
        PROVE  ObeyInv'
    <2>. DEFINE m == [wanted.memory EXCEPT ![wanted.bank][address] = value]
    <2>1. /\ Resting /\ sending' = Issue(160) \o <<At(address, value)>>
          /\ wanted' = [wanted EXCEPT !.memory = m]
          /\ UNCHANGED <<data, current_bank, state, current_cmds>>
      <3>1. [wanted EXCEPT !.memory[wanted.bank][address] = value] = [wanted EXCEPT !.memory = m]
        OBVIOUS
      <3>. QED  BY <1>4, <3>1, SendObeys DEF SendWriteByte
    <2>2. m = Stored(address, value)
      BY <2>1 DEF Resting, Meant, Stored
    <2>3. m \in Memories
      <3>1. value \in 0..255
        BY FlashAssumption
      <3>. QED  BY <1>0, <3>1 DEF Memories
    <2>. HIDE DEF m
    <2>4. /\ wanted' \in Wants /\ wanted'.memory = Stored(address, value) /\ wanted'.bank = wanted.bank
          /\ wanted'.identify = wanted.identify
      BY <1>0, <2>1, <2>2, <2>3 DEF Wants
    <2>5. Unlocking2(Code(160), At(address, value))'
      <3>1. Issue(160) \o <<At(address, value)>> =
               <<First, Second, Code(160), At(address, value)>>
        BY IssueRow, Zenon
      <3>2. sending' = <<First, Second, Code(160), At(address, value)>>
        BY <2>1, <3>1
      <3>3. state' = "accept_cmd"
        BY <2>1 DEF Resting
      <3>. QED  BY <3>2, <3>3, Zenon DEF Unlocking2, First, Second, Code, At
    <2>6. Meant(Stored(address, value), current_bank)' /\ Calm' /\ address \in Offsets'
      BY <2>1, <2>4 DEF Resting, Meant, Calm, Stored, Offsets
    <2>7. Storing'
      BY <2>5, <2>6 DEF Storing
    <2>. QED  BY <1>w, <2>4, <2>7 DEF ObeyInv
  <1>5. ASSUME NEW b \in 0..1, SendSelectBank(b) PROVE ObeyInv'
    <2>. DEFINE n == IF Banks = 2 THEN b ELSE wanted.bank
    <2>1. /\ Resting /\ sending' = Issue(176) \o <<At(0, b)>>
          /\ wanted' = [wanted EXCEPT !.bank = n]
          /\ UNCHANGED <<data, current_bank, state, current_cmds>>
      <3>1. [wanted EXCEPT !.bank = IF Banks = 2 THEN b ELSE @] = [wanted EXCEPT !.bank = n]
        OBVIOUS
      <3>2. Send(Issue(176) \o <<At(0, b)>>, [wanted EXCEPT !.bank = n])
        BY <1>5, <3>1, Zenon DEF SendSelectBank
      <3>. HIDE DEF n
      <3>. QED  BY <3>2, SendObeys
    <2>2. n \in 0..(Banks - 1)
      BY <1>0
    <2>. HIDE DEF n
    <2>3. /\ wanted' \in Wants /\ wanted'.memory = wanted.memory /\ wanted'.bank = n
          /\ wanted'.identify = wanted.identify
      BY <1>0, <2>1, <2>2 DEF Wants
    <2>4. Unlocking2(Code(176), At(0, b))'
      <3>1. Issue(176) \o <<At(0, b)>> =
               <<First, Second, Code(176), At(0, b)>>
        BY IssueRow, Zenon
      <3>2. sending' = <<First, Second, Code(176), At(0, b)>>
        BY <2>1, <3>1
      <3>3. state' = "accept_cmd"
        BY <2>1 DEF Resting
      <3>. QED  BY <3>2, <3>3, Zenon DEF Unlocking2, First, Second, Code, At
    <2>5. Selecting'
      BY <2>1, <2>3, <2>4 DEF Selecting, Resting, Meant, Calm, n
    <2>. QED  BY <1>w, <2>3, <2>5 DEF ObeyInv
  <1>6. CASE SendNext
    <2>1. ~Resting
      BY <1>6 DEF SendNext, Resting
    <2>. QED  BY <1>6, <2>1, IdentifyObeys, ChipObeys, SectorObeys, StoreObeys, SelectObeys DEF ObeyInv
  <1>7. CASE UNCHANGED vars
    <2>1. UNCHANGED <<data, current_bank, state, current_cmds, sending, wanted>>
      BY <1>7 DEF vars, chip
    <2>2. wanted' \in Wants'
      BY <1>0, <1>w, <2>1
    <2>3. Resting => Resting'
      BY <2>1 DEF Resting, Calm, Meant
    <2>4. Identifying => Identifying'
      BY <2>1 DEF Identifying, Calm, Unlocking1
    <2>5. ErasingChip => ErasingChip'
      BY <2>1 DEF ErasingChip, Calm, With, Meant, AllErased, Offsets, Unlocking1, Unlocking4
    <2>6. ErasingSector => ErasingSector'
      BY <2>1, ZenonT(40) DEF ErasingSector, Calm, With, Meant, ErasedIn, Sectors, Offsets, Unlocking1, Unlocking4
    <2>7. Storing => Storing'
      BY <2>1 DEF Storing, Calm, With, Meant, Stored, Offsets, Unlocking2
    <2>8. Selecting => Selecting'
      BY <2>1 DEF Selecting, Calm, With, Meant, Unlocking2
    <2>. QED  BY <2>2, <2>3, <2>4, <2>5, <2>6, <2>7, <2>8 DEF ObeyInv
  <1>. QED
    <2>1. CASE \E on \in BOOLEAN : SendIdentify(on)
      BY <1>1, <2>1
    <2>2. CASE \E sector \in Sectors : SendEraseSector(sector)
      BY <1>3, <2>2
    <2>3. CASE \E address \in Offsets, value \in Values : SendWriteByte(address, value)
      BY <1>4, <2>3
    <2>4. CASE \E b \in 0..1 : SendSelectBank(b)
      BY <1>5, <2>4
    <2>5. Next \/ UNCHANGED vars
      OBVIOUS
    <2>. QED  BY <1>2, <1>6, <1>7, <2>1, <2>2, <2>3, <2>4, <2>5 DEF Next, Sectors

(* An erased chip rests. *)
LEMMA ObeyInit == Init => ObeyInv
  <1>. SUFFICES ASSUME Init PROVE ObeyInv
    OBVIOUS
  <1>1. AllErased \in Memories
    BY DEF AllErased, Memories, Erased
  <1>2. wanted \in Wants
    BY <1>1, FlashAssumption DEF Init, Wants
  <1>3. Resting
    BY DEF Init, Resting, Calm, Meant
  <1>. QED  BY <1>2, <1>3 DEF ObeyInv

(* Every command that the program sends does what it should, in the bank that is
   selected, and leaves no flag behind, for memories, sectors and values of any
   size and for one bank or two. *)
THEOREM FlashObeys == Spec => []Obeyed
  <1>1. ObeyInv => Obeyed
    <2>. SUFFICES ASSUME ObeyInv, sending = <<>>
                  PROVE  /\ data = wanted.memory
                         /\ current_bank = wanted.bank
                         /\ IdentifyMode = wanted.identify
                         /\ state = "accept_cmd"
                         /\ current_cmds \subseteq {"device_id"}
      BY DEF Obeyed
    <2>1. \A a, b, c, d, e, f : /\ <<a>> # <<>> /\ <<a, b>> # <<>> /\ <<a, b, c>> # <<>>
                                /\ <<a, b, c, d>> # <<>> /\ <<a, b, c, d, e>> # <<>>
                                /\ <<a, b, c, d, e, f>> # <<>>
      OBVIOUS
    <2>2. \A a, b : ~Unlocking1(b) /\ ~Unlocking2(a, b) /\ ~Unlocking4(a, b)
      BY <2>1 DEF Unlocking1, Unlocking2, Unlocking4
    <2>3. Resting
      BY <2>1, <2>2 DEF ObeyInv, Identifying, ErasingChip, ErasingSector, Storing, Selecting
    <2>4. wanted.identify \in BOOLEAN /\ IdentifyMode \in BOOLEAN
      BY DEF ObeyInv, Wants, IdentifyMode
    <2>5. IdentifyMode <=> wanted.identify
      BY <2>3 DEF Resting, Meant, IdentifyMode
    <2>6. IdentifyMode = wanted.identify
      BY <2>4, <2>5, Zenon
    <2>. QED  BY <2>3, <2>6 DEF Resting, Meant, Calm
  <1>2. FlashInv /\ ObeyInv /\ [Next]_vars => ObeyInv'
    BY ObeyNext
  <1>. QED  BY <1>1, <1>2, ObeyInit, FlashInvariance, PTL DEF Spec

------------------------------------------------------------------------------
(* The game and its chip. *)
(* The detected type, the chip that was made for it and the file behind it belong
   to the game that is loaded, and a game whose kind is told has written no file
   but its own. *)
PakInv ==
    /\ backup_type_ \in Kinds \union {"none", "detect"}
    /\ is_eeprom(backup_type_) => backup_.kind \in Eeproms
    /\ is_sram_flash(backup_type_) => backup_.kind = backup_type_
    /\ loaded_ /\ backup_type_ \in Kinds /\ Tells(path_) => backup_.file = path_
    /\ writers \in [Paks -> SUBSET Paks]
    /\ loaded_ => path_ \in Paks
    /\ \A p \in Paks : \A q \in writers[p] : Tells(q) => p = q

(* The chip that is made for a type is of that kind, over the file of the game. *)
LEMMA MadeForPak ==
    ASSUME NEW type \in Kinds \union {"none"}, NEW path \in Paks,
           NEW made \in make_backup_from_type(type, path)
    PROVE  type \in Kinds => made.kind = type /\ made.file = path
  BY DEF make_backup_from_type, Kinds, Eeproms, SramFlash

(* Detection, by the database or by the marks in the image, whatever was loaded
   before, leaves a chip of the game at hand. *)
LEMMA DetectMatches ==
    ASSUME PakInv, NEW path \in Paks, detect_backup_type(path)
    PROVE  /\ backup_type_' \in Kinds \union {"none", "detect"}
           /\ is_eeprom(backup_type_') => backup_'.kind \in Eeproms
           /\ is_sram_flash(backup_type_') => backup_'.kind = backup_type_'
           /\ backup_type_' \in Kinds /\ Tells(path) => backup_'.file = path
  <1>1. CASE Described(path)
    <2>1. Entry[path].type \in Kinds \union {"none"}
      BY <1>1, GamepakAssumption DEF Described
    <2>2. PICK made \in make_backup_from_type(Entry[path].type, path) :
              backup_' = made /\ backup_type_' = Entry[path].type
      BY <1>1 DEF detect_backup_type, Makes
    <2>. QED  BY <2>1, <2>2, MadeForPak DEF is_eeprom, is_sram_flash, Kinds, Eeproms, SramFlash
  <1>2. CASE ~Described(path) /\ Marks[path] = "detect" /\ backup_type_ # "detect"
    BY <1>2 DEF detect_backup_type, PakInv, is_eeprom, is_sram_flash, Tells
  <1>3. CASE ~Described(path) /\ ~(Marks[path] = "detect" /\ backup_type_ # "detect")
    <2>1. PICK made \in make_backup_from_type(backup_type_', path) : backup_' = made
      BY <1>3 DEF detect_backup_type, Makes
    <2>2. backup_type_' \in Kinds
      BY <1>3, GamepakAssumption DEF detect_backup_type, Kinds, SramFlash
    <2>. QED  BY <2>1, <2>2, MadeForPak DEF is_eeprom, is_sram_flash, Kinds, Eeproms, SramFlash
  <1>. QED  BY <1>1, <1>2, <1>3

(* No game is loaded. *)
LEMMA InitPak == GamepakInit => PakInv
  BY DEF GamepakInit, PakInv, is_eeprom, is_sram_flash, Kinds, Eeproms, SramFlash

(* A store reaches the file of the game that runs. *)
LEMMA StoresOwn ==
    ASSUME PakInv, loaded_, backup_type_ \in Kinds, Stores
    PROVE  /\ writers' \in [Paks -> SUBSET Paks]
           /\ \A p \in Paks : \A q \in writers'[p] : Tells(q) => p = q
  BY DEF PakInv, Stores

(* Loading, ejecting, storing and save states preserve it. *)
LEMMA StepPak == PakInv /\ [GamepakNext]_gamepakvars => PakInv'
  <1>. SUFFICES ASSUME PakInv, [GamepakNext]_gamepakvars PROVE PakInv'
    OBVIOUS
  <1>1. CASE \E p \in Paks : Load(p)
    BY <1>1, DetectMatches DEF PakInv, Load, Tells, Described, is_eeprom, is_sram_flash
  <1>2. CASE LoadNoFile
    BY <1>2 DEF PakInv, LoadNoFile, Eject, is_eeprom, is_sram_flash, Kinds, Eeproms, SramFlash
  <1>3. CASE \E type \in {"eeprom_4", "eeprom_64"} : WriteEeprom(type)
    <2>1. /\ backup_type_ \in Kinds /\ loaded_ /\ Stores
          /\ UNCHANGED <<path_, loaded_, backup_>>
          /\ backup_type_' \in Eeproms /\ backup_.kind \in Eeproms
      BY <1>3 DEF PakInv, WriteEeprom, is_eeprom, Kinds, Eeproms
    <2>. QED  BY <2>1, StoresOwn DEF PakInv, Tells, Described, is_eeprom, is_sram_flash, Kinds, Eeproms, SramFlash
  <1>4. CASE WriteSramFlash
    <2>1. /\ backup_type_ \in Kinds /\ loaded_ /\ Stores
          /\ UNCHANGED <<path_, loaded_, backup_type_, backup_>>
      BY <1>4 DEF WriteSramFlash, is_sram_flash, Kinds
    <2>. QED  BY <2>1, StoresOwn DEF PakInv, Tells, Described, is_eeprom, is_sram_flash
  <1>5. CASE on_settle \/ SaveState \/ LoadState \/ UNCHANGED gamepakvars
    BY <1>5 DEF PakInv, on_settle, SaveState, LoadState, gamepakvars, Tells, Described, is_eeprom, is_sram_flash
  <1>. QED  BY <1>1, <1>2, <1>3, <1>4, <1>5 DEF GamepakNext

(* Whatever games are loaded one after the other, an access that the bus forwards
   finds a chip of the kind that gamepak has in mind, and a game whose kind is
   told writes no file but its own. *)
THEOREM PaksMatch == GamepakInit /\ [][GamepakNext]_gamepakvars => []ChipMatchesPak
  <1>1. PakInv => ChipMatchesPak
    BY DEF PakInv, ChipMatchesPak
  <1>. QED  BY <1>1, InitPak, StepPak, PTL

-----------------------------------------------------------------------------
(* Powers of two.  The prover has no law of 2^n for a variable n; the library has
   one, that there are 2^n subsets of a set of n elements, and counting subsets
   gives the others. *)

(* There are as many subsets as this. *)
LEMMA Subsets ==
    ASSUME NEW n \in Nat
    PROVE  /\ IsFiniteSet(SUBSET (1..n))
           /\ Cardinality(SUBSET (1..n)) = 2^n
           /\ 2^n \in Nat
  <1>1. IsFiniteSet(1..n) /\ Cardinality(1..n) = n
    BY FS_Interval
  <1>2. IsFiniteSet(SUBSET (1..n)) /\ Cardinality(SUBSET (1..n)) = 2^n
    BY <1>1, FS_SUBSET, Zenon
  <1> QED
    BY <1>2, FS_CardinalityType

(* A power of two is the double of the one before it. *)
LEMMA PowerDoubles ==
    ASSUME NEW n \in Nat
    PROVE  2^(n + 1) = 2 * 2^n
  <1> DEFINE Without == SUBSET (1..n)
             Holding == {X \in SUBSET (1..(n + 1)) : n + 1 \in X}
             f == [X \in Without |-> X \cup {n + 1}]
  <1>1. /\ IsFiniteSet(Without) /\ Cardinality(Without) = 2^n /\ 2^n \in Nat
        /\ Cardinality(SUBSET (1..(n + 1))) = 2^(n + 1)
    BY Subsets, n + 1 \in Nat
  <1>2. f \in [Without -> Holding]
    OBVIOUS
  <1>3. ASSUME NEW X \in Without, NEW Y \in Without, f[X] = f[Y] PROVE X = Y
    <2>1. n + 1 \notin X /\ n + 1 \notin Y
      OBVIOUS
    <2>2. X \cup {n + 1} = Y \cup {n + 1}
      BY <1>3
    <2> QED
      BY <2>1, <2>2
  <1>4. ASSUME NEW Y \in Holding PROVE \E X \in Without : f[X] = Y
    <2>1. Y \ {n + 1} \in Without
      OBVIOUS
    <2>2. f[Y \ {n + 1}] = Y
      BY <2>1
    <2> QED
      BY <2>1, <2>2
  <1>5. ExistsBijection(Without, Holding)
    BY <1>2, <1>3, <1>4, Zenon DEF ExistsBijection, Bijection, Injection, Surjection, IsInjective
  <1>6. IsFiniteSet(Holding) /\ Cardinality(Holding) = 2^n
    BY <1>1, <1>5, FS_Bijection, Zenon
  <1>7. SUBSET (1..(n + 1)) = Without \cup Holding /\ Without \cap Holding = {}
    <2>1. ASSUME NEW X \in SUBSET (1..(n + 1)), n + 1 \notin X PROVE X \in Without
      BY <2>1
    <2>2. ASSUME NEW X \in Without PROVE X \in SUBSET (1..(n + 1)) /\ n + 1 \notin X
      OBVIOUS
    <2> QED
      BY <2>1, <2>2
  <1>8. Cardinality({}) = 0
    BY FS_EmptySet
  <1>9. Cardinality(Without \cup Holding)
          = Cardinality(Without) + Cardinality(Holding) - Cardinality(Without \cap Holding)
    BY <1>1, <1>6, FS_Union, Zenon
  <1>10. 2^(n + 1) = 2^n + 2^n - 0
    <2> HIDE DEF Without, Holding
    <2> QED
      BY <1>1, <1>6, <1>7, <1>8, <1>9
  <1> QED
    BY <1>1, <1>10

(* A power of two is positive, and no lower power is greater. *)
LEMMA PowerGrows ==
    ASSUME NEW n \in Nat, NEW m \in 0..n
    PROVE  2^m \in Nat \ {0} /\ 2^m <= 2^n
  <1>1. SUBSET (1..m) \in SUBSET SUBSET (1..n)
    OBVIOUS
  <1>2. m \in Nat
    OBVIOUS
  <1>3. /\ Cardinality(SUBSET (1..m)) = 2^m /\ 2^m \in Nat /\ IsFiniteSet(SUBSET (1..m))
        /\ Cardinality(SUBSET (1..n)) = 2^n /\ 2^n \in Nat /\ IsFiniteSet(SUBSET (1..n))
    BY <1>2, Subsets
  <1>4. Cardinality(SUBSET (1..m)) <= Cardinality(SUBSET (1..n))
    BY <1>1, <1>3, FS_Subset, Zenon
  <1>5. SUBSET (1..m) # {}
    OBVIOUS
  <1>6. Cardinality(SUBSET (1..m)) # 0
    BY <1>3, <1>5, FS_EmptySet, Zenon
  <1> QED
    BY <1>3, <1>4, <1>6

-----------------------------------------------------------------------------
(* The invariant of the EEPROM.  At each moment the chip has the bits that the
   program has sent, as the number that they are so far: whatever is left of the
   request is what the state of the chip expects. *)

(* The members of a chip, with the ranges of their values. *)
Chips ==
    [buffer : Nat, address : Nat, bus_width : Nat, settled_response : {0, 1},
     transmission_count : Nat,
     state : {"accepting_commands", "transmitting_addr", "transmitting_data",
              "waiting_finish_bit", "transmitting_ignored_bits"},
     cmd : {"none", "read", "write"}]

(* What the proof asks of the constants and of the user.  The widths are 6 and 14 and
   a word has 64 bits in the code (backup.h, backup.cpp), so that the first line
   holds there.  Where the first request is a write, the length of the transfer must
   tell a narrow chip, which it does with 6 + 64 bits: a wide one would be taken for
   narrow.  And nobody resets the machine once the width has been found: a reset
   forgets it in the chip and not in the pak. *)
Detectable ==
    /\ 2 <= WordBits /\ Wide <= WordBits /\ WordBits < 256
    /\ WriteFirst => ChipWidth = Narrow /\ Narrow + WordBits # Wide
    /\ ~ResetAfterDetection

(* The words that a chip stores, and the requests that a program makes of it. *)
Cells == 0..(2^WordBits - 1)

(* A request names a word by an address of the chip's width. *)
Requests == [op : {"read", "write"}, address : 0..(2^ChipWidth - 1), value : Cells]

(* The word that the request is about: some addresses name the same one. *)
Cell == request.address % Words

(* The program has sent the first bits of its request. *)
Sent(n) ==
    LET bits == RequestBits(request.op, request.address, request.value) IN
    /\ n + Len(unsent) = RequestLength(request.op, ChipWidth)
    /\ \A i \in 1..Len(unsent) : unsent[i] = bits[n + i]

\* The chip is in a state, with so many bits of a number in its buffer.
ChipIn(s, c) == eeprom.state = s /\ eeprom.cmd = c

(* It has so many bits of what it receives. *)
Holds(n) == eeprom.transmission_count = n
(* The number that the first bits of a number are. *)
High(n, width) == n \div 2^(width - eeprom.transmission_count)

(* No request is being made: the chip waits for the first bit of one, and has in
   its memory what was written. *)
ChipRests ==
    /\ request = Idle /\ unsent = <<>> /\ received = <<>>
    /\ ChipIn("accepting_commands", "none") /\ Holds(0) /\ eeprom.buffer = 0
    /\ memory = written

(* The program sends the two bits that say what to do, of which the first is 1. *)
SendingCommand ==
    /\ received = <<>>
    /\ ChipIn("accepting_commands", "none")
    /\ eeprom.transmission_count \in 0..1
    /\ eeprom.buffer = eeprom.transmission_count
    /\ Sent(eeprom.transmission_count)
    /\ memory = written
    /\ eeprom.transmission_count > 0 => detected
    /\ ~detected /\ request.op = "write" => WriteFirst

(* It sends the address, highest bit first. *)
SendingAddress ==
    /\ received = <<>>
    /\ ChipIn("transmitting_addr", request.op)
    /\ eeprom.transmission_count \in 0..(ChipWidth - 1)
    /\ eeprom.buffer = High(request.address, ChipWidth)
    /\ Sent(2 + eeprom.transmission_count)
    /\ memory = written
    /\ detected

(* It sends the word to be written, of which the chip puts nothing in its memory
   until it has it all; it has cleared the old one. *)
SendingWord ==
    /\ received = <<>>
    /\ request.op = "write"
    /\ ChipIn("transmitting_data", "write")
    /\ eeprom.transmission_count \in 0..(WordBits - 1)
    /\ eeprom.buffer = High(request.value, WordBits)
    /\ eeprom.address = Cell
    /\ Sent(2 + ChipWidth + eeprom.transmission_count)
    /\ memory = [written EXCEPT ![Cell] = 0]
    /\ detected

(* It sends the bit after the address of a read or the word of a write. *)
SendingEnd ==
    /\ received = <<>>
    /\ ChipIn("waiting_finish_bit", request.op)
    /\ Holds(0) /\ eeprom.buffer = 0
    /\ eeprom.address = Cell
    /\ Sent(RequestLength(request.op, ChipWidth) - 1)
    /\ memory = IF request.op = "write" THEN [written EXCEPT ![Cell] = request.value] ELSE written
    /\ detected

(* What the program has received are bits of the word, with zeros before it. *)
Received ==
    \A i \in 1..Len(received) :
        received[i] = (memory[Cell] \div 2^(IgnoredBits + WordBits - i)) % 2

(* The program receives the bits that are ignored and those of the word. *)
Receiving ==
    /\ unsent = <<>>
    /\ request.op = "read"
    /\ eeprom.address = Cell
    /\ memory = written
    /\ Received
    /\ detected
    /\ \/ /\ ChipIn("transmitting_ignored_bits", "read")
          /\ Len(received) = eeprom.transmission_count
          /\ Len(received) < IgnoredBits
       \/ /\ ChipIn("transmitting_data", "read")
          /\ Len(received) = IgnoredBits + eeprom.transmission_count
          /\ eeprom.buffer = memory[Cell]
          /\ eeprom.transmission_count \in 0..(WordBits - 1)
       \/ /\ ChipIn("accepting_commands", "none")
          /\ Holds(0) /\ eeprom.buffer = 0
          /\ Len(received) = IgnoredBits + WordBits

(* A request is on its way. *)
Requesting ==
    /\ request \in Requests
    /\ SendingCommand \/ SendingAddress \/ SendingWord \/ SendingEnd \/ Receiving

(* The chip knows its width when its type has been found, and only then. *)
Knows ==
    /\ detected \in BOOLEAN
    /\ default_width \in {0, ChipWidth}
    /\ ~detected => default_width = 0
    /\ detected => eeprom.bus_width = ChipWidth

(* While the program has waited for each answer the chip has one event to come if
   it is busy, and none if it is not. *)
Waits ==
    /\ settles \subseteq Nat \ {0}
    /\ patient =>
        /\ \A c, d \in settles : c = d
        /\ eeprom.settled_response = 1 <=> settles = {}
        /\ request # Idle => ready
        /\ ready => settles = {} \/ (request.op = "write" /\ eeprom.state = "waiting_finish_bit")

(* The words, the bits and the chip are of their types. *)
Typed ==
    /\ memory \in [Addresses -> Cells] /\ written \in [Addresses -> Cells]
    /\ unsent \in Seq({0, 1}) /\ received \in Seq({0,1})
    /\ ready \in BOOLEAN /\ patient \in BOOLEAN
    /\ eeprom \in Chips

(* What does not depend on the time: the chip and the program are at the same
   place of the request. *)
Framed == Typed /\ Knows /\ (ChipRests \/ Requesting)

(* The invariant, with the waiting for the end of a write. *)
EepromInvariant == Framed /\ Waits

-----------------------------------------------------------------------------
(* The EEPROM's proof: a bit sent or received moves the program and the chip from
   one part of the invariant to the next together. *)

(* Division of a natural number by a positive one. *)
LEMMA DivMod == ASSUME NEW x \in Nat, NEW w \in Nat \ {0}
  PROVE /\ x \div w \in Nat /\ x % w \in 0..(w - 1) /\ w * (x \div w) \in Nat
        /\ x = w * (x \div w) + (x % w)
  OBVIOUS

(* A product grows by at least its factor. *)
LEMMA Product == ASSUME NEW a \in Nat, NEW b \in Nat, NEW w \in Nat \ {0}, a < b
   PROVE w * a + w <= w * b
  <1>1. b = a + 1 + (b - a - 1) /\ b - a - 1 \in Nat
    OBVIOUS
  <1>2. \A d \in Nat : w * d >= 0 /\ w * (a + 1 + d) = w * a + w + w * d
    OBVIOUS
  <1> QED
    BY <1>1, <1>2

(* Quotient and remainder are unique. *)
LEMMA UniqueQuotient ==
  ASSUME NEW q \in Nat, NEW d \in Nat, NEW w \in Nat \ {0}, NEW r \in 0..(w - 1), NEW m \in 0..(w - 1),
         w * q + r = w * d + m
  PROVE q = d
  <1>1. w * q \in Int /\ w * d \in Int
    OBVIOUS
  <1>2. ~(d < q) /\ ~(q < d)
    BY <1>1, Product
  <1> QED
    BY <1>2

(* The quotient by a number is twice that by its double, and a bit. *)
LEMMA Halves == ASSUME NEW n \in Nat, NEW p \in Nat \ {0}
  PROVE 2 * (n \div (2 * p)) + ((n \div p) % 2) = n \div p
  <1>1. PICK q \in Nat, r \in 0..(p - 1) : q = n \div p /\ n = p * q + r
    BY DivMod
  <1>2. PICK h \in Nat, b \in 0..1 : b = q % 2 /\ q = 2 * h + b
    <2>1. q \div 2 \in Nat /\ q % 2 \in 0..1 /\ q = 2 * (q \div 2) + (q % 2)
      OBVIOUS
    <2> QED
      BY <2>1
  <1>3. PICK d \in Nat, m \in 0..(2 * p - 1) : d = n \div (2 * p) /\ n = (2 * p) * d + m
    <2>1. 2 * p \in Nat \ {0}
      OBVIOUS
    <2> QED
      BY <2>1, DivMod, ZenonT(40)
  <1>4. p * q = (2 * p) * h + p * b
    <2>1. p * (2 * h + b) = (2 * p) * h + p * b
      OBVIOUS
    <2> QED
      BY <1>2, <2>1
  <1>5. p * b + r \in 0..(2 * p - 1)
    <2>1. CASE b = 0
      BY <2>1
    <2>2. CASE b = 1
      BY <2>2
    <2> QED
      BY <2>1, <2>2
  <1>6. (2 * p) * h + (p * b + r) = (2 * p) * d + m
    <2> DEFINE whole == (2 * p) * h
               half == p * b
               other == (2 * p) * d
               all == p * q
    <2>1. whole \in Nat /\ half \in Nat /\ other \in Nat /\ all \in Nat
      OBVIOUS
    <2>2. all = whole + half /\ n = all + r /\ n = other + m
      BY <1>1, <1>3, <1>4
    <2> HIDE DEF whole, half, other, all
    <2>3. whole + (half + r) = other + m
      BY <2>1, <2>2
    <2> QED
      BY <2>3 DEF whole, half, other
  <1>7. h = d
    <2>1. 2 * p \in Nat \ {0}
      OBVIOUS
    <2> QED
      BY <2>1, <1>5, <1>6, UniqueQuotient
  <1> QED
    BY <1>1, <1>2, <1>3, <1>7

(* A quotient is not greater than what is divided. *)
LEMMA QuotientBelow == ASSUME NEW n \in Nat, NEW p \in Nat \ {0}
  PROVE n \div p \in 0..n
  <1>1. PICK q \in Nat, r \in 0..(p - 1) : q = n \div p /\ n = p * q + r
    BY DivMod
  <1>2. p * q >= q
    <2>1. p = 1 + (p - 1) /\ p - 1 \in Nat
      OBVIOUS
    <2>2. \A d \in Nat : (1 + d) * q = q + d * q /\ d * q >= 0 /\ d * q \in Nat
      OBVIOUS
    <2>3. (1 + (p - 1)) * q >= q
      BY <2>1, <2>2
    <2> QED
      BY <2>1, <2>3
  <1> QED
    BY <1>1, <1>2

(* The bits of a number after its first bits. *)
LEMMA NextBit ==
    ASSUME NEW n \in Nat, NEW w \in Nat, NEW c \in 0..(w - 1)
    PROVE  2 * (n \div 2^(w - c)) + ((n \div 2^(w - (c + 1))) % 2) = n \div 2^(w - (c + 1))
  <1> DEFINE k == w - (c + 1)
  <1>1. k \in Nat /\ w - c = k + 1
    OBVIOUS
  <1>2. 2^(w - c) = 2 * 2^k
    BY <1>1, PowerDoubles
  <1>3. 2^k \in Nat \ {0}
    BY <1>1, PowerGrows
  <1> HIDE DEF k
  <1>4. 2 * (n \div (2 * 2^k)) + ((n \div 2^k) % 2) = n \div 2^k
    BY <1>3, Halves
  <1> QED
    BY <1>2, <1>4 DEF k

(* No bit of a number comes before its width, and all of it after. *)
LEMMA FirstAndLast ==
    ASSUME NEW w \in Nat, NEW n \in 0..(2^w - 1)
    PROVE  n \div 2^(w - 0) = 0 /\ n \div 2^(w - w) = n
  <1>1. 2^w \in Nat \ {0} /\ n \in Nat
    BY PowerGrows
  <1>2. n \div 2^w = 0
    <2>1. PICK q \in Nat, r \in 0..(2^w - 1) : q = n \div 2^w /\ n = 2^w * q + r
      BY <1>1, DivMod
    <2>2. 2^w * q + r = 2^w * 0 + n
      BY <2>1, <1>1
    <2>3. q = 0
      BY <2>2, <1>1, UniqueQuotient
    <2> QED
      BY <2>1, <2>3
  <1>3. 2^(w - w) = 1 /\ w - 0 = w
    OBVIOUS
  <1> QED
    BY <1>1, <1>2, <1>3

(* A power of two that a number of some width is less than gives no bit. *)
LEMMA NoBit ==
    ASSUME NEW w \in Nat, NEW k \in Nat, w <= k, NEW n \in 0..(2^w - 1)
    PROVE  (n \div 2^k) % 2 = 0
  <1>1. 2^k \in Nat \ {0} /\ n \in Nat /\ n \in 0..(2^k - 1)
    BY PowerGrows
  <1>2. n \div 2^(k - 0) = 0
    BY <1>1, FirstAndLast
  <1>3. n \div 2^k = 0
    <2>1. k - 0 = k
      OBVIOUS
    <2> QED
      BY <1>2, <2>1, Zenon
  <1>4. 0 % 2 = 0
    OBVIOUS
  <1> QED
    BY <1>3, <1>4, Zenon

(* The bits of a number are bits. *)
LEMMA BitsTyped ==
    ASSUME NEW n \in Nat, NEW width \in Nat
    PROVE  /\ Bits(n, width) \in Seq({0, 1}) /\ Len(Bits(n, width)) = width
           /\ \A i \in 1..width : Bits(n, width)[i] = (n \div 2^(width - i)) % 2
  <1>1. ASSUME NEW i \in 1..width PROVE (n \div 2^(width - i)) % 2 \in {0, 1}
    <2>1. width - i \in Nat
      OBVIOUS
    <2>2. 2^(width - i) \in Nat \ {0}
      BY <2>1, PowerGrows
    <2>3. n \div 2^(width - i) \in Nat
      BY <2>2, QuotientBelow
    <2>4. \A m \in Nat : m % 2 \in {0, 1}
      OBVIOUS
    <2> QED
      BY <2>3, <2>4
  <1>2. Bits(n, width) \in [1..width -> {0, 1}]
    BY <1>1 DEF Bits
  <1>3. Bits(n, width) \in Seq({0, 1}) /\ Len(Bits(n, width)) = width
    BY <1>2
  <1> QED
    BY <1>3 DEF Bits

\* The bit of a number that follows the first c.
BitAfter(n, width, c) == (n \div 2^(width - (c + 1))) % 2

(* What the bits of a request are: those of the command, of the address, of the
   word that is written, and the last one. *)
LEMMA RequestForm ==
    ASSUME NEW op \in {"read", "write"}, NEW address \in Nat, NEW value \in Nat,
           NEW bits, bits = RequestBits(op, address, value)
    PROVE  /\ bits \in Seq({0, 1}) /\ Len(bits) = RequestLength(op, ChipWidth)
           /\ bits[1] = 1 /\ bits[2] = IF op = "read" THEN 1 ELSE 0
           /\ \A c \in 0..(ChipWidth - 1) :
                bits[2 + c + 1] = BitAfter(address, ChipWidth, c)
           /\ op = "write" => \A c \in 0..(WordBits - 1) :
                bits[2 + ChipWidth + c + 1] = BitAfter(value, WordBits, c)
           /\ bits[RequestLength(op, ChipWidth)] = 0
  <1> DEFINE command == IF op = "read" THEN <<1, 1>> ELSE <<1, 0>>
             where == Bits(address, ChipWidth)
             word == IF op = "write" THEN Bits(value, WordBits) ELSE <<>>
             wordBits == IF op = "write" THEN WordBits ELSE 0
  <1>1. ChipWidth \in Nat /\ WordBits \in Nat /\ wordBits \in Nat
    BY EepromAssumption
  <1>2. command \in Seq({0, 1}) /\ Len(command) = 2 /\ command[1] = 1
        /\ command[2] = IF op = "read" THEN 1 ELSE 0
    <2>1. CASE op = "read"
      BY <2>1
    <2>2. CASE op = "write"
      BY <2>2
    <2> QED
      BY <2>1, <2>2
  <1>3. /\ where \in Seq({0, 1}) /\ Len(where) = ChipWidth
        /\ \A i \in 1..ChipWidth : where[i] = (address \div 2^(ChipWidth - i)) % 2
    BY <1>1, BitsTyped
  <1>4. /\ word \in Seq({0, 1}) /\ Len(word) = wordBits
        /\ op = "write" => \A i \in 1..WordBits : word[i] = (value \div 2^(WordBits - i)) % 2
    <2>1. CASE op = "read"
      BY <2>1
    <2>2. CASE op = "write"
      <3>1. word = Bits(value, WordBits) /\ wordBits = WordBits
        BY <2>2
      <3> HIDE DEF word, wordBits
      <3> QED
        BY <3>1, <1>1, BitsTyped
    <2> QED
      BY <2>1, <2>2
  <1>5. bits = ((command \o where) \o word) \o <<0>>
    BY DEF RequestBits
  <1>6. RequestLength(op, ChipWidth) = 2 + ChipWidth + wordBits + 1
    BY DEF RequestLength
  <1> HIDE DEF command, where, word, wordBits
  <1>7. PICK front : front = command \o where
    OBVIOUS
  <1>8. /\ front \in Seq({0, 1}) /\ Len(front) = 2 + ChipWidth
        /\ \A i \in 1..2 : front[i] = command[i]
        /\ \A i \in 1..ChipWidth : front[2 + i] = where[i]
    <2>1. front \in Seq({0, 1}) /\ Len(front) = Len(command) + Len(where)
      BY <1>2, <1>3, <1>7, ConcatProperties
    <2>2. \A i \in 1..(Len(command) + Len(where)) :
            front[i] = IF i <= Len(command) THEN command[i] ELSE where[i - Len(command)]
      BY <1>2, <1>3, <1>7, ConcatProperties
    <2> QED
      BY <2>1, <2>2, <1>1, <1>2, <1>3
  <1>9. PICK body : body = front \o word
    OBVIOUS
  <1>10. /\ body \in Seq({0, 1}) /\ Len(body) = 2 + ChipWidth + wordBits
         /\ \A i \in 1..(2 + ChipWidth) : body[i] = front[i]
         /\ \A i \in 1..wordBits : body[2 + ChipWidth + i] = word[i]
    <2>1. body \in Seq({0, 1}) /\ Len(body) = Len(front) + Len(word)
      BY <1>8, <1>4, <1>9, ConcatProperties
    <2>2. \A i \in 1..(Len(front) + Len(word)) :
            body[i] = IF i <= Len(front) THEN front[i] ELSE word[i - Len(front)]
      BY <1>8, <1>4, <1>9, ConcatProperties
    <2> QED
      BY <2>1, <2>2, <1>1, <1>8, <1>4
  <1>11. /\ bits \in Seq({0, 1}) /\ Len(bits) = 2 + ChipWidth + wordBits + 1
         /\ \A i \in 1..(2 + ChipWidth + wordBits) : bits[i] = body[i]
         /\ bits[2 + ChipWidth + wordBits + 1] = 0
    <2>1. bits = body \o <<0>> /\ <<0>> \in Seq({0, 1}) /\ Len(<<0>>) = 1 /\ <<0>>[1] = 0
      BY <1>5, <1>7, <1>9
    <2>2. bits \in Seq({0, 1}) /\ Len(bits) = Len(body) + Len(<<0>>)
      BY <1>10, <2>1, ConcatProperties
    <2>3. \A i \in 1..(Len(body) + Len(<<0>>)) :
            bits[i] = IF i <= Len(body) THEN body[i] ELSE <<0>>[i - Len(body)]
      BY <1>10, <2>1, ConcatProperties
    <2> QED
      BY <2>1, <2>2, <2>3, <1>1, <1>10
  <1>12. bits[1] = 1 /\ bits[2] = IF op = "read" THEN 1 ELSE 0
    BY <1>1, <1>2, <1>8, <1>10, <1>11
  <1>13. ASSUME NEW c \in 0..(ChipWidth - 1)
         PROVE  bits[2 + c + 1] = BitAfter(address, ChipWidth, c)
    <2>1. c + 1 \in 1..ChipWidth /\ 2 + (c + 1) \in 1..(2 + ChipWidth)
          /\ 2 + (c + 1) \in 1..(2 + ChipWidth + wordBits) /\ 2 + c + 1 = 2 + (c + 1)
      BY <1>1
    <2>2. bits[2 + (c + 1)] = where[c + 1]
      BY <2>1, <1>8, <1>10, <1>11, Zenon
    <2> QED
      BY <2>1, <2>2, <1>3 DEF BitAfter
  <1>14. ASSUME op = "write", NEW c \in 0..(WordBits - 1)
         PROVE  bits[2 + ChipWidth + c + 1] = BitAfter(value, WordBits, c)
    <2>1. c + 1 \in 1..WordBits /\ 2 + ChipWidth + (c + 1) \in 1..(2 + ChipWidth + WordBits)
          /\ 2 + ChipWidth + c + 1 = 2 + ChipWidth + (c + 1) /\ wordBits = WordBits
      BY <1>1, <1>14 DEF wordBits
    <2>2. bits[2 + ChipWidth + (c + 1)] = word[c + 1]
      BY <2>1, <1>10, <1>11
    <2> QED
      BY <2>1, <2>2, <1>4, <1>14 DEF BitAfter
  <1> QED
    BY <1>6, <1>11, <1>12, <1>13, <1>14

(* One more bit has been sent. *)
LEMMA OneMoreSent ==
    ASSUME NEW n \in Nat, Sent(n), unsent \in Seq({0, 1}), unsent # <<>>,
           unsent' = Tail(unsent), UNCHANGED request
    PROVE  /\ Sent(n + 1)' /\ unsent' \in Seq({0, 1}) /\ Len(unsent') = Len(unsent) - 1
           /\ Head(unsent) = RequestBits(request.op, request.address, request.value)[n + 1]
  <1> DEFINE bits == RequestBits(request.op, request.address, request.value)
             length == RequestLength(request.op, ChipWidth)
  <1>1. n + Len(unsent) = length /\ \A i \in 1..Len(unsent) : unsent[i] = bits[n + i]
    BY DEF Sent
  <1>2. /\ Len(unsent) \in Nat \ {0} /\ Len(unsent') = Len(unsent) - 1
        /\ \A i \in 1..Len(unsent') : unsent'[i] = unsent[i + 1]
        /\ unsent' \in Seq({0, 1}) /\ Head(unsent) = unsent[1]
    BY HeadTailProperties
  <1>3. Sent(n + 1)' <=> (/\ n + 1 + Len(unsent') = length
                          /\ \A i \in 1..Len(unsent') : unsent'[i] = bits[n + 1 + i])
    BY DEF Sent
  <1> HIDE DEF bits, length
  <1>4. \A i \in 1..Len(unsent') : unsent'[i] = bits[n + 1 + i]
    <2> TAKE i \in 1..Len(unsent')
    <2>1. i + 1 \in 1..Len(unsent) /\ n + (i + 1) = n + 1 + i
      BY <1>2
    <2> QED
      BY <2>1, <1>1, <1>2
  <1>5. n + 1 + Len(unsent') = length
    BY <1>1, <1>2
  <1>6. Head(unsent) = bits[n + 1]
    BY <1>1, <1>2
  <1> QED
    BY <1>2, <1>3, <1>4, <1>5, <1>6 DEF bits

(* The first request tells the chip the width that the program uses. *)
LEMMA WidthFound ==
    ASSUME Detectable, NEW op \in {"read", "write"}, op = "write" => WriteFirst
    PROVE  BusWidth(RequestLength(op, ChipWidth)) = ChipWidth
  <1>1. /\ Narrow \in Nat /\ Wide \in Nat /\ WordBits \in Nat /\ Narrow < Wide
        /\ ChipWidth \in {Narrow, Wide}
    BY EepromAssumption
  <1>2. CASE op = "read"
    BY <1>1, <1>2 DEF BusWidth, RequestLength
  <1>3. CASE op = "write"
    <2>1. ChipWidth = Narrow /\ Narrow + WordBits # Wide
      BY <1>3 DEF Detectable
    <2> QED
      BY <1>1, <1>3, <2>1 DEF BusWidth, RequestLength
  <1> QED
    BY <1>2, <1>3

(* The chip with a bit in its buffer, before it acts on it. *)
Arrived(e) ==
    /\ e.bus_width = ChipWidth /\ e.state = eeprom.state /\ e.cmd = eeprom.cmd
    /\ e.address = eeprom.address
    /\ e.transmission_count = eeprom.transmission_count + 1
    /\ e.buffer = (2 * eeprom.buffer + Head(unsent)) % 2^WordBits
    /\ e.settled_response = IF 1 \in settles THEN 1 ELSE eeprom.settled_response

(* A bit that is sent arrives. *)
LEMMA BitArrives ==
    ASSUME Detectable, Typed, Knows, SendBit, request.op \in {"read", "write"},
           ~detected => (request.op = "write" => WriteFirst),
           eeprom.transmission_count < 255
    PROVE  \E e \in Chips :
                /\ Arrived(e) /\ eeprom' = AfterBit(e) /\ memory' = MemoryAfterBit(e)
                /\ settles' = Elapsed \cup (IF Word(e) THEN {eeprom_settle_cycles} ELSE {})
  <1> DEFINE length == RequestLength(request.op, ChipWidth)
             settling == Settling(eeprom)
             wide == Detected(settling, length)
             e == Shifted(wide, Head(unsent))
  <1>1. /\ eeprom' = AfterBit(e) /\ memory' = MemoryAfterBit(e)
        /\ settles' = Elapsed \cup (IF Word(e) THEN {eeprom_settle_cycles} ELSE {})
        /\ unsent # <<>>
    BY DEF SendBit
  <1>2. eeprom \in Chips /\ unsent \in Seq({0, 1})
    BY DEF Typed
  <1>3. /\ settling \in Chips /\ settling.bus_width = eeprom.bus_width
        /\ settling.state = eeprom.state /\ settling.cmd = eeprom.cmd
        /\ settling.address = eeprom.address /\ settling.buffer = eeprom.buffer
        /\ settling.transmission_count = eeprom.transmission_count
        /\ settling.settled_response = IF 1 \in settles THEN 1 ELSE eeprom.settled_response
    BY <1>2 DEF Settling, Chips
  <1>4. ChipWidth \in Nat
    BY EepromAssumption
  <1> HIDE DEF settling
  <1>5. /\ wide \in Chips /\ wide.bus_width = ChipWidth
        /\ wide.state = eeprom.state /\ wide.cmd = eeprom.cmd
        /\ wide.address = eeprom.address /\ wide.buffer = eeprom.buffer
        /\ wide.transmission_count = eeprom.transmission_count
        /\ wide.settled_response = IF 1 \in settles THEN 1 ELSE eeprom.settled_response
    <2>1. CASE detected
      <3>1. wide = settling
        BY <2>1 DEF Detected
      <3>2. eeprom.bus_width = ChipWidth
        BY <2>1 DEF Knows
      <3> QED
        BY <3>1, <3>2, <1>3
    <2>2. CASE ~detected
      <3>1. BusWidth(length) = ChipWidth
        BY <2>2, WidthFound
      <3>2. wide = [settling EXCEPT !.bus_width = ChipWidth]
        BY <2>2, <3>1 DEF Detected
      <3> QED
        BY <3>2, <1>3, <1>4 DEF Chips
    <2> QED
      BY <2>1, <2>2
  <1>6. Head(unsent) \in {0, 1}
    BY <1>1, <1>2, HeadTailProperties
  <1> HIDE DEF wide
  <1>7. eeprom.buffer \in Nat /\ eeprom.transmission_count \in Nat
    BY <1>2 DEF Chips
  <1>8. (2 * eeprom.buffer + Head(unsent)) % 2^WordBits \in Nat
    <2>1. 2^WordBits \in Nat \ {0}
      BY EepromAssumption, PowerGrows
    <2>2. \A m \in Nat, w \in Nat \ {0} : m % w \in Nat
      OBVIOUS
    <2>3. 2 * eeprom.buffer + Head(unsent) \in Nat
      BY <1>6, <1>7
    <2> QED
      BY <2>1, <2>2, <2>3, Zenon
  <1>9. (eeprom.transmission_count + 1) % 256 = eeprom.transmission_count + 1
    BY <1>7
  <1>10. e = [wide EXCEPT !.buffer = (2 * eeprom.buffer + Head(unsent)) % 2^WordBits,
                          !.transmission_count = eeprom.transmission_count + 1]
    BY <1>5, <1>9 DEF Shifted
  <1>11. eeprom.transmission_count + 1 \in Nat
    BY <1>7
  <1> HIDE DEF e
  <1>12. e \in Chips /\ Arrived(e)
    <2> DEFINE shifted == (2 * eeprom.buffer + Head(unsent)) % 2^WordBits
               counted == eeprom.transmission_count + 1
    <2>1. shifted \in Nat /\ counted \in Nat /\ e = [wide EXCEPT !.buffer = shifted, !.transmission_count = counted]
      BY <1>8, <1>10, <1>11
    <2> HIDE DEF shifted, counted
    <2>2. /\ e \in Chips /\ e.bus_width = ChipWidth /\ e.state = eeprom.state /\ e.cmd = eeprom.cmd
          /\ e.address = eeprom.address /\ e.transmission_count = counted /\ e.buffer = shifted
          /\ e.settled_response = IF 1 \in settles THEN 1 ELSE eeprom.settled_response
      BY <2>1, <1>5 DEF Chips
    <2> QED
      BY <2>2 DEF Arrived, shifted, counted
  <1> QED
    BY <1>1, <1>12

(* The bits of a number up to one that arrives. *)
LEMMA Shift ==
    ASSUME NEW width \in Nat, width <= WordBits, NEW n \in 0..(2^width - 1),
           NEW c \in 0..(width - 1), NEW buffer, NEW bit,
           buffer = n \div 2^(width - c), bit = BitAfter(n, width, c)
    PROVE  (2 * buffer + bit) % 2^WordBits = n \div 2^(width - (c + 1))
  <1>1. 2 * buffer + bit = n \div 2^(width - (c + 1))
    <2>1. n \in Nat
      BY PowerGrows
    <2> QED
      BY <2>1, NextBit DEF BitAfter
  <1>2. 2^(width - (c + 1)) \in Nat \ {0}
    <2>1. width - (c + 1) \in Nat
      OBVIOUS
    <2> QED
      BY <2>1, PowerGrows
  <1>3. 2^width \in Nat \ {0} /\ 2^width <= 2^WordBits /\ 2^WordBits \in Nat
    <2>1. WordBits \in Nat /\ width \in 0..WordBits
      BY EepromAssumption
    <2> QED
      BY <2>1, PowerGrows
  <1>4. n \in Nat /\ n < 2^WordBits
    BY <1>3
  <1>5. n \div 2^(width - (c + 1)) \in 0..n
    BY <1>2, <1>4, QuotientBelow
  <1>6. ASSUME NEW q \in 0..n, NEW top \in Nat, n < top PROVE q % top = q
    BY <1>4, <1>6
  <1> QED
    BY <1>1, <1>3, <1>4, <1>5, <1>6

(* The sizes of a chip, as the proofs use them. *)
LEMMA Sizes ==
    ASSUME Detectable
    PROVE  /\ ChipWidth \in Nat \ {0} /\ ChipWidth <= WordBits /\ ChipWidth < 256
           /\ WordBits \in Nat /\ 2 <= WordBits /\ WordBits < 256
           /\ IgnoredBits \in Nat \ {0} /\ Words \in Nat \ {0}
           /\ 2^WordBits \in Nat /\ 4 <= 2^WordBits
           /\ 2^ChipWidth \in Nat \ {0} /\ 2^ChipWidth <= 2^WordBits
  <1>1. /\ ChipWidth \in Nat \ {0} /\ ChipWidth <= WordBits /\ ChipWidth < 256
        /\ WordBits \in Nat /\ 2 <= WordBits /\ WordBits < 256
        /\ IgnoredBits \in Nat \ {0} /\ Words \in Nat \ {0}
    <2>1. /\ Narrow \in Nat \ {0} /\ Wide \in Nat /\ Narrow < Wide /\ ChipWidth \in {Narrow, Wide}
          /\ WordBits \in Nat \ {0} /\ IgnoredBits \in Nat \ {0} /\ Words \in Nat \ {0}
      BY EepromAssumption
    <2>2. 2 <= WordBits /\ Wide <= WordBits /\ WordBits < 256
      BY DEF Detectable
    <2> QED
      BY <2>1, <2>2
  <1>2. 2^WordBits \in Nat /\ 2^2 <= 2^WordBits /\ 2^ChipWidth \in Nat \ {0}
        /\ 2^ChipWidth <= 2^WordBits
    <2>1. 2 \in 0..WordBits /\ ChipWidth \in 0..WordBits /\ WordBits \in 0..WordBits
      BY <1>1
    <2> QED
      BY <2>1, <1>1, PowerGrows
  <1>3. 2^2 = 4
    OBVIOUS
  <1> QED
    BY <1>1, <1>2, <1>3

(* An address names a word. *)
LEMMA CellTyped ==
    ASSUME request \in Requests, Detectable
    PROVE  /\ Cell \in Addresses /\ request.op \in {"read", "write"}
           /\ request.address \in Nat /\ request.address \in 0..(2^ChipWidth - 1)
           /\ request.value \in Nat /\ request.value \in 0..(2^WordBits - 1)
  <1>1. request.address \in 0..(2^ChipWidth - 1) /\ request.value \in 0..(2^WordBits - 1)
        /\ request.op \in {"read", "write"}
    BY DEF Requests, Cells
  <1>2. request.address \in Nat /\ request.value \in Nat
    BY <1>1, Sizes
  <1>3. \A a \in Nat, w \in Nat \ {0} : a % w \in 0..(w - 1)
    OBVIOUS
  <1>4. Cell \in Addresses
    BY <1>2, <1>3, Sizes DEF Cell, Addresses
  <1> QED
    BY <1>1, <1>2, <1>4

(* The bits of a command. *)
LEMMA CommandSent ==
    ASSUME Detectable, Typed, Knows, request \in Requests, SendingCommand, SendBit
    PROVE  Framed'
  <1>1. PICK n \in 0..1 : n = eeprom.transmission_count
    BY DEF SendingCommand
  <1>2. /\ request.op \in {"read", "write"} /\ eeprom.transmission_count < 255
        /\ Sent(n) /\ unsent # <<>> /\ unsent \in Seq({0, 1}) /\ unsent' = Tail(unsent)
        /\ eeprom.buffer = n /\ n \in Nat
    BY <1>1, CellTyped DEF SendingCommand, SendBit, Typed
  <1>3. Len(unsent) = RequestLength(request.op, ChipWidth) - n
    BY <1>1, <1>2 DEF Sent
  <1>4. Len(unsent) \in Nat /\ Len(unsent) > 1
    <2>1. RequestLength(request.op, ChipWidth) >= 2 + ChipWidth + 1
          /\ RequestLength(request.op, ChipWidth) \in Nat
      BY Sizes DEF RequestLength
    <2> QED
      BY <1>1, <1>3, <2>1, Sizes, SMTT(40)
  <1>5. /\ UNCHANGED <<request, ready, written, default_width, received, patient>>
        /\ detected' = TRUE
    <2>1. Len(unsent) # 1
      <3>1. \A k \in Nat : k > 1 => k # 1
        OBVIOUS
      <3> QED
        BY <1>4, <3>1, Zenon
    <2> QED
      BY <2>1 DEF SendBit
  <1>6. /\ Sent(n + 1)' /\ unsent' \in Seq({0, 1})
        /\ Head(unsent) = RequestBits(request.op, request.address, request.value)[n + 1]
    BY <1>2, <1>5, OneMoreSent
  <1>7. PICK e \in Chips : Arrived(e) /\ eeprom' = AfterBit(e) /\ memory' = MemoryAfterBit(e)
    BY <1>1, <1>2, BitArrives DEF SendingCommand
  <1>8. /\ e.bus_width = ChipWidth /\ e.state = "accepting_commands" /\ e.cmd = "none"
        /\ e.transmission_count = n + 1
    BY <1>1, <1>7 DEF Arrived, SendingCommand, ChipIn
  <1>9. eeprom' = AcceptCommand(e) /\ memory' = memory
    BY <1>7, <1>8 DEF AfterBit, MemoryAfterBit, Word
  <1>10. Head(unsent) = IF n = 0 THEN 1 ELSE IF request.op = "read" THEN 1 ELSE 0
    <2>1. PICK bits : bits = RequestBits(request.op, request.address, request.value)
      OBVIOUS
    <2>2. bits[1] = 1 /\ bits[2] = IF request.op = "read" THEN 1 ELSE 0
      <3>1. request.op \in {"read", "write"} /\ request.address \in Nat /\ request.value \in Nat
        BY CellTyped
      <3> QED
        BY <2>1, <3>1, RequestForm
    <2> QED
      BY <1>1, <1>6, <2>1, <2>2
  <1>11. e.buffer = IF n = 0 THEN 1 ELSE IF request.op = "read" THEN 3 ELSE 2
    <2>1. e.buffer = (2 * n + Head(unsent)) % 2^WordBits
      BY <1>2, <1>7 DEF Arrived
    <2>2. PICK top \in Nat : top = 2^WordBits /\ 4 <= top
      BY Sizes
    <2>3. 1 % top = 1 /\ 2 % top = 2 /\ 3 % top = 3
      BY <2>2
    <2>4. 2 * n + Head(unsent) = IF n = 0 THEN 1 ELSE IF request.op = "read" THEN 3 ELSE 2
      BY <1>1, <1>10
    <2> QED
      BY <2>1, <2>2, <2>3, <2>4
  <1>12. memory' \in [Addresses -> Cells] /\ written' \in [Addresses -> Cells] /\ memory' = written'
    BY <1>5, <1>9 DEF Typed, SendingCommand
  <1>13. CASE n = 0
    <2>1. eeprom' = e
      BY <1>8, <1>9, <1>13 DEF AcceptCommand
    <2>2. SendingCommand'
      BY <1>5, <1>6, <1>8, <1>11, <1>12, <1>13, <2>1 DEF SendingCommand, ChipIn
    <2>3. Typed'
      BY <1>5, <1>6, <1>7, <1>12, <2>1 DEF Typed
    <2>4. Knows'
      BY <1>5, <1>8, <2>1 DEF Knows
    <2> QED
      BY <1>5, <2>2, <2>3, <2>4 DEF Framed, Requesting
  <1>14. CASE n = 1
    <2>1. PICK accepted : accepted = [e EXCEPT !.state = "transmitting_addr", !.cmd = request.op]
                          /\ eeprom' = ResetBuffer(accepted)
      <3>1. e.transmission_count = 2
        BY <1>8, <1>14
      <3>2. CASE request.op = "read"
        <4>1. e.buffer = 3
          BY <1>11, <1>14, <3>2
        <4> QED
          BY <1>9, <3>1, <3>2, <4>1 DEF AcceptCommand
      <3>3. CASE request.op = "write"
        <4>1. e.buffer = 2
          BY <1>11, <1>14, <3>3
        <4> QED
          BY <1>9, <3>1, <3>3, <4>1 DEF AcceptCommand
      <3> QED
        BY <1>2, <3>2, <3>3
    <2>2. /\ eeprom' \in Chips /\ eeprom'.state = "transmitting_addr" /\ eeprom'.cmd = request.op
          /\ eeprom'.bus_width = ChipWidth /\ eeprom'.transmission_count = 0 /\ eeprom'.buffer = 0
      <3>1. /\ accepted \in Chips /\ accepted.state = "transmitting_addr" /\ accepted.cmd = request.op
            /\ accepted.bus_width = ChipWidth
        BY <1>2, <1>7, <1>8, <2>1 DEF Chips
      <3>2. eeprom' = [accepted EXCEPT !.buffer = 0, !.transmission_count = 0]
        BY <2>1 DEF ResetBuffer
      <3> QED
        BY <3>1, <3>2 DEF Chips
    <2>3. request.address \div 2^(ChipWidth - 0) = 0
      BY CellTyped, Sizes, FirstAndLast
    <2>4. SendingAddress'
      <3>1. 0 \in 0..(ChipWidth - 1)
        BY Sizes
      <3>2. Sent(2 + 0)'
        BY <1>6, <1>14
      <3> QED
        BY <1>5, <1>12, <2>2, <2>3, <3>1, <3>2 DEF SendingAddress, SendingCommand, ChipIn, High
    <2>5. Typed'
      BY <1>5, <1>6, <1>12, <2>2 DEF Typed
    <2>6. Knows'
      BY <1>5, <2>2 DEF Knows
    <2> QED
      BY <1>5, <2>4, <2>5, <2>6 DEF Framed, Requesting
  <1> QED
    BY <1>13, <1>14

(* So are the bits of the request that the program makes. *)
LEMMA RequestSends ==
    ASSUME Detectable, request \in Requests,
           NEW bits, bits = RequestBits(request.op, request.address, request.value)
    PROVE  /\ \A c \in 0..(ChipWidth - 1) :
                bits[2 + c + 1] = BitAfter(request.address, ChipWidth, c)
           /\ request.op = "write" => \A c \in 0..(WordBits - 1) :
                bits[2 + ChipWidth + c + 1] = BitAfter(request.value, WordBits, c)
           /\ bits[RequestLength(request.op, ChipWidth)] = 0
  <1>1. PICK op \in {"read", "write"}, address \in Nat, value \in Nat :
          op = request.op /\ address = request.address /\ value = request.value
    BY CellTyped
  <1>2. bits = RequestBits(op, address, value)
    BY <1>1
  <1>3. \A c \in 0..(ChipWidth - 1) : bits[2 + c + 1] = BitAfter(address, ChipWidth, c)
    BY <1>2, RequestForm, SMTT(40)
  <1>4. op = "write" => \A c \in 0..(WordBits - 1) :
            bits[2 + ChipWidth + c + 1] = BitAfter(value, WordBits, c)
    BY <1>2, RequestForm
  <1>5. bits[RequestLength(op, ChipWidth)] = 0
    BY <1>2, RequestForm
  <1> QED
    BY <1>1, <1>3, <1>4, <1>5, Zenon

(* A bit that is not the last of its request. *)
LEMMA NotLast ==
    ASSUME Detectable, Typed, request \in Requests, SendBit, NEW n \in Nat, Sent(n),
           n + 1 < RequestLength(request.op, ChipWidth)
    PROVE  /\ UNCHANGED <<request, ready, written, default_width, received, patient>>
           /\ detected' = TRUE
           /\ Sent(n + 1)' /\ unsent' \in Seq({0, 1})
           /\ Head(unsent) = RequestBits(request.op, request.address, request.value)[n + 1]
  <1>1. unsent # <<>> /\ unsent \in Seq({0, 1}) /\ unsent' = Tail(unsent)
    BY DEF SendBit, Typed
  <1>2. PICK length \in Nat : length = RequestLength(request.op, ChipWidth)
    BY Sizes DEF RequestLength
  <1>3. PICK left \in Nat : left = Len(unsent)
    BY <1>1
  <1>4. left # 1
    BY <1>2, <1>3 DEF Sent
  <1>5. UNCHANGED <<request, ready, written, default_width, received, patient>> /\ detected' = TRUE
    BY <1>3, <1>4, Zenon DEF SendBit
  <1> QED
    BY <1>1, <1>5, OneMoreSent

(* The bits of an address. *)
LEMMA AddressSent ==
    ASSUME Detectable, Typed, Knows, request \in Requests, SendingAddress, SendBit
    PROVE  Framed'
  <1>1. PICK n \in 0..(ChipWidth - 1) : n = eeprom.transmission_count
    BY DEF SendingAddress
  <1>2. /\ request.op \in {"read", "write"} /\ eeprom.transmission_count < 255
        /\ Sent(2 + n) /\ 2 + n \in Nat /\ n \in Nat
        /\ eeprom.buffer = request.address \div 2^(ChipWidth - n)
    BY <1>1, CellTyped, Sizes, SMTT(40) DEF SendingAddress, High
  <1>3. 2 + n + 1 < RequestLength(request.op, ChipWidth)
    BY <1>1, Sizes DEF RequestLength
  <1>4. /\ UNCHANGED <<request, ready, written, default_width, received, patient>>
        /\ detected' = TRUE
        /\ Sent(2 + n + 1)' /\ unsent' \in Seq({0, 1})
        /\ Head(unsent) = RequestBits(request.op, request.address, request.value)[2 + n + 1]
    BY <1>2, <1>3, NotLast
  <1>5. PICK e \in Chips : Arrived(e) /\ eeprom' = AfterBit(e) /\ memory' = MemoryAfterBit(e)
    BY <1>2, BitArrives DEF SendingAddress
  <1>6. /\ e.bus_width = ChipWidth /\ e.state = "transmitting_addr" /\ e.cmd = request.op
        /\ e.transmission_count = n + 1
    BY <1>1, <1>5 DEF Arrived, SendingAddress, ChipIn
  <1>7. eeprom' = TransmitAddress(e)
    BY <1>5, <1>6, Zenon DEF AfterBit, Word
  <1>8. Head(unsent) = BitAfter(request.address, ChipWidth, n)
    BY <1>1, <1>4, RequestSends
  <1>9. e.buffer = request.address \div 2^(ChipWidth - (n + 1))
    <2>1. e.buffer = (2 * eeprom.buffer + Head(unsent)) % 2^WordBits
      BY <1>5 DEF Arrived
    <2>2. ChipWidth \in Nat /\ ChipWidth <= WordBits /\ request.address \in 0..(2^ChipWidth - 1)
      BY Sizes, CellTyped
    <2>3. (2 * eeprom.buffer + Head(unsent)) % 2^WordBits
            = request.address \div 2^(ChipWidth - (n + 1))
      BY <1>2, <1>8, <2>2, Shift
    <2> QED
      BY <2>1, <2>3, Zenon
  <1>10. written' \in [Addresses -> Cells] /\ written' = written /\ memory = written
         /\ Cell' = Cell /\ received' = <<>>
    BY <1>4 DEF Typed, SendingAddress, Cell
  <1>11. CASE n + 1 < ChipWidth
    <2>1. n + 1 # ChipWidth /\ n + 1 \in 0..(ChipWidth - 1)
      BY <1>11, Sizes
    <2>2. eeprom' = e
      BY <1>6, <1>7, <2>1, Zenon DEF TransmitAddress
    <2>3. memory' = memory
      BY <1>5, <1>6, <2>1, Zenon DEF MemoryAfterBit, Word
    <2>4. Sent(2 + (n + 1))'
      <3>1. 2 + n + 1 = 2 + (n + 1)
        BY <1>2
      <3> QED
        BY <1>4, <3>1
    <2>5. SendingAddress'
      BY <1>4, <1>6, <1>9, <1>10, <2>1, <2>2, <2>3, <2>4, Zenon DEF SendingAddress, ChipIn, High
    <2>6. Typed'
      BY <1>4, <1>5, <1>10, <2>2, <2>3 DEF Typed
    <2>7. Knows'
      BY <1>4, <1>6, <2>2 DEF Knows
    <2> QED
      BY <1>4, <2>5, <2>6, <2>7 DEF Framed, Requesting
  <1>12. CASE n + 1 = ChipWidth
    <2>1. e.buffer = request.address
      <3>1. request.address \div 2^(ChipWidth - ChipWidth) = request.address
        BY CellTyped, Sizes, FirstAndLast
      <3> QED
        BY <1>9, <1>12, <3>1
    <2>2. e.buffer % Words = Cell /\ Cell \in Addresses
      BY <2>1, CellTyped DEF Cell
    <2>3. PICK next : next = [e EXCEPT !.address = Cell,
                                       !.state = IF e.cmd = "write" THEN "transmitting_data"
                                                 ELSE "waiting_finish_bit"]
                      /\ eeprom' = ResetBuffer(next)
      BY <1>6, <1>7, <1>12, <2>2 DEF TransmitAddress
    <2>4. /\ eeprom' \in Chips /\ eeprom'.cmd = request.op /\ eeprom'.bus_width = ChipWidth
          /\ eeprom'.state = IF request.op = "write" THEN "transmitting_data" ELSE "waiting_finish_bit"
          /\ eeprom'.transmission_count = 0 /\ eeprom'.buffer = 0 /\ eeprom'.address = Cell
      <3>1. Cell \in Nat
        BY <2>2, Sizes DEF Addresses
      <3>2. /\ next \in Chips /\ next.cmd = request.op /\ next.bus_width = ChipWidth
            /\ next.state = IF request.op = "write" THEN "transmitting_data" ELSE "waiting_finish_bit"
            /\ next.address = Cell
        BY <1>5, <1>6, <2>3, <3>1 DEF Chips
      <3>3. eeprom' = [next EXCEPT !.buffer = 0, !.transmission_count = 0]
        BY <2>3 DEF ResetBuffer
      <3> QED
        BY <3>2, <3>3 DEF Chips
    <2>5. Knows'
      BY <1>4, <2>4 DEF Knows
    <2>6. CASE request.op = "write"
      <3>1. memory' = [written EXCEPT ![Cell] = 0]
        <4>1. e.state = "transmitting_addr" /\ e.cmd = "write" /\ e.transmission_count = e.bus_width
          BY <1>6, <1>12, <2>6
        <4>2. memory' = [memory EXCEPT ![e.buffer % Words] = 0]
          BY <1>5, <4>1, Zenon DEF MemoryAfterBit, Word
        <4> QED
          BY <1>10, <2>2, <4>2
      <3>2. memory' \in [Addresses -> Cells]
        <4>1. 0 \in Cells
          BY Sizes DEF Cells
        <4> QED
          BY <3>1, <4>1, <1>10
      <3>3. request.value \div 2^(WordBits - 0) = 0
        BY CellTyped, Sizes, FirstAndLast
      <3>4. Sent(2 + ChipWidth + 0)'
        <4>1. 2 + n + 1 = 2 + ChipWidth + 0
          BY <1>1, <1>12, Sizes
        <4> QED
          BY <1>4, <4>1
      <3>5. 0 \in 0..(WordBits - 1)
        BY Sizes
      <3>6. SendingWord'
        BY <1>4, <1>10, <2>4, <2>6, <3>1, <3>3, <3>4, <3>5 DEF SendingWord, ChipIn, High
      <3>7. Typed'
        BY <1>4, <1>10, <2>4, <3>2 DEF Typed
      <3> QED
        BY <1>4, <2>5, <3>6, <3>7 DEF Framed, Requesting
    <2>7. CASE request.op = "read"
      <3>1. memory' = memory
        <4>1. e.cmd # "write"
          BY <1>6, <2>7
        <4> QED
          BY <1>5, <4>1, Zenon DEF MemoryAfterBit, Word
      <3>2. Sent(RequestLength(request.op, ChipWidth) - 1)'
        <4>1. 2 + n + 1 = RequestLength(request.op, ChipWidth) - 1
          BY <1>1, <1>12, <2>7, Sizes DEF RequestLength
        <4> QED
          BY <1>4, <4>1
      <3>3. SendingEnd'
        BY <1>4, <1>10, <2>4, <2>7, <3>1, <3>2 DEF SendingEnd, ChipIn, Holds
      <3>4. Typed'
        BY <1>4, <1>10, <2>4, <3>1 DEF Typed
      <3> QED
        BY <1>4, <2>5, <3>3, <3>4 DEF Framed, Requesting
    <2> QED
      BY <1>2, <2>6, <2>7
  <1>13. n + 1 < ChipWidth \/ n + 1 = ChipWidth
    BY <1>1, Sizes
  <1> QED
    BY <1>11, <1>12, <1>13

(* What a reset of the buffer leaves. *)
LEMMA ResetLeaves ==
    ASSUME NEW e \in Chips, NEW after, after = ResetBuffer(e)
    PROVE  /\ after \in Chips /\ after.buffer = 0 /\ after.transmission_count = 0
           /\ after.state = e.state /\ after.cmd = e.cmd /\ after.address = e.address
           /\ after.bus_width = e.bus_width /\ after.settled_response = e.settled_response
  BY DEF ResetBuffer, Chips

(* The bits of a word that is written. *)
LEMMA WordSent ==
    ASSUME Detectable, Typed, Knows, request \in Requests, SendingWord, SendBit
    PROVE  Framed'
  <1>1. PICK n \in 0..(WordBits - 1) : n = eeprom.transmission_count
    BY DEF SendingWord
  <1>2. /\ request.op = "write" /\ request.op \in {"read", "write"}
        /\ eeprom.transmission_count < 255
        /\ Sent(2 + ChipWidth + n) /\ 2 + ChipWidth + n \in Nat /\ n \in Nat
        /\ eeprom.buffer = request.value \div 2^(WordBits - n)
    <2>1. request.op = "write" /\ request.op \in {"read", "write"}
      BY DEF SendingWord
    <2>2. eeprom.transmission_count < 255 /\ 2 + ChipWidth + n \in Nat /\ n \in Nat
      BY <1>1, Sizes
    <2>3. Sent(2 + ChipWidth + n) /\ eeprom.buffer = request.value \div 2^(WordBits - n)
      BY <1>1, Zenon DEF SendingWord, High
    <2> QED
      BY <2>1, <2>2, <2>3
  <1>3. 2 + ChipWidth + n + 1 < RequestLength(request.op, ChipWidth)
    BY <1>1, <1>2, Sizes DEF RequestLength
  <1>4. /\ UNCHANGED <<request, ready, written, default_width, received, patient>>
        /\ detected' = TRUE
        /\ Sent(2 + ChipWidth + n + 1)' /\ unsent' \in Seq({0, 1})
        /\ Head(unsent) = RequestBits(request.op, request.address, request.value)[2 + ChipWidth + n + 1]
    BY <1>2, <1>3, NotLast
  <1>5. PICK e \in Chips : Arrived(e) /\ eeprom' = AfterBit(e) /\ memory' = MemoryAfterBit(e)
    BY <1>2, BitArrives DEF SendingWord
  <1>6. /\ e.bus_width = ChipWidth /\ e.state = "transmitting_data" /\ e.cmd = "write"
        /\ e.transmission_count = n + 1 /\ e.address = Cell
    BY <1>1, <1>5 DEF Arrived, SendingWord, ChipIn
  <1>7. Head(unsent) = BitAfter(request.value, WordBits, n)
    BY <1>1, <1>2, <1>4, RequestSends
  <1>8. e.buffer = request.value \div 2^(WordBits - (n + 1))
    <2>1. e.buffer = (2 * eeprom.buffer + Head(unsent)) % 2^WordBits
      BY <1>5 DEF Arrived
    <2>2. WordBits \in Nat /\ WordBits <= WordBits /\ request.value \in 0..(2^WordBits - 1)
      BY Sizes, CellTyped
    <2>3. (2 * eeprom.buffer + Head(unsent)) % 2^WordBits
            = request.value \div 2^(WordBits - (n + 1))
      <3>1. PICK width \in Nat : width = WordBits /\ width <= WordBits
        BY <2>2
      <3>2. /\ n \in 0..(width - 1) /\ request.value \in 0..(2^width - 1)
            /\ eeprom.buffer = request.value \div 2^(width - n)
            /\ Head(unsent) = BitAfter(request.value, width, n)
        BY <1>1, <1>2, <1>7, <2>2, <3>1
      <3>3. (2 * eeprom.buffer + Head(unsent)) % 2^WordBits = request.value \div 2^(width - (n + 1))
        <4>1. width <= WordBits
          BY <3>1
        <4> QED
          BY <3>2, <4>1, Shift, Zenon
      <3> QED
        BY <3>1, <3>3
    <2> QED
      BY <2>1, <2>3, Zenon
  <1>9. written' \in [Addresses -> Cells] /\ written' = written /\ memory = [written EXCEPT ![Cell] = 0]
         /\ Cell' = Cell /\ received' = <<>> /\ Cell \in Addresses /\ memory \in [Addresses -> Cells]
    BY <1>4, CellTyped DEF Typed, SendingWord, Cell
  <1>10. CASE n + 1 < WordBits
    <2>1. n + 1 # WordBits /\ n + 1 \in 0..(WordBits - 1)
      BY <1>10, Sizes
    <2>2. ~Word(e)
      BY <1>6, <2>1, Zenon DEF Word
    <2>3. eeprom' = e /\ memory' = memory
      BY <1>5, <1>6, <2>2, Zenon DEF AfterBit, MemoryAfterBit
    <2>4. Sent(2 + ChipWidth + (n + 1))'
      <3>1. 2 + ChipWidth + n + 1 = 2 + ChipWidth + (n + 1)
        BY <1>2, Sizes
      <3> QED
        BY <1>4, <3>1
    <2>5. SendingWord'
      BY <1>2, <1>4, <1>6, <1>8, <1>9, <2>1, <2>3, <2>4, Zenon DEF SendingWord, ChipIn, High
    <2>6. Typed'
      BY <1>4, <1>5, <1>9, <2>3 DEF Typed
    <2>7. Knows'
      BY <1>4, <1>6, <2>3 DEF Knows
    <2> QED
      BY <1>4, <2>5, <2>6, <2>7 DEF Framed, Requesting
  <1>11. CASE n + 1 = WordBits
    <2>1. e.buffer = request.value
      <3>1. request.value \div 2^(WordBits - WordBits) = request.value
        BY CellTyped, Sizes, FirstAndLast
      <3> QED
        BY <1>8, <1>11, <3>1
    <2>2. Word(e)
      BY <1>6, <1>11 DEF Word
    <2>3. eeprom' = WordEnds(e) /\ memory' = [memory EXCEPT ![e.address] = e.buffer]
      BY <1>5, <1>6, <2>2, Zenon DEF AfterBit, MemoryAfterBit
    <2>4. /\ eeprom' \in Chips /\ eeprom'.cmd = "write" /\ eeprom'.bus_width = ChipWidth
          /\ eeprom'.state = "waiting_finish_bit"
          /\ eeprom'.transmission_count = 0 /\ eeprom'.buffer = 0 /\ eeprom'.address = Cell
      <3>1. PICK next : next = [e EXCEPT !.state = "waiting_finish_bit", !.settled_response = 0]
                        /\ eeprom' = ResetBuffer(next)
        BY <2>3 DEF WordEnds
      <3>2. /\ next \in Chips /\ next.cmd = "write" /\ next.bus_width = ChipWidth
            /\ next.state = "waiting_finish_bit" /\ next.address = Cell
        BY <1>5, <1>6, <3>1 DEF Chips
      <3> QED
        BY <3>1, <3>2, ResetLeaves
    <2>5. memory' = [written EXCEPT ![Cell] = request.value]
      BY <1>6, <1>9, <2>1, <2>3
    <2>6. memory' \in [Addresses -> Cells]
      <3>1. request.value \in Cells
        BY CellTyped DEF Cells
      <3> QED
        BY <2>5, <3>1, <1>9
    <2>7. Sent(RequestLength(request.op, ChipWidth) - 1)'
      <3>1. 2 + ChipWidth + n + 1 = RequestLength(request.op, ChipWidth) - 1
        BY <1>1, <1>2, <1>11, Sizes DEF RequestLength
      <3> QED
        BY <1>4, <3>1
    <2>8. SendingEnd'
      BY <1>2, <1>4, <1>9, <2>4, <2>5, <2>7 DEF SendingEnd, ChipIn, Holds
    <2>9. Typed'
      BY <1>4, <1>9, <2>4, <2>6 DEF Typed
    <2>10. Knows'
      BY <1>4, <2>4 DEF Knows
    <2> QED
      BY <1>4, <2>8, <2>9, <2>10 DEF Framed, Requesting
  <1>12. n + 1 < WordBits \/ n + 1 = WordBits
    BY <1>1, Sizes
  <1> QED
    BY <1>10, <1>11, <1>12

(* The last bit. *)
LEMMA EndSent ==
    ASSUME Detectable, Typed, Knows, request \in Requests, SendingEnd, SendBit
    PROVE  Framed'
  <1>1. PICK length \in Nat \ {0} : length = RequestLength(request.op, ChipWidth)
    BY Sizes DEF RequestLength
  <1>2. /\ unsent # <<>> /\ unsent \in Seq({0, 1}) /\ unsent' = Tail(unsent)
        /\ Sent(length - 1) /\ request.op \in {"read", "write"}
        /\ eeprom.transmission_count < 255 /\ eeprom.buffer = 0 /\ eeprom.transmission_count = 0
    BY <1>1, CellTyped DEF SendBit, Typed, SendingEnd, Holds
  <1>3. Len(unsent) = 1
    <2>1. length - 1 + Len(unsent) = length
      BY <1>1, <1>2 DEF Sent
    <2>2. PICK left \in Nat : left = Len(unsent)
      BY <1>2
    <2>3. left = 1
      BY <2>1, <2>2
    <2> QED
      BY <2>2, <2>3
  <1>4. unsent' = <<>>
    <2>1. unsent' \in Seq({0, 1}) /\ Len(unsent') = Len(unsent) - 1
      BY <1>2, HeadTailProperties
    <2> QED
      BY <1>3, <2>1, EmptySeq
  <1>5. PICK e \in Chips : Arrived(e) /\ eeprom' = AfterBit(e) /\ memory' = MemoryAfterBit(e)
    BY <1>2, BitArrives DEF SendingEnd
  <1>6. /\ e.bus_width = ChipWidth /\ e.state = "waiting_finish_bit" /\ e.cmd = request.op
        /\ e.address = Cell
    BY <1>5 DEF Arrived, SendingEnd, ChipIn
  <1>7. eeprom' = Finish(e) /\ memory' = memory
    BY <1>5, <1>6, Zenon DEF AfterBit, MemoryAfterBit, Word
  <1>8. UNCHANGED <<default_width, received, patient>> /\ detected' = TRUE /\ received' = <<>>
    BY DEF SendBit, SendingEnd
  <1>9. Cell \in Addresses /\ memory \in [Addresses -> Cells] /\ written \in [Addresses -> Cells]
    BY CellTyped DEF Typed
  <1>10. CASE request.op = "write"
    <2>1. /\ request' = Idle /\ ready' = FALSE
          /\ written' = [written EXCEPT ![Cell] = request.value]
      BY <1>3, <1>10 DEF SendBit, Cell
    <2>2. PICK next : next = [e EXCEPT !.state = "accepting_commands", !.cmd = "none"]
                      /\ eeprom' = ResetBuffer(next)
      BY <1>6, <1>7, <1>10 DEF Finish
    <2>3. /\ eeprom' \in Chips /\ eeprom'.cmd = "none" /\ eeprom'.bus_width = ChipWidth
          /\ eeprom'.state = "accepting_commands"
          /\ eeprom'.transmission_count = 0 /\ eeprom'.buffer = 0
      <3>1. /\ next \in Chips /\ next.cmd = "none" /\ next.bus_width = ChipWidth
            /\ next.state = "accepting_commands"
        BY <1>5, <1>6, <2>2 DEF Chips
      <3> QED
        BY <2>2, <3>1, ResetLeaves
    <2>4. memory' = written'
      BY <1>7, <1>10, <2>1 DEF SendingEnd
    <2>5. ChipRests'
      BY <1>4, <1>8, <2>1, <2>3, <2>4 DEF ChipRests, ChipIn, Holds
    <2>6. Typed'
      BY <1>4, <1>7, <1>8, <1>9, <2>1, <2>3, <2>4 DEF Typed
    <2>7. Knows'
      BY <1>8, <2>3 DEF Knows
    <2> QED
      BY <2>5, <2>6, <2>7 DEF Framed
  <1>11. CASE request.op = "read"
    <2>1. UNCHANGED <<request, ready, written>>
      BY <1>11 DEF SendBit
    <2>2. PICK next : next = [e EXCEPT !.state = "transmitting_ignored_bits"]
                      /\ eeprom' = ResetBuffer(next)
      BY <1>6, <1>7, <1>11 DEF Finish
    <2>3. /\ eeprom' \in Chips /\ eeprom'.cmd = "read" /\ eeprom'.bus_width = ChipWidth
          /\ eeprom'.state = "transmitting_ignored_bits" /\ eeprom'.address = Cell
          /\ eeprom'.transmission_count = 0 /\ eeprom'.buffer = 0
      <3>1. /\ next \in Chips /\ next.cmd = "read" /\ next.bus_width = ChipWidth
            /\ next.state = "transmitting_ignored_bits" /\ next.address = Cell
        BY <1>5, <1>6, <1>11, <2>2 DEF Chips
      <3> QED
        BY <2>2, <3>1, ResetLeaves
    <2>4. memory' = written' /\ Cell' = Cell
      BY <1>7, <1>11, <2>1 DEF SendingEnd, Cell
    <2>5. received' \in Seq({0, 1}) /\ Len(received') = 0
      BY <1>8
    <2>6. Receiving'
      <3>1. Received'
        BY <2>5 DEF Received
      <3> QED
        BY <1>4, <1>8, <1>11, <2>1, <2>3, <2>4, <2>5, <3>1, Sizes DEF Receiving, ChipIn
    <2>7. Typed'
      BY <1>4, <1>7, <1>9, <2>1, <2>3, <2>5, <1>8 DEF Typed
    <2>8. Knows'
      BY <1>8, <2>3 DEF Knows
    <2> QED
      BY <2>1, <2>6, <2>7, <2>8 DEF Framed, Requesting
  <1> QED
    BY <1>2, <1>10, <1>11

(* A chip whose word has settled differs in what it answers to a poll. *)
LEMMA SettlingKeeps ==
    ASSUME Typed, NEW e, e = Settling(eeprom)
    PROVE  /\ e \in Chips /\ e.bus_width = eeprom.bus_width
           /\ e.state = eeprom.state /\ e.cmd = eeprom.cmd
           /\ e.address = eeprom.address /\ e.buffer = eeprom.buffer
           /\ e.transmission_count = eeprom.transmission_count
           /\ e.settled_response = IF 1 \in settles THEN 1 ELSE eeprom.settled_response
  BY DEF Typed, Settling, Chips

(* A program that has sent everything, and a chip that has not answered all. *)
LEMMA OnlyReceiving ==
    ASSUME Detectable, Typed, ChipRests \/ Requesting, unsent = <<>>, request # Idle
    PROVE  Receiving /\ request \in Requests
  <1>1. Requesting
    BY DEF ChipRests
  <1> DEFINE length == RequestLength(request.op, ChipWidth)
  <1>2. /\ length \in Nat /\ length >= 2 + ChipWidth + 1
        /\ request.op = "write" => length = 2 + ChipWidth + WordBits + 1
    BY Sizes DEF RequestLength
  <1>3. ASSUME NEW n \in Nat, Sent(n) PROVE n = length
    <2>1. Len(unsent) = 0
      OBVIOUS
    <2>2. n + 0 = length
      BY <1>3, <2>1 DEF Sent
    <2> QED
      BY <1>2, <2>2
  <1> HIDE DEF length
  <1>4. ~SendingCommand
    <2> SUFFICES ASSUME SendingCommand PROVE FALSE
      OBVIOUS
    <2>1. PICK n \in 0..1 : Sent(n)
      BY DEF SendingCommand
    <2>2. n \in Nat
      OBVIOUS
    <2>3. n = length
      BY <2>1, <2>2, <1>3, Zenon
    <2> QED
      BY <2>3, <1>2, Sizes
  <1>5. ~SendingAddress
    <2> SUFFICES ASSUME SendingAddress PROVE FALSE
      OBVIOUS
    <2>1. PICK n \in 0..(ChipWidth - 1) : Sent(2 + n)
      BY DEF SendingAddress
    <2>2. 2 + n \in Nat
      BY Sizes
    <2>3. 2 + n = length
      BY <2>1, <2>2, <1>3, Zenon
    <2> QED
      BY <2>3, <1>2, Sizes
  <1>6. ~SendingWord
    <2> SUFFICES ASSUME SendingWord PROVE FALSE
      OBVIOUS
    <2>1. PICK n \in 0..(WordBits - 1) : Sent(2 + ChipWidth + n)
      BY DEF SendingWord
    <2>2. 2 + ChipWidth + n \in Nat /\ request.op = "write"
      BY Sizes DEF SendingWord
    <2>3. 2 + ChipWidth + n = length
      BY <2>1, <2>2, <1>3, Zenon
    <2> QED
      BY <2>2, <2>3, <1>2, Sizes, SMTT(40)
  <1>7. ~SendingEnd
    <2> SUFFICES ASSUME SendingEnd PROVE FALSE
      OBVIOUS
    <2>1. Sent(length - 1)
      BY DEF SendingEnd, length
    <2>2. length - 1 \in Nat
      BY <1>2, Sizes
    <2>3. length - 1 = length
      BY <2>1, <2>2, <1>3, Zenon
    <2> QED
      BY <2>3, <1>2
  <1> QED
    BY <1>1, <1>4, <1>5, <1>6, <1>7 DEF Requesting

(* One more bit is received, the right one. *)
LEMMA OneMoreReceived ==
    ASSUME Typed, Received, NEW bit \in {0, 1},
           received' = Append(received, bit), UNCHANGED <<memory, request>>,
           bit = (memory[Cell] \div 2^(IgnoredBits + WordBits - (Len(received) + 1))) % 2
    PROVE  Received' /\ received' \in Seq({0, 1}) /\ Len(received') = Len(received) + 1
  <1>1. /\ received' \in Seq({0, 1}) /\ Len(received') = Len(received) + 1
        /\ \A i \in 1..Len(received) : received'[i] = received[i]
        /\ received'[Len(received) + 1] = bit
    BY AppendProperties DEF Typed
  <1>2. PICK got \in Nat : got = Len(received)
    BY DEF Typed
  <1>3. ASSUME NEW i \in 1..Len(received')
        PROVE  received'[i] = (memory[Cell] \div 2^(IgnoredBits + WordBits - i)) % 2
    <2>1. CASE i = got + 1
      BY <1>1, <1>2, <2>1
    <2>2. CASE i # got + 1
      <3>1. i \in 1..Len(received)
        BY <1>1, <1>2, <2>2
      <3> QED
        BY <3>1, <1>1 DEF Received
    <2> QED
      BY <2>1, <2>2
  <1>4. Cell' = Cell
    BY DEF Cell
  <1> QED
    BY <1>1, <1>3, <1>4 DEF Received

(* A bit of the answer. *)
LEMMA BitReceived ==
    ASSUME Detectable, Framed, ReceiveBit
    PROVE  Framed'
  <1>1. PICK e : e = Settling(eeprom)
    OBVIOUS
  <1>2. /\ e \in Chips /\ e.bus_width = eeprom.bus_width
        /\ e.state = eeprom.state /\ e.cmd = eeprom.cmd
        /\ e.address = eeprom.address /\ e.buffer = eeprom.buffer
        /\ e.transmission_count = eeprom.transmission_count
    BY <1>1, SettlingKeeps DEF Framed
  <1>3. /\ received' = Append(received, Answer(e)) /\ eeprom' = AfterRead(e)
        /\ UNCHANGED <<detected, default_width, memory, request, unsent, ready, patient, written>>
        /\ unsent = <<>> /\ request # Idle /\ Len(received) < IgnoredBits + WordBits
    BY <1>1 DEF ReceiveBit, Idle
  <1>4. Receiving /\ request \in Requests /\ Typed /\ Knows
    BY <1>3, OnlyReceiving DEF Framed
  <1>5. /\ eeprom.address = Cell /\ memory = written /\ Received /\ detected
        /\ Cell' = Cell /\ Cell \in Addresses /\ eeprom.bus_width = ChipWidth
        /\ memory \in [Addresses -> Cells] /\ memory[Cell] \in 0..(2^WordBits - 1)
    BY <1>3, <1>4, CellTyped DEF Receiving, Cell, Typed, Cells, Knows
  <1>6. PICK got \in Nat : got = Len(received)
    BY <1>4 DEF Typed
  <1>7. CASE ChipIn("transmitting_ignored_bits", "read") /\ Len(received) = eeprom.transmission_count
             /\ Len(received) < IgnoredBits
    <2>1. e.state = "transmitting_ignored_bits" /\ e.cmd = "read" /\ e.transmission_count = got
      BY <1>2, <1>6, <1>7 DEF ChipIn
    <2>2. Answer(e) = 0
      BY <2>1, Zenon DEF Answer
    <2>3. (memory[Cell] \div 2^(IgnoredBits + WordBits - (Len(received) + 1))) % 2 = 0
      <3>1. PICK k \in Nat : k = IgnoredBits + WordBits - (Len(received) + 1) /\ WordBits <= k
        <4>1. got < IgnoredBits
          BY <1>6, <1>7
        <4>2. IgnoredBits + WordBits - (got + 1) \in Nat
              /\ WordBits <= IgnoredBits + WordBits - (got + 1)
          BY <4>1, Sizes
        <4> QED
          BY <1>6, <4>2
      <3>2. WordBits \in Nat
        BY Sizes
      <3> QED
        BY <3>1, <3>2, <1>5, NoBit
    <2>4. Received' /\ received' \in Seq({0, 1}) /\ Len(received') = got + 1
      BY <1>3, <1>4, <1>5, <1>6, <2>2, <2>3, OneMoreReceived
    <2>5. CASE got + 1 = IgnoredBits
      <3>1. eeprom' = [e EXCEPT !.state = "transmitting_data", !.transmission_count = 0,
                                !.buffer = memory[e.address]]
        BY <1>3, <2>1, <2>5, Zenon DEF AfterRead, Ignored
      <3>2. memory[e.address] = memory[Cell] /\ memory[Cell] \in Nat
        BY <1>2, <1>5, Sizes
      <3>3. /\ eeprom' \in Chips /\ eeprom'.state = "transmitting_data" /\ eeprom'.cmd = "read"
            /\ eeprom'.address = Cell /\ eeprom'.bus_width = ChipWidth
            /\ eeprom'.transmission_count = 0 /\ eeprom'.buffer = memory[Cell]
        BY <1>2, <1>5, <2>1, <3>1, <3>2 DEF Chips
      <3>4. Receiving'
        <4>1. Len(received') = IgnoredBits + eeprom'.transmission_count
              /\ eeprom'.transmission_count \in 0..(WordBits - 1)
          BY <2>4, <2>5, <3>3, Sizes
        <4> QED
          BY <1>3, <1>4, <1>5, <2>4, <3>3, <4>1 DEF Receiving, ChipIn
      <3>5. Typed' /\ Knows'
        BY <1>3, <1>4, <1>5, <2>4, <3>3 DEF Typed, Knows
      <3> QED
        BY <1>3, <1>4, <3>4, <3>5 DEF Framed, Requesting
    <2>6. CASE got + 1 # IgnoredBits
      <3>1. eeprom' = [e EXCEPT !.transmission_count = @ + 1]
        BY <1>3, <2>1, <2>6, Zenon DEF AfterRead, Ignored
      <3>2. /\ eeprom' \in Chips /\ eeprom'.state = "transmitting_ignored_bits" /\ eeprom'.cmd = "read"
            /\ eeprom'.address = Cell /\ eeprom'.bus_width = ChipWidth
            /\ eeprom'.transmission_count = got + 1
        BY <1>2, <1>5, <2>1, <3>1 DEF Chips
      <3>3. got + 1 < IgnoredBits
        BY <1>6, <1>7, <2>6, Sizes
      <3>4. Receiving'
        BY <1>3, <1>4, <1>5, <2>4, <3>2, <3>3 DEF Receiving, ChipIn
      <3>5. Typed' /\ Knows'
        BY <1>3, <1>4, <1>5, <2>4, <3>2 DEF Typed, Knows
      <3> QED
        BY <1>3, <1>4, <3>4, <3>5 DEF Framed, Requesting
    <2> QED
      BY <2>5, <2>6
  <1>8. CASE ChipIn("transmitting_data", "read") /\ Len(received) = IgnoredBits + eeprom.transmission_count
             /\ eeprom.buffer = memory[Cell] /\ eeprom.transmission_count \in 0..(WordBits - 1)
    <2>1. PICK n \in 0..(WordBits - 1) : n = eeprom.transmission_count
      BY <1>8
    <2>2. e.state = "transmitting_data" /\ e.cmd = "read" /\ e.transmission_count = n
          /\ e.buffer = memory[Cell] /\ got = IgnoredBits + n
      BY <1>2, <1>6, <1>8, <2>1 DEF ChipIn
    <2>3. Answer(e) = (memory[Cell] \div 2^(WordBits - 1 - n)) % 2
      BY <2>2, Zenon DEF Answer, Bit
    <2>4. WordBits - 1 - n = IgnoredBits + WordBits - (Len(received) + 1) /\ WordBits - 1 - n \in Nat
      BY <1>6, <2>1, <2>2, Sizes
    <2>5. Answer(e) \in {0, 1}
      <3>1. PICK q \in Nat : q = memory[Cell] \div 2^(WordBits - 1 - n)
        <4>1. 2^(WordBits - 1 - n) \in Nat \ {0} /\ memory[Cell] \in Nat
          BY <1>5, <2>4, PowerGrows, Sizes, SMTT(40)
        <4> QED
          BY <4>1, QuotientBelow
      <3>2. q % 2 \in {0, 1}
        OBVIOUS
      <3> QED
        BY <2>3, <3>1, <3>2
    <2>6. Received' /\ received' \in Seq({0, 1}) /\ Len(received') = got + 1
      BY <1>3, <1>4, <1>5, <1>6, <2>3, <2>4, <2>5, OneMoreReceived
    <2>7. CASE n + 1 = WordBits
      <3>1. PICK next : next = [e EXCEPT !.state = "accepting_commands", !.cmd = "none"]
                        /\ eeprom' = ResetBuffer(next)
        BY <1>3, <2>2, <2>7, Zenon DEF AfterRead
      <3>2. /\ next \in Chips /\ next.state = "accepting_commands" /\ next.cmd = "none"
            /\ next.address = Cell /\ next.bus_width = ChipWidth
        BY <1>2, <1>5, <3>1 DEF Chips
      <3>3. /\ eeprom' \in Chips /\ eeprom'.state = "accepting_commands" /\ eeprom'.cmd = "none"
            /\ eeprom'.address = Cell /\ eeprom'.bus_width = ChipWidth
            /\ eeprom'.transmission_count = 0 /\ eeprom'.buffer = 0
        BY <3>1, <3>2, ResetLeaves
      <3>4. got + 1 = IgnoredBits + WordBits
        BY <2>2, <2>7, Sizes
      <3>5. Receiving'
        BY <1>3, <1>4, <1>5, <2>6, <3>3, <3>4 DEF Receiving, ChipIn, Holds
      <3>6. Typed' /\ Knows'
        BY <1>3, <1>4, <1>5, <2>6, <3>3 DEF Typed, Knows
      <3> QED
        BY <1>3, <1>4, <3>5, <3>6 DEF Framed, Requesting
    <2>8. CASE n + 1 # WordBits
      <3>1. eeprom' = [e EXCEPT !.transmission_count = @ + 1]
        BY <1>3, <2>2, <2>8, Zenon DEF AfterRead
      <3>2. n + 1 \in 0..(WordBits - 1) /\ got + 1 = IgnoredBits + (n + 1)
        BY <2>1, <2>2, <2>8, Sizes
      <3>3. /\ eeprom' \in Chips /\ eeprom'.state = "transmitting_data" /\ eeprom'.cmd = "read"
            /\ eeprom'.address = Cell /\ eeprom'.bus_width = ChipWidth
            /\ eeprom'.transmission_count = n + 1 /\ eeprom'.buffer = memory[Cell]
        BY <1>2, <1>5, <2>2, <3>1, <3>2 DEF Chips
      <3>4. Receiving'
        BY <1>3, <1>4, <1>5, <2>6, <3>2, <3>3 DEF Receiving, ChipIn
      <3>5. Typed' /\ Knows'
        BY <1>3, <1>4, <1>5, <2>6, <3>3 DEF Typed, Knows
      <3> QED
        BY <1>3, <1>4, <3>4, <3>5 DEF Framed, Requesting
    <2> QED
      BY <2>7, <2>8
  <1>9. Len(received) # IgnoredBits + WordBits
    BY <1>3, <1>6, Sizes
  <1> QED
    BY <1>4, <1>7, <1>8, <1>9 DEF Receiving

(* A program that has all the bits of a word. *)
LEMMA AllReceived ==
    ASSUME Detectable, Framed, Len(received) = IgnoredBits + WordBits
    PROVE  /\ Receiving /\ request \in Requests
           /\ ChipIn("accepting_commands", "none") /\ Holds(0) /\ eeprom.buffer = 0
  <1>1. PICK all \in Nat \ {0} : all = IgnoredBits + WordBits
    BY Sizes
  <1>2. received # <<>>
    BY <1>1
  <1>3. Receiving /\ request \in Requests
    BY <1>2 DEF Framed, ChipRests, Requesting, SendingCommand, SendingAddress, SendingWord, SendingEnd
  <1>4. ~(Len(received) < IgnoredBits)
    BY Sizes
  <1>5. ASSUME eeprom.transmission_count \in 0..(WordBits - 1),
               Len(received) = IgnoredBits + eeprom.transmission_count
        PROVE  FALSE
    BY <1>5, Sizes
  <1> QED
    BY <1>3, <1>4, <1>5 DEF Receiving

(* A chip between requests, when the program makes none. *)
LEMMA AtRest ==
    ASSUME Framed, request = Idle
    PROVE  ChipRests
  <1>1. request \notin Requests
    BY DEF Requests, Idle
  <1> QED
    BY <1>1 DEF Framed, Requesting

(* A request begins. *)
LEMMA StartFramed ==
    ASSUME Detectable, Framed, NEW op \in {"read", "write"},
           NEW address \in 0..(2^ChipWidth - 1), NEW value \in Cells, Start(op, address, value)
    PROVE  Framed' /\ request' # Idle
  <1>1. ChipRests /\ Typed /\ Knows
    BY AtRest DEF Start, Framed
  <1>2. /\ request' = [op |-> op, address |-> address, value |-> value]
        /\ unsent' = RequestBits(op, address, value)
        /\ received' = <<>> /\ patient' = (patient /\ ready)
        /\ ~detected /\ op = "write" => WriteFirst
        /\ UNCHANGED <<eeprom, detected, default_width, memory, settles, ready, written>>
    BY DEF Start, eepromchip
  <1>3. request' \in Requests /\ request' # Idle
    BY <1>2 DEF Requests, Idle
  <1>4. address \in Nat /\ value \in Nat
    BY Sizes DEF Cells
  <1>5. Sent(0)' /\ unsent' \in Seq({0, 1})
    <2>1. unsent' \in Seq({0, 1}) /\ Len(unsent') = RequestLength(op, ChipWidth)
      BY <1>2, <1>4, RequestForm
    <2>2. \A i \in 1..Len(unsent') : 0 + i = i
      BY <2>1
    <2>3. PICK bits : bits = RequestBits(op, address, value)
      OBVIOUS
    <2>4. Sent(0)' <=> (/\ 0 + Len(unsent') = RequestLength(op, ChipWidth)
                        /\ \A i \in 1..Len(unsent') : unsent'[i] = bits[0 + i])
      BY <1>2, <2>3 DEF Sent
    <2>5. \A i \in 1..Len(unsent') : unsent'[i] = bits[0 + i]
      BY <1>2, <2>2, <2>3
    <2>6. 0 + Len(unsent') = RequestLength(op, ChipWidth)
      BY <2>1
    <2> QED
      BY <2>1, <2>4, <2>5, <2>6
  <1>6. SendingCommand'
    BY <1>1, <1>2, <1>5 DEF SendingCommand, ChipRests, ChipIn, Holds
  <1>7. Typed'
    BY <1>1, <1>2, <1>5 DEF Typed
  <1>8. Knows'
    BY <1>1, <1>2 DEF Knows
  <1> QED
    BY <1>3, <1>6, <1>7, <1>8 DEF Framed, Requesting

(* A bit is sent, whichever. *)
LEMMA SendFramed ==
    ASSUME Detectable, Framed, SendBit
    PROVE  Framed' /\ request \in Requests
           /\ (SendingCommand \/ SendingAddress \/ SendingWord \/ SendingEnd)
  <1>1. unsent # <<>>
    BY DEF SendBit
  <1>2. /\ Typed /\ Knows /\ request \in Requests
        /\ SendingCommand \/ SendingAddress \/ SendingWord \/ SendingEnd
    BY <1>1 DEF Framed, ChipRests, Requesting, Receiving
  <1> QED
    BY <1>2, CommandSent, AddressSent, WordSent, EndSent

(* The chip settles, or not, and nothing else happens to it. *)
LEMMA SettleFramed ==
    ASSUME Framed, eeprom' = Settling(eeprom), ready' \in BOOLEAN,
           UNCHANGED <<detected, default_width, memory, request, unsent, received, patient, written>>
    PROVE  Framed'
  <1>1. PICK e : e = eeprom'
    OBVIOUS
  <1>2. /\ e \in Chips /\ e.bus_width = eeprom.bus_width
        /\ e.state = eeprom.state /\ e.cmd = eeprom.cmd
        /\ e.address = eeprom.address /\ e.buffer = eeprom.buffer
        /\ e.transmission_count = eeprom.transmission_count
    BY <1>1, SettlingKeeps DEF Framed
  <1>3. Typed' /\ Knows'
    BY <1>1, <1>2 DEF Framed, Typed, Knows
  <1>4. /\ Cell' = Cell /\ \A n : Sent(n)' <=> Sent(n)
        /\ Received' <=> Received
        /\ \A s, c : ChipIn(s, c)' <=> ChipIn(s, c)
        /\ Holds(0)' <=> Holds(0)
        /\ \A n, width : High(n, width)' = High(n, width)
    BY <1>1, <1>2 DEF Cell, Sent, Received, ChipIn, Holds, High
  <1>5. ChipRests => ChipRests'
    BY <1>1, <1>2, <1>4 DEF ChipRests
  <1>6. SendingCommand => SendingCommand'
    BY <1>1, <1>2, <1>4 DEF SendingCommand
  <1>7. SendingAddress => SendingAddress'
    BY <1>1, <1>2, <1>4 DEF SendingAddress
  <1>8. SendingWord => SendingWord'
    BY <1>1, <1>2, <1>4 DEF SendingWord
  <1>9. SendingEnd => SendingEnd'
    BY <1>1, <1>2, <1>4 DEF SendingEnd
  <1>10. Receiving => Receiving'
    BY <1>1, <1>2, <1>4 DEF Receiving
  <1> QED
    BY <1>3, <1>5, <1>6, <1>7, <1>8, <1>9, <1>10 DEF Framed, Requesting

(* The machine is switched on. *)
LEMMA InitFramed ==
    ASSUME Detectable, EepromInit
    PROVE  Framed
  <1>1. Unwritten \in [Addresses -> Cells]
    BY Sizes DEF Unwritten, Cells
  <1>2. default_width \in {0, ChipWidth} /\ (detected => default_width = ChipWidth)
        /\ (~detected => default_width = 0) /\ eeprom = Constructed(default_width)
    BY DEF EepromInit
  <1>3. eeprom \in Chips
    BY <1>2, Sizes DEF Constructed, Chips
  <1>4. Typed
    BY <1>1, <1>3 DEF Typed, EepromInit
  <1>5. Knows
    BY <1>2, Sizes DEF Knows, Constructed, EepromInit
  <1>6. ChipRests
    BY <1>2 DEF ChipRests, ChipIn, Holds, Constructed, EepromInit
  <1> QED
    BY <1>4, <1>5, <1>6 DEF Framed

(* It is reset. *)
LEMMA ResetFramed ==
    ASSUME Detectable, Framed, Reset
    PROVE  Framed'
  <1>1. Unwritten \in [Addresses -> Cells]
    BY Sizes DEF Unwritten, Cells
  <1>2. /\ default_width \in {0, ChipWidth} /\ (detected => default_width = ChipWidth)
        /\ (~detected => default_width = 0) /\ detected \in BOOLEAN
    BY Sizes DEF Framed, Knows, Reset, Detectable
  <1>3. eeprom' = Constructed(default_width) /\ UNCHANGED <<default_width, detected>>
    BY DEF Reset
  <1>4. eeprom' \in Chips /\ eeprom'.bus_width = default_width
    BY <1>2, <1>3, Sizes DEF Constructed, Chips
  <1>5. Typed'
    BY <1>1, <1>4 DEF Typed, Reset
  <1>6. Knows'
    BY <1>2, <1>3, <1>4 DEF Knows
  <1>7. ChipRests'
    BY <1>3 DEF ChipRests, ChipIn, Holds, Constructed, Reset
  <1> QED
    BY <1>5, <1>6, <1>7 DEF Framed

(* A bit passes while the chip settles: what it answers, and when it will. *)
LEMMA ElapsedSettles ==
    ASSUME settles \subseteq Nat \ {0}
    PROVE  /\ Elapsed \subseteq Nat \ {0}
           /\ settles = {} => Elapsed = {}
           /\ \A s \in {0, 1} : (\A c, d \in settles : c = d) /\ (s = 1 <=> settles = {})
                => /\ \A c, d \in Elapsed : c = d
                   /\ (IF 1 \in settles THEN 1 ELSE s) = 1 <=> Elapsed = {}
  <1>1. Elapsed \subseteq Nat \ {0} /\ (settles = {} => Elapsed = {})
    BY DEF Elapsed
  <1>2. ASSUME \A c, d \in settles : c = d, NEW s \in {0, 1}, s = 1 <=> settles = {}
        PROVE  /\ \A c, d \in Elapsed : c = d
               /\ (IF 1 \in settles THEN 1 ELSE s) = 1 <=> Elapsed = {}
    <2>1. CASE settles = {}
      BY <1>1, <1>2, <2>1
    <2>2. CASE settles # {}
      <3>1. PICK c \in Nat \ {0} : settles = {c}
        BY <1>2, <2>2
      <3>2. s = 0
        BY <1>2, <2>2
      <3>3. CASE c = 1
        <4>1. Elapsed = {}
          BY <3>1, <3>3 DEF Elapsed
        <4> QED
          BY <3>1, <3>3, <4>1
      <3>4. CASE c # 1
        <4>1. Elapsed = {c - 1}
          BY <3>1, <3>4 DEF Elapsed
        <4>2. 1 \notin settles
          BY <3>1, <3>4
        <4> QED
          BY <3>2, <4>1, <4>2
      <3> QED
        BY <3>3, <3>4
    <2> QED
      BY <2>1, <2>2
  <1> QED
    BY <1>1, <1>2

(* Acting on a bit, the chip becomes busy at the end of a word and then only. *)
LEMMA BusyAfterWord ==
    ASSUME NEW e \in Chips, NEW after, after = AfterBit(e)
    PROVE  /\ ~Word(e) => after.settled_response = e.settled_response
           /\ Word(e) => after.settled_response = 0 /\ after.state = "waiting_finish_bit"
  <1>1. CASE e.state = "accepting_commands"
    <2>1. after = AcceptCommand(e) /\ ~Word(e)
      BY <1>1, Zenon DEF AfterBit, Word
    <2> QED
      BY <2>1 DEF AcceptCommand, ResetBuffer, Chips
  <1>2. CASE e.state = "transmitting_addr"
    <2>1. after = TransmitAddress(e) /\ ~Word(e)
      BY <1>2, Zenon DEF AfterBit, Word
    <2> QED
      BY <2>1 DEF TransmitAddress, ResetBuffer, Chips
  <1>3. CASE Word(e)
    <2>1. after = WordEnds(e)
      BY <1>3, Zenon DEF AfterBit, Word
    <2> QED
      BY <1>3, <2>1 DEF WordEnds, ResetBuffer, Chips
  <1>4. CASE e.state = "waiting_finish_bit"
    <2>1. after = Finish(e) /\ ~Word(e)
      BY <1>4, Zenon DEF AfterBit, Word
    <2> QED
      BY <2>1 DEF Finish, ResetBuffer, Chips
  <1>5. CASE /\ e.state # "accepting_commands" /\ e.state # "transmitting_addr" /\ ~Word(e)
             /\ e.state # "waiting_finish_bit"
    <2>1. after = e
      BY <1>5, Zenon DEF AfterBit
    <2> QED
      BY <1>5, <2>1
  <1> QED
    BY <1>1, <1>2, <1>3, <1>4, <1>5

(* A bit that the chip gives leaves what it answers to a poll. *)
LEMMA ReadSettles ==
    ASSUME NEW e \in Chips, NEW after, after = AfterRead(e)
    PROVE  after.settled_response = e.settled_response
  <1>1. CASE e.cmd = "read" /\ e.state = "transmitting_ignored_bits"
    BY <1>1 DEF AfterRead, Chips
  <1>2. CASE e.cmd = "read" /\ e.state = "transmitting_data"
    BY <1>2 DEF AfterRead, ResetBuffer, Chips
  <1>3. CASE ~(e.cmd = "read" /\ e.state = "transmitting_ignored_bits")
             /\ ~(e.cmd = "read" /\ e.state = "transmitting_data")
    BY <1>3, Zenon DEF AfterRead
  <1> QED
    BY <1>1, <1>2, <1>3

(* No event is scheduled, or one that ends the time for which the chip is busy,
   when a step elapses for which nothing else happens to them. *)
LEMMA ElapsedWaits ==
    ASSUME Typed, Waits, settles' = Elapsed,
           eeprom'.settled_response = IF 1 \in settles THEN 1 ELSE eeprom.settled_response
    PROVE  /\ settles' \subseteq Nat \ {0}
           /\ settles = {} => settles' = {}
           /\ patient => /\ \A c, d \in settles' : c = d
                         /\ eeprom'.settled_response = 1 <=> settles' = {}
  <1>1. eeprom.settled_response \in {0, 1}
    BY DEF Typed, Chips
  <1>2. settles \subseteq Nat \ {0}
        /\ (patient => (\A c, d \in settles : c = d) /\ (eeprom.settled_response = 1 <=> settles = {}))
    BY DEF Waits
  <1> QED
    BY <1>1, <1>2, ElapsedSettles

(* The waiting of the program is right after a bit that it sends. *)
LEMMA SendWaits ==
    ASSUME Detectable, Framed, Waits, SendBit
    PROVE  Waits'
  <1>1. /\ request \in Requests /\ Typed /\ Knows
        /\ SendingCommand \/ SendingAddress \/ SendingWord \/ SendingEnd
    BY SendFramed DEF Framed
  <1>2. eeprom.transmission_count < 255 /\ (~detected => (request.op = "write" => WriteFirst))
    <2>1. CASE SendingCommand
      BY <2>1 DEF SendingCommand
    <2>2. CASE SendingAddress
      BY <2>2, Sizes DEF SendingAddress
    <2>3. CASE SendingWord
      BY <2>3, Sizes DEF SendingWord
    <2>4. CASE SendingEnd
      BY <2>4 DEF SendingEnd, Holds
    <2> QED
      BY <1>1, <2>1, <2>2, <2>3, <2>4
  <1>3. request.op \in {"read", "write"} /\ request # Idle
    BY <1>1, CellTyped DEF Idle
  <1>4. PICK e \in Chips : /\ Arrived(e) /\ eeprom' = AfterBit(e)
              /\ settles' = Elapsed \cup (IF Word(e) THEN {eeprom_settle_cycles} ELSE {})
    BY <1>1, <1>2, <1>3, BitArrives
  <1>5. /\ e.state = eeprom.state /\ e.cmd = eeprom.cmd
        /\ e.settled_response = IF 1 \in settles THEN 1 ELSE eeprom.settled_response
    BY <1>4 DEF Arrived
  <1>6. patient' = patient
    BY DEF SendBit
  <1>7. CASE Word(e)
    <2>1. SendingWord
      BY <1>1, <1>5, <1>7 DEF Word, SendingCommand, SendingAddress, SendingEnd, ChipIn
    <2>2. UNCHANGED <<request, ready>>
      <3>1. PICK n \in 0..(WordBits - 1) : Sent(2 + ChipWidth + n)
        BY <2>1 DEF SendingWord
      <3>2. 2 + ChipWidth + n \in Nat /\ 2 + ChipWidth + n + 1 < RequestLength(request.op, ChipWidth)
        BY <2>1, Sizes, SMTT(40) DEF SendingWord, RequestLength
      <3> QED
        BY <1>1, <3>1, <3>2, NotLast
    <2>3. eeprom'.settled_response = 0 /\ eeprom'.state = "waiting_finish_bit"
      BY <1>4, <1>7, BusyAfterWord
    <2>4. Elapsed \subseteq Nat \ {0} /\ eeprom_settle_cycles \in Nat \ {0}
      BY EepromAssumption, ElapsedSettles DEF Waits
    <2>5. settles' = Elapsed \cup {eeprom_settle_cycles}
      BY <1>4, <1>7
    <2>6. patient => settles' = {eeprom_settle_cycles} /\ ready
      <3>1. patient => settles = {} /\ ready
        BY <1>3, <2>1 DEF Waits, SendingWord, ChipIn
      <3> QED
        BY <2>5, <3>1, ElapsedSettles
    <2>7. request'.op = "write"
      BY <2>1, <2>2 DEF SendingWord
    <2> QED
      BY <1>6, <2>2, <2>3, <2>4, <2>5, <2>6, <2>7 DEF Waits
  <1>8. CASE ~Word(e)
    <2>1. eeprom'.settled_response = IF 1 \in settles THEN 1 ELSE eeprom.settled_response
      BY <1>4, <1>5, <1>8, BusyAfterWord
    <2>2. settles' = Elapsed
      BY <1>4, <1>8
    <2>3. /\ settles' \subseteq Nat \ {0}
          /\ settles = {} => settles' = {}
          /\ patient => /\ \A c, d \in settles' : c = d
                        /\ eeprom'.settled_response = 1 <=> settles' = {}
      BY <1>1, <2>1, <2>2, ElapsedWaits
    <2>4. CASE request' = Idle /\ ready' = FALSE
      BY <1>6, <2>3, <2>4 DEF Waits
    <2>5. CASE UNCHANGED <<request, ready>> /\ ~(request.op = "write" /\ Len(unsent) = 1)
      <3>1. ~(request.op = "write" /\ eeprom.state = "waiting_finish_bit")
        <4> SUFFICES ASSUME request.op = "write", eeprom.state = "waiting_finish_bit" PROVE FALSE
          OBVIOUS
        <4>1. SendingEnd
          BY <1>1 DEF SendingCommand, SendingAddress, SendingWord, ChipIn
        <4>2. RequestLength(request.op, ChipWidth) \in Nat
          BY Sizes DEF RequestLength
        <4>3. RequestLength(request.op, ChipWidth) - 1 + Len(unsent) = RequestLength(request.op, ChipWidth)
          BY <4>1 DEF SendingEnd, Sent
        <4>4. PICK left \in Nat : left = Len(unsent)
          BY <1>1 DEF Typed
        <4>5. left = 1
          BY <4>2, <4>3, <4>4
        <4> QED
          BY <2>5, <4>4, <4>5
      <3>2. patient /\ ready => settles = {}
        BY <3>1 DEF Waits
      <3>3. patient => ready
        BY <1>3 DEF Waits
      <3> QED
        BY <1>6, <2>3, <2>5, <3>2, <3>3 DEF Waits
    <2>6. (request' = Idle /\ ready' = FALSE)
          \/ (UNCHANGED <<request, ready>> /\ ~(request.op = "write" /\ Len(unsent) = 1))
      BY Zenon DEF SendBit
    <2> QED
      BY <2>4, <2>5, <2>6
  <1> QED
    BY <1>7, <1>8

(* A request begins when the program has been told that the chip is ready, or
   the program was not patient. *)
LEMMA StartInv ==
    ASSUME Detectable, EepromInvariant, NEW op \in {"read", "write"},
           NEW address \in 0..(2^ChipWidth - 1), NEW value \in Cells, Start(op, address, value)
    PROVE  EepromInvariant'
  <1>1. Framed' /\ request' # Idle
    BY StartFramed DEF EepromInvariant
  <1>2. ChipRests /\ ready \in BOOLEAN /\ patient \in BOOLEAN
    BY AtRest DEF EepromInvariant, Start, Framed, Typed
  <1>3. patient' = (patient /\ ready) /\ UNCHANGED <<eeprom, settles, ready>>
    BY DEF Start, eepromchip
  <1>4. Waits'
    BY <1>2, <1>3 DEF EepromInvariant, Waits, ChipRests, ChipIn
  <1> QED
    BY <1>1, <1>4 DEF EepromInvariant

(* The program receives a bit. *)
LEMMA ReceiveInv ==
    ASSUME Detectable, EepromInvariant, ReceiveBit
    PROVE  EepromInvariant'
  <1>1. Framed' /\ Typed /\ Waits
    BY BitReceived DEF EepromInvariant, Framed
  <1>2. PICK e : e = Settling(eeprom)
    OBVIOUS
  <1>3. e \in Chips /\ e.settled_response = IF 1 \in settles THEN 1 ELSE eeprom.settled_response
    BY <1>1, <1>2, SettlingKeeps
  <1>4. eeprom' = AfterRead(e) /\ settles' = Elapsed /\ request.op = "read"
        /\ UNCHANGED <<request, ready, patient>>
    BY <1>2 DEF ReceiveBit
  <1>5. eeprom'.settled_response = IF 1 \in settles THEN 1 ELSE eeprom.settled_response
    BY <1>3, <1>4, ReadSettles
  <1>6. /\ settles' \subseteq Nat \ {0}
        /\ settles = {} => settles' = {}
        /\ patient => /\ \A c, d \in settles' : c = d
                      /\ eeprom'.settled_response = 1 <=> settles' = {}
    BY <1>1, <1>4, <1>5, ElapsedWaits
  <1>7. patient /\ ready => settles = {}
    BY <1>1, <1>4 DEF Waits
  <1>8. Waits'
    BY <1>1, <1>4, <1>6, <1>7 DEF Waits
  <1> QED
    BY <1>1, <1>8 DEF EepromInvariant

(* The program has the whole word. *)
LEMMA DoneInv ==
    ASSUME Detectable, EepromInvariant, Done
    PROVE  EepromInvariant'
  <1>1. Len(received) = IgnoredBits + WordBits /\ Typed /\ Knows
    BY DEF Done, EepromInvariant, Framed
  <1>2. /\ Receiving /\ request \in Requests
        /\ ChipIn("accepting_commands", "none") /\ Holds(0) /\ eeprom.buffer = 0
    BY <1>1, AllReceived DEF EepromInvariant
  <1>3. /\ request' = Idle /\ received' = <<>> /\ unsent' = unsent
        /\ UNCHANGED <<eeprom, detected, default_width, memory, settles, ready, patient, written>>
    BY DEF Done, eepromchip
  <1>4. ChipRests'
    BY <1>2, <1>3 DEF ChipRests, Receiving, ChipIn, Holds
  <1>5. Typed' /\ Knows'
    BY <1>1, <1>3 DEF Typed, Knows
  <1>6. Waits'
    BY <1>2, <1>3 DEF EepromInvariant, Waits, Receiving
  <1> QED
    BY <1>4, <1>5, <1>6 DEF EepromInvariant, Framed

(* The program polls the chip. *)
LEMMA PollInv ==
    ASSUME EepromInvariant, Poll
    PROVE  EepromInvariant'
  <1>1. ChipRests /\ Typed /\ Waits
    BY AtRest DEF EepromInvariant, Framed, Poll
  <1>2. PICK e : e = Settling(eeprom)
    OBVIOUS
  <1>3. e.cmd = "none" /\ e.settled_response = IF 1 \in settles THEN 1 ELSE eeprom.settled_response
    BY <1>1, <1>2, SettlingKeeps DEF ChipRests, ChipIn
  <1>4. eeprom' = e /\ ready' = (e.settled_response = 1) /\ settles' = Elapsed
    <2>1. ~(e.cmd = "read" /\ e.state = "transmitting_ignored_bits")
          /\ ~(e.cmd = "read" /\ e.state = "transmitting_data")
      BY <1>3
    <2>2. Answer(e) = e.settled_response /\ AfterRead(e) = e
      BY <2>1, Zenon DEF Answer, AfterRead
    <2> QED
      BY <1>2, <2>2 DEF Poll
  <1>5. UNCHANGED <<detected, default_width, memory, request, unsent, received, patient, written>>
    BY DEF Poll
  <1>6. Framed'
    BY <1>2, <1>4, <1>5, SettleFramed DEF EepromInvariant
  <1>7. /\ settles' \subseteq Nat \ {0}
        /\ patient => /\ \A c, d \in settles' : c = d
                      /\ eeprom'.settled_response = 1 <=> settles' = {}
    BY <1>1, <1>3, <1>4, ElapsedWaits
  <1>8. Waits'
    BY <1>1, <1>4, <1>5, <1>7 DEF Waits, ChipRests
  <1> QED
    BY <1>6, <1>8 DEF EepromInvariant

(* Time passes. *)
LEMMA WaitInv ==
    ASSUME EepromInvariant, Wait
    PROVE  EepromInvariant'
  <1>1. Typed /\ Waits /\ ready \in BOOLEAN
    BY DEF EepromInvariant, Framed, Typed
  <1>2. PICK e : e = Settling(eeprom)
    OBVIOUS
  <1>3. e.state = eeprom.state
        /\ e.settled_response = IF 1 \in settles THEN 1 ELSE eeprom.settled_response
    BY <1>1, <1>2, SettlingKeeps
  <1>4. /\ eeprom' = e /\ settles' = Elapsed
        /\ UNCHANGED <<detected, default_width, memory, request, unsent, received, patient, written, ready>>
    BY <1>2 DEF Wait, eepromprogram
  <1>5. Framed'
    BY <1>1, <1>2, <1>4, SettleFramed DEF EepromInvariant
  <1>6. /\ settles' \subseteq Nat \ {0}
        /\ settles = {} => settles' = {}
        /\ patient => /\ \A c, d \in settles' : c = d
                      /\ eeprom'.settled_response = 1 <=> settles' = {}
    BY <1>1, <1>3, <1>4, ElapsedWaits
  <1>7. Waits'
    BY <1>1, <1>3, <1>4, <1>6 DEF Waits
  <1> QED
    BY <1>5, <1>7 DEF EepromInvariant

(* The user resets the machine. *)
LEMMA ResetInv ==
    ASSUME Detectable, EepromInvariant, Reset
    PROVE  EepromInvariant'
  <1>1. Framed'
    BY ResetFramed DEF EepromInvariant
  <1>2. settles' = {} /\ eeprom'.settled_response = 1 /\ request' = Idle
    BY DEF Reset, Constructed
  <1>3. Waits'
    BY <1>2 DEF Waits
  <1> QED
    BY <1>1, <1>3 DEF EepromInvariant

(* The invariant holds when the machine is switched on. *)
LEMMA EepromInitInv ==
    ASSUME Detectable, EepromInit
    PROVE  EepromInvariant
  <1>1. Framed
    BY InitFramed
  <1>2. settles = {} /\ eeprom.settled_response = 1 /\ request = Idle
    BY DEF EepromInit, Constructed
  <1> QED
    BY <1>1, <1>2 DEF EepromInvariant, Waits

(* Every step preserves it. *)
LEMMA EepromNextInv ==
    ASSUME Detectable, EepromInvariant, [EepromNext]_eepromvars
    PROVE  EepromInvariant'
  <1>1. ASSUME NEW address \in 0..(2^ChipWidth - 1), Start("read", address, 0)
        PROVE  EepromInvariant'
    <2>1. 0 \in Cells
      BY Sizes DEF Cells
    <2> QED
      BY <1>1, <2>1, StartInv
  <1>2. ASSUME NEW address \in 0..(2^ChipWidth - 1), NEW value \in EepromValues,
               Start("write", address, value)
        PROVE  EepromInvariant'
    <2>1. value \in Cells
      BY EepromAssumption DEF Cells
    <2> QED
      BY <1>2, <2>1, StartInv
  <1>3. CASE SendBit
    BY <1>3, SendFramed, SendWaits DEF EepromInvariant
  <1>4. CASE ReceiveBit
    BY <1>4, ReceiveInv
  <1>5. CASE Done
    BY <1>5, DoneInv
  <1>6. CASE Poll
    BY <1>6, PollInv
  <1>7. CASE Wait
    BY <1>7, WaitInv
  <1>8. CASE Reset
    BY <1>8, ResetInv
  <1>9. CASE UNCHANGED eepromvars
    BY <1>9 DEF EepromInvariant, Framed, Typed, Knows, Waits, ChipRests, Requesting, SendingCommand,
        SendingAddress, SendingWord, SendingEnd, Receiving, Received, Sent, High, Cell, ChipIn, Holds,
        eepromvars, eepromchip, eepromprogram
  <1> QED
    BY <1>1, <1>2, <1>3, <1>4, <1>5, <1>6, <1>7, <1>8, <1>9 DEF EepromNext

(* The invariant is the reason for the properties. *)
LEMMA EepromInvMeans ==
    ASSUME Detectable, EepromInvariant
    PROVE  InStep /\ ReadsBack /\ WidthKnown
  <1>1. InStep
    <2> SUFFICES ASSUME request = Idle
                 PROVE  /\ eeprom.state = "accepting_commands" /\ eeprom.cmd = "none"
                        /\ eeprom.transmission_count = 0 /\ eeprom.buffer = 0
                        /\ memory = written
                        /\ patient /\ ready => settles = {}
      BY DEF InStep
    <2>1. ChipRests /\ Waits
      BY AtRest DEF EepromInvariant
    <2> QED
      BY <2>1 DEF ChipRests, ChipIn, Holds, Waits
  <1>2. ReadsBack
    <2> SUFFICES ASSUME Len(received) = IgnoredBits + WordBits
                 PROVE  received = Bits(written[request.address % Words], IgnoredBits + WordBits)
      BY DEF ReadsBack
    <2>1. Receiving /\ request \in Requests /\ Typed
      BY AllReceived DEF EepromInvariant, Framed
    <2>2. received \in Seq({0, 1}) /\ written[request.address % Words] = memory[Cell]
      BY <2>1 DEF Typed, Receiving, Cell
    <2>3. PICK length : length = Len(received) /\ length = IgnoredBits + WordBits
      OBVIOUS
    <2>4. \A i \in 1..length : received[i] = (memory[Cell] \div 2^(length - i)) % 2
      <3> TAKE i \in 1..length
      <3>1. i \in 1..Len(received)
        BY <2>3, Zenon
      <3>2. received[i] = (memory[Cell] \div 2^(IgnoredBits + WordBits - i)) % 2
        BY <2>1, <3>1, Zenon DEF Receiving, Received
      <3>3. IgnoredBits + WordBits - i = length - i
        <4>1. IgnoredBits + WordBits = length /\ length \in Nat
          BY <2>3, Sizes
        <4> QED
          BY <4>1, Sizes, SMTT(40)
      <3> QED
        BY <3>2, <3>3, Zenon
    <2>5. received = [i \in 1..length |-> received[i]]
      BY <2>2, <2>3
    <2>6. received = [i \in 1..length |-> (memory[Cell] \div 2^(length - i)) % 2]
      BY <2>4, <2>5, Zenon
    <2>7. received = Bits(memory[Cell], length)
      BY <2>6, Zenon DEF Bits
    <2> QED
      BY <2>2, <2>3, <2>7, Zenon
  <1>3. WidthKnown
    <2>1. SendingAddress => eeprom.bus_width = ChipWidth
      BY DEF SendingAddress, EepromInvariant, Framed, Knows
    <2> QED
      BY <2>1, Sizes DEF WidthKnown, EepromInvariant, Framed, ChipRests, Requesting, SendingCommand,
          SendingAddress, SendingWord, SendingEnd, Receiving, ChipIn
  <1> QED
    BY <1>1, <1>2, <1>3

(* The chip and its program, without the fairness of either. *)
EepromSpec == EepromInit /\ [][EepromNext]_eepromvars

(* For chips of any size, and words of any length, whatever the program requests and
   whether it waits for the chip or not: between two requests the chip's counter,
   buffer and state are those of a chip that waits for a command, its memory is what
   was written, no write is pending that the chip denies, and an address is never
   taken before the width is known (backup_eeprom::read, write, and the detection in
   core_bus.inl). *)
THEOREM EepromInStep == Detectable => (EepromSpec => [](InStep /\ WidthKnown))
  <1> SUFFICES ASSUME Detectable PROVE EepromSpec => [](InStep /\ WidthKnown)
    OBVIOUS
  <1>1. EepromInit => EepromInvariant
    BY EepromInitInv
  <1>2. EepromInvariant /\ [EepromNext]_eepromvars => EepromInvariant'
    BY EepromNextInv
  <1>3. EepromInvariant => InStep /\ WidthKnown
    BY EepromInvMeans
  <1> QED
    BY <1>1, <1>2, <1>3, PTL DEF EepromSpec

(* Every word that the program reads is the one that it wrote last at that address,
   or at one that names the same word, with the ignored bits zero before it
   (backup_eeprom::read). *)
THEOREM EepromReadsBack == Detectable => (EepromSpec => []ReadsBack)
  <1> SUFFICES ASSUME Detectable PROVE EepromSpec => []ReadsBack
    OBVIOUS
  <1>1. EepromInit => EepromInvariant
    BY EepromInitInv
  <1>2. EepromInvariant /\ [EepromNext]_eepromvars => EepromInvariant'
    BY EepromNextInv
  <1>3. EepromInvariant => ReadsBack
    BY EepromInvMeans
  <1> QED
    BY <1>1, <1>2, <1>3, PTL DEF EepromSpec

-----------------------------------------------------------------------------
(* The invariant of the clock.  The clock has the bits of the byte that the program
   is sending, or what is left of the byte that it is reading. *)

(* The host's clock has less than 80 seconds in a minute: tm_sec is at most 60.  The
   last bit that the program reads is lost, because the clock has left the sending
   state by then, and it is the highest of the seconds. *)
SecondsFit == \A now \in Times : now[7] < 80

(* The commands, and none. *)
Types == {"none", "reset", "date_time", "force_irq", "control", "time", "free"}

(* The members of the clock that a bit moves. *)
Serials == [state : {"command", "receiving", "sending"}, type : Types, read : BOOLEAN,
            byte : 0..7, bit : 0..7, buffer : 0..255]

(* The members are of their types, and the control register and the interrupts are
   those that the program expects at any moment, not only between two requests. *)
RtcTyped ==
    /\ ports_ \in [Pins -> {0, 1}]
    /\ internal_regs_ \in [0..6 -> 0..255]
    /\ serial \in Serials
    /\ control_ \in 0..255 /\ interrupts \in Nat
    /\ task \in [type : Types, read : BOOLEAN, parameter : 0..255]
    /\ outgoing \in Seq({0, 1}) /\ incoming \in Seq({0, 1})
    /\ expected \in [control : 0..255, interrupts : Nat, bytes : Seq(0..255)]
    /\ expected.control = control_ /\ expected.interrupts = interrupts

(* The bytes that follow a command that writes. *)
Sends == IF task.read THEN 0 ELSE parameter_bytes(task.type)

(* What the clock makes of the byte of a command is what the program means. *)
Means(byte) ==
    IF task.type = "none"
    THEN byte % 16 # 6
    ELSE /\ byte % 16 = 6
         /\ CommandOf[(byte \div 16) % 8] = task.type
         /\ (BitOf(byte, 7) = 1) = task.read

(* What is left of a byte to send, of which k bits were sent, and after it. *)
Leaves(byte, k) == \A i \in 1..(8 - k) : outgoing[i] = BitOf(byte, k + i - 1)

(* The bits to send are the rest of a byte and then the parameters; that of the
   control register is the program's. *)
Streams(byte, k) ==
    /\ Len(outgoing) = 8 - k + 8 * Sends
    /\ Leaves(byte, k)
    /\ task.type = "control" /\ ~task.read =>
        \A i \in 1..8 : outgoing[8 - k + i] = BitOf(task.parameter, i - 1)

(* The clock has the first bits of a byte. *)
Has(byte) == \A i \in 0..7 : i < serial.bit => BitOf(serial.buffer, i) = BitOf(byte, i)

(* When the program is about to raise SCK, it is low. *)
Clocked == phase = "high" => ports_["sck"] = 0

(* A request is about to begin, with all of the byte of its command. *)
Opening ==
    /\ phase \in {"deselect", "select"}
    /\ directions_ = Pins /\ incoming = <<>>
    /\ phase = "select" => ports_["sck"] = 1 /\ ports_["cs"] = 0
    /\ \E byte \in 0..255 : Means(byte) /\ Streams(byte, 0)

(* The program is sending and CS is high. *)
Sending ==
    /\ phase \in {"low", "high"} /\ Clocked
    /\ directions_ = Pins /\ incoming = <<>> /\ ports_["cs"] = 1
    /\ outgoing # <<>>

(* The byte of the command goes out. *)
CommandGoes ==
    /\ Sending
    /\ serial.state = "command"
    /\ \E byte \in 0..255 : Means(byte) /\ Streams(byte, serial.bit) /\ Has(byte)

(* A byte that is written goes out, after those before it. *)
ParametersGo ==
    /\ Sending
    /\ serial.state = "receiving" /\ serial.type = task.type
    /\ serial.byte < Sends
    /\ Len(outgoing) = 8 * (Sends - serial.byte) - serial.bit
    /\ task.type = "control" => Has(task.parameter) /\ Leaves(task.parameter, serial.bit)

(* The byte that the clock answers with. *)
Register(i) == IF task.type = "control" THEN expected.bytes[i + 1] ELSE to_bcd(expected.bytes[i + 1])

(* The bytes of the answer. *)
Answers == parameter_bytes(task.type)

(* What has been read is right, but for the last bit of all. *)
Right ==
    /\ DOMAIN expected.bytes = 1..Answers
    /\ \A i \in 1..Answers : expected.bytes[i] \in 0..255
            /\ (task.type # "control" => expected.bytes[i] \in 0..99)
    /\ task.type # "control" => expected.bytes[Answers] < 80
    /\ \A byte \in 0..6, bit \in 0..7 : byte < Answers /\ 8 * byte + bit + 1 <= Len(incoming) =>
         incoming[8 * byte + bit + 1] = IF byte + 1 = Answers /\ bit = 7 THEN 0 ELSE BitOf(Register(byte), bit)

(* The clock has the rest in its registers. *)
Loaded ==
    /\ serial.state = "sending" /\ serial.type = task.type
    /\ serial.byte < Answers
    /\ internal_regs_[serial.byte] = Register(serial.byte) \div 2^serial.bit
    /\ \A i \in 0..6 : serial.byte < i /\ i < Answers => internal_regs_[i] = Register(i)

(* The answer is coming: before its first bit, between two bits, or while a bit is
   on SIO. *)
AnswerComes ==
    /\ Answered /\ outgoing = <<>> /\ Right
    /\ ports_["cs"] = 1
    /\ \/ /\ phase = "turn" /\ incoming = <<>> /\ serial.byte = 0 /\ serial.bit = 0 /\ Loaded
          /\ directions_ = Pins
       \/ /\ phase \in {"low", "high"} /\ Clocked /\ Loaded
          /\ directions_ = {"sck", "cs"}
          /\ Len(incoming) = 8 * serial.byte + serial.bit
       \/ /\ phase = "read"
          /\ directions_ = {"sck", "cs"}
          /\ Len(incoming) + 1 = 8 * serial.byte + serial.bit
          /\ IF Len(incoming) + 1 = 8 * Answers
             THEN serial.state = "command" /\ serial.bit = 0
             ELSE /\ Loaded
                  /\ \E byte \in 0..6, bit \in 0..7 :
                        /\ Len(incoming) = 8 * byte + bit
                        /\ ports_["sio"] = BitOf(Register(byte), bit)

(* No request is being made, and if the last was not given up it is over for the
   clock too. *)
AtIdle ==
    /\ phase = "idle"
    /\ Answered => Right /\ Len(incoming) = 8 * Answers
    /\ task.type # "none" => serial.state = "command" /\ serial.bit = 0

(* The invariant. *)
RtcInv == RtcTyped /\ (AtIdle \/ Opening \/ CommandGoes \/ ParametersGo \/ AnswerComes)

-----------------------------------------------------------------------------
(* The clock's proof: bytes and their bits, then one lemma for each step of the
   program. *)

(* The number that eight bits are. *)
Number(b) == b[0] + 2 * b[1] + 4 * b[2] + 8 * b[3] + 16 * b[4] + 32 * b[5] + 64 * b[6] + 128 * b[7]

(* The bit of each place, by its weight. *)
LEMMA BitPlaces ==
    ASSUME NEW n \in Nat
    PROVE  /\ BitOf(n, 0) = n % 2 /\ BitOf(n, 1) = (n \div 2) % 2
           /\ BitOf(n, 2) = (n \div 4) % 2 /\ BitOf(n, 3) = (n \div 8) % 2
           /\ BitOf(n, 4) = (n \div 16) % 2 /\ BitOf(n, 5) = (n \div 32) % 2
           /\ BitOf(n, 6) = (n \div 64) % 2 /\ BitOf(n, 7) = (n \div 128) % 2
  <1>1. /\ 2^0 = 1 /\ 2^1 = 2 /\ 2^2 = 4 /\ 2^3 = 8 /\ 2^4 = 16 /\ 2^5 = 32 /\ 2^6 = 64 /\ 2^7 = 128
    OBVIOUS
  <1>2. n \div 1 = n
    OBVIOUS
  <1> QED
    BY <1>1, <1>2 DEF BitOf

(* The bits of the number that eight bits are. *)
LEMMA BitsOfNumber ==
    ASSUME NEW b \in [0..7 -> {0, 1}]
    PROVE  /\ Number(b) \in 0..255
           /\ \A i \in 0..7 : BitOf(Number(b), i) = b[i]
  <1>1. PICK b0 \in 0..1, b1 \in 0..1, b2 \in 0..1, b3 \in 0..1 :
          b0 = b[0] /\ b1 = b[1] /\ b2 = b[2] /\ b3 = b[3]
    OBVIOUS
  <1>2. PICK b4 \in 0..1, b5 \in 0..1, b6 \in 0..1, b7 \in 0..1 :
          b4 = b[4] /\ b5 = b[5] /\ b6 = b[6] /\ b7 = b[7]
    OBVIOUS
  <1>3. PICK n \in 0..255 :
          n = Number(b) /\ n = b0 + 2 * b1 + 4 * b2 + 8 * b3 + 16 * b4 + 32 * b5 + 64 * b6 + 128 * b7
    <2>1. b0 + 2 * b1 + 4 * b2 + 8 * b3 + 16 * b4 + 32 * b5 + 64 * b6 + 128 * b7 \in 0..255
      OBVIOUS
    <2>2. Number(b) = b0 + 2 * b1 + 4 * b2 + 8 * b3 + 16 * b4 + 32 * b5 + 64 * b6 + 128 * b7
      BY <1>1, <1>2 DEF Number
    <2> QED
      BY <2>1, <2>2
  <1>4. /\ n % 2 = b0 /\ (n \div 2) % 2 = b1 /\ (n \div 4) % 2 = b2 /\ (n \div 8) % 2 = b3
        /\ (n \div 16) % 2 = b4 /\ (n \div 32) % 2 = b5 /\ (n \div 64) % 2 = b6 /\ (n \div 128) % 2 = b7
    BY <1>3
  <1>5. /\ BitOf(n, 0) = b0 /\ BitOf(n, 1) = b1 /\ BitOf(n, 2) = b2 /\ BitOf(n, 3) = b3
        /\ BitOf(n, 4) = b4 /\ BitOf(n, 5) = b5 /\ BitOf(n, 6) = b6 /\ BitOf(n, 7) = b7
    <2>1. n \in Nat
      OBVIOUS
    <2> QED
      BY <1>4, <2>1, BitPlaces, ZenonT(40)
  <1>6. ASSUME NEW i \in 0..7 PROVE BitOf(n, i) = b[i]
    <2>1. i = 0 \/ i = 1 \/ i = 2 \/ i = 3 \/ i = 4 \/ i = 5 \/ i = 6 \/ i = 7
      OBVIOUS
    <2> QED
      BY <2>1, <1>1, <1>2, <1>5
  <1> QED
    BY <1>3, <1>6

(* A byte is the number that its bits are. *)
LEMMA NumberOfBits ==
    ASSUME NEW n \in 0..255
    PROVE  /\ [i \in 0..7 |-> BitOf(n, i)] \in [0..7 -> {0, 1}]
           /\ n = Number([i \in 0..7 |-> BitOf(n, i)])
  <1> DEFINE b == [i \in 0..7 |-> BitOf(n, i)]
  <1>1. /\ BitOf(n, 0) = n % 2 /\ BitOf(n, 1) = (n \div 2) % 2
        /\ BitOf(n, 2) = (n \div 4) % 2 /\ BitOf(n, 3) = (n \div 8) % 2
        /\ BitOf(n, 4) = (n \div 16) % 2 /\ BitOf(n, 5) = (n \div 32) % 2
        /\ BitOf(n, 6) = (n \div 64) % 2 /\ BitOf(n, 7) = (n \div 128) % 2
    BY BitPlaces, n \in Nat
  <1>2. ASSUME NEW i \in 0..7 PROVE BitOf(n, i) \in {0, 1}
    <2>1. i = 0 \/ i = 1 \/ i = 2 \/ i = 3 \/ i = 4 \/ i = 5 \/ i = 6 \/ i = 7
      OBVIOUS
    <2>2. \A m \in Nat : m % 2 \in {0, 1}
      OBVIOUS
    <2>3. n \div 2 \in Nat /\ n \div 4 \in Nat /\ n \div 8 \in Nat /\ n \div 16 \in Nat
          /\ n \div 32 \in Nat /\ n \div 64 \in Nat /\ n \div 128 \in Nat
      OBVIOUS
    <2> QED
      BY <2>1, <2>2, <2>3, <1>1
  <1>3. n = (n % 2) + 2 * ((n \div 2) % 2) + 4 * ((n \div 4) % 2) + 8 * ((n \div 8) % 2)
            + 16 * ((n \div 16) % 2) + 32 * ((n \div 32) % 2) + 64 * ((n \div 64) % 2)
            + 128 * ((n \div 128) % 2)
    OBVIOUS
  <1>4. Number(b) = BitOf(n, 0) + 2 * BitOf(n, 1) + 4 * BitOf(n, 2) + 8 * BitOf(n, 3)
            + 16 * BitOf(n, 4) + 32 * BitOf(n, 5) + 64 * BitOf(n, 6) + 128 * BitOf(n, 7)
    BY DEF Number
  <1>5. b \in [0..7 -> {0, 1}]
    BY <1>2
  <1>6. n = Number(b)
    BY <1>1, <1>3, <1>4
  <1> QED
    BY <1>5, <1>6

(* Two bytes with the same bits are the same. *)
LEMMA SameBits ==
    ASSUME NEW m \in 0..255, NEW n \in 0..255, \A i \in 0..7 : BitOf(m, i) = BitOf(n, i)
    PROVE  m = n
  <1>1. [i \in 0..7 |-> BitOf(m, i)] = [i \in 0..7 |-> BitOf(n, i)]
    OBVIOUS
  <1> QED
    BY <1>1, NumberOfBits

(* What the replacement of a bit leaves. *)
LEMMA WithBitIs ==
    ASSUME NEW n \in 0..255, NEW k \in 0..7, NEW bit \in {0, 1}
    PROVE  /\ WithBit(n, k, bit) \in 0..255
           /\ BitOf(WithBit(n, k, bit), k) = bit
           /\ \A i \in 0..7 : i # k => BitOf(WithBit(n, k, bit), i) = BitOf(n, i)
  <1>1. PICK b \in [0..7 -> {0, 1}] : n = Number(b) /\ \A i \in 0..7 : BitOf(n, i) = b[i]
    BY NumberOfBits
  <1> DEFINE c == [b EXCEPT ![k] = bit]
  <1>2. c \in [0..7 -> {0, 1}]
    OBVIOUS
  <1>3. WithBit(n, k, bit) = Number(c)
    <2>1. WithBit(n, k, bit) = n - b[k] * 2^k + bit * 2^k
      BY <1>1 DEF WithBit
    <2>2. /\ 2^0 = 1 /\ 2^1 = 2 /\ 2^2 = 4 /\ 2^3 = 8 /\ 2^4 = 16 /\ 2^5 = 32 /\ 2^6 = 64 /\ 2^7 = 128
      OBVIOUS
    <2>3. PICK w : w = 2^k
      OBVIOUS
    <2>4. Number(c) = Number(b) - b[k] * w + bit * w
      <3>1. CASE k = 0
        BY <3>1, <2>2, <2>3 DEF Number
      <3>2. CASE k = 1
        BY <3>2, <2>2, <2>3 DEF Number
      <3>3. CASE k = 2
        BY <3>3, <2>2, <2>3 DEF Number
      <3>4. CASE k = 3
        BY <3>4, <2>2, <2>3 DEF Number
      <3>5. CASE k = 4
        BY <3>5, <2>2, <2>3 DEF Number
      <3>6. CASE k = 5
        BY <3>6, <2>2, <2>3 DEF Number
      <3>7. CASE k = 6
        BY <3>7, <2>2, <2>3 DEF Number
      <3>8. CASE k = 7
        BY <3>8, <2>2, <2>3 DEF Number
      <3> QED
        BY <3>1, <3>2, <3>3, <3>4, <3>5, <3>6, <3>7, <3>8
    <2> QED
      BY <1>1, <2>1, <2>3, <2>4
  <1> HIDE DEF c
  <1>4. Number(c) \in 0..255 /\ \A i \in 0..7 : BitOf(Number(c), i) = c[i]
    BY <1>2, BitsOfNumber
  <1>5. \A i \in 0..7 : c[i] = IF i = k THEN bit ELSE b[i]
    BY DEF c
  <1> QED
    BY <1>1, <1>3, <1>4, <1>5

(* The bit that a register gives after some, and what is left of it. *)
LEMMA ShiftedOut ==
    ASSUME NEW n \in 0..255, NEW k \in 0..7
    PROVE  /\ BitOf(n \div 2^k, 0) = BitOf(n, k) /\ n \div 2^k \in 0..255
           /\ (n \div 2^k) \div 2 \in 0..255
           /\ (n \div 2^k) \div 2 = n \div 2^(k + 1)
  <1>1. /\ 2^0 = 1 /\ 2^1 = 2 /\ 2^2 = 4 /\ 2^3 = 8 /\ 2^4 = 16 /\ 2^5 = 32 /\ 2^6 = 64 /\ 2^7 = 128
        /\ 2^8 = 256
    OBVIOUS
  <1>2. /\ (n \div 1) \div 2 = n \div 2 /\ (n \div 2) \div 2 = n \div 4 /\ (n \div 4) \div 2 = n \div 8
        /\ (n \div 8) \div 2 = n \div 16 /\ (n \div 16) \div 2 = n \div 32 /\ (n \div 32) \div 2 = n \div 64
        /\ (n \div 64) \div 2 = n \div 128 /\ (n \div 128) \div 2 = n \div 256
    OBVIOUS
  <1>3. ASSUME NEW w \in {1, 2, 4, 8, 16, 32, 64, 128, 256} PROVE n \div w \in 0..255
    BY <1>3
  <1>4. \A m \in 0..255 : (m \div 1) % 2 = m % 2
    OBVIOUS
  <1>5. k = 0 \/ k = 1 \/ k = 2 \/ k = 3 \/ k = 4 \/ k = 5 \/ k = 6 \/ k = 7
    OBVIOUS
  <1>6. PICK w \in {1, 2, 4, 8, 16, 32, 64, 128}, half \in {2, 4, 8, 16, 32, 64, 128, 256} :
          w = 2^k /\ half = 2^(k + 1) /\ (n \div w) \div 2 = n \div half
    <2>1. CASE k = 0
      <3>1. 2^k = 1 /\ 2^(k + 1) = 2
        BY <2>1, <1>1
      <3> QED
        BY <3>1, <1>2
    <2>2. CASE k = 1
      <3>1. 2^k = 2 /\ 2^(k + 1) = 4
        BY <2>2, <1>1
      <3> QED
        BY <3>1, <1>2
    <2>3. CASE k = 2
      <3>1. 2^k = 4 /\ 2^(k + 1) = 8
        BY <2>3, <1>1
      <3> QED
        BY <3>1, <1>2
    <2>4. CASE k = 3
      <3>1. 2^k = 8 /\ 2^(k + 1) = 16
        BY <2>4, <1>1
      <3> QED
        BY <3>1, <1>2
    <2>5. CASE k = 4
      <3>1. 2^k = 16 /\ 2^(k + 1) = 32
        BY <2>5, <1>1
      <3> QED
        BY <3>1, <1>2
    <2>6. CASE k = 5
      <3>1. 2^k = 32 /\ 2^(k + 1) = 64
        BY <2>6, <1>1
      <3> QED
        BY <3>1, <1>2
    <2>7. CASE k = 6
      <3>1. 2^k = 64 /\ 2^(k + 1) = 128
        BY <2>7, <1>1
      <3> QED
        BY <3>1, <1>2
    <2>8. CASE k = 7
      <3>1. 2^k = 128 /\ 2^(k + 1) = 256
        BY <2>8, <1>1
      <3> QED
        BY <3>1, <1>2
    <2> QED
      BY <1>5, <2>1, <2>2, <2>3, <2>4, <2>5, <2>6, <2>7, <2>8
  <1>7. PICK q \in 0..255 : q = n \div w
    BY <1>3
  <1>8. n \div half \in 0..255
    BY <1>3
  <1>9. BitOf(q, 0) = q % 2
    <2>1. q \in Nat
      OBVIOUS
    <2> QED
      BY <2>1, BitPlaces, Zenon
  <1> QED
    BY <1>6, <1>7, <1>8, <1>9 DEF BitOf

(* Two decimal digits in a byte. *)
LEMMA Bcd ==
    ASSUME NEW n \in 0..99
    PROVE  /\ to_bcd(n) \in 0..255 /\ from_bcd(to_bcd(n)) = n
           /\ n < 80 => to_bcd(n) < 128
  <1>1. PICK ones \in 0..9, tens \in 0..9 : n = ones + 10 * tens /\ n % 10 = ones /\ (n \div 10) % 10 = tens
    <2>1. n % 10 \in 0..9 /\ (n \div 10) % 10 \in 0..9 /\ n = (n % 10) + 10 * ((n \div 10) % 10)
      OBVIOUS
    <2> QED
      BY <2>1
  <1>2. to_bcd(n) = ones + 16 * tens
    BY <1>1 DEF to_bcd
  <1>3. PICK byte \in 0..255 : byte = ones + 16 * tens
    OBVIOUS
  <1>4. byte \div 16 = tens /\ byte % 16 = ones
    BY <1>3
  <1>5. from_bcd(byte) = n
    BY <1>1, <1>4 DEF from_bcd
  <1>6. n < 80 => byte < 128
    BY <1>1, <1>3
  <1> QED
    BY <1>2, <1>3, <1>5, <1>6

(* The byte of a command. *)
LEMMA CommandByte ==
    ASSUME NEW code \in 0..7, NEW reads \in BOOLEAN,
           NEW command, command = 6 + 16 * code + (IF reads THEN 128 ELSE 0)
    PROVE  /\ command \in 0..255 /\ command % 16 = 6 /\ (command \div 16) % 8 = code
           /\ BitOf(command, 7) = IF reads THEN 1 ELSE 0
  <1>1. PICK top \in 0..1 : top = (IF reads THEN 1 ELSE 0) /\ command = 6 + 16 * code + 128 * top
    <2>1. CASE reads
      BY <2>1
    <2>2. CASE ~reads
      BY <2>2
    <2> QED
      BY <2>1, <2>2
  <1>2. PICK byte \in 0..255 : byte = 6 + 16 * code + 128 * top
    OBVIOUS
  <1>3. byte % 16 = 6 /\ (byte \div 16) % 8 = code /\ (byte \div 128) % 2 = top
    BY <1>2
  <1>4. byte \in Nat
    OBVIOUS
  <1>5. BitOf(byte, 7) = top
    BY <1>3, <1>4, BitPlaces, Zenon
  <1> QED
    BY <1>1, <1>2, <1>3, <1>5

(* The bits of a byte that is sent. *)
LEMMA ByteBitsAre ==
    ASSUME NEW byte \in 0..255
    PROVE  /\ ByteBits(byte) \in Seq({0, 1}) /\ Len(ByteBits(byte)) = 8
           /\ \A i \in 1..8 : ByteBits(byte)[i] = BitOf(byte, i - 1)
  <1>1. ASSUME NEW i \in 1..8 PROVE BitOf(byte, i - 1) \in {0, 1}
    <2>1. i - 1 \in 0..7
      OBVIOUS
    <2> QED
      BY <2>1, NumberOfBits
  <1> QED
    BY <1>1 DEF ByteBits

(* The bits of a parameter that is sent some times. *)
LEMMA RepeatedIs ==
    ASSUME NEW byte \in 0..255, NEW n \in Nat
    PROVE  /\ Repeated(byte, n) \in Seq({0, 1}) /\ Len(Repeated(byte, n)) = 8 * n
           /\ n = 1 => \A i \in 1..8 : Repeated(byte, n)[i] = BitOf(byte, i - 1)
  <1>1. ASSUME NEW i \in 1..(8 * n) PROVE BitOf(byte, (i - 1) % 8) \in {0, 1}
    <2>1. (i - 1) % 8 \in 0..7
      OBVIOUS
    <2> QED
      BY <2>1, NumberOfBits
  <1>2. Repeated(byte, n) \in [1..(8 * n) -> {0, 1}] /\ 8 * n \in Nat
    BY <1>1 DEF Repeated
  <1>3. ASSUME n = 1, NEW i \in 1..8 PROVE Repeated(byte, n)[i] = BitOf(byte, i - 1)
    <2>1. (i - 1) % 8 = i - 1
      OBVIOUS
    <2>2. i \in 1..(8 * n)
      BY <1>3
    <2> QED
      BY <2>1, <2>2, Zenon DEF Repeated
  <1> QED
    BY <1>2, <1>3

(* The first bit of the rest is sent. *)
LEMMA OutgoingNext ==
    ASSUME outgoing \in Seq({0, 1}), outgoing # <<>>, outgoing' = Tail(outgoing)
    PROVE  /\ outgoing' \in Seq({0, 1}) /\ Len(outgoing) \in Nat \ {0}
           /\ Len(outgoing') = Len(outgoing) - 1
           /\ \A i \in 1..(Len(outgoing) - 1) : outgoing'[i] = outgoing[i + 1]
           /\ Head(outgoing) = outgoing[1] /\ Head(outgoing) \in {0, 1}
  BY HeadTailProperties

(* The levels of the pins after the program has written them. *)
Driven(value) ==
    [p \in Pins |-> IF p \notin directions_ THEN ports_[p] ELSE IF p \in value THEN 1 ELSE 0]

(* What a write of the port does; the bits of a request move while CS stays high. *)
LEMMA WriteDataIs ==
    ASSUME ports_ \in [Pins -> {0, 1}], NEW value \in SUBSET Pins, NEW now, WriteData(value, now)
    PROVE  /\ UNCHANGED <<directions_, read_allowed_>>
           /\ Driven(value) \in [Pins -> {0, 1}]
           /\ ~Moves(Driven(value)) =>
                /\ ports_' = Driven(value)
                /\ serial' = IF ports_["cs"] = 0 /\ Driven(value)["cs"] = 1
                             THEN [serial EXCEPT !.state = "command", !.bit = 0, !.byte = 0] ELSE serial
                /\ UNCHANGED <<internal_regs_, control_, interrupts>>
           /\ Moves(Driven(value)) /\ ports_["cs"] = 1 /\ serial.state = "command" =>
                sio_receive_cmd(serial, Driven(value)["sio"], now) /\ ports_' = Driven(value)
           /\ Moves(Driven(value)) /\ ports_["cs"] = 1 /\ serial.state = "receiving" =>
                sio_receive_buffer(serial, Driven(value)["sio"]) /\ ports_' = Driven(value)
           /\ Moves(Driven(value)) /\ ports_["cs"] = 1 /\ serial.state = "sending" =>
                /\ sio_send_buffer(serial)
                /\ ports_' = [Driven(value) EXCEPT !["sio"] = BitOf(internal_regs_[serial.byte], 0)]
  <1> DEFINE states == (pin_states_ \ directions_) \union (value \intersect directions_)
             new == [p \in Pins |-> IF p \notin directions_ THEN ports_[p] ELSE IF p \in states THEN 1 ELSE 0]
             from == Opened(new)
  <1>1. write_pin_states(states, now) /\ UNCHANGED <<directions_, read_allowed_>>
    BY DEF WriteData
  <1>2. new = Driven(value)
    BY DEF Driven
  <1>3. Driven(value) \in [Pins -> {0, 1}]
    BY DEF Driven
  <1>4. ~Moves(new) => ports_' = new /\ serial' = from /\ UNCHANGED <<internal_regs_, control_, interrupts>>
    BY <1>1 DEF write_pin_states, WritesNothing
  <1>5. Moves(new) => CASE from.state = "command" -> sio_receive_cmd(from, new["sio"], now) /\ ports_' = new
                        [] from.state = "receiving" -> sio_receive_buffer(from, new["sio"]) /\ ports_' = new
                        [] from.state = "sending" ->
                             /\ sio_send_buffer(from)
                             /\ ports_' = [new EXCEPT !["sio"] = BitOf(internal_regs_[from.byte], 0)]
    BY <1>1, Zenon DEF write_pin_states
  <1>6. from = IF ports_["cs"] = 0 /\ new["cs"] = 1
               THEN [serial EXCEPT !.state = "command", !.bit = 0, !.byte = 0] ELSE serial
    BY DEF Opened
  <1>7. ports_["cs"] = 1 => from = serial
    BY <1>6
  <1> HIDE DEF states, new, from
  <1>8. ASSUME ~Moves(new)
        PROVE  /\ ports_' = new
               /\ serial' = IF ports_["cs"] = 0 /\ new["cs"] = 1
                            THEN [serial EXCEPT !.state = "command", !.bit = 0, !.byte = 0] ELSE serial
               /\ UNCHANGED <<internal_regs_, control_, interrupts>>
    BY <1>4, <1>6, <1>8, Zenon
  <1>9. ASSUME Moves(new), ports_["cs"] = 1, serial.state = "command"
        PROVE  sio_receive_cmd(serial, new["sio"], now) /\ ports_' = new
    BY <1>5, <1>7, <1>9, Zenon
  <1>10. ASSUME Moves(new), ports_["cs"] = 1, serial.state = "receiving"
         PROVE  sio_receive_buffer(serial, new["sio"]) /\ ports_' = new
    <2>1. serial.state # "command"
      BY <1>10
    <2> QED
      BY <1>5, <1>7, <1>10, <2>1, Zenon
  <1>11. ASSUME Moves(new), ports_["cs"] = 1, serial.state = "sending"
         PROVE  /\ sio_send_buffer(serial)
                /\ ports_' = [new EXCEPT !["sio"] = BitOf(internal_regs_[serial.byte], 0)]
    <2>1. serial.state # "command" /\ serial.state # "receiving"
      BY <1>11
    <2> QED
      BY <1>5, <1>7, <1>11, <2>1, Zenon
  <1> QED
    BY <1>1, <1>2, <1>3, <1>8, <1>9, <1>10, <1>11, Zenon

(* The numbers of bytes that follow a command. *)
LEMMA Parameters7 ==
    ASSUME NEW type
    PROVE  /\ parameter_bytes(type) \in {0, 1, 3, 7}
           /\ type = "control" <=> parameter_bytes(type) = 1
           /\ parameter_bytes(type) > 0 => type \in {"date_time", "control", "time"}
  BY DEF parameter_bytes

(* Each code means some command. *)
LEMMA Commands8 ==
    ASSUME NEW code \in 0..7
    PROVE  CommandOf[code] \in Types \ {"none"}
  BY DEF CommandOf, Types

(* What has been read stays right. *)
LEMMA RightSteady ==
    ASSUME Right, UNCHANGED <<task, expected, incoming>>
    PROVE  Right'
  <1>1. Answers' = Answers
    BY DEF Answers
  <1>2. \A i : Register(i)' = Register(i)
    BY DEF Register
  <1> QED
    BY <1>1, <1>2, ZenonT(40) DEF Right

(* Nothing that the invariant speaks of changes. *)
LEMMA RtcSteady ==
    ASSUME RtcInv,
           UNCHANGED <<ports_, internal_regs_, control_, serial, interrupts, directions_, uservars>>
    PROVE  RtcInv'
  <1>1. RtcTyped'
    BY DEF RtcInv, RtcTyped, uservars
  <1>0. UNCHANGED <<task, expected, incoming, outgoing, phase>>
    BY DEF uservars
  <1>2. CASE AtIdle
    BY <1>0, <1>1, <1>2, RightSteady DEF RtcInv, AtIdle, Answered, Answers
  <1>3. CASE Opening
    BY <1>1, <1>3 DEF RtcInv, Opening, Means, Streams, Leaves, Sends, uservars
  <1>4. CASE CommandGoes
    BY <1>1, <1>4 DEF RtcInv, CommandGoes, Sending, Clocked, Means, Streams, Leaves, Sends, Has, uservars
  <1>5. CASE ParametersGo
    BY <1>1, <1>5 DEF RtcInv, ParametersGo, Sending, Clocked, Leaves, Sends, Has, uservars
  <1>6. CASE AnswerComes
    <2>1. Right'
      BY <1>0, <1>6, RightSteady DEF AnswerComes
    <2>2. Loaded => Loaded'
      BY <1>0 DEF Loaded, Answers, Register
    <2>3. AnswerComes'
      BY <1>0, <1>6, <2>1, <2>2, Zenon DEF AnswerComes, Answered, Answers, Clocked, Register
    <2> QED
      BY <1>1, <2>3 DEF RtcInv
  <1> QED
    BY <1>2, <1>3, <1>4, <1>5, <1>6 DEF RtcInv

(* The program allows itself to read the port. *)
LEMMA AllowReadInv ==
    ASSUME RtcInv, AllowRead PROVE RtcInv'
  <1>1. UNCHANGED <<ports_, internal_regs_, control_, serial, interrupts, directions_, uservars>>
    BY DEF AllowRead, WriteControl, uservars
  <1> QED
    BY <1>1, RtcSteady

(* The program gives a request up: the clock is left in the middle of it. *)
LEMMA GiveUpInv ==
    ASSUME RtcInv, GiveUp PROVE RtcInv'
  <1>1. RtcTyped'
    <2>1. UNCHANGED <<ports_, internal_regs_, control_, serial, interrupts, expected>>
      BY DEF GiveUp, clockvars
    <2>2. outgoing' \in Seq({0, 1}) /\ incoming' \in Seq({0, 1})
      BY DEF GiveUp
    <2>3. task' \in [type : Types, read : BOOLEAN, parameter : 0..255]
      BY DEF RtcInv, RtcTyped, GiveUp, Types
    <2> QED
      BY <2>1, <2>2, <2>3 DEF RtcInv, RtcTyped
  <1>2. AtIdle'
    BY DEF AtIdle, GiveUp, Answered, parameter_bytes, RtcInv, RtcTyped
  <1> QED
    BY <1>1, <1>2 DEF RtcInv

(* SIO is turned round. *)
LEMMA TurnInv ==
    ASSUME RtcInv, Turn PROVE RtcInv'
  <1>1. AnswerComes
    BY DEF Turn, RtcInv, AtIdle, Opening, CommandGoes, ParametersGo, Sending
  <1>2. RtcTyped'
    BY DEF RtcInv, RtcTyped, Turn, WriteDirection
  <1>3. /\ phase = "turn" /\ incoming = <<>> /\ serial.byte = 0 /\ serial.bit = 0 /\ Loaded
        /\ Answered /\ outgoing = <<>> /\ Right /\ ports_["cs"] = 1
    BY <1>1 DEF Turn, AnswerComes
  <1>4. Loaded' /\ Answered' /\ Right'
    <2>1. UNCHANGED <<serial, internal_regs_, task, expected, incoming>>
      BY DEF Turn, WriteDirection
    <2>2. Answered'
      BY <1>3, <2>1 DEF Answered
    <2>3. Loaded'
      BY <1>3, <2>1 DEF Loaded, Answers, Register
    <2>4. Right'
      BY <1>3, <2>1, RightSteady
    <2> QED
      BY <2>2, <2>3, <2>4
  <1>5. /\ phase' = "low" /\ directions_' = {"sck", "cs"} /\ UNCHANGED <<outgoing, ports_, incoming, serial>>
    BY DEF Turn, WriteDirection
  <1>6. Clocked' /\ Len(incoming') = 8 * serial'.byte + serial'.bit
    BY <1>3, <1>5 DEF Clocked
  <1>7. AnswerComes'
    BY <1>3, <1>4, <1>5, <1>6 DEF AnswerComes
  <1> QED
    BY <1>2, <1>7 DEF RtcInv

(* A request begins with a byte that means what the request is. *)
LEMMA AsksInv ==
    ASSUME RtcInv, NEW t \in [type : Types, read : BOOLEAN, parameter : 0..255], NEW bits \in Seq({0, 1}),
           NEW byte \in 0..255, Asks(t, bits), Means(byte)', Streams(byte, 0)'
    PROVE  RtcInv'
  <1>1. /\ task' = t /\ outgoing' = bits /\ incoming' = <<>> /\ phase' = "deselect"
        /\ expected' = [expected EXCEPT !.bytes = <<>>]
        /\ directions_' = Pins
        /\ UNCHANGED <<ports_, internal_regs_, control_, serial, interrupts>>
    BY DEF Asks, WriteDirection
  <1>2. Opening'
    BY <1>1 DEF Opening
  <1>3. expected' \in [control : 0..255, interrupts : Nat, bytes : Seq(0..255)]
          /\ expected'.control = expected.control /\ expected'.interrupts = expected.interrupts
    <2>1. expected \in [control : 0..255, interrupts : Nat, bytes : Seq(0..255)]
      BY DEF RtcInv, RtcTyped
    <2>2. <<>> \in Seq(0..255)
      OBVIOUS
    <2> QED
      BY <1>1, <2>1, <2>2
  <1>4. RtcTyped'
    BY <1>1, <1>3 DEF RtcInv, RtcTyped
  <1> QED
    BY <1>2, <1>4 DEF RtcInv

(* A command begins, lowest bit first. *)
LEMMA BeginInv ==
    ASSUME ~MayReverse, RtcInv, NEW code \in Codes, NEW reads \in BOOLEAN, NEW parameter \in Parameters,
           NEW reversed \in BOOLEAN, Begin(code, reads, parameter, reversed)
    PROVE  RtcInv'
  <1> DEFINE type == CommandOf[code]
             command == 6 + 16 * code + (IF reads THEN 128 ELSE 0)
             bits == ByteBits(command)
             t == [type |-> type, read |-> reads, parameter |-> IF type = "control" THEN parameter ELSE 0]
             n == IF reads THEN 0 ELSE parameter_bytes(type)
             rest == IF reads THEN <<>> ELSE Repeated(parameter, parameter_bytes(type))
  <1>1. code \in 0..7 /\ parameter \in 0..255
    BY RtcAssumption
  <1>2. /\ command \in 0..255 /\ command % 16 = 6 /\ (command \div 16) % 8 = code
        /\ BitOf(command, 7) = IF reads THEN 1 ELSE 0
    BY <1>1, CommandByte
  <1>3. Asks(t, bits \o rest)
    BY DEF Begin
  <1>4. type \in Types \ {"none"}
    BY <1>1, Commands8
  <1>5. bits \in Seq({0, 1}) /\ Len(bits) = 8 /\ \A i \in 1..8 : bits[i] = BitOf(command, i - 1)
    BY <1>2, ByteBitsAre
  <1>6. /\ task'.type = type /\ task'.read = reads
        /\ task'.parameter = (IF type = "control" THEN parameter ELSE 0)
        /\ outgoing' = bits \o rest
    BY <1>3 DEF Asks
  <1>7. parameter_bytes(type) \in Nat
    BY Parameters7
  <1>8. /\ n \in Nat /\ rest \in Seq({0, 1}) /\ Len(rest) = 8 * n
        /\ n = 1 => \A i \in 1..8 : rest[i] = BitOf(parameter, i - 1)
    <2>1. CASE reads
      BY <2>1
    <2>2. CASE ~reads
      BY <1>1, <1>7, <2>2, RepeatedIs
    <2> QED
      BY <2>1, <2>2
  <1>9. Sends' = n
    BY <1>6 DEF Sends
  <1>10. type = "control" /\ ~reads => n = 1
    BY Parameters7
  <1>11. t \in [type : Types, read : BOOLEAN, parameter : 0..255]
    BY <1>1, <1>4
  <1> HIDE DEF command, bits, type, t, n, rest
  <1>12. /\ outgoing' \in Seq({0, 1}) /\ Len(outgoing') = 8 + 8 * n
         /\ \A i \in 1..8 : outgoing'[i] = bits[i]
         /\ n = 1 => \A i \in 1..8 : outgoing'[8 + i] = rest[i]
    <2>1. outgoing' \in Seq({0, 1}) /\ Len(outgoing') = Len(bits) + Len(rest)
      BY <1>5, <1>6, <1>8, ConcatProperties
    <2>2. \A i \in 1..(Len(bits) + Len(rest)) :
            outgoing'[i] = IF i <= Len(bits) THEN bits[i] ELSE rest[i - Len(bits)]
      BY <1>5, <1>6, <1>8, ConcatProperties
    <2>3. ASSUME NEW i \in 1..8 PROVE outgoing'[i] = bits[i]
      <3>1. i \in 1..(Len(bits) + Len(rest)) /\ i <= Len(bits)
        BY <1>5, <1>8
      <3> QED
        BY <2>2, <3>1
    <2>4. ASSUME n = 1, NEW i \in 1..8 PROVE outgoing'[8 + i] = rest[i]
      <3>1. 8 + i \in 1..(Len(bits) + Len(rest)) /\ ~(8 + i <= Len(bits)) /\ (8 + i) - Len(bits) = i
        BY <1>5, <1>8, <2>4
      <3> QED
        BY <2>2, <3>1
    <2> QED
      BY <1>5, <1>8, <2>1, <2>3, <2>4
  <1>13. Means(command)'
    BY <1>2, <1>4, <1>6 DEF Means, type
  <1>14. Streams(command, 0)'
    <2>1. Len(outgoing') = 8 - 0 + 8 * Sends'
      BY <1>8, <1>9, <1>12
    <2>2. ASSUME NEW i \in 1..(8 - 0) PROVE outgoing'[i] = BitOf(command, 0 + i - 1)
      <3>1. i \in 1..8 /\ 0 + i - 1 = i - 1
        OBVIOUS
      <3> QED
        BY <1>5, <1>12, <3>1
    <2>3. ASSUME type = "control", ~reads, NEW i \in 1..8
          PROVE outgoing'[8 - 0 + i] = BitOf(parameter, i - 1)
      <3>1. n = 1 /\ 8 - 0 + i = 8 + i
        BY <2>3, <1>10
      <3> QED
        BY <1>8, <1>12, <3>1
    <2>4. Leaves(command, 0)'
      BY <2>2 DEF Leaves
    <2> QED
      BY <1>6, <2>1, <2>3, <2>4 DEF Streams
  <1>15. outgoing' = bits \o rest
    BY <1>6
  <1> QED
    BY <1>2, <1>3, <1>12, <1>13, <1>14, <1>11, <1>15, AsksInv

(* A byte begins that is no command. *)
LEMMA StrayInv ==
    ASSUME RtcInv, NEW byte \in Strays, Stray(byte)
    PROVE  RtcInv'
  <1> DEFINE t == [type |-> "none", read |-> FALSE, parameter |-> 0]
             bits == ByteBits(byte)
  <1>1. byte \in 0..255 /\ byte % 16 # 6
    BY RtcAssumption
  <1>2. Asks(t, bits)
    BY DEF Stray
  <1>3. bits \in Seq({0, 1}) /\ Len(bits) = 8 /\ \A i \in 1..8 : bits[i] = BitOf(byte, i - 1)
    BY <1>1, ByteBitsAre
  <1>4. t \in [type : Types, read : BOOLEAN, parameter : 0..255]
    BY DEF Types
  <1>5. task'.type = "none" /\ outgoing' = bits
    BY <1>2 DEF Asks
  <1> HIDE DEF bits, t
  <1>6. Means(byte)'
    BY <1>1, <1>5 DEF Means
  <1>7. Sends' = 0
    BY <1>5 DEF Sends, parameter_bytes
  <1>8. Streams(byte, 0)'
    <2>1. Len(outgoing') = 8 - 0 + 8 * Sends'
      BY <1>3, <1>5, <1>7
    <2>2. ASSUME NEW i \in 1..(8 - 0) PROVE outgoing'[i] = BitOf(byte, 0 + i - 1)
      <3>1. i \in 1..8 /\ 0 + i - 1 = i - 1
        OBVIOUS
      <3> QED
        BY <1>3, <1>5, <3>1
    <2>3. Leaves(byte, 0)'
      BY <2>2 DEF Leaves
    <2>4. task'.type # "control"
      BY <1>5
    <2> QED
      BY <2>1, <2>3, <2>4, Zenon DEF Streams
  <1> QED
    BY <1>1, <1>2, <1>3, <1>4, <1>6, <1>8, AsksInv

(* The levels while the program drives all pins, and while it reads. *)
LEMMA DrivenOut ==
    ASSUME directions_ = Pins, NEW value \in SUBSET Pins
    PROVE  \A p \in Pins : Driven(value)[p] = IF p \in value THEN 1 ELSE 0
  BY DEF Driven

(* SCK and CS are the program's at any time. *)
LEMMA DrivenClock ==
    ASSUME directions_ = Pins \/ directions_ = {"sck", "cs"}, NEW value \in SUBSET Pins
    PROVE  /\ Driven(value)["sck"] = IF "sck" \in value THEN 1 ELSE 0
           /\ Driven(value)["cs"] = IF "cs" \in value THEN 1 ELSE 0
  BY DEF Driven, Pins

(* The bits to send and their meaning stay. *)
LEMMA StreamsSteady ==
    ASSUME UNCHANGED <<task, outgoing>>, NEW byte, NEW k
    PROVE  /\ Means(byte) => Means(byte)'
           /\ Streams(byte, k) => Streams(byte, k)'
           /\ Sends' = Sends
  BY DEF Means, Streams, Leaves, Sends

(* CS goes down and the clock sees no bit. *)
LEMMA DeselectInv ==
    ASSUME RtcInv, Deselect PROVE RtcInv'
  <1>1. PICK now \in Times : WriteData({"sck"}, now)
    BY DEF Deselect
  <1>2. /\ phase = "deselect" /\ phase' = "select"
        /\ UNCHANGED <<task, outgoing, incoming, expected>>
    BY DEF Deselect
  <1>3. Opening
    BY <1>2 DEF RtcInv, AtIdle, Opening, CommandGoes, ParametersGo, Sending, AnswerComes
  <1>4. {"sck"} \in SUBSET Pins /\ ports_ \in [Pins -> {0, 1}]
    BY DEF Pins, RtcInv, RtcTyped
  <1>5. Driven({"sck"})["sck"] = 1 /\ Driven({"sck"})["cs"] = 0
    BY <1>3, <1>4, DrivenClock DEF Opening
  <1>6. ~Moves(Driven({"sck"}))
    BY <1>5 DEF Moves
  <1>7. /\ directions_' = directions_ /\ ports_' = Driven({"sck"}) /\ ports_' \in [Pins -> {0, 1}]
        /\ serial' = serial /\ UNCHANGED <<internal_regs_, control_, interrupts>>
    BY <1>1, <1>4, <1>5, <1>6, WriteDataIs
  <1>8. PICK byte \in 0..255 : Means(byte) /\ Streams(byte, 0)
    BY <1>3 DEF Opening
  <1>9. Means(byte)' /\ Streams(byte, 0)'
    BY <1>2, <1>8, StreamsSteady
  <1>10. Opening'
    BY <1>2, <1>3, <1>5, <1>7, <1>9 DEF Opening
  <1>11. RtcTyped'
    BY <1>2, <1>7 DEF RtcInv, RtcTyped
  <1> QED
    BY <1>10, <1>11 DEF RtcInv

(* CS goes up, and whatever the clock was doing it waits for a command. *)
LEMMA SelectInv ==
    ASSUME RtcInv, Select PROVE RtcInv'
  <1>1. PICK now \in Times : WriteData({"sck", "cs"}, now)
    BY DEF Select
  <1>2. /\ phase = "select" /\ phase' = "low"
        /\ UNCHANGED <<task, outgoing, incoming, expected>>
    BY DEF Select
  <1>3. Opening
    BY <1>2 DEF RtcInv, AtIdle, Opening, CommandGoes, ParametersGo, Sending, AnswerComes
  <1>4. {"sck", "cs"} \in SUBSET Pins /\ ports_ \in [Pins -> {0, 1}]
    BY DEF Pins, RtcInv, RtcTyped
  <1>5. Driven({"sck", "cs"})["sck"] = 1 /\ Driven({"sck", "cs"})["cs"] = 1
    BY <1>3, <1>4, DrivenClock DEF Opening
  <1>6. ~Moves(Driven({"sck", "cs"})) /\ ports_["cs"] = 0
    BY <1>2, <1>3 DEF Moves, Opening
  <1>7. /\ directions_' = directions_ /\ ports_' = Driven({"sck", "cs"}) /\ ports_' \in [Pins -> {0, 1}]
        /\ serial' = [serial EXCEPT !.state = "command", !.bit = 0, !.byte = 0]
        /\ UNCHANGED <<internal_regs_, control_, interrupts>>
    BY <1>1, <1>4, <1>5, <1>6, WriteDataIs
  <1>8. PICK byte \in 0..255 : Means(byte) /\ Streams(byte, 0)
    BY <1>3 DEF Opening
  <1>9. Means(byte)' /\ Streams(byte, 0)'
    BY <1>2, <1>8, StreamsSteady
  <1>10. serial' \in Serials /\ serial'.state = "command" /\ serial'.bit = 0
    <2>1. serial \in Serials
      BY DEF RtcInv, RtcTyped
    <2>2. serial' = [state |-> "command", type |-> serial.type, read |-> serial.read,
                     byte |-> 0, bit |-> 0, buffer |-> serial.buffer]
      BY <1>7, <2>1 DEF Serials
    <2> QED
      BY <2>1, <2>2 DEF Serials
  <1>11. Has(byte)'
    BY <1>10 DEF Has
  <1>12. outgoing # <<>>
    <2>1. Sends \in Nat
      BY Parameters7 DEF Sends
    <2> QED
      BY <1>8, <2>1 DEF Streams
  <1>13. CommandGoes'
    <2>1. Sending'
      BY <1>2, <1>3, <1>5, <1>7, <1>12 DEF Sending, Clocked, Opening
    <2> QED
      BY <1>9, <1>10, <1>11, <2>1 DEF CommandGoes
  <1>14. RtcTyped'
    BY <1>2, <1>7, <1>10 DEF RtcInv, RtcTyped
  <1> QED
    BY <1>13, <1>14 DEF RtcInv

(* While CS is high, SCK falls and nothing moves. *)
LEMMA ClockFalls ==
    ASSUME RtcInv, Low
    PROVE  /\ phase = "low" /\ phase' = "high" /\ ports_' \in [Pins -> {0, 1}]
           /\ ports_'["sck"] = 0 /\ ports_'["cs"] = 1 /\ ports_["cs"] = 1
           /\ UNCHANGED <<task, outgoing, incoming, expected, directions_, serial, internal_regs_,
                          control_, interrupts>>
  <1>1. PICK now \in Times : WriteData({"cs"}, now)
    BY DEF Low
  <1>2. /\ phase = "low" /\ phase' = "high"
        /\ UNCHANGED <<task, outgoing, incoming, expected>>
    BY DEF Low
  <1>3. ports_["cs"] = 1 /\ (directions_ = Pins \/ directions_ = {"sck", "cs"})
    BY <1>2 DEF RtcInv, AtIdle, Opening, CommandGoes, ParametersGo, Sending, AnswerComes
  <1>4. {"cs"} \in SUBSET Pins /\ ports_ \in [Pins -> {0, 1}]
    BY DEF Pins, RtcInv, RtcTyped
  <1>5. Driven({"cs"})["sck"] = 0 /\ Driven({"cs"})["cs"] = 1
    BY <1>3, <1>4, DrivenClock
  <1>6. ~Moves(Driven({"cs"}))
    BY <1>5 DEF Moves
  <1>7. /\ directions_' = directions_ /\ ports_' = Driven({"cs"}) /\ ports_' \in [Pins -> {0, 1}]
        /\ serial' = serial /\ UNCHANGED <<internal_regs_, control_, interrupts>>
    BY <1>1, <1>3, <1>4, <1>5, <1>6, WriteDataIs
  <1> QED
    BY <1>2, <1>3, <1>5, <1>7

(* SCK goes down. *)
LEMMA LowInv ==
    ASSUME RtcInv, Low PROVE RtcInv'
  <1>1. /\ phase = "low" /\ phase' = "high" /\ ports_' \in [Pins -> {0, 1}]
        /\ ports_'["sck"] = 0 /\ ports_'["cs"] = 1 /\ ports_["cs"] = 1
        /\ UNCHANGED <<task, outgoing, incoming, expected, directions_, serial, internal_regs_,
                       control_, interrupts>>
    BY ClockFalls
  <1>2. RtcTyped'
    BY <1>1 DEF RtcInv, RtcTyped
  <1>3. Clocked'
    BY <1>1 DEF Clocked
  <1>4. CASE CommandGoes
    <2>1. PICK byte \in 0..255, k \in 0..7 :
             k = serial.bit /\ Means(byte) /\ Streams(byte, k) /\ Has(byte)
      BY <1>4 DEF CommandGoes, RtcInv, RtcTyped, Serials
    <2>2. Means(byte)' /\ Streams(byte, k)'
      BY <1>1, <2>1, StreamsSteady
    <2>3. Has(byte)'
      BY <1>1, <2>1 DEF Has
    <2>4. Sending' /\ serial'.state = "command"
      BY <1>1, <1>3, <1>4 DEF CommandGoes, Sending
    <2>5. serial'.bit = k
      BY <1>1, <2>1
    <2>6. CommandGoes'
      BY <2>2, <2>3, <2>4, <2>5 DEF CommandGoes
    <2> QED
      BY <1>2, <2>6 DEF RtcInv
  <1>5. CASE ParametersGo
    <2>1. Sends' = Sends
      BY <1>1 DEF Sends
    <2>2. Sending' /\ serial' = serial
      BY <1>1, <1>3, <1>5 DEF ParametersGo, Sending
    <2>3. task.type = "control" => Has(task.parameter)' /\ Leaves(task.parameter, serial.bit)'
      BY <1>1, <1>5 DEF ParametersGo, Has, Leaves
    <2>4. ParametersGo'
      BY <1>1, <1>5, <2>1, <2>2, <2>3 DEF ParametersGo
    <2> QED
      BY <1>2, <2>4 DEF RtcInv
  <1>6. CASE AnswerComes
    <2>1. Right'
      BY <1>1, <1>6, RightSteady DEF AnswerComes
    <2>2. Loaded'
      <3>1. Loaded
        BY <1>1, <1>6 DEF AnswerComes
      <3> QED
        BY <1>1, <3>1 DEF Loaded, Answers, Register
    <2>3. Answered'
      BY <1>1, <1>6 DEF AnswerComes, Answered
    <2>4. directions_' = {"sck", "cs"} /\ Len(incoming') = 8 * serial'.byte + serial'.bit
          /\ outgoing' = <<>>
      BY <1>1, <1>6 DEF AnswerComes
    <2>5. AnswerComes'
      BY <1>1, <1>3, <2>1, <2>2, <2>3, <2>4 DEF AnswerComes
    <2> QED
      BY <1>2, <2>5 DEF RtcInv
  <1> QED
    BY <1>1, <1>4, <1>5, <1>6 DEF RtcInv, AtIdle, Opening

(* The clock takes a bit of a byte of which it had the ones before. *)
LEMMA BitTaken ==
    ASSUME serial \in Serials, NEW byte \in 0..255, Has(byte),
           NEW bit \in {0, 1}, bit = BitOf(byte, serial.bit)
    PROVE  /\ read_sio(serial, bit) \in Serials
           /\ read_sio(serial, bit).bit = (serial.bit + 1) % 8
           /\ read_sio(serial, bit).state = serial.state /\ read_sio(serial, bit).type = serial.type
           /\ read_sio(serial, bit).byte = serial.byte
           /\ \A i \in 0..7 : i <= serial.bit => BitOf(read_sio(serial, bit).buffer, i) = BitOf(byte, i)
           /\ serial.bit = 7 => read_sio(serial, bit).buffer = byte
  <1> DEFINE s == read_sio(serial, bit)
  <1>1. serial.buffer \in 0..255 /\ serial.bit \in 0..7
    BY DEF Serials
  <1>2. PICK k \in 0..7 : k = serial.bit
    BY <1>1
  <1>3. PICK n \in 0..255 : n = WithBit(serial.buffer, k, bit) /\ BitOf(n, k) = bit
          /\ \A i \in 0..7 : i # k => BitOf(n, i) = BitOf(serial.buffer, i)
    <2>1. \A m \in 0..255 :
            /\ WithBit(m, k, bit) \in 0..255 /\ BitOf(WithBit(m, k, bit), k) = bit
            /\ \A i \in 0..7 : i # k => BitOf(WithBit(m, k, bit), i) = BitOf(m, i)
      <3> TAKE m \in 0..255
      <3>1. k \in 0..7 /\ bit \in {0, 1} /\ m \in 0..255
        OBVIOUS
      <3>2. WithBit(m, k, bit) \in 0..255
        BY <3>1, WithBitIs
      <3>3. BitOf(WithBit(m, k, bit), k) = bit
        BY <3>1, WithBitIs, ZenonT(40)
      <3>4. \A i \in 0..7 : i # k => BitOf(WithBit(m, k, bit), i) = BitOf(m, i)
        BY <3>1, WithBitIs, ZenonT(40)
      <3> QED
        BY <3>2, <3>3, <3>4
    <2> QED
      BY <1>1, <2>1, Zenon
  <1>4. s = [state |-> serial.state, type |-> serial.type, read |-> serial.read,
             byte |-> serial.byte, bit |-> (k + 1) % 8, buffer |-> n]
    <2>1. s = [serial EXCEPT !.buffer = n, !.bit = (k + 1) % 8]
      BY <1>2, <1>3 DEF read_sio
    <2> HIDE DEF s
    <2> QED
      BY <2>1 DEF Serials
  <1>5. (k + 1) % 8 \in 0..7
    OBVIOUS
  <1> HIDE DEF s
  <1>6. s \in Serials
    BY <1>4, <1>5 DEF Serials
  <1>7. ASSUME NEW i \in 0..7, i <= k PROVE BitOf(n, i) = BitOf(byte, i)
    <2>1. CASE i = k
      BY <1>2, <1>3, <2>1
    <2>2. CASE i # k
      <3>1. i < serial.bit
        BY <1>2, <1>7, <2>2
      <3> QED
        BY <1>3, <2>2, <3>1 DEF Has
    <2> QED
      BY <2>1, <2>2
  <1>8. k = 7 => n = byte
    <2> SUFFICES ASSUME k = 7 PROVE n = byte
      OBVIOUS
    <2>1. \A i \in 0..7 : BitOf(n, i) = BitOf(byte, i)
      <3> TAKE i \in 0..7
      <3>1. i <= k
        OBVIOUS
      <3> QED
        BY <1>7, <3>1
    <2> QED
      BY <2>1, SameBits
  <1> QED
    BY <1>2, <1>4, <1>6, <1>7, <1>8 DEF s

(* A rise of SCK carries the first bit of the rest to the clock. *)
LEMMA BitDriven ==
    ASSUME RtcInv, NEW now \in Times, HighSend(now)
    PROVE  /\ phase = "high" /\ outgoing # <<>> /\ (CommandGoes \/ ParametersGo)
           /\ directions_' = Pins /\ incoming = <<>>
           /\ ports_' \in [Pins -> {0, 1}] /\ ports_'["cs"] = 1
           /\ serial.state = "command" => sio_receive_cmd(serial, outgoing[1], now)
           /\ serial.state = "receiving" => sio_receive_buffer(serial, outgoing[1])
           /\ UNCHANGED <<task, incoming>> /\ outgoing' = Tail(outgoing)
           /\ phase' = IF Len(outgoing) > 1 THEN "low" ELSE IF Answered THEN "turn" ELSE "idle"
           /\ expected' = IF Len(outgoing) > 1 THEN expected ELSE Served(now)
  <1> DEFINE value == {"cs", "sck"} \union (IF Head(outgoing) = 1 THEN {"sio"} ELSE {})
  <1>1. /\ phase = "high" /\ outgoing # <<>> /\ WriteData(value, now)
        /\ UNCHANGED <<task, incoming>> /\ outgoing' = Tail(outgoing)
        /\ phase' = IF Len(outgoing) > 1 THEN "low" ELSE IF Answered THEN "turn" ELSE "idle"
        /\ expected' = IF Len(outgoing) > 1 THEN expected ELSE Served(now)
    BY DEF HighSend
  <1>2. CommandGoes \/ ParametersGo
    BY <1>1 DEF RtcInv, AtIdle, Opening, AnswerComes
  <1>3. directions_ = Pins /\ incoming = <<>> /\ ports_["sck"] = 0 /\ ports_["cs"] = 1
    BY <1>1, <1>2 DEF CommandGoes, ParametersGo, Sending, Clocked
  <1>4. /\ outgoing \in Seq({0, 1}) /\ ports_ \in [Pins -> {0, 1}]
        /\ Head(outgoing) = outgoing[1] /\ Head(outgoing) \in {0, 1}
    BY <1>1, OutgoingNext DEF RtcInv, RtcTyped
  <1>5. value \in SUBSET Pins
    BY DEF Pins
  <1>6. \A p \in Pins : Driven(value)[p] = IF p \in value THEN 1 ELSE 0
    BY <1>3, <1>5, DrivenOut
  <1>7. Driven(value)["sck"] = 1 /\ Driven(value)["cs"] = 1 /\ Driven(value)["sio"] = outgoing[1]
    <2>1. "sck" \in value /\ "cs" \in value /\ ("sio" \in value <=> Head(outgoing) = 1)
      OBVIOUS
    <2> HIDE DEF value
    <2>2. "sck" \in Pins /\ "cs" \in Pins /\ "sio" \in Pins
      BY DEF Pins
    <2> QED
      BY <1>4, <1>6, <2>1, <2>2
  <1> HIDE DEF value
  <1>8. Moves(Driven(value))
    BY <1>3, <1>7 DEF Moves
  <1>9. serial.state = "command" \/ serial.state = "receiving"
    BY <1>2 DEF CommandGoes, ParametersGo
  <1>10. /\ directions_' = directions_ /\ Driven(value) \in [Pins -> {0, 1}] /\ ports_' = Driven(value)
         /\ serial.state = "command" => sio_receive_cmd(serial, Driven(value)["sio"], now)
         /\ serial.state = "receiving" => sio_receive_buffer(serial, Driven(value)["sio"])
    BY <1>1, <1>3, <1>4, <1>5, <1>8, <1>9, WriteDataIs
  <1> QED
    BY <1>1, <1>2, <1>3, <1>7, <1>10

(* What a request that writes has done. *)
LEMMA ServedIs ==
    ASSUME RtcTyped, NEW now, ~Answered
    PROVE  /\ Served(now) \in [control : 0..255, interrupts : Nat, bytes : Seq(0..255)]
           /\ Served(now).control = IF task.read THEN control_
                ELSE CASE task.type = "control" -> task.parameter [] task.type = "reset" -> 0
                       [] OTHER -> control_
           /\ Served(now).interrupts = IF ~task.read /\ task.type = "force_irq"
                                       THEN interrupts + 1 ELSE interrupts
  <1>1. expected \in [control : 0..255, interrupts : Nat, bytes : Seq(0..255)]
        /\ expected.control = control_ /\ expected.interrupts = interrupts
        /\ task.parameter \in 0..255
    BY DEF RtcTyped
  <1>2. CASE task.read
    <2>1. task.type # "control" /\ task.type # "time" /\ task.type # "date_time"
      BY <1>2 DEF Answered, parameter_bytes
    <2>2. Served(now) = expected
      BY <1>2, <2>1 DEF Served
    <2> QED
      BY <1>1, <1>2, <2>2
  <1>3. CASE ~task.read /\ task.type = "control"
    <2>1. Served(now) = [expected EXCEPT !.control = task.parameter]
      BY <1>3 DEF Served
    <2> QED
      BY <1>1, <1>3, <2>1
  <1>4. CASE ~task.read /\ task.type = "reset"
    <2>1. Served(now) = [expected EXCEPT !.control = 0]
      BY <1>4 DEF Served
    <2> QED
      BY <1>1, <1>4, <2>1
  <1>5. CASE ~task.read /\ task.type = "force_irq"
    <2>1. Served(now) = [expected EXCEPT !.interrupts = @ + 1]
      BY <1>5 DEF Served
    <2>2. PICK next \in Nat : next = expected.interrupts + 1
      BY <1>1
    <2>3. Served(now) = [expected EXCEPT !.interrupts = next]
      BY <2>1, <2>2, Zenon
    <2> QED
      BY <1>1, <1>5, <2>2, <2>3
  <1>6. CASE ~task.read /\ task.type \notin {"control", "reset", "force_irq"}
    <2>1. Served(now) = expected
      BY <1>6 DEF Served
    <2> QED
      BY <1>1, <1>6, <2>1
  <1> QED
    BY <1>2, <1>3, <1>4, <1>5, <1>6

(* The program notes the bytes that it expects. *)
LEMMA BytesNoted ==
    ASSUME expected \in [control : 0..255, interrupts : Nat, bytes : Seq(0..255)],
           NEW bytes \in Seq(0..255)
    PROVE  /\ [expected EXCEPT !.bytes = bytes] \in [control : 0..255, interrupts : Nat, bytes : Seq(0..255)]
           /\ [expected EXCEPT !.bytes = bytes].control = expected.control
           /\ [expected EXCEPT !.bytes = bytes].interrupts = expected.interrupts
           /\ [expected EXCEPT !.bytes = bytes].bytes = bytes
  OBVIOUS

(* The clock loads the bytes that the program should read. *)
LEMMA AnswerLoaded ==
    ASSUME SecondsFit, RtcTyped, NEW now \in Times, Answered
    PROVE  /\ Served(now) \in [control : 0..255, interrupts : Nat, bytes : Seq(0..255)]
           /\ Served(now).control = control_ /\ Served(now).interrupts = interrupts
           /\ DOMAIN Served(now).bytes = 1..Answers
           /\ \A i \in 1..Answers : Served(now).bytes[i] \in 0..255
                /\ (task.type # "control" => Served(now).bytes[i] \in 0..99)
           /\ task.type # "control" => Served(now).bytes[Answers] < 80
           /\ read_register(task.type, now) \in [0..6 -> 0..255]
           /\ \A i \in 0..6 : i < Answers => read_register(task.type, now)[i] =
                IF task.type = "control" THEN Served(now).bytes[i + 1] ELSE to_bcd(Served(now).bytes[i + 1])
  <1>1. /\ expected \in [control : 0..255, interrupts : Nat, bytes : Seq(0..255)]
        /\ expected.control = control_ /\ expected.interrupts = interrupts
        /\ control_ \in 0..255 /\ internal_regs_ \in [0..6 -> 0..255]
    BY DEF RtcTyped
  <1>2. task.read /\ task.type \in {"control", "time", "date_time"}
    BY Parameters7 DEF Answered
  <1>3. now \in [1..7 -> 0..99] /\ now[7] < 80
    BY RtcAssumption DEF SecondsFit
  <1> DEFINE hour == IF BitOf(control_, 6) = 1 THEN now[5] ELSE now[5] % 12
  <1>4. hour \in 0..99
    <2>1. now[5] \in 0..99 /\ now[5] % 12 \in 0..99
      BY <1>3
    <2> QED
      BY <2>1
  <1>5. get_time(now) = <<to_bcd(hour), to_bcd(now[6]), to_bcd(now[7])>>
    BY DEF get_time
  <1> HIDE DEF hour
  <1>6. \A n \in 0..99 : to_bcd(n) \in 0..255
    BY Bcd
  <1>7. CASE task.type = "control"
    <2> DEFINE bytes == <<control_>>
    <2>1. Answers = 1
      BY <1>7 DEF Answers, parameter_bytes
    <2>2. Served(now) = [expected EXCEPT !.bytes = bytes]
      BY <1>1, <1>2, <1>7 DEF Served
    <2>5. bytes \in Seq(0..255) /\ DOMAIN bytes = 1..1 /\ bytes[1] = control_
      BY <1>1
    <2>3. read_register(task.type, now)
            = [i \in 0..6 |-> IF i < Len(<<control_>>) THEN <<control_>>[i + 1] ELSE internal_regs_[i]]
      BY <1>7 DEF read_register
    <2>4. read_register(task.type, now) \in [0..6 -> 0..255] /\ read_register(task.type, now)[0] = control_
      BY <1>1, <2>3
    <2> HIDE DEF bytes
    <2>6. /\ Served(now) \in [control : 0..255, interrupts : Nat, bytes : Seq(0..255)]
          /\ Served(now).control = control_ /\ Served(now).interrupts = interrupts
          /\ Served(now).bytes = bytes
      BY <1>1, <2>2, <2>5, BytesNoted, ZenonT(40)
    <2>7. \A i \in 1..1 : bytes[i] \in 0..255
      BY <1>1, <2>5
    <2>8. \A i \in 0..6 : i < 1 => read_register(task.type, now)[i] = bytes[i + 1]
      BY <2>4, <2>5
    <2>9. DOMAIN Served(now).bytes = 1..Answers
      BY <2>1, <2>5, <2>6
    <2>10. \A i \in 1..Answers : Served(now).bytes[i] \in 0..255
      BY <2>1, <2>6, <2>7
    <2>11. \A i \in 0..6 : i < Answers => read_register(task.type, now)[i] = Served(now).bytes[i + 1]
      BY <2>1, <2>6, <2>8
    <2> QED
      BY <1>7, <2>4, <2>6, <2>9, <2>10, <2>11, Zenon
  <1>8. CASE task.type = "time"
    <2> DEFINE bytes == <<hour, now[6], now[7]>>
               loaded == <<to_bcd(hour), to_bcd(now[6]), to_bcd(now[7])>>
    <2>1. Answers = 3
      BY <1>8 DEF Answers, parameter_bytes
    <2>2. Served(now) = [expected EXCEPT !.bytes = bytes]
      BY <1>1, <1>2, <1>8 DEF Served, hour
    <2>3. read_register(task.type, now)
            = [i \in 0..6 |-> IF i < Len(loaded) THEN loaded[i + 1] ELSE internal_regs_[i]]
      BY <1>5, <1>8 DEF read_register
    <2>4. /\ bytes \in Seq(0..255) /\ DOMAIN bytes = 1..3 /\ bytes[3] < 80
          /\ bytes[1] \in 0..99 /\ bytes[2] \in 0..99 /\ bytes[3] \in 0..99
          /\ bytes[1] = hour /\ bytes[2] = now[6] /\ bytes[3] = now[7]
      BY <1>3, <1>4
    <2>5. /\ Len(loaded) = 3
          /\ loaded[1] = to_bcd(bytes[1]) /\ loaded[2] = to_bcd(bytes[2]) /\ loaded[3] = to_bcd(bytes[3])
          /\ loaded[1] \in 0..255 /\ loaded[2] \in 0..255 /\ loaded[3] \in 0..255
      <3>1. Len(loaded) = 3 /\ loaded[1] = to_bcd(hour) /\ loaded[2] = to_bcd(now[6]) /\ loaded[3] = to_bcd(now[7])
        OBVIOUS
      <3> HIDE DEF bytes, loaded
      <3>2. loaded[1] = to_bcd(bytes[1]) /\ loaded[2] = to_bcd(bytes[2]) /\ loaded[3] = to_bcd(bytes[3])
        BY <2>4, <3>1, Zenon
      <3>3. to_bcd(bytes[1]) \in 0..255 /\ to_bcd(bytes[2]) \in 0..255 /\ to_bcd(bytes[3]) \in 0..255
        BY <1>6, <2>4, Zenon
      <3> QED
        BY <3>1, <3>2, <3>3, Zenon
    <2> HIDE DEF bytes, loaded
    <2>6. /\ read_register(task.type, now) \in [0..6 -> 0..255]
          /\ read_register(task.type, now)[0] = loaded[1]
          /\ read_register(task.type, now)[1] = loaded[2]
          /\ read_register(task.type, now)[2] = loaded[3]
      BY <1>1, <2>3, <2>5
    <2>7. \A i \in 1..3 : bytes[i] \in 0..255 /\ bytes[i] \in 0..99
      <3> TAKE i \in 1..3
      <3>1. i = 1 \/ i = 2 \/ i = 3
        OBVIOUS
      <3>2. \A n \in 0..99 : n \in 0..255
        OBVIOUS
      <3>3. bytes[i] \in 0..99
        BY <2>4, <3>1
      <3> QED
        BY <3>2, <3>3
    <2>8. \A i \in 0..6 : i < 3 => read_register(task.type, now)[i] = to_bcd(bytes[i + 1])
      <3>1. /\ read_register(task.type, now)[0] = to_bcd(bytes[1])
            /\ read_register(task.type, now)[1] = to_bcd(bytes[2])
            /\ read_register(task.type, now)[2] = to_bcd(bytes[3])
        BY <2>5, <2>6, Zenon
      <3> TAKE i \in 0..6
      <3> HAVE i < 3
      <3>2. (i = 0 /\ i + 1 = 1) \/ (i = 1 /\ i + 1 = 2) \/ (i = 2 /\ i + 1 = 3)
        OBVIOUS
      <3> QED
        BY <3>1, <3>2, Zenon
    <2>9. /\ Served(now) \in [control : 0..255, interrupts : Nat, bytes : Seq(0..255)]
          /\ Served(now).control = control_ /\ Served(now).interrupts = interrupts
          /\ Served(now).bytes = bytes
      BY <1>1, <2>2, <2>4, BytesNoted
    <2> QED
      BY <1>8, <2>1, <2>4, <2>6, <2>7, <2>8, <2>9
  <1>9. CASE task.type = "date_time"
    <2> DEFINE bytes == [now EXCEPT ![5] = hour]
               loaded == <<to_bcd(now[1]), to_bcd(now[2]), to_bcd(now[3]), to_bcd(now[4])>> \o get_time(now)
    <2>1. Answers = 7
      BY <1>9 DEF Answers, parameter_bytes
    <2>2. Served(now) = [expected EXCEPT !.bytes = bytes]
      BY <1>1, <1>2, <1>9 DEF Served, hour
    <2>3. read_register(task.type, now)
            = [i \in 0..6 |-> IF i < Len(loaded) THEN loaded[i + 1] ELSE internal_regs_[i]]
      BY <1>9 DEF read_register
    <2>4. /\ bytes \in [1..7 -> 0..99] /\ bytes[7] < 80
          /\ bytes[5] = hour /\ \A i \in 1..7 : i # 5 => bytes[i] = now[i]
      BY <1>3, <1>4
    <2>5. /\ Len(loaded) = 7
          /\ loaded[1] = to_bcd(now[1]) /\ loaded[2] = to_bcd(now[2]) /\ loaded[3] = to_bcd(now[3])
          /\ loaded[4] = to_bcd(now[4]) /\ loaded[5] = to_bcd(hour) /\ loaded[6] = to_bcd(now[6])
          /\ loaded[7] = to_bcd(now[7])
      BY <1>5
    <2> HIDE DEF bytes, loaded
    <2>6. \A i \in 1..7 : loaded[i] = to_bcd(bytes[i]) /\ loaded[i] \in 0..255
      <3> TAKE i \in 1..7
      <3>1. loaded[i] = to_bcd(bytes[i])
        <4>1. i = 1 \/ i = 2 \/ i = 3 \/ i = 4 \/ i = 5 \/ i = 6 \/ i = 7
          OBVIOUS
        <4> QED
          BY <2>4, <2>5, <4>1
      <3>2. bytes[i] \in 0..99
        BY <2>4
      <3> QED
        BY <1>6, <3>1, <3>2, SMTT(40)
    <2>7. /\ read_register(task.type, now) \in [0..6 -> 0..255]
          /\ \A i \in 0..6 : read_register(task.type, now)[i] = to_bcd(bytes[i + 1])
      <3>1. \A i \in 0..6 : i < Len(loaded) /\ i + 1 \in 1..7
        BY <2>5
      <3>2. \A i \in 0..6 : read_register(task.type, now)[i] = loaded[i + 1]
        BY <2>3, <3>1
      <3>3. read_register(task.type, now) = [i \in 0..6 |-> loaded[i + 1]]
        BY <2>3, <3>1
      <3> QED
        BY <2>6, <3>1, <3>2, <3>3
    <2>8. bytes \in Seq(0..255) /\ DOMAIN bytes = 1..7 /\ \A i \in 1..7 : bytes[i] \in 0..255
      <3>1. \A n \in 0..99 : n \in 0..255
        OBVIOUS
      <3>2. \A i \in 1..7 : bytes[i] \in 0..255
        BY <2>4, <3>1
      <3>3. bytes \in [1..7 -> 0..255] /\ 7 \in Nat
        BY <2>4, <3>2
      <3>4. bytes \in Seq(0..255)
        BY <3>3, SeqDef, ZenonT(40)
      <3> QED
        BY <3>2, <3>3, <3>4
    <2>9. /\ Served(now) \in [control : 0..255, interrupts : Nat, bytes : Seq(0..255)]
          /\ Served(now).control = control_ /\ Served(now).interrupts = interrupts
          /\ Served(now).bytes = bytes
      BY <1>1, <2>2, <2>8, BytesNoted, ZenonT(40)
    <2>10. \A i \in 0..6 : i < 7 => read_register(task.type, now)[i] = to_bcd(bytes[i + 1])
      BY <2>7
    <2> QED
      BY <1>9, <2>1, <2>4, <2>7, <2>8, <2>9, <2>10
  <1> QED
    BY <1>2, <1>7, <1>8, <1>9

(* The fields of the clock that a bit of no last place leaves. *)
LEMMA StillTyped ==
    ASSUME RtcTyped, ports_' \in [Pins -> {0, 1}], serial' \in Serials, outgoing' \in Seq({0, 1}),
           UNCHANGED <<internal_regs_, control_, interrupts, task, incoming, expected>>
    PROVE  RtcTyped'
  BY DEF RtcTyped

(* No byte passes for a command in the other order: a place in a byte is below 8. *)
LEMMA NeverReversed ==
    ASSUME NEW s \in Serials
    PROVE  ~IsReversed(s)
  <1>1. s.bit \in 0..7
    BY DEF Serials
  <1> QED
    BY <1>1 DEF IsReversed

(* A bit of the byte of a command, but for the last, is taken. *)
LEMMA CommandBit ==
    ASSUME RtcInv, NEW now \in Times, HighSend(now), CommandGoes, serial.bit # 7
    PROVE  RtcInv'
  <1>1. PICK byte \in 0..255, k \in 0..6 :
           k = serial.bit /\ Means(byte) /\ Streams(byte, k) /\ Has(byte)
    <2>1. serial.bit \in 0..6
      BY DEF RtcInv, RtcTyped, Serials
    <2> QED
      BY <2>1, Zenon DEF CommandGoes
  <1>2. /\ phase = "high" /\ outgoing # <<>>
        /\ directions_' = Pins /\ incoming = <<>>
        /\ ports_' \in [Pins -> {0, 1}] /\ ports_'["cs"] = 1
        /\ sio_receive_cmd(serial, outgoing[1], now)
        /\ UNCHANGED <<task, incoming>> /\ outgoing' = Tail(outgoing)
        /\ phase' = IF Len(outgoing) > 1 THEN "low" ELSE IF Answered THEN "turn" ELSE "idle"
        /\ expected' = IF Len(outgoing) > 1 THEN expected ELSE Served(now)
    <2>1. serial.state = "command"
      BY DEF CommandGoes
    <2>2. serial.state = "command" => sio_receive_cmd(serial, outgoing[1], now)
      BY BitDriven
    <2>3. directions_' = Pins /\ incoming = <<>>
      BY BitDriven
    <2>4. ports_' \in [Pins -> {0, 1}] /\ ports_'["cs"] = 1
      BY BitDriven
    <2>5. /\ phase = "high" /\ outgoing # <<>>
          /\ UNCHANGED <<task, incoming>> /\ outgoing' = Tail(outgoing)
          /\ phase' = IF Len(outgoing) > 1 THEN "low" ELSE IF Answered THEN "turn" ELSE "idle"
          /\ expected' = IF Len(outgoing) > 1 THEN expected ELSE Served(now)
      BY DEF HighSend
    <2> QED
      BY <2>1, <2>2, <2>3, <2>4, <2>5, Zenon
  <1>3. /\ outgoing' \in Seq({0, 1}) /\ Len(outgoing) \in Nat \ {0}
        /\ Len(outgoing') = Len(outgoing) - 1
        /\ \A i \in 1..(Len(outgoing) - 1) : outgoing'[i] = outgoing[i + 1]
        /\ outgoing[1] \in {0, 1}
    BY <1>2, OutgoingNext DEF RtcInv, RtcTyped
  <1>4. Sends \in Nat
    BY Parameters7 DEF Sends
  <1> DEFINE length == Len(outgoing)
  <1>5. /\ length = 8 - k + 8 * Sends /\ Leaves(byte, k)
        /\ task.type = "control" /\ ~task.read =>
             \A i \in 1..8 : outgoing[8 - k + i] = BitOf(task.parameter, i - 1)
    BY <1>1 DEF Streams
  <1>6. length \in Nat /\ length > 1 /\ outgoing[1] = BitOf(byte, k)
    <2>1. 1 \in 1..(8 - k) /\ k + 1 - 1 = k
      OBVIOUS
    <2>2. outgoing[1] = BitOf(byte, k + 1 - 1)
      BY <1>5, <2>1 DEF Leaves
    <2> HIDE DEF length
    <2> QED
      BY <1>4, <1>5, <2>1, <2>2
  <1> DEFINE s == read_sio(serial, outgoing[1])
  <1>7. serial \in Serials
    BY DEF RtcInv, RtcTyped
  <1>8. /\ s \in Serials /\ s.bit = (serial.bit + 1) % 8 /\ s.state = serial.state
        /\ \A i \in 0..7 : i <= serial.bit => BitOf(s.buffer, i) = BitOf(byte, i)
    <2>1. PICK bit \in {0, 1} : bit = outgoing[1]
      BY <1>3
    <2>2. bit = BitOf(byte, serial.bit)
      BY <1>1, <1>6, <2>1
    <2>3. /\ read_sio(serial, bit) \in Serials
          /\ read_sio(serial, bit).bit = (serial.bit + 1) % 8
          /\ read_sio(serial, bit).state = serial.state
          /\ \A i \in 0..7 : i <= serial.bit => BitOf(read_sio(serial, bit).buffer, i) = BitOf(byte, i)
      BY <1>1, <1>7, <2>2, BitTaken
    <2> QED
      BY <2>1, <2>3
  <1> HIDE DEF s
  <1>9. s.bit = k + 1 /\ s.bit # 0 /\ k + 1 \in 0..7
    BY <1>1, <1>8
  <1>10. serial' = s /\ UNCHANGED <<internal_regs_, control_, interrupts>>
    <2>1. ~IsReversed(s)
      BY <1>8, NeverReversed
    <2> QED
      BY <1>2, <1>9, <2>1 DEF sio_receive_cmd, WritesNothing, s
  <1>11. phase' = "low" /\ expected' = expected
    BY <1>2, <1>6
  <1>12. Means(byte)' /\ Sends' = Sends
    BY <1>1, <1>2 DEF Means, Sends
  <1>13. Streams(byte, k + 1)'
    <2> HIDE DEF length
    <2>1. Len(outgoing') = 8 - (k + 1) + 8 * Sends'
      BY <1>3, <1>4, <1>5, <1>6, <1>12 DEF length
    <2>2. ASSUME NEW i \in 1..(8 - (k + 1)) PROVE outgoing'[i] = BitOf(byte, (k + 1) + i - 1)
      <3>1. i \in 1..(length - 1) /\ i + 1 \in 1..(8 - k) /\ k + (i + 1) - 1 = (k + 1) + i - 1
        BY <1>4, <1>5
      <3>2. outgoing[i + 1] = BitOf(byte, k + (i + 1) - 1)
        BY <1>5, <3>1, Zenon DEF Leaves
      <3> QED
        BY <1>3, <3>1, <3>2 DEF length
    <2>3. ASSUME task.type = "control", ~task.read, NEW i \in 1..8
          PROVE outgoing'[8 - (k + 1) + i] = BitOf(task.parameter, i - 1)
      <3>1. Sends = 1
        BY <2>3, Parameters7 DEF Sends
      <3>2. 8 - (k + 1) + i \in 1..(length - 1) /\ (8 - (k + 1) + i) + 1 = 8 - k + i
        BY <1>5, <3>1
      <3>3. outgoing'[8 - (k + 1) + i] = outgoing[(8 - (k + 1) + i) + 1]
        BY <1>3, <3>2 DEF length
      <3> QED
        BY <1>5, <2>3, <3>2, <3>3
    <2>4. Leaves(byte, k + 1)'
      BY <2>2 DEF Leaves
    <2>5. task' = task
      BY <1>2
    <2> QED
      BY <2>1, <2>3, <2>4, <2>5 DEF Streams
  <1>14. Has(byte)'
    <2> SUFFICES ASSUME NEW i \in 0..7, i < serial'.bit
                 PROVE  BitOf(serial'.buffer, i) = BitOf(byte, i)
      BY DEF Has
    <2>1. i <= serial.bit
      BY <1>1, <1>9, <1>10
    <2> QED
      BY <1>8, <1>10, <2>1
  <1>15. Sending'
    <2>1. outgoing' # <<>>
      <3> HIDE DEF length
      <3>1. Len(outgoing') # 0
        BY <1>3, <1>6 DEF length
      <3> QED
        BY <3>1
    <2> QED
      BY <1>2, <1>11, <2>1 DEF Sending, Clocked
  <1>16. CommandGoes'
    <2>1. serial'.state = "command" /\ serial'.bit = k + 1
      BY <1>8, <1>9, <1>10 DEF CommandGoes
    <2> QED
      BY <1>12, <1>13, <1>14, <1>15, <2>1 DEF CommandGoes
  <1>17. RtcTyped'
    BY <1>2, <1>3, <1>8, <1>10, <1>11, StillTyped DEF RtcInv
  <1> QED
    BY <1>16, <1>17 DEF RtcInv

(* A bit of a parameter, but for the last, is taken. *)
LEMMA ParameterBit ==
    ASSUME RtcInv, NEW now \in Times, HighSend(now), ParametersGo, serial.bit # 7
    PROVE  RtcInv'
  <1>1. PICK k \in 0..6, j \in 0..7 : k = serial.bit /\ j = serial.byte
    BY DEF RtcInv, RtcTyped, Serials
  <1>2. /\ phase = "high" /\ outgoing # <<>>
        /\ directions_' = Pins /\ incoming = <<>>
        /\ ports_' \in [Pins -> {0, 1}] /\ ports_'["cs"] = 1
        /\ sio_receive_buffer(serial, outgoing[1])
        /\ UNCHANGED <<task, incoming>> /\ outgoing' = Tail(outgoing)
        /\ phase' = IF Len(outgoing) > 1 THEN "low" ELSE IF Answered THEN "turn" ELSE "idle"
        /\ expected' = IF Len(outgoing) > 1 THEN expected ELSE Served(now)
    <2>1. serial.state = "receiving"
      BY DEF ParametersGo
    <2>2. serial.state = "receiving" => sio_receive_buffer(serial, outgoing[1])
      BY BitDriven
    <2>3. directions_' = Pins /\ incoming = <<>>
      BY BitDriven
    <2>4. ports_' \in [Pins -> {0, 1}] /\ ports_'["cs"] = 1
      BY BitDriven
    <2>5. /\ phase = "high" /\ outgoing # <<>>
          /\ UNCHANGED <<task, incoming>> /\ outgoing' = Tail(outgoing)
          /\ phase' = IF Len(outgoing) > 1 THEN "low" ELSE IF Answered THEN "turn" ELSE "idle"
          /\ expected' = IF Len(outgoing) > 1 THEN expected ELSE Served(now)
      BY DEF HighSend
    <2> QED
      BY <2>1, <2>2, <2>3, <2>4, <2>5, Zenon
  <1>3. /\ outgoing' \in Seq({0, 1}) /\ Len(outgoing) \in Nat \ {0}
        /\ Len(outgoing') = Len(outgoing) - 1
        /\ \A i \in 1..(Len(outgoing) - 1) : outgoing'[i] = outgoing[i + 1]
        /\ outgoing[1] \in {0, 1}
    BY <1>2, OutgoingNext DEF RtcInv, RtcTyped
  <1>4. Sends \in Nat
    BY Parameters7 DEF Sends
  <1> DEFINE length == Len(outgoing)
  <1>5. /\ length = 8 * (Sends - j) - k /\ j < Sends
        /\ task.type = "control" => Has(task.parameter) /\ Leaves(task.parameter, k)
        /\ serial.type = task.type /\ serial.state = "receiving"
    BY <1>1 DEF ParametersGo
  <1>6. length \in Nat /\ length > 1
    <2> HIDE DEF length
    <2> QED
      BY <1>4, <1>5
  <1> DEFINE s == read_sio(serial, outgoing[1])
  <1>7. serial \in Serials /\ task.parameter \in 0..255
    BY DEF RtcInv, RtcTyped
  <1>8. PICK bit \in {0, 1} : bit = outgoing[1]
    BY <1>3
  <1>9. /\ s \in Serials /\ s.bit = k + 1 /\ s.state = "receiving" /\ s.type = task.type /\ s.byte = j
        /\ s.buffer = WithBit(serial.buffer, k, bit)
    <2>1. PICK n \in 0..255 : n = WithBit(serial.buffer, k, bit)
      <3>1. k \in 0..7 /\ serial.buffer \in 0..255
        BY <1>7 DEF Serials
      <3>2. \A n \in 0..255 : WithBit(n, k, bit) \in 0..255
        BY <3>1, WithBitIs
      <3> QED
        BY <3>1, <3>2, Zenon
    <2>2. PICK next \in 0..7 : next = k + 1 /\ (k + 1) % 8 = next
      OBVIOUS
    <2>3. s = [serial EXCEPT !.buffer = n, !.bit = next]
      BY <1>1, <1>8, <2>1, <2>2 DEF read_sio
    <2> HIDE DEF s
    <2>4. s = [state |-> serial.state, type |-> serial.type, read |-> serial.read,
               byte |-> serial.byte, bit |-> next, buffer |-> n]
      BY <1>7, <2>3 DEF Serials
    <2> QED
      BY <1>1, <1>5, <1>7, <2>1, <2>2, <2>4 DEF Serials
  <1> HIDE DEF s
  <1>10. serial' = s /\ UNCHANGED <<internal_regs_, control_, interrupts>>
    BY <1>2, <1>9 DEF sio_receive_buffer, WritesNothing, s
  <1>11. phase' = "low" /\ expected' = expected
    BY <1>2, <1>6
  <1>12. Sends' = Sends
    BY <1>2 DEF Sends
  <1>13. ASSUME task.type = "control"
         PROVE  Has(task.parameter)' /\ Leaves(task.parameter, k + 1)'
    <2>1. task' = task /\ serial' = s
      BY <1>2, <1>10
    <2>2. outgoing[1] = BitOf(task.parameter, k)
      <3>1. 1 \in 1..(8 - k) /\ k + 1 - 1 = k
        OBVIOUS
      <3>2. outgoing[1] = BitOf(task.parameter, k + 1 - 1)
        BY <1>5, <1>13, <3>1 DEF Leaves
      <3> QED
        BY <3>1, <3>2
    <2>3. ASSUME NEW i \in 0..7, i < s.bit PROVE BitOf(s.buffer, i) = BitOf(task.parameter, i)
      <3>1. i <= serial.bit
        BY <1>1, <1>9, <2>3
      <3>2. bit = BitOf(task.parameter, serial.bit)
        BY <1>1, <1>8, <2>2
      <3>3. \A m \in 0..7 : m <= serial.bit =>
               BitOf(read_sio(serial, bit).buffer, m) = BitOf(task.parameter, m)
        BY <1>5, <1>7, <1>13, <3>2, BitTaken
      <3> QED
        BY <1>8, <3>1, <3>3 DEF s
    <2>4. Has(task.parameter)'
      BY <2>1, <2>3 DEF Has
    <2>5. ASSUME NEW i \in 1..(8 - (k + 1))
          PROVE  outgoing'[i] = BitOf(task.parameter, (k + 1) + i - 1)
      <3> HIDE DEF length
      <3>1. i \in 1..(length - 1) /\ i + 1 \in 1..(8 - k) /\ k + (i + 1) - 1 = (k + 1) + i - 1
        <4>1. Sends = 1
          BY <1>4, <1>5, <1>13, Parameters7 DEF Sends
        <4> QED
          BY <1>4, <1>5, <4>1
      <3>2. outgoing[i + 1] = BitOf(task.parameter, k + (i + 1) - 1)
        BY <1>5, <1>13, <3>1, Zenon DEF Leaves
      <3> QED
        BY <1>3, <3>1, <3>2 DEF length
    <2>6. Leaves(task.parameter, k + 1)'
      BY <2>1, <2>5 DEF Leaves
    <2> QED
      BY <2>4, <2>6
  <1>14. Sending'
    <2>1. outgoing' # <<>>
      <3> HIDE DEF length
      <3>1. Len(outgoing') # 0
        BY <1>3, <1>6 DEF length
      <3> QED
        BY <3>1
    <2> QED
      BY <1>2, <1>11, <2>1 DEF Sending, Clocked
  <1>15. ParametersGo'
    <2>1. /\ serial'.state = "receiving" /\ serial'.type = task'.type /\ serial'.byte = j
          /\ serial'.bit = k + 1 /\ task' = task
      BY <1>2, <1>9, <1>10
    <2>2. Len(outgoing') = 8 * (Sends' - j) - (k + 1)
      <3> HIDE DEF length
      <3> QED
        BY <1>3, <1>4, <1>5, <1>6, <1>12 DEF length
    <2> QED
      BY <1>5, <1>12, <1>13, <1>14, <2>1, <2>2 DEF ParametersGo
  <1>16. RtcTyped'
    BY <1>2, <1>3, <1>9, <1>10, <1>11, StillTyped DEF RtcInv
  <1> QED
    BY <1>15, <1>16 DEF RtcInv

(* The last bit of the byte of a command: the clock has the byte. *)
LEMMA CommandTaken ==
    ASSUME RtcInv, NEW now \in Times, HighSend(now), CommandGoes, serial.bit = 7
    PROVE  \E byte \in 0..255, s \in Serials :
             /\ Means(byte) /\ sio_receive_cmd(serial, outgoing[1], now)
             /\ s = read_sio(serial, outgoing[1])
             /\ s.state = "command" /\ s.bit = 0 /\ s.buffer = byte
             /\ outgoing \in Seq({0, 1}) /\ Len(outgoing) = 1 + 8 * Sends
             /\ task.type = "control" /\ ~task.read =>
                  \A i \in 1..8 : outgoing[1 + i] = BitOf(task.parameter, i - 1)
  <1>1. PICK byte \in 0..255 : Means(byte) /\ Streams(byte, 7) /\ Has(byte)
    BY Zenon DEF CommandGoes
  <1>2. outgoing # <<>> /\ serial.state = "command"
    BY DEF HighSend, CommandGoes
  <1>3. serial.state = "command" => sio_receive_cmd(serial, outgoing[1], now)
    BY BitDriven
  <1>4. outgoing \in Seq({0, 1}) /\ outgoing[1] \in {0, 1} /\ serial \in Serials
    BY <1>2, HeadTailProperties DEF RtcInv, RtcTyped
  <1>5. /\ Len(outgoing) = 8 - 7 + 8 * Sends /\ Leaves(byte, 7)
        /\ task.type = "control" /\ ~task.read =>
             \A i \in 1..8 : outgoing[8 - 7 + i] = BitOf(task.parameter, i - 1)
    BY <1>1 DEF Streams
  <1>6. outgoing[1] = BitOf(byte, 7)
    <2>1. 1 \in 1..(8 - 7) /\ 7 + 1 - 1 = 7
      OBVIOUS
    <2>2. outgoing[1] = BitOf(byte, 7 + 1 - 1)
      BY <1>5, <2>1 DEF Leaves
    <2> QED
      BY <2>1, <2>2
  <1>7. PICK bit \in {0, 1} : bit = outgoing[1]
    BY <1>4
  <1>8. bit = BitOf(byte, serial.bit)
    BY <1>6, <1>7
  <1>9. /\ read_sio(serial, bit) \in Serials
        /\ read_sio(serial, bit).bit = (serial.bit + 1) % 8
        /\ read_sio(serial, bit).state = serial.state
        /\ serial.bit = 7 => read_sio(serial, bit).buffer = byte
    BY <1>1, <1>4, <1>8, BitTaken
  <1>10. (7 + 1) % 8 = 0 /\ 8 - 7 = 1
    OBVIOUS
  <1>11. Len(outgoing) = 1 + 8 * Sends
    BY <1>5
  <1>12. task.type = "control" /\ ~task.read =>
           \A i \in 1..8 : outgoing[1 + i] = BitOf(task.parameter, i - 1)
    BY <1>5, <1>10
  <1> QED
    BY <1>1, <1>2, <1>3, <1>4, <1>7, <1>9, <1>10, <1>11, <1>12

(* What the command that the clock has got makes of it. *)
LEMMA CommandObeyed ==
    ASSUME NEW byte \in 0..255, NEW s \in Serials, NEW bit, NEW now,
           s = read_sio(serial, bit), s.state = "command", s.bit = 0, s.buffer = byte,
           sio_receive_cmd(serial, bit, now), internal_regs_ \in [0..6 -> 0..255]
    PROVE  /\ byte % 16 # 6 => serial' = s /\ UNCHANGED <<internal_regs_, control_, interrupts>>
           /\ byte % 16 = 6 =>
                LET type == CommandOf[(byte \div 16) % 8]
                    reads == BitOf(byte, 7) = 1 IN
                /\ internal_regs_' = IF reads THEN read_register(type, now) ELSE internal_regs_
                /\ reads \/ parameter_bytes(type) > 0 => UNCHANGED <<control_, interrupts>>
                /\ ~reads /\ parameter_bytes(type) = 0 =>
                     /\ control_' = CASE type = "reset" -> 0 [] type = "control" -> byte [] OTHER -> control_
                     /\ interrupts' = interrupts + (IF type = "force_irq" THEN 1 ELSE 0)
                /\ serial' \in Serials /\ serial'.type = type /\ serial'.byte = 0 /\ serial'.bit = 0
                /\ serial'.state = IF parameter_bytes(type) = 0 THEN "command"
                                   ELSE IF reads THEN "sending" ELSE "receiving"
  <1>0. ~IsReversed(s)
    BY NeverReversed
  <1>1. CASE byte % 16 # 6
    BY <1>0, <1>1 DEF sio_receive_cmd, WritesNothing
  <1>2. CASE byte % 16 = 6
    <2> DEFINE type == CommandOf[(byte \div 16) % 8]
               reads == BitOf(byte, 7) = 1
               status == IF parameter_bytes(type) = 0 THEN "command" ELSE IF reads THEN "sending" ELSE "receiving"
    <2>1. /\ internal_regs_' = IF reads THEN read_register(type, now) ELSE internal_regs_
          /\ IF reads \/ parameter_bytes(type) > 0 THEN WritesNothing ELSE write_register(type, s.buffer)
          /\ serial' = [s EXCEPT !.state = status, !.type = type, !.read = reads, !.byte = 0]
      BY <1>0, <1>2 DEF sio_receive_cmd
    <2>2. type \in Types
      <3>1. (byte \div 16) % 8 \in 0..7
        OBVIOUS
      <3> QED
        BY <3>1, Commands8
    <2>3. parameter_bytes(type) \in {0, 1, 3, 7}
      BY Parameters7
    <2>4. reads \in BOOLEAN /\ status \in {"command", "sending", "receiving"}
      OBVIOUS
    <2> HIDE DEF type, reads, status
    <2>5. /\ serial' \in Serials /\ serial'.type = type /\ serial'.byte = 0 /\ serial'.bit = 0
          /\ serial'.state = status
      <3>1. serial' = [state |-> status, type |-> type, read |-> reads, byte |-> 0, bit |-> 0,
                       buffer |-> s.buffer]
        BY <2>1, ZenonT(40) DEF Serials
      <3> QED
        BY <2>2, <2>4, <3>1 DEF Serials
    <2>6. reads \/ parameter_bytes(type) > 0 => UNCHANGED <<control_, interrupts>>
      BY <2>1, Zenon DEF WritesNothing
    <2>7. ASSUME ~reads, parameter_bytes(type) = 0
          PROVE  /\ control_' = CASE type = "reset" -> 0 [] type = "control" -> byte [] OTHER -> control_
                 /\ interrupts' = interrupts + (IF type = "force_irq" THEN 1 ELSE 0)
      <3>1. ~(parameter_bytes(type) > 0)
        BY <2>7
      <3>2. write_register(type, s.buffer)
        BY <2>1, <2>7, <3>1, Zenon
      <3> QED
        BY <3>2, Zenon DEF write_register
    <2>8. internal_regs_' = IF reads THEN read_register(type, now) ELSE internal_regs_
      BY <2>1
    <2>9. serial'.state = IF parameter_bytes(type) = 0 THEN "command"
                          ELSE IF reads THEN "sending" ELSE "receiving"
      BY <2>5 DEF status
    <2> QED
      BY <1>2, <2>5, <2>6, <2>7, <2>8, <2>9, Zenon DEF type, reads
  <1> QED
    BY <1>1, <1>2, Zenon

(* A request without an answer is over when the clock has done what it says. *)
LEMMA Rests ==
    ASSUME RtcTyped, NEW now, ~Answered, phase' = "idle", expected' = Served(now),
           ports_' \in [Pins -> {0, 1}], internal_regs_' \in [0..6 -> 0..255], serial' \in Serials,
           task.type # "none" => serial'.state = "command" /\ serial'.bit = 0,
           control_' = Served(now).control, interrupts' = Served(now).interrupts,
           UNCHANGED <<task, incoming>>, outgoing' \in Seq({0, 1})
    PROVE  RtcInv'
  <1>1. /\ Served(now) \in [control : 0..255, interrupts : Nat, bytes : Seq(0..255)]
    BY ServedIs
  <1>2. Served(now).control \in 0..255 /\ Served(now).interrupts \in Nat
    BY <1>1
  <1>3. RtcTyped'
    BY <1>1, <1>2 DEF RtcTyped
  <1>4. ~Answered'
    BY DEF Answered
  <1>5. AtIdle'
    BY <1>4 DEF AtIdle
  <1> QED
    BY <1>3, <1>5 DEF RtcInv

(* The last bit of the byte of a command. *)
LEMMA CommandLast ==
    ASSUME SecondsFit, RtcInv, NEW now \in Times, HighSend(now), CommandGoes, serial.bit = 7
    PROVE  RtcInv'
  <1>1. PICK byte \in 0..255, s \in Serials :
             /\ Means(byte) /\ sio_receive_cmd(serial, outgoing[1], now)
             /\ s = read_sio(serial, outgoing[1])
             /\ s.state = "command" /\ s.bit = 0 /\ s.buffer = byte
             /\ outgoing \in Seq({0, 1}) /\ Len(outgoing) = 1 + 8 * Sends
             /\ task.type = "control" /\ ~task.read =>
                  \A i \in 1..8 : outgoing[1 + i] = BitOf(task.parameter, i - 1)
    BY CommandTaken
  <1>2. directions_' = Pins /\ incoming = <<>>
    BY BitDriven
  <1>3. ports_' \in [Pins -> {0, 1}] /\ ports_'["cs"] = 1
    BY BitDriven
  <1>4. /\ phase = "high" /\ outgoing # <<>>
        /\ UNCHANGED <<task, incoming>> /\ outgoing' = Tail(outgoing)
        /\ phase' = IF Len(outgoing) > 1 THEN "low" ELSE IF Answered THEN "turn" ELSE "idle"
        /\ expected' = IF Len(outgoing) > 1 THEN expected ELSE Served(now)
    BY DEF HighSend
  <1>5. /\ outgoing' \in Seq({0, 1})
        /\ Len(outgoing') = Len(outgoing) - 1
        /\ \A i \in 1..(Len(outgoing) - 1) : outgoing'[i] = outgoing[i + 1]
    BY <1>1, <1>4, OutgoingNext
  <1>6. RtcTyped /\ internal_regs_ \in [0..6 -> 0..255]
    BY DEF RtcInv, RtcTyped
  <1>7. Sends \in Nat
    BY Parameters7 DEF Sends
  <1>8. Sends = 0 => /\ phase' = (IF Answered THEN "turn" ELSE "idle") /\ expected' = Served(now)
                     /\ outgoing' = <<>>
    <2> SUFFICES ASSUME Sends = 0
                 PROVE  /\ phase' = (IF Answered THEN "turn" ELSE "idle") /\ expected' = Served(now)
                        /\ outgoing' = <<>>
      OBVIOUS
    <2>1. ~(Len(outgoing) > 1) /\ Len(outgoing') = 0
      BY <1>1, <1>5
    <2>2. outgoing' = <<>>
      BY <1>5, <2>1
    <2> QED
      BY <1>4, <2>1, <2>2, Zenon
  <1> DEFINE type == CommandOf[(byte \div 16) % 8]
             reads == BitOf(byte, 7) = 1
  <1>9. byte % 16 # 6 => serial' = s /\ UNCHANGED <<internal_regs_, control_, interrupts>>
    BY <1>1, <1>6, CommandObeyed
  <1>10. byte % 16 = 6 =>
           /\ internal_regs_' = IF reads THEN read_register(type, now) ELSE internal_regs_
           /\ reads \/ parameter_bytes(type) > 0 => UNCHANGED <<control_, interrupts>>
           /\ ~reads /\ parameter_bytes(type) = 0 =>
                /\ control_' = CASE type = "reset" -> 0 [] type = "control" -> byte [] OTHER -> control_
                /\ interrupts' = interrupts + (IF type = "force_irq" THEN 1 ELSE 0)
           /\ serial' \in Serials /\ serial'.type = type /\ serial'.byte = 0 /\ serial'.bit = 0
           /\ serial'.state = IF parameter_bytes(type) = 0 THEN "command"
                              ELSE IF reads THEN "sending" ELSE "receiving"
    BY <1>1, <1>6, CommandObeyed
  <1>11. CASE task.type = "none"
    <2>1. ~Answered /\ Sends = 0
      BY <1>11 DEF Answered, Sends, parameter_bytes
    <2>2. /\ serial' \in Serials /\ UNCHANGED <<internal_regs_, control_, interrupts>>
      BY <1>1, <1>9, <1>11 DEF Means
    <2>3. phase' = "idle" /\ expected' = Served(now)
      BY <1>8, <2>1
    <2>4. control_' = Served(now).control /\ interrupts' = Served(now).interrupts
      BY <1>6, <1>11, <2>1, <2>2, ServedIs
    <2>5. internal_regs_' \in [0..6 -> 0..255]
      BY <1>6, <2>2
    <2> QED
      BY <1>3, <1>4, <1>5, <1>6, <1>11, <2>1, <2>2, <2>3, <2>4, <2>5, Rests
  <1>12. CASE task.type # "none"
    <2>1. byte % 16 = 6 /\ type = task.type /\ reads = task.read
      BY <1>1, <1>12 DEF Means
    <2>2. /\ internal_regs_' = IF task.read THEN read_register(task.type, now) ELSE internal_regs_
          /\ task.read \/ parameter_bytes(task.type) > 0 => UNCHANGED <<control_, interrupts>>
          /\ ~task.read /\ parameter_bytes(task.type) = 0 =>
               /\ control_' = CASE task.type = "reset" -> 0 [] task.type = "control" -> byte
                                [] OTHER -> control_
               /\ interrupts' = interrupts + (IF task.type = "force_irq" THEN 1 ELSE 0)
          /\ serial' \in Serials /\ serial'.type = task.type /\ serial'.byte = 0 /\ serial'.bit = 0
          /\ serial'.state = IF parameter_bytes(task.type) = 0 THEN "command"
                             ELSE IF task.read THEN "sending" ELSE "receiving"
      BY <1>10, <2>1, Zenon
    <2> HIDE DEF type, reads
    <2>3. parameter_bytes(task.type) \in {0, 1, 3, 7}
      BY Parameters7
    <2>4. CASE Answered
      <3>1. task.read /\ parameter_bytes(task.type) > 0 /\ Sends = 0
        BY <2>4 DEF Answered, Sends
      <3>2. /\ Served(now) \in [control : 0..255, interrupts : Nat, bytes : Seq(0..255)]
            /\ Served(now).control = control_ /\ Served(now).interrupts = interrupts
            /\ DOMAIN Served(now).bytes = 1..Answers
            /\ \A i \in 1..Answers : Served(now).bytes[i] \in 0..255
                 /\ (task.type # "control" => Served(now).bytes[i] \in 0..99)
            /\ task.type # "control" => Served(now).bytes[Answers] < 80
            /\ read_register(task.type, now) \in [0..6 -> 0..255]
            /\ \A i \in 0..6 : i < Answers => read_register(task.type, now)[i] =
                 IF task.type = "control" THEN Served(now).bytes[i + 1] ELSE to_bcd(Served(now).bytes[i + 1])
        BY <1>6, <2>4, AnswerLoaded, Zenon
      <3>3. expected' = Served(now) /\ phase' = "turn" /\ outgoing' = <<>>
        BY <1>8, <2>4, <3>1
      <3>4. internal_regs_' = read_register(task.type, now) /\ UNCHANGED <<control_, interrupts>>
        BY <2>2, <3>1
      <3>5. /\ serial' \in Serials /\ serial'.type = task.type /\ serial'.byte = 0 /\ serial'.bit = 0
            /\ serial'.state = "sending"
        BY <2>2, <3>1
      <3>6. Answers' = Answers /\ Answers > 0 /\ task' = task /\ incoming' = <<>>
        BY <1>2, <1>4, <3>1 DEF Answers
      <3>12. \A i \in 1..Answers : Served(now).bytes[i] \in 0..255
               /\ (task.type # "control" => Served(now).bytes[i] \in 0..99)
        BY <3>2, Zenon
      <3>7. Right'
        <4>1. \A i \in 0..6, bit \in 0..7 : ~(i < Answers /\ 8 * i + bit + 1 <= Len(<<>>))
          OBVIOUS
        <4>2. DOMAIN expected'.bytes = 1..Answers'
          BY <3>2, <3>3, <3>6, Zenon
        <4>3. \A i \in 1..Answers' : expected'.bytes[i] \in 0..255
                /\ (task'.type # "control" => expected'.bytes[i] \in 0..99)
          <5>1. ASSUME NEW i \in 1..Answers'
                PROVE  /\ expected'.bytes[i] \in 0..255
                       /\ task'.type # "control" => expected'.bytes[i] \in 0..99
            <6>1. i \in 1..Answers /\ expected'.bytes = Served(now).bytes /\ task'.type = task.type
              BY <3>3, <3>6, <5>1, Zenon
            <6>2. /\ Served(now).bytes[i] \in 0..255
                  /\ task.type # "control" => Served(now).bytes[i] \in 0..99
              BY <6>1, <3>12
            <6> QED
              BY <6>1, <6>2
          <5> QED
            BY <5>1, Zenon
        <4>4. task'.type # "control" => expected'.bytes[Answers'] < 80
          BY <3>2, <3>3, <3>6, Zenon
        <4>5. \A i \in 0..6, bit \in 0..7 : ~(i < Answers' /\ 8 * i + bit + 1 <= Len(incoming'))
          BY <3>6, <4>1, Zenon
        <4> QED
          BY <4>2, <4>3, <4>4, <4>5, Zenon DEF Right
      <3>8. \A i \in 0..6 : i < Answers => internal_regs_'[i] = Register(i)'
        BY <3>2, <3>3, <3>4, <3>6, Zenon DEF Register
      <3>9. Loaded'
        <4>1. internal_regs_'[0] \in 0..255 /\ 2^0 = 1
          <5>1. read_register(task.type, now) \in [0..6 -> 0..255]
            BY <3>2, Zenon
          <5>2. internal_regs_' \in [0..6 -> 0..255]
            BY <3>4, <5>1, Zenon
          <5> QED
            BY <5>2
        <4>2. internal_regs_'[0] = Register(0)'
          BY <3>6, <3>8
        <4>3. Register(0)' \div 2^0 = Register(0)'
          BY <4>1, <4>2
        <4>4. \A i \in 0..6 : 0 < i /\ i < Answers' => internal_regs_'[i] = Register(i)'
          BY <3>6, <3>8
        <4>5. internal_regs_'[serial'.byte] = Register(serial.byte)' \div 2^(serial'.bit)
          BY <3>5, <4>2, <4>3, Zenon
        <4> QED
          BY <3>5, <3>6, <4>4, <4>5 DEF Loaded
      <3>10. AnswerComes'
        <4>1. Answered'
          BY <1>4, <2>4 DEF Answered
        <4> QED
          BY <1>2, <1>3, <3>3, <3>5, <3>6, <3>7, <3>9, <4>1 DEF AnswerComes
      <3>11. RtcTyped'
        <4>1. UNCHANGED <<control_, interrupts, task>>
          BY <1>4, <3>4
        <4>2. expected' \in [control : 0..255, interrupts : Nat, bytes : Seq(0..255)]
                /\ expected'.control = control_' /\ expected'.interrupts = interrupts'
          BY <3>2, <3>3, <4>1
        <4>3. incoming' \in Seq({0, 1}) /\ internal_regs_' \in [0..6 -> 0..255]
          <5>1. read_register(task.type, now) \in [0..6 -> 0..255]
            BY <3>2, Zenon
          <5>2. internal_regs_' \in [0..6 -> 0..255]
            BY <3>4, <5>1, Zenon
          <5>3. <<>> \in Seq({0, 1})
            OBVIOUS
          <5> QED
            BY <3>6, <5>2, <5>3, Zenon
        <4> QED
          BY <1>3, <1>5, <1>6, <3>5, <4>1, <4>2, <4>3 DEF RtcTyped
      <3> QED
        BY <3>10, <3>11 DEF RtcInv
    <2>5. CASE ~task.read /\ parameter_bytes(task.type) > 0
      <3>1. Sends = parameter_bytes(task.type) /\ Sends > 0 /\ task' = task /\ Sends' = Sends
        BY <1>4, <2>5 DEF Sends
      <3>2. Len(outgoing) > 1 /\ Len(outgoing') = 8 * Sends
        BY <1>1, <1>5, <1>7, <3>1
      <3>3. phase' = "low" /\ expected' = expected
        BY <1>4, <3>2
      <3>4. UNCHANGED <<internal_regs_, control_, interrupts>>
        BY <2>2, <2>5
      <3>5. /\ serial' \in Serials /\ serial'.type = task.type /\ serial'.byte = 0 /\ serial'.bit = 0
            /\ serial'.state = "receiving"
        BY <2>2, <2>5
      <3>6. outgoing' # <<>>
        BY <1>7, <3>1, <3>2
      <3>7. ASSUME task.type = "control" PROVE Has(task.parameter)' /\ Leaves(task.parameter, 0)'
        <4>1. Has(task.parameter)'
          BY <3>5 DEF Has
        <4>2. Sends = 1
          BY <3>1, <3>7, Parameters7
        <4>3. ASSUME NEW i \in 1..(8 - 0) PROVE outgoing'[i] = BitOf(task.parameter, 0 + i - 1)
          <5>1. i \in 1..(Len(outgoing) - 1) /\ i \in 1..8 /\ i + 1 = 1 + i /\ 0 + i - 1 = i - 1
            BY <1>1, <4>2
          <5>2. outgoing'[i] = outgoing[i + 1]
            BY <1>5, <5>1
          <5>3. outgoing[1 + i] = BitOf(task.parameter, i - 1)
            BY <1>1, <2>5, <3>7, <5>1
          <5> QED
            BY <5>1, <5>2, <5>3
        <4>4. Leaves(task.parameter, 0)'
          BY <3>1, <4>3 DEF Leaves
        <4> QED
          BY <4>1, <4>4
      <3>8. Sending'
        BY <1>2, <1>3, <1>4, <3>3, <3>6 DEF Sending, Clocked
      <3>9. ParametersGo'
        <4>1. Len(outgoing') = 8 * (Sends' - serial'.byte) - serial'.bit
          BY <1>7, <3>1, <3>2, <3>5
        <4> QED
          BY <3>1, <3>5, <3>7, <3>8, <4>1 DEF ParametersGo
      <3>10. RtcTyped'
        BY <1>3, <1>4, <1>5, <1>6, <3>3, <3>4, <3>5, StillTyped
      <3> QED
        BY <3>9, <3>10 DEF RtcInv
    <2>6. CASE parameter_bytes(task.type) = 0
      <3>1. ~Answered /\ Sends = 0
        BY <2>6 DEF Answered, Sends
      <3>2. phase' = "idle" /\ expected' = Served(now)
        BY <1>8, <3>1
      <3>3. serial' \in Serials /\ serial'.bit = 0 /\ serial'.state = "command"
        BY <2>2, <2>6
      <3>4. task.type # "control"
        BY <2>6, Parameters7
      <3>5. /\ Served(now).control = IF task.read THEN control_
                ELSE CASE task.type = "control" -> task.parameter [] task.type = "reset" -> 0
                       [] OTHER -> control_
            /\ Served(now).interrupts = IF ~task.read /\ task.type = "force_irq"
                                        THEN interrupts + 1 ELSE interrupts
        BY <1>6, <3>1, ServedIs
      <3>6. interrupts \in Nat
        BY <1>6 DEF RtcTyped
      <3>7. control_' = Served(now).control /\ interrupts' = Served(now).interrupts
            /\ internal_regs_' \in [0..6 -> 0..255]
        <4>1. CASE task.read
          <5>1. task.type = "none" \/ ~(parameter_bytes(task.type) > 0)
            BY <2>6
          <5>2. internal_regs_' = read_register(task.type, now)
            BY <2>2, <4>1
          <5>3. read_register(task.type, now) = internal_regs_
            <6>1. task.type # "time" /\ task.type # "date_time"
              BY <2>6 DEF parameter_bytes
            <6> QED
              BY <3>4, <6>1 DEF read_register
          <5> QED
            BY <1>6, <2>2, <3>5, <4>1, <5>2, <5>3
        <4>2. CASE ~task.read
          <5>1. /\ control_' = CASE task.type = "reset" -> 0 [] task.type = "control" -> byte
                                [] OTHER -> control_
                /\ interrupts' = interrupts + (IF task.type = "force_irq" THEN 1 ELSE 0)
                /\ internal_regs_' = internal_regs_
            BY <2>2, <2>6, <4>2, Zenon
          <5>2. control_' = Served(now).control
            BY <3>4, <3>5, <4>2, <5>1
          <5>3. interrupts' = Served(now).interrupts
            BY <3>5, <3>6, <4>2, <5>1
          <5> QED
            BY <1>6, <5>1, <5>2, <5>3
        <4> QED
          BY <4>1, <4>2
      <3> QED
        BY <1>3, <1>4, <1>5, <1>6, <3>1, <3>2, <3>3, <3>7, Rests
    <2> QED
      BY <2>3, <2>4, <2>5, <2>6 DEF Answered
  <1> QED
    BY <1>11, <1>12

(* The last bit of a parameter: the clock has the byte. *)
LEMMA ParameterTaken ==
    ASSUME RtcInv, NEW now \in Times, HighSend(now), ParametersGo, serial.bit = 7
    PROVE  \E s \in Serials :
             /\ sio_receive_buffer(serial, outgoing[1]) /\ s = read_sio(serial, outgoing[1])
             /\ s.state = "receiving" /\ s.bit = 0 /\ s.type = task.type /\ s.byte = serial.byte
             /\ task.type = "control" => s.buffer = task.parameter
             /\ s.byte < Sends
             /\ outgoing \in Seq({0, 1}) /\ Len(outgoing) = 8 * (Sends - s.byte) - 7
  <1>1. /\ outgoing # <<>> /\ serial.state = "receiving" /\ serial.type = task.type /\ serial.byte < Sends
        /\ Len(outgoing) = 8 * (Sends - serial.byte) - 7
        /\ task.type = "control" => Has(task.parameter) /\ Leaves(task.parameter, 7)
    BY DEF HighSend, ParametersGo
  <1>2. serial.state = "receiving" => sio_receive_buffer(serial, outgoing[1])
    BY BitDriven
  <1>3. /\ outgoing \in Seq({0, 1}) /\ outgoing[1] \in {0, 1} /\ serial \in Serials
        /\ task.parameter \in 0..255
    BY <1>1, HeadTailProperties DEF RtcInv, RtcTyped
  <1>4. PICK bit \in {0, 1} : bit = outgoing[1]
    BY <1>3
  <1>5. PICK n \in 0..255 : n = WithBit(serial.buffer, 7, bit)
    <2>1. serial.buffer \in 0..255 /\ 7 \in 0..7
      BY <1>3 DEF Serials
    <2>2. \A n \in 0..255 : WithBit(n, 7, bit) \in 0..255
      BY <2>1, WithBitIs
    <2> QED
      BY <2>1, <2>2, Zenon
  <1> DEFINE s == read_sio(serial, bit)
  <1>6. s = [serial EXCEPT !.buffer = n, !.bit = 0]
    <2>1. (7 + 1) % 8 = 0
      OBVIOUS
    <2> QED
      BY <1>5, <2>1 DEF read_sio
  <1> HIDE DEF s
  <1>7. s = [state |-> serial.state, type |-> serial.type, read |-> serial.read,
             byte |-> serial.byte, bit |-> 0, buffer |-> n]
    BY <1>3, <1>6 DEF Serials
  <1>8. /\ s \in Serials /\ s.state = "receiving" /\ s.bit = 0 /\ s.type = task.type
        /\ s.byte = serial.byte
    BY <1>1, <1>3, <1>7 DEF Serials
  <1>9. task.type = "control" => s.buffer = task.parameter
    <2> SUFFICES ASSUME task.type = "control" PROVE s.buffer = task.parameter
      OBVIOUS
    <2>1. outgoing[1] = BitOf(task.parameter, 7)
      <3>1. 1 \in 1..(8 - 7) /\ 7 + 1 - 1 = 7
        OBVIOUS
      <3>2. outgoing[1] = BitOf(task.parameter, 7 + 1 - 1)
        BY <1>1, <3>1 DEF Leaves
      <3> QED
        BY <3>1, <3>2
    <2>2. bit = BitOf(task.parameter, serial.bit)
      BY <1>4, <2>1
    <2>3. serial.bit = 7 => read_sio(serial, bit).buffer = task.parameter
      BY <1>1, <1>3, <2>2, BitTaken
    <2> QED
      BY <2>3 DEF s
  <1> QED
    BY <1>1, <1>2, <1>3, <1>4, <1>8, <1>9 DEF s

(* The clock has a parameter: the next one comes, or the request is over. *)
LEMMA ParameterLast ==
    ASSUME RtcInv, NEW now \in Times, HighSend(now), ParametersGo, serial.bit = 7
    PROVE  RtcInv'
  <1>1. PICK s \in Serials :
             /\ sio_receive_buffer(serial, outgoing[1]) /\ s = read_sio(serial, outgoing[1])
             /\ s.state = "receiving" /\ s.bit = 0 /\ s.type = task.type /\ s.byte = serial.byte
             /\ task.type = "control" => s.buffer = task.parameter
             /\ s.byte < Sends
             /\ outgoing \in Seq({0, 1}) /\ Len(outgoing) = 8 * (Sends - s.byte) - 7
    BY ParameterTaken
  <1>2. directions_' = Pins /\ incoming = <<>>
    BY BitDriven
  <1>3. ports_' \in [Pins -> {0, 1}] /\ ports_'["cs"] = 1
    BY BitDriven
  <1>4. /\ phase = "high" /\ outgoing # <<>>
        /\ UNCHANGED <<task, incoming>> /\ outgoing' = Tail(outgoing)
        /\ phase' = IF Len(outgoing) > 1 THEN "low" ELSE IF Answered THEN "turn" ELSE "idle"
        /\ expected' = IF Len(outgoing) > 1 THEN expected ELSE Served(now)
    BY DEF HighSend
  <1>5. /\ outgoing' \in Seq({0, 1})
        /\ Len(outgoing') = Len(outgoing) - 1
    BY <1>1, <1>4, OutgoingNext
  <1>6. RtcTyped /\ internal_regs_ \in [0..6 -> 0..255] /\ s.buffer \in 0..255 /\ s.byte \in 0..7
    BY DEF RtcInv, RtcTyped, Serials
  <1>7. Sends \in {0, 1, 3, 7} /\ ~task.read /\ Sends = parameter_bytes(task.type) /\ Sends' = Sends
    <2>1. Sends \in {0, 1, 3, 7}
      BY Parameters7 DEF Sends
    <2>2. Sends > 0
      BY <1>1, <1>6, <2>1
    <2> QED
      BY <1>4, <2>1, <2>2 DEF Sends
  <1>8. PICK j \in 0..6 : j = s.byte /\ j < Sends
    BY <1>1, <1>6, <1>7
  <1>9. /\ internal_regs_' = [internal_regs_ EXCEPT ![s.byte] = s.buffer]
        /\ serial' = [s EXCEPT !.byte = @ + 1, !.state = IF ReceivesLast(s) THEN "command" ELSE @]
        /\ IF ReceivesLast(s) THEN write_register(s.type, s.buffer) ELSE WritesNothing
    BY <1>1 DEF sio_receive_buffer
  <1>10. ReceivesLast(s) <=> j + 1 = Sends
    BY <1>1, <1>7, <1>8 DEF ReceivesLast
  <1>11. internal_regs_' \in [0..6 -> 0..255]
    BY <1>6, <1>9
  <1>12. PICK status \in {"command", "receiving"} :
            status = (IF ReceivesLast(s) THEN "command" ELSE s.state)
            /\ (ReceivesLast(s) => status = "command") /\ (~ReceivesLast(s) => status = "receiving")
    BY <1>1
  <1>13. PICK next \in 1..7 : next = j + 1
    OBVIOUS
  <1>14. /\ serial' \in Serials /\ serial'.state = status /\ serial'.type = task.type
         /\ serial'.byte = next /\ serial'.bit = 0
    <2>1. serial' = [s EXCEPT !.byte = next, !.state = status]
      BY <1>8, <1>9, <1>12, <1>13
    <2>2. serial' = [state |-> status, type |-> s.type, read |-> s.read, byte |-> next, bit |-> s.bit,
                     buffer |-> s.buffer]
      BY <2>1 DEF Serials
    <2> QED
      BY <1>1, <2>2 DEF Serials
  <1>15. CASE ReceivesLast(s)
    <2>1. /\ control_' = CASE task.type = "reset" -> 0 [] task.type = "control" -> s.buffer [] OTHER -> control_
          /\ interrupts' = interrupts + (IF task.type = "force_irq" THEN 1 ELSE 0)
      BY <1>1, <1>9, <1>15, Zenon DEF write_register
    <2>2. ~Answered /\ ~(Len(outgoing) > 1)
      BY <1>1, <1>7, <1>8, <1>10, <1>15 DEF Answered
    <2>3. phase' = "idle" /\ expected' = Served(now)
      BY <1>4, <2>2
    <2>4. task.type # "reset" /\ task.type # "force_irq"
      BY <1>7, <1>8 DEF parameter_bytes
    <2>5. interrupts \in Nat
      BY <1>6 DEF RtcTyped
    <2>6. /\ Served(now).control = IF task.read THEN control_
                ELSE CASE task.type = "control" -> task.parameter [] task.type = "reset" -> 0
                       [] OTHER -> control_
          /\ Served(now).interrupts = IF ~task.read /\ task.type = "force_irq"
                                        THEN interrupts + 1 ELSE interrupts
      BY <1>6, <2>2, ServedIs
    <2>7. control_' = Served(now).control
      BY <1>1, <1>7, <2>1, <2>4, <2>6
    <2>8. interrupts' = Served(now).interrupts
      BY <2>1, <2>4, <2>5, <2>6
    <2>9. serial'.state = "command" /\ serial'.bit = 0
      BY <1>12, <1>14, <1>15
    <2> QED
      BY <1>3, <1>4, <1>5, <1>6, <1>11, <1>14, <2>2, <2>3, <2>7, <2>8, <2>9, Rests
  <1>16. CASE ~ReceivesLast(s)
    <2>1. UNCHANGED <<control_, interrupts>>
      BY <1>9, <1>16 DEF WritesNothing
    <2>2. next < Sends
      BY <1>7, <1>8, <1>10, <1>13, <1>16
    <2>3. Len(outgoing) > 1 /\ Len(outgoing') = 8 * (Sends - next) - 0 /\ Len(outgoing') > 0
      BY <1>1, <1>5, <1>7, <1>8, <1>13, <2>2
    <2>4. phase' = "low" /\ expected' = expected
      BY <1>4, <2>3
    <2>5. outgoing' # <<>>
      BY <1>5, <2>3
    <2>6. Sending'
      BY <1>2, <1>3, <1>4, <2>4, <2>5 DEF Sending, Clocked
    <2>7. task.type # "control"
      <3>1. Sends # 1
        BY <1>13, <2>2
      <3> QED
        BY <1>7, <3>1, Parameters7
    <2>8. serial'.state = "receiving" /\ serial'.type = task'.type /\ task' = task
      BY <1>4, <1>12, <1>14, <1>16
    <2>9. ParametersGo'
      BY <1>7, <1>14, <2>2, <2>3, <2>6, <2>7, <2>8 DEF ParametersGo
    <2>10. RtcTyped'
      BY <1>3, <1>4, <1>5, <1>6, <1>11, <1>14, <2>1, <2>4 DEF RtcTyped
    <2> QED
      BY <2>9, <2>10 DEF RtcInv
  <1> QED
    BY <1>15, <1>16

(* Whatever bit is sent. *)
LEMMA HighSendInv ==
    ASSUME SecondsFit, RtcInv, NEW now \in Times, HighSend(now)
    PROVE  RtcInv'
  <1>1. CommandGoes \/ ParametersGo
    BY BitDriven
  <1>2. CASE CommandGoes
    <2>1. CASE serial.bit = 7
      BY <1>2, <2>1, CommandLast
    <2>2. CASE serial.bit # 7
      BY <1>2, <2>2, CommandBit
    <2> QED
      BY <2>1, <2>2
  <1>3. CASE ParametersGo
    <2>1. CASE serial.bit = 7
      BY <1>3, <2>1, ParameterLast
    <2>2. CASE serial.bit # 7
      BY <1>3, <2>2, ParameterBit
    <2> QED
      BY <2>1, <2>2
  <1> QED
    BY <1>1, <1>2, <1>3

(* The bytes of an answer are bytes. *)
LEMMA AnswerTyped ==
    ASSUME Right, NEW i \in 0..6, i < Answers
    PROVE  Register(i) \in 0..255
  <1>1. Answers \in {0, 1, 3, 7}
    BY Parameters7 DEF Answers
  <1>2. i + 1 \in 1..Answers
    BY <1>1
  <1>3. expected.bytes[i + 1] \in 0..255 /\ (task.type # "control" => expected.bytes[i + 1] \in 0..99)
    BY <1>2 DEF Right
  <1>4. \A n \in 0..99 : to_bcd(n) \in 0..255
    BY Bcd
  <1> QED
    BY <1>3, <1>4, Zenon DEF Register

(* A rise of SCK puts the next bit of the answer on SIO, and after the last one the
   clock waits for a command. *)
LEMMA HighReadInv ==
    ASSUME RtcInv, HighRead PROVE RtcInv'
  <1>1. PICK now \in Times : WriteData({"cs", "sck"}, now)
    BY DEF HighRead
  <1>2. /\ phase = "high" /\ outgoing = <<>> /\ phase' = "read"
        /\ UNCHANGED <<task, outgoing, incoming, expected>>
    BY DEF HighRead
  <1>3. AnswerComes
    BY <1>2, Zenon DEF RtcInv, AtIdle, Opening, CommandGoes, ParametersGo, Sending
  <1>4. /\ Answered /\ Right /\ ports_["cs"] = 1 /\ ports_["sck"] = 0 /\ Loaded
        /\ directions_ = {"sck", "cs"} /\ Len(incoming) = 8 * serial.byte + serial.bit
    BY <1>2, <1>3 DEF AnswerComes, Clocked
  <1>5. /\ ports_ \in [Pins -> {0, 1}] /\ {"cs", "sck"} \in SUBSET Pins
        /\ internal_regs_ \in [0..6 -> 0..255] /\ serial \in Serials
    BY DEF Pins, RtcInv, RtcTyped
  <1>6. Answers \in {0, 1, 3, 7} /\ Answers' = Answers
    BY <1>2, Parameters7 DEF Answers
  <1>7. PICK j \in 0..6, k \in 0..7 : j = serial.byte /\ k = serial.bit /\ j < Answers
    BY <1>4, <1>5, <1>6 DEF Loaded, Serials
  <1>8. PICK n \in 0..255 : n = Register(j) /\ internal_regs_[j] = n \div 2^k
    BY <1>4, <1>7, AnswerTyped DEF Loaded
  <1>9. /\ BitOf(n \div 2^k, 0) = BitOf(n, k) /\ (n \div 2^k) \div 2 \in 0..255
        /\ (n \div 2^k) \div 2 = n \div 2^(k + 1) /\ BitOf(n, k) \in {0, 1}
    BY ShiftedOut, NumberOfBits, ZenonT(40)
  <1> DEFINE new == Driven({"cs", "sck"})
  <1>10. new["sck"] = 1 /\ new["cs"] = 1 /\ new \in [Pins -> {0, 1}]
    BY <1>1, <1>4, <1>5, DrivenClock, WriteDataIs
  <1>11. Moves(new) /\ serial.state = "sending"
    BY <1>4, <1>10 DEF Moves, Loaded
  <1>12. /\ directions_' = directions_ /\ sio_send_buffer(serial)
         /\ ports_' = [new EXCEPT !["sio"] = BitOf(internal_regs_[serial.byte], 0)]
    BY <1>1, <1>4, <1>5, <1>11, WriteDataIs
  <1> HIDE DEF new
  <1>13. /\ ports_' \in [Pins -> {0, 1}] /\ ports_'["cs"] = 1 /\ ports_'["sio"] = BitOf(Register(j), k)
    <2>1. BitOf(internal_regs_[serial.byte], 0) = BitOf(n, k)
      BY <1>7, <1>8, <1>9
    <2> QED
      BY <1>8, <1>9, <1>10, <1>12, <2>1 DEF Pins
  <1> DEFINE s == [serial EXCEPT !.bit = (@ + 1) % 8]
  <1>14. /\ internal_regs_' = [internal_regs_ EXCEPT ![s.byte] = @ \div 2]
         /\ serial' = IF s.bit # 0 THEN s
                      ELSE [s EXCEPT !.byte = @ + 1,
                                     !.state = IF s.byte + 1 = parameter_bytes(s.type) THEN "command" ELSE @]
         /\ UNCHANGED <<control_, interrupts>>
    BY <1>12 DEF sio_send_buffer, WritesNothing
  <1>15. PICK bit \in 0..7 : bit = (k + 1) % 8 /\ bit = IF k = 7 THEN 0 ELSE k + 1
    OBVIOUS
  <1>16. s = [state |-> "sending", type |-> serial.type, read |-> serial.read, byte |-> j, bit |-> bit,
              buffer |-> serial.buffer]
    BY <1>5, <1>7, <1>11, <1>15 DEF Serials
  <1> HIDE DEF s
  <1>17. s.byte = j /\ s.bit = bit /\ s.type = task.type /\ s.state = "sending"
    BY <1>4, <1>16 DEF Loaded
  <1>18. /\ internal_regs_' \in [0..6 -> 0..255]
         /\ internal_regs_'[j] = n \div 2^(k + 1)
         /\ \A i \in 0..6 : i # j => internal_regs_'[i] = internal_regs_[i]
    <2>1. internal_regs_' = [internal_regs_ EXCEPT ![j] = (n \div 2^k) \div 2]
      BY <1>8, <1>14, <1>17
    <2> QED
      BY <1>5, <1>9, <2>1
  <1>19. \A i \in 0..6 : Register(i)' = Register(i)
    BY <1>2 DEF Register
  <1>20. Right' /\ Answered'
    BY <1>2, <1>4, RightSteady DEF Answered
  <1>21. serial' \in Serials /\ Len(incoming') + 1 = 8 * serial'.byte + serial'.bit
         /\ IF Len(incoming') + 1 = 8 * Answers'
            THEN serial'.state = "command" /\ serial'.bit = 0
            ELSE Loaded'
    <2>1. PICK length \in Nat : length = Len(incoming) /\ length = 8 * j + k
      BY <1>4, <1>7
    <2>2. CASE k # 7
      <3>1. bit = k + 1 /\ bit # 0
        BY <1>15, <2>2
      <3>2. serial' = s
        BY <1>14, <1>17, <3>1
      <3>3. s \in Serials
        BY <1>5, <1>16 DEF Serials
      <3>4. Len(incoming') + 1 = 8 * j + bit /\ Len(incoming') + 1 # 8 * Answers'
        <4>1. Len(incoming') = length /\ length + 1 = 8 * j + bit
          BY <1>2, <2>1, <3>1
        <4>2. length + 1 # 8 * Answers
          BY <1>6, <1>7, <2>1, <2>2
        <4> QED
          BY <1>6, <4>1, <4>2
      <3>5. Loaded'
        <4>1. serial'.state = "sending" /\ serial'.type = task'.type /\ serial'.byte = j /\ serial'.bit = bit
          BY <1>2, <1>17, <3>2
        <4>2. internal_regs_'[j] = Register(j)' \div 2^bit
          BY <1>8, <1>18, <1>19, <3>1
        <4>3. ASSUME NEW i \in 0..6, j < i, i < Answers' PROVE internal_regs_'[i] = Register(i)'
          <5>1. i # j /\ i < Answers /\ serial.byte < i
            BY <1>6, <1>7, <4>3
          <5>2. internal_regs_[i] = Register(i)
            BY <1>4, <5>1 DEF Loaded
          <5> QED
            BY <1>18, <1>19, <5>1, <5>2
        <4>4. internal_regs_'[serial'.byte] = Register(serial.byte)' \div 2^(serial'.bit)
          BY <4>1, <4>2, Zenon
        <4>5. serial'.byte < Answers'
          BY <1>6, <1>7, <4>1
        <4> QED
          BY <4>1, <4>3, <4>4, <4>5 DEF Loaded
      <3> QED
        BY <1>17, <3>2, <3>3, <3>4, <3>5
    <2>3. CASE k = 7
      <3>1. bit = 0
        BY <1>15, <2>3
      <3>2. PICK next \in 1..7 : next = j + 1
        OBVIOUS
      <3>3. PICK status \in {"command", "sending"} :
               status = (IF s.byte + 1 = parameter_bytes(s.type) THEN "command" ELSE s.state)
               /\ (next = Answers => status = "command") /\ (next # Answers => status = "sending")
        BY <1>17, <3>2 DEF Answers
      <3>4. serial' = [s EXCEPT !.byte = next, !.state = status]
        BY <1>14, <1>17, <3>1, <3>2, <3>3
      <3>5. serial' = [state |-> status, type |-> serial.type, read |-> serial.read, byte |-> next, bit |-> 0,
                       buffer |-> serial.buffer]
        BY <1>16, <3>1, <3>4
      <3>6. /\ serial' \in Serials /\ serial'.byte = next /\ serial'.bit = 0 /\ serial'.state = status
            /\ serial'.type = task.type
        BY <1>4, <1>5, <3>5 DEF Serials, Loaded
      <3>7. /\ Len(incoming') + 1 = 8 * next + 0 /\ (Len(incoming') + 1 = 8 * Answers' <=> next = Answers)
        BY <1>2, <1>6, <2>1, <2>3, <3>2
      <3>8. ASSUME next # Answers PROVE Loaded'
        <4>1. next \in 0..6 /\ next < Answers /\ j < next
          BY <1>6, <1>7, <3>2, <3>8
        <4>2. Register(next) \in 0..255
          <5>1. Right /\ next \in 0..6 /\ next < Answers
            BY <1>4, <4>1
          <5> QED
            BY <5>1, AnswerTyped
        <4>3. 2^0 = 1
          OBVIOUS
        <4>4. internal_regs_'[next] = Register(next)
          BY <1>4, <1>7, <1>18, <4>1 DEF Loaded
        <4>5. internal_regs_'[next] = Register(next) \div 2^0
          BY <4>2, <4>4, <4>3
        <4>6. internal_regs_'[next] = Register(next)' \div 2^0
          BY <1>19, <4>1, <4>5
        <4>7. ASSUME NEW i \in 0..6, next < i, i < Answers' PROVE internal_regs_'[i] = Register(i)'
          <5>1. i # j /\ i < Answers /\ serial.byte < i
            BY <1>6, <1>7, <4>1, <4>7
          <5>2. internal_regs_[i] = Register(i)
            BY <1>4, <5>1 DEF Loaded
          <5> QED
            BY <1>18, <1>19, <5>1, <5>2
        <4>8. internal_regs_'[serial'.byte] = Register(serial.byte)' \div 2^(serial'.bit)
          BY <3>6, <4>6, Zenon
        <4>9. serial'.byte < Answers' /\ serial'.state = "sending" /\ serial'.type = task'.type
          BY <1>2, <1>6, <3>3, <3>6, <3>8, <4>1
        <4> QED
          BY <3>6, <4>7, <4>8, <4>9 DEF Loaded
      <3> QED
        BY <3>3, <3>6, <3>7, <3>8
    <2> QED
      BY <2>2, <2>3
  <1>22. \E byte \in 0..6, place \in 0..7 :
            Len(incoming') = 8 * byte + place /\ ports_'["sio"] = BitOf(Register(byte)', place)
    BY <1>2, <1>4, <1>7, <1>13, <1>19
  <1>23. AnswerComes'
    <2>1. Answered' /\ outgoing' = <<>> /\ Right' /\ ports_'["cs"] = 1 /\ phase' = "read"
          /\ directions_' = {"sck", "cs"}
      BY <1>2, <1>4, <1>12, <1>13, <1>20
    <2>2. /\ Len(incoming') + 1 = 8 * serial'.byte + serial'.bit
          /\ IF Len(incoming') + 1 = 8 * Answers'
             THEN serial'.state = "command" /\ serial'.bit = 0
             ELSE /\ Loaded'
                  /\ \E byte \in 0..6, place \in 0..7 :
                       Len(incoming') = 8 * byte + place /\ ports_'["sio"] = BitOf(Register(byte)', place)
      BY <1>21, <1>22, Zenon
    <2> QED
      BY <2>1, <2>2, Zenon DEF AnswerComes
  <1>24. RtcTyped'
    BY <1>2, <1>13, <1>14, <1>18, <1>21 DEF RtcInv, RtcTyped
  <1> QED
    BY <1>23, <1>24 DEF RtcInv

(* A bit more is read, and it is right. *)
LEMMA RightWithMore ==
    ASSUME Right, incoming \in Seq({0, 1}), NEW bit \in {0, 1}, NEW b \in 0..6, NEW t \in 0..7,
           b < Answers, Len(incoming) = 8 * b + t,
           bit = IF b + 1 = Answers /\ t = 7 THEN 0 ELSE BitOf(Register(b), t),
           incoming' = Append(incoming, bit), UNCHANGED <<task, expected>>
    PROVE  Right' /\ incoming' \in Seq({0, 1}) /\ Len(incoming') = 8 * b + t + 1
  <1>1. Answers' = Answers /\ \A i : Register(i)' = Register(i)
    BY DEF Answers, Register
  <1>2. Answers \in {0, 1, 3, 7}
    BY Parameters7 DEF Answers
  <1>3. PICK length \in Nat : length = Len(incoming) /\ length = 8 * b + t
    BY DEF Right
  <1>4. /\ incoming' \in Seq({0, 1}) /\ Len(incoming') = length + 1
        /\ incoming'[length + 1] = bit
        /\ \A i \in 1..length : incoming'[i] = incoming[i]
    BY <1>3
  <1>5. ASSUME NEW byte \in 0..6, NEW place \in 0..7, byte < Answers, 8 * byte + place + 1 <= length + 1
        PROVE  incoming'[8 * byte + place + 1]
                 = IF byte + 1 = Answers /\ place = 7 THEN 0 ELSE BitOf(Register(byte), place)
    <2>1. CASE 8 * byte + place + 1 <= length
      <3>1. 8 * byte + place + 1 \in 1..length
        BY <2>1
      <3>2. incoming[8 * byte + place + 1]
              = IF byte + 1 = Answers /\ place = 7 THEN 0 ELSE BitOf(Register(byte), place)
        <4>1. 8 * byte + place + 1 <= Len(incoming)
          BY <1>3, <2>1
        <4> QED
          BY <1>5, <4>1, Zenon DEF Right
      <3>3. incoming'[8 * byte + place + 1] = incoming[8 * byte + place + 1]
        BY <1>4, <3>1
      <3> QED
        BY <3>2, <3>3, Zenon
    <2>2. CASE ~(8 * byte + place + 1 <= length)
      <3>1. byte = b /\ place = t /\ 8 * byte + place + 1 = length + 1
        BY <1>3, <1>5, <2>2
      <3> QED
        BY <1>4, <3>1
    <2> QED
      BY <2>1, <2>2
  <1>6. Right'
    <2>1. /\ DOMAIN expected'.bytes = 1..Answers'
          /\ \A i \in 1..Answers' : expected'.bytes[i] \in 0..255
                  /\ (task'.type # "control" => expected'.bytes[i] \in 0..99)
          /\ task'.type # "control" => expected'.bytes[Answers'] < 80
      BY <1>1 DEF Right
    <2>2. \A byte \in 0..6, place \in 0..7 :
             byte < Answers' /\ 8 * byte + place + 1 <= Len(incoming') =>
               incoming'[8 * byte + place + 1]
                 = IF byte + 1 = Answers' /\ place = 7 THEN 0 ELSE BitOf(Register(byte)', place)
      BY <1>1, <1>4, <1>5
    <2> QED
      BY <2>1, <2>2, Zenon DEF Right
  <1> QED
    BY <1>3, <1>4, <1>6

(* The program takes the bit from the port. *)
LEMMA TakeInv ==
    ASSUME RtcInv, Take PROVE RtcInv'
  <1> DEFINE bit == IF "sio" \in NewStates THEN 1 ELSE 0
  <1>1. /\ phase = "read" /\ incoming' = Append(incoming, bit)
        /\ phase' = IF Len(incoming) + 1 = 8 * Answers THEN "idle" ELSE "low"
        /\ UNCHANGED <<task, outgoing, expected, directions_, ports_, internal_regs_, control_, serial,
                       interrupts>>
    BY DEF Take, ReadData, Answers
  <1>2. AnswerComes
    BY <1>1, Zenon DEF RtcInv, AtIdle, Opening, CommandGoes, ParametersGo, Sending
  <1>3. /\ Answered /\ outgoing = <<>> /\ Right /\ ports_["cs"] = 1
        /\ directions_ = {"sck", "cs"}
        /\ Len(incoming) + 1 = 8 * serial.byte + serial.bit
        /\ IF Len(incoming) + 1 = 8 * Answers
           THEN serial.state = "command" /\ serial.bit = 0
           ELSE /\ Loaded
                /\ \E byte \in 0..6, place \in 0..7 :
                      /\ Len(incoming) = 8 * byte + place
                      /\ ports_["sio"] = BitOf(Register(byte), place)
    BY <1>1, <1>2 DEF AnswerComes
  <1>4. /\ ports_ \in [Pins -> {0, 1}] /\ incoming \in Seq({0, 1}) /\ serial \in Serials
    BY DEF RtcInv, RtcTyped
  <1>5. Answers \in {1, 3, 7} /\ Answers' = Answers /\ Answered'
    BY <1>1, <1>3, Parameters7 DEF Answers, Answered
  <1>6. PICK length \in Nat : length = Len(incoming)
    BY <1>4
  <1>7. CASE length + 1 = 8 * Answers
    <2>1. serial.state = "command" /\ serial.bit = 0
      BY <1>3, <1>6, <1>7
    <2>2. bit = 0
      BY <1>3, <2>1 DEF NewStates, read_pin_states
    <2>3. PICK b \in 0..6 : b + 1 = Answers
      BY <1>5
    <2>4. b < Answers /\ Len(incoming) = 8 * b + 7
      BY <1>6, <1>7, <2>3
    <2> HIDE DEF bit
    <2>5. 0 = IF b + 1 = Answers /\ 7 = 7 THEN 0 ELSE BitOf(Register(b), 7)
      BY <2>3
    <2>6. incoming' = Append(incoming, 0)
      BY <1>1, <2>2
    <2>7. Right' /\ incoming' \in Seq({0, 1}) /\ Len(incoming') = 8 * b + 7 + 1
      BY <1>1, <1>3, <1>4, <2>4, <2>5, <2>6, RightWithMore
    <2>8. phase' = "idle" /\ Len(incoming') = 8 * Answers'
      BY <1>1, <1>5, <1>6, <1>7, <2>3, <2>7
    <2>9. AtIdle'
      BY <1>1, <2>1, <2>7, <2>8 DEF AtIdle
    <2>10. RtcTyped'
      BY <1>1, <2>7 DEF RtcInv, RtcTyped
    <2> QED
      BY <2>9, <2>10 DEF RtcInv
  <1>8. CASE length + 1 # 8 * Answers
    <2>1. Loaded
      BY <1>3, <1>6, <1>8
    <2>2. PICK b \in 0..6, t \in 0..7 :
             Len(incoming) = 8 * b + t /\ ports_["sio"] = BitOf(Register(b), t)
      BY <1>3, <1>6, <1>8
    <2>3. ports_["sio"] \in {0, 1}
      BY <1>4 DEF Pins
    <2>4. bit = BitOf(Register(b), t) /\ bit \in {0, 1}
      <3>1. NewStates = {p \in {"sio"} : ports_[p] = 1} \ {"sck", "cs"}
        BY <1>3, <2>1 DEF NewStates, read_pin_states, Loaded
      <3>2. "sio" \in NewStates <=> ports_["sio"] = 1
        BY <3>1
      <3> QED
        BY <2>2, <2>3, <3>2
    <2> HIDE DEF bit
    <2>5. b < Answers /\ ~(b + 1 = Answers /\ t = 7)
      <3>1. /\ serial.byte \in 0..7 /\ serial.bit \in 0..7 /\ serial.byte < Answers
            /\ length + 1 = 8 * serial.byte + serial.bit /\ length = 8 * b + t
        BY <1>3, <1>4, <1>6, <2>1, <2>2 DEF Loaded, Serials
      <3> QED
        BY <1>5, <1>8, <3>1
    <2>6. bit = IF b + 1 = Answers /\ t = 7 THEN 0 ELSE BitOf(Register(b), t)
      BY <2>4, <2>5, Zenon
    <2>7. Len(incoming) = 8 * b + t /\ incoming' = Append(incoming, bit) /\ bit \in {0, 1}
          /\ UNCHANGED <<task, expected>>
      BY <1>1, <2>2, <2>4
    <2>8. Right' /\ incoming' \in Seq({0, 1}) /\ Len(incoming') = 8 * b + t + 1
      BY <1>3, <1>4, <2>5, <2>6, <2>7, RightWithMore
    <2>9. phase' = "low" /\ Len(incoming') = 8 * serial'.byte + serial'.bit
      BY <1>1, <1>3, <1>6, <1>8, <2>2, <2>8
    <2>10. Loaded'
      <3>1. \A i : Register(i)' = Register(i)
        BY <1>1 DEF Register
      <3> QED
        BY <1>1, <1>5, <2>1, <3>1 DEF Loaded
    <2>11. AnswerComes'
      BY <1>1, <1>3, <1>5, <2>8, <2>9, <2>10 DEF AnswerComes, Clocked
    <2>12. RtcTyped'
      BY <1>1, <2>8 DEF RtcInv, RtcTyped
    <2> QED
      BY <2>11, <2>12 DEF RtcInv
  <1> QED
    BY <1>7, <1>8

(* The byte that the program makes of the bits it has read. *)
LEMMA ByteRead ==
    ASSUME Right, Answered, incoming \in Seq({0, 1}), Len(incoming) = 8 * Answers, NEW i \in 1..Answers
    PROVE  ReadByte(i) = IF i = Answers THEN Register(i - 1) % 128 ELSE Register(i - 1)
  <1>1. Answers \in {1, 3, 7}
    BY Parameters7 DEF Answers, Answered
  <1>2. PICK b \in 0..6 : b = i - 1 /\ b < Answers /\ b + 1 = i
    BY <1>1
  <1>3. PICK n \in 0..255 : n = Register(b)
    BY <1>2, AnswerTyped
  <1>4. ASSUME NEW t \in 0..7
        PROVE  incoming[8 * (i - 1) + t + 1] = IF i = Answers /\ t = 7 THEN 0 ELSE BitOf(n, t)
    <2>1. 8 * b + t + 1 <= Len(incoming)
      BY <1>1, <1>2
    <2>2. incoming[8 * b + t + 1] = IF b + 1 = Answers /\ t = 7 THEN 0 ELSE BitOf(Register(b), t)
      BY <1>2, <2>1, Zenon DEF Right
    <2> QED
      BY <1>2, <1>3, <2>2
  <1>5. /\ 2^0 = 1 /\ 2^1 = 2 /\ 2^2 = 4 /\ 2^3 = 8 /\ 2^4 = 16 /\ 2^5 = 32 /\ 2^6 = 64 /\ 2^7 = 128
    OBVIOUS
  <1>6. n \in Nat
    OBVIOUS
  <1>7. /\ BitOf(n, 0) = n % 2 /\ BitOf(n, 1) = (n \div 2) % 2
        /\ BitOf(n, 2) = (n \div 4) % 2 /\ BitOf(n, 3) = (n \div 8) % 2
        /\ BitOf(n, 4) = (n \div 16) % 2 /\ BitOf(n, 5) = (n \div 32) % 2
        /\ BitOf(n, 6) = (n \div 64) % 2 /\ BitOf(n, 7) = (n \div 128) % 2
    BY <1>6, BitPlaces
  <1> DEFINE at(t) == incoming[8 * (i - 1) + t + 1]
  <1>8. ReadByte(i) = at(0) * 2^0 + at(1) * 2^1 + at(2) * 2^2 + at(3) * 2^3
                        + at(4) * 2^4 + at(5) * 2^5 + at(6) * 2^6 + at(7) * 2^7
    BY Zenon DEF ReadByte
  <1>9. /\ at(0) = BitOf(n, 0) /\ at(1) = BitOf(n, 1) /\ at(2) = BitOf(n, 2) /\ at(3) = BitOf(n, 3)
        /\ at(4) = BitOf(n, 4) /\ at(5) = BitOf(n, 5) /\ at(6) = BitOf(n, 6)
        /\ at(7) = IF i = Answers THEN 0 ELSE BitOf(n, 7)
    <2>1. \A t \in 0..7 : at(t) = IF i = Answers /\ t = 7 THEN 0 ELSE BitOf(n, t)
      BY <1>4
    <2> HIDE DEF at
    <2> QED
      BY <2>1
  <1> HIDE DEF at
  <1>10. PICK b0 \in 0..1, b1 \in 0..1, b2 \in 0..1, b3 \in 0..1 :
           at(0) = b0 /\ at(1) = b1 /\ at(2) = b2 /\ at(3) = b3
           /\ b0 = n % 2 /\ b1 = (n \div 2) % 2 /\ b2 = (n \div 4) % 2 /\ b3 = (n \div 8) % 2
    BY <1>7, <1>9, SMTT(40)
  <1>11. PICK b4 \in 0..1, b5 \in 0..1, b6 \in 0..1, b7 \in 0..1 :
           at(4) = b4 /\ at(5) = b5 /\ at(6) = b6 /\ at(7) = b7
           /\ b4 = (n \div 16) % 2 /\ b5 = (n \div 32) % 2 /\ b6 = (n \div 64) % 2
           /\ b7 = IF i = Answers THEN 0 ELSE (n \div 128) % 2
    BY <1>7, <1>9, SMTT(40)
  <1>12. ReadByte(i) = b0 + b1 * 2 + b2 * 4 + b3 * 8 + b4 * 16 + b5 * 32 + b6 * 64 + b7 * 128
    <2>1. ReadByte(i) = b0 * 2^0 + b1 * 2^1 + b2 * 2^2 + b3 * 2^3 + b4 * 2^4 + b5 * 2^5 + b6 * 2^6 + b7 * 2^7
      BY <1>8, <1>10, <1>11, Zenon
    <2> QED
      BY <1>5, <2>1
  <1>13. CASE i = Answers
    <2>1. n % 128 = (n % 2) + ((n \div 2) % 2) * 2 + ((n \div 4) % 2) * 4 + ((n \div 8) % 2) * 8
                    + ((n \div 16) % 2) * 16 + ((n \div 32) % 2) * 32 + ((n \div 64) % 2) * 64
      BY SMTT(40)
    <2>2. b7 = 0
      BY <1>11, <1>13
    <2>3. n % 128 = b0 + b1 * 2 + b2 * 4 + b3 * 8 + b4 * 16 + b5 * 32 + b6 * 64
      BY <1>10, <1>11, <2>1, Zenon
    <2> QED
      BY <1>2, <1>3, <1>12, <1>13, <2>2, <2>3
  <1>14. CASE i # Answers
    <2>1. n = (n % 2) + ((n \div 2) % 2) * 2 + ((n \div 4) % 2) * 4 + ((n \div 8) % 2) * 8
                    + ((n \div 16) % 2) * 16 + ((n \div 32) % 2) * 32 + ((n \div 64) % 2) * 64
                    + ((n \div 128) % 2) * 128
      OBVIOUS
    <2>2. b7 = (n \div 128) % 2
      BY <1>11, <1>14
    <2>3. n = b0 + b1 * 2 + b2 * 4 + b3 * 8 + b4 * 16 + b5 * 32 + b6 * 64 + b7 * 128
      BY <1>10, <1>11, <2>1, <2>2, Zenon
    <2> QED
      BY <1>2, <1>3, <1>12, <1>14, <2>3
  <1> QED
    BY <1>13, <1>14

(* Between two requests the invariant is what the program and the clock promise
   each other. *)
LEMMA RtcInvMeans ==
    ASSUME RtcInv PROVE ClockUnderstood
  <1>1. ASSUME phase = "idle" PROVE AtIdle
    BY <1>1 DEF RtcInv, Opening, CommandGoes, ParametersGo, Sending, AnswerComes
  <1>2. CommandsObeyed
    BY <1>1 DEF CommandsObeyed, AtIdle, RtcInv, RtcTyped
  <1>3. ReadsClock
    <2> SUFFICES ASSUME phase = "idle", Answered
                 PROVE  IF task.type = "control" THEN ReadByte(1) = expected.bytes[1] % 128
                        ELSE \A i \in 1..parameter_bytes(task.type) : from_bcd(ReadByte(i)) = expected.bytes[i]
      BY DEF ReadsClock
    <2>1. Right /\ Len(incoming) = 8 * Answers /\ incoming \in Seq({0, 1})
      BY <1>1 DEF AtIdle, RtcInv, RtcTyped
    <2>2. Answers \in {1, 3, 7} /\ Answers = parameter_bytes(task.type)
      BY Parameters7 DEF Answers, Answered
    <2>3. ASSUME NEW i \in 1..Answers
          PROVE  ReadByte(i) = IF i = Answers THEN Register(i - 1) % 128 ELSE Register(i - 1)
      BY <2>1, ByteRead
    <2>4. \A i \in 1..Answers : (i - 1) + 1 = i
      BY <2>2
    <2>5. CASE task.type = "control"
      <3>1. Answers = 1 /\ 1 \in 1..Answers /\ 1 - 1 = 0 /\ 0 + 1 = 1
        BY <2>2, <2>5, Parameters7
      <3>2. ReadByte(1) = Register(1 - 1) % 128
        BY <2>3, <3>1
      <3>3. Register(0) = expected.bytes[0 + 1]
        BY <2>5 DEF Register
      <3> QED
        BY <2>5, <3>1, <3>2, <3>3
    <2>6. CASE task.type # "control"
      <3> SUFFICES ASSUME NEW i \in 1..Answers PROVE from_bcd(ReadByte(i)) = expected.bytes[i]
        BY <2>2, <2>6
      <3>1. expected.bytes[i] \in 0..99 /\ (i = Answers => expected.bytes[i] < 80)
        BY <2>1, <2>6 DEF Right
      <3>2. Register(i - 1) = to_bcd(expected.bytes[i])
        <4>1. Register(i - 1) = to_bcd(expected.bytes[(i - 1) + 1])
          BY <2>6 DEF Register
        <4> QED
          BY <2>4, <4>1
      <3>3. PICK n \in 0..99 : n = expected.bytes[i]
        BY <3>1
      <3>4. /\ to_bcd(n) \in 0..255 /\ from_bcd(to_bcd(n)) = n
            /\ n < 80 => to_bcd(n) < 128
        BY Bcd
      <3>5. ReadByte(i) = to_bcd(n)
        <4>1. CASE i = Answers
          <5>1. to_bcd(n) < 128
            BY <3>1, <3>3, <3>4, <4>1
          <5>2. to_bcd(n) % 128 = to_bcd(n)
            BY <3>4, <5>1
          <5> QED
            BY <2>3, <3>2, <3>3, <4>1, <5>2
        <4>2. CASE i # Answers
          BY <2>3, <3>2, <3>3, <4>2
        <4> QED
          BY <4>1, <4>2
      <3> QED
        BY <3>3, <3>4, <3>5
    <2> QED
      BY <2>5, <2>6
  <1> QED
    BY <1>2, <1>3 DEF ClockUnderstood

(* The invariant holds at first. *)
LEMMA RtcInitInv ==
    ASSUME RtcInit PROVE RtcInv
  <1>1. RtcTyped
    <2>1. ports_ \in [Pins -> {0, 1}] /\ internal_regs_ \in [0..6 -> 0..255] /\ control_ \in 0..255
          /\ interrupts \in Nat
      BY DEF RtcInit
    <2>2. serial \in Serials
      BY DEF RtcInit, Serials, Types
    <2>3. task \in [type : Types, read : BOOLEAN, parameter : 0..255]
      BY DEF RtcInit, Types
    <2>4. /\ expected \in [control : 0..255, interrupts : Nat, bytes : Seq(0..255)]
          /\ expected.control = control_ /\ expected.interrupts = interrupts
      BY DEF RtcInit
    <2>5. outgoing \in Seq({0, 1}) /\ incoming \in Seq({0, 1})
      BY DEF RtcInit
    <2> QED
      BY <2>1, <2>2, <2>3, <2>4, <2>5 DEF RtcTyped
  <1>2. AtIdle
    BY DEF RtcInit, AtIdle, Answered
  <1> QED
    BY <1>1, <1>2 DEF RtcInv

(* And each step of the program, and of the clock with it, preserves it. *)
LEMMA RtcNextInv ==
    ASSUME SecondsFit, ~MayReverse, RtcInv, [RtcNext]_rtcvars PROVE RtcInv'
  <1>1. CASE UNCHANGED rtcvars
    <2>1. UNCHANGED <<ports_, internal_regs_, control_, serial, interrupts, directions_, uservars>>
      BY <1>1 DEF rtcvars, clockvars, uservars
    <2> QED
      BY <2>1, RtcSteady
  <1>2. CASE AllowRead
    BY <1>2, AllowReadInv
  <1>3. CASE \E code \in Codes, reads \in BOOLEAN, parameter \in Parameters, reversed \in BOOLEAN :
               Begin(code, reads, parameter, reversed)
    BY <1>3, BeginInv
  <1>4. CASE \E now \in Times : HighSend(now)
    BY <1>4, HighSendInv
  <1>5. CASE Deselect
    BY <1>5, DeselectInv
  <1>6. CASE Select
    BY <1>6, SelectInv
  <1>7. CASE Low
    BY <1>7, LowInv
  <1>8. CASE Turn
    BY <1>8, TurnInv
  <1>9. CASE HighRead
    BY <1>9, HighReadInv
  <1>10. CASE Take
    BY <1>10, TakeInv
  <1>11. CASE GiveUp
    BY <1>11, GiveUpInv
  <1>12. CASE \E byte \in Strays : Stray(byte)
    BY <1>12, StrayInv
  <1> QED
    BY <1>1, <1>2, <1>3, <1>4, <1>5, <1>6, <1>7, <1>8, <1>9, <1>10, <1>11, <1>12 DEF RtcNext

(* The clock and its program. *)
RtcSpec == RtcInit /\ [][RtcNext]_rtcvars

(* Of programs that send each command lowest bit first, for any commands and
   parameters, any bytes between them that are no commands, and any moments,
   whatever requests are given up: an answer is the time of one moment, or the control
   register that was last written but for its highest bit, and commands that were
   sent in full have been obeyed once, and no others (rtc.cpp, sio_receive_cmd,
   sio_receive_buffer, sio_send_buffer). *)
THEOREM ClockIsUnderstood == SecondsFit /\ ~MayReverse => (RtcSpec => []ClockUnderstood)
  <1> SUFFICES ASSUME SecondsFit, ~MayReverse PROVE RtcSpec => []ClockUnderstood
    OBVIOUS
  <1>1. RtcInit => RtcInv
    BY RtcInitInv
  <1>2. RtcInv /\ [RtcNext]_rtcvars => RtcInv'
    BY RtcNextInv
  <1>3. RtcInv => ClockUnderstood
    BY RtcInvMeans
  <1> QED
    BY <1>1, <1>2, <1>3, PTL DEF RtcSpec
=============================================================================
