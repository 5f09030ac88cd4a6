------------------------------ MODULE Decoder -------------------------------
(***************************************************************************)
(* The two tables an instruction is looked up in: the one the CPU runs     *)
(* handlers from (generate_arm and generate_thumb, a cascade of mask       *)
(* tests) and the one the debugger disassembles with (bit patterns, a      *)
(* later one overwriting an earlier).  Both are indexed by bits 27 to 20   *)
(* and 7 to 4 of an ARM instruction, and by the upper ten bits of a Thumb  *)
(* instruction; an entry is the name of its handler, "" for none.          *)
(***************************************************************************)
EXTENDS Integers, Sequences, Bitwise

VARIABLE instr      \* the index of the instruction that is looked up

ThumbIndexes == 0 .. 1023

DecoderInit == instr = 0
DecoderNext == instr' = (instr + 1) % 4096

Tests(i, mask, bits) == (i & mask) = bits
Bit(i, n) == (i \div 2 ^ n) % 2 = 1

----------------------------------------------------------------------------
(* The CPU; a mask of the code keeps its bits 27 to 20 and 7 to 4 *)

ArmDataOrPsr(i) ==
    IF ~Bit(i, 4) /\ (i \div 32) % 16 \in 8 .. 11 THEN "psr_transfer" ELSE "data_processing"

(* Mutant: halfword transfers are tested for before multiplies and swaps. *)
HalfwordFirst(i) ==
    IF i \div 1024 = 0 /\ ~Bit(i, 9) /\ (Tests(i, \b1001, \b1001))
    THEN "halfword_data_transfer" ELSE ArmDataOrPsr(i)

generate_arm(i) ==
    LET class == i \div 1024 IN
    CASE class = 0 ->
            IF Bit(i, 9) THEN ArmDataOrPsr(i)
            ELSE IF Tests(i, \b111111111111, \b000100100001) THEN "branch_exchange"
            ELSE IF Tests(i, \b000100001111, \b000000001001) THEN "multiply"
            ELSE IF Tests(i, \b000100001111, \b000100001001) THEN "single_data_swap"
            ELSE IF Tests(i, \b1111, \b1011) \/ Tests(i, \b1101, \b1101) THEN "halfword_data_transfer"
            ELSE ArmDataOrPsr(i)
      [] class = 1 -> IF Tests(i, \b001000000001, \b001000000001) THEN "undefined" ELSE "single_data_transfer"
      [] class = 2 -> IF Bit(i, 9) THEN "branch_with_link" ELSE "block_data_transfer"
      [] class = 3 -> IF Tests(i, \b001100000000, \b001100000000) THEN "swi" ELSE ""

generate_thumb(i) ==
    LET x == i * 64 IN
    CASE (x & \hF800) < \h1800 -> "move_shifted_reg"
      [] Tests(x, \hF800, \h1800) -> "add_subtract"
      [] Tests(x, \hE000, \h2000) -> "mov_cmp_add_sub_imm"
      [] Tests(x, \hFC00, \h4000) -> "alu"
      [] Tests(x, \hFC00, \h4400) -> "hireg_bx"
      [] Tests(x, \hF800, \h4800) -> "pc_rel_load"
      [] Tests(x, \hF200, \h5000) -> "ld_str_reg"
      [] Tests(x, \hF200, \h5200) -> "ld_str_sign_extended_byte_hword"
      [] Tests(x, \hE000, \h6000) -> "ld_str_imm"
      [] Tests(x, \hF000, \h8000) -> "ld_str_hword"
      [] Tests(x, \hF000, \h9000) -> "ld_str_sp_relative"
      [] Tests(x, \hF000, \hA000) -> "ld_addr"
      [] Tests(x, \hFF00, \hB000) -> "add_offset_to_sp"
      [] Tests(x, \hF600, \hB400) -> "push_pop"
      [] Tests(x, \hF000, \hC000) -> "ld_str_multiple"
      [] x >= \hB100 /\ (x & \hFF00) < \hDF00 /\ (x & \hF000) # \hC000 /\ (x & \hF600) # \hB400 -> "branch_cond"
      [] Tests(x, \hFF00, \hDF00) -> "swi"
      [] Tests(x, \hF800, \hE000) -> "branch"
      [] Tests(x, \hF000, \hF000) -> "long_branch_link"
      [] OTHER -> ""

----------------------------------------------------------------------------
(* The disassembler: rows of fixed bits, their values and the entry *)

arm_table ==
    << <<\b111000000001, \b000000000000, "data_processing">>,
       <<\b111000001001, \b000000000001, "data_processing">>,
       <<\b111001001001, \b000000001001, "halfword_data_transfer">>,
       <<\b111001001001, \b000001001001, "halfword_data_transfer">>,
       <<\b111110001111, \b000010001001, "multiply">>,
       <<\b111111001111, \b000000001001, "multiply">>,
       <<\b111110011111, \b000100000000, "psr_transfer">>,
       <<\b111110111111, \b000100001001, "single_data_swap">>,
       <<\b111111111111, \b000100100001, "branch_exchange">>,
       <<\b111000000000, \b001000000000, "data_processing">>,
       <<\b111110110000, \b001100100000, "psr_transfer">>,
       <<\b111000000000, \b010000000000, "single_data_transfer">>,
       <<\b111000000001, \b011000000000, "single_data_transfer">>,
       <<\b111000000001, \b011000000001, "undefined">>,
       <<\b111000000000, \b100000000000, "block_data_transfer">>,
       <<\b111000000000, \b101000000000, "branch_with_link">>,
       <<\b111100000000, \b111100000000, "swi">> >>

thumb_table ==
    << <<\b1110000000, \b0000000000, "move_shifted_reg">>,
       <<\b1111100000, \b0001100000, "add_subtract">>,
       <<\b1110000000, \b0010000000, "mov_cmp_add_sub_imm">>,
       <<\b1111110000, \b0100000000, "alu">>,
       <<\b1111110000, \b0100010000, "hireg_bx">>,
       <<\b1111100000, \b0100100000, "pc_rel_load">>,
       <<\b1111001000, \b0101000000, "ld_str_reg">>,
       <<\b1111001000, \b0101001000, "ld_str_sign_extended_byte_hword">>,
       <<\b1110000000, \b0110000000, "ld_str_imm">>,
       <<\b1111000000, \b1000000000, "ld_str_hword">>,
       <<\b1111000000, \b1001000000, "ld_str_sp_relative">>,
       <<\b1111000000, \b1010000000, "ld_addr">>,
       <<\b1111011000, \b1011010000, "push_pop">>,
       <<\b1111111100, \b1011000000, "add_offset_to_sp">>,
       <<\b1111000000, \b1100000000, "ld_str_multiple">>,
       <<\b1111000000, \b1101000000, "branch_cond">>,
       <<\b1111111100, \b1101111100, "swi">>,
       <<\b1111100000, \b1110000000, "branch">>,
       <<\b1111000000, \b1111000000, "long_branch_link">> >>

\* lookup_table: the last row whose pattern fits, the null entry if none does.
lookup_table(rows, i) ==
    LET fits == {k \in 1 .. Len(rows) : Tests(i, rows[k][1], rows[k][2])} IN
    IF fits = {} THEN "" ELSE rows[CHOOSE k \in fits : \A j \in fits : j <= k][3]

----------------------------------------------------------------------------
\* The encodings the architecture leaves undefined, where the tables need not
\* agree: compares without S that are no status transfer, multiplies, swaps
\* and halfword transfers with reserved bits, and the coprocessor.
ArmReserved(i) ==
    \/ Tests(i, \b110110010000, \b000100000000)                 \* the space of MRS and MSR
       /\ ~Tests(i, \b111110011111, \b000100000000) /\ ~Tests(i, \b111110110000, \b001100100000)
       /\ ~Tests(i, \b111111111111, \b000100100001) /\ ~Tests(i, \b111110111111, \b000100001001)
       /\ ~Tests(i, \b111110011111, \b000100001011)             \* STRH
    \/ Tests(i, \b111000001111, \b000000001001)                 \* the space of MUL and SWP
       /\ ~Tests(i, \b111110001111, \b000010001001) /\ ~Tests(i, \b111111001111, \b000000001001)
       /\ ~Tests(i, \b111110111111, \b000100001001)
    \/ i \div 1024 = 3 /\ ~Tests(i, \b111100000000, \b111100000000)

ThumbReserved(i) ==
    \/ Tests(i, \b1111000000, \b1011000000) /\ ~Tests(i, \b1111011000, \b1011010000)
       /\ ~Tests(i, \b1111111100, \b1011000000)
    \/ Tests(i, \b1111100000, \b1110100000)

\* Every instruction the architecture defines is handled by the CPU as what
\* the debugger says it is: the two tables, one a cascade and one a list of
\* patterns, differ on reserved encodings only, and no defined encoding is
\* without a handler (generate_arm, generate_thumb, arm_table_, thumb_table_).
DecodersAgree ==
    /\ ~ArmReserved(instr) => generate_arm(instr) \in {lookup_table(arm_table, instr)} \ {""}
    /\ instr \in ThumbIndexes /\ ~ThumbReserved(instr) =>
           generate_thumb(instr) \in {lookup_table(thumb_table, instr)} \ {""}
=============================================================================
