-------------------------------- MODULE Alu ---------------------------------
(***************************************************************************)
(* The barrel shifter, the adder and the flags of arm7tdmi, on words of    *)
(* WordBits bits (32 in the code, which the constants 32 and 31 of the code   *)
(* become WordBits and WordBits - 1 for).  A shift of the host takes its count   *)
(* modulo the width, which is what the build's instructions do where the   *)
(* language leaves the result undefined (a rotation by a multiple of the   *)
(* width).                                                                 *)
(***************************************************************************)
EXTENDS Integers, Bitwise

CONSTANT WordBits      \* bits of a word, a power of two

ASSUME AluAssumption == WordBits \in {2, 4, 8, 16}

VARIABLES
    rd, rs,         \* the operand registers of an instruction
    flags           \* cpsr n, z, c, v

aluvars == <<rd, rs, flags>>

WordSize == 2 ^ WordBits
Words == 0 .. WordSize - 1
Flags == [n : BOOLEAN, z : BOOLEAN, c : BOOLEAN, v : BOOLEAN]

AluInit == rd = 0 /\ rs = 0 /\ flags = [n |-> FALSE, z |-> FALSE, c |-> FALSE, v |-> FALSE]

----------------------------------------------------------------------------
(* math.h *)

Extract(x, i) == (x \div 2 ^ (i % WordBits)) % 2 = 1
Left(x, n) == (x * 2 ^ (n % WordBits)) % WordSize
Right(x, n) == x \div 2 ^ (n % WordBits)
Negative(x) == Extract(x, WordBits - 1)
Signed(x) == IF Negative(x) THEN x - WordSize ELSE x
Complement(x) == WordSize - 1 - x
FromBool(b) == IF b THEN 1 ELSE 0

logical_shift_left(x, n) == [result |-> Left(x, n), carry |-> Extract(x, WordBits - n)]
logical_shift_right(x, n) == [result |-> Right(x, n), carry |-> Extract(x, n - 1)]
arithmetic_shift_right(x, n) ==
    [result |-> (Signed(x) \div 2 ^ (n % WordBits)) % WordSize, carry |-> Extract(x, n - 1)]
logical_rotate_right(x, n) ==           \* rotate - 1_u8 wraps to 255
    [result |-> Right(x, n) | Left(x, WordBits - n), carry |-> Extract(x, (n + 255) % 256)]
logical_rotate_right_extended(x, c) ==
    [result |-> Right(x, 1) | Left(FromBool(c), WordBits - 1), carry |-> Extract(x, 0)]

----------------------------------------------------------------------------
(* arm7tdmi_alu.cpp: the shifter takes and returns an operand and a carry *)

alu_lsl(x, n, c) ==
    CASE n > WordBits -> [result |-> 0, carry |-> FALSE]
      [] n = WordBits -> [result |-> 0, carry |-> Extract(x, 0)]
      [] n = 0 -> [result |-> x, carry |-> c]
      [] OTHER -> logical_shift_left(x, n)

alu_lsr(x, n, c, imm) ==
    CASE n > WordBits -> [result |-> 0, carry |-> FALSE]
      [] n = WordBits \/ (n = 0 /\ imm) -> [result |-> 0, carry |-> Negative(x)]
      [] n = 0 /\ ~imm -> [result |-> x, carry |-> c]
      [] OTHER -> logical_shift_right(x, n)

(* Mutant: a shift by the width itself is left to the host. *)
AsrByWidth(x, n, c, imm) ==
    CASE n = 0 /\ ~imm -> [result |-> x, carry |-> c]
      [] n > WordBits \/ (n = 0 /\ imm) ->
            [result |-> IF Negative(x) THEN WordSize - 1 ELSE 0, carry |-> Negative(x)]
      [] OTHER -> arithmetic_shift_right(x, n)

alu_asr(x, n, c, imm) ==
    CASE n = 0 /\ ~imm -> [result |-> x, carry |-> c]
      [] n >= WordBits \/ (n = 0 /\ imm) ->
            [result |-> IF Negative(x) THEN WordSize - 1 ELSE 0, carry |-> Negative(x)]
      [] OTHER -> arithmetic_shift_right(x, n)

alu_ror(x, n, c, imm) ==
    CASE n = 0 /\ imm -> logical_rotate_right_extended(x, c)
      [] n = 0 /\ ~imm -> [result |-> x, carry |-> c]
      [] OTHER -> logical_rotate_right(x, n % WordBits)

alu_barrel_shift(type, x, n, c, imm) ==
    CASE type = "lsl" -> alu_lsl(x, n, c)
      [] type = "lsr" -> alu_lsr(x, n, c, imm)
      [] type = "asr" -> alu_asr(x, n, c, imm)
      [] type = "ror" -> alu_ror(x, n, c, imm)

\* An operation returns its result and the flags it sets.
SignZero(f, x) == [f EXCEPT !.n = Negative(x), !.z = x = 0]

AddFlags(f, a, b, sum) ==
    LET x == sum % WordSize IN
    [SignZero(f, x) EXCEPT !.c = sum >= WordSize,
                           !.v = Negative(a) = Negative(b) /\ Negative(b) # Negative(x)]

SubFlags(f, a, b, borrow) ==
    LET x == (a - b - borrow) % WordSize IN
    [SignZero(f, x) EXCEPT !.c = a >= b + borrow,
                           !.v = Negative(a) # Negative(b) /\ Negative(a) # Negative(x)]

alu_add(f, a, b) == [result |-> (a + b) % WordSize, flags |-> AddFlags(f, a, b, a + b)]

alu_adc(f, a, b) ==
    LET sum == a + b + FromBool(f.c) IN [result |-> sum % WordSize, flags |-> AddFlags(f, a, b, sum)]

alu_sub(f, a, b) == [result |-> (a - b) % WordSize, flags |-> SubFlags(f, a, b, 0)]

alu_sbc(f, a, b) ==
    LET borrow == FromBool(~f.c) IN
    [result |-> (a - b - borrow) % WordSize, flags |-> SubFlags(f, a, b, borrow)]

condition_met(cond, f) ==
    CASE cond = "EQ" -> f.z [] cond = "NE" -> ~f.z
      [] cond = "CS" -> f.c [] cond = "CC" -> ~f.c
      [] cond = "MI" -> f.n [] cond = "PL" -> ~f.n
      [] cond = "VS" -> f.v [] cond = "VC" -> ~f.v
      [] cond = "HI" -> f.c /\ ~f.z [] cond = "LS" -> ~f.c \/ f.z
      [] cond = "GE" -> f.n = f.v [] cond = "LT" -> f.n # f.v
      [] cond = "GT" -> ~f.z /\ f.n = f.v [] cond = "LE" -> f.z \/ f.n # f.v
      [] cond = "AL" -> TRUE

----------------------------------------------------------------------------
(* The instructions that compute, with the flags set (S) *)

\* The switch of data_processing: carry is the shifter's.
arm_alu(op, a, b, carry, f) ==
    LET logical(x) == [result |-> x, flags |-> [SignZero(f, x) EXCEPT !.c = carry]] IN
    CASE op \in {"and", "tst"} -> logical(a & b)
      [] op \in {"eor", "teq"} -> logical(a ^^ b)
      [] op \in {"sub", "cmp"} -> alu_sub(f, a, b)
      [] op = "rsb" -> alu_sub(f, b, a)
      [] op \in {"add", "cmn"} -> alu_add(f, a, b)
      [] op = "adc" -> alu_adc(f, a, b)
      [] op = "sbc" -> alu_sbc(f, a, b)
      [] op = "rsc" -> alu_sbc(f, b, a)
      [] op = "orr" -> logical(a | b)
      [] op = "mov" -> logical(b)
      [] op = "bic" -> logical(a & Complement(b))
      [] op = "mvn" -> logical(Complement(b))

alu_multiply(a, b, f) ==
    LET x == (a * b) % WordSize IN [result |-> x, flags |-> SignZero(f, x)]

(* Mutant: the amount is taken as a register's, so zero shifts nothing. *)
ShiftedByRegister(type, x, n, f) ==
    LET shifted == alu_barrel_shift(type, x, n, f.c, FALSE) IN
    [result |-> shifted.result, flags |-> [SignZero(f, shifted.result) EXCEPT !.c = shifted.carry]]

move_shifted_reg(type, x, n, f) ==
    LET shifted == alu_barrel_shift(type, x, n, f.c, TRUE) IN
    [result |-> shifted.result, flags |-> [SignZero(f, shifted.result) EXCEPT !.c = shifted.carry]]

add_subtract(sub, x, data, f) == IF sub THEN alu_sub(f, x, data) ELSE alu_add(f, x, data)

mov_cmp_add_sub_imm(op, x, imm, f) ==
    CASE op = "mov" -> [result |-> imm, flags |-> [f EXCEPT !.n = FALSE, !.z = imm = 0]]
      [] op \in {"cmp", "sub"} -> alu_sub(f, x, imm)
      [] op = "add" -> alu_add(f, x, imm)

ThumbOps == {"and", "eor", "lsl", "lsr", "asr", "adc", "sbc", "ror",
             "tst", "neg", "cmp", "cmn", "orr", "mul", "bic", "mvn"}

thumb_alu(op, d, s, f) ==
    LET logical(x) == [result |-> x, flags |-> SignZero(f, x)]
        shifted(r) == [result |-> r.result, flags |-> [SignZero(f, r.result) EXCEPT !.c = r.carry]]
        product == alu_multiply(d, s, f) IN
    CASE op \in {"and", "tst"} -> logical(d & s)
      [] op = "eor" -> logical(d ^^ s)
      [] op = "lsl" -> shifted(alu_lsl(d, s, f.c))
      [] op = "lsr" -> shifted(alu_lsr(d, s, f.c, FALSE))
      [] op = "asr" -> shifted(alu_asr(d, s, f.c, FALSE))
      [] op = "ror" -> shifted(alu_ror(d, s, f.c, FALSE))
      [] op = "adc" -> alu_adc(f, d, s)
      [] op = "sbc" -> alu_sbc(f, d, s)
      [] op = "neg" -> alu_sub(f, 0, s)
      [] op = "cmp" -> alu_sub(f, d, s)
      [] op = "cmn" -> alu_add(f, d, s)
      [] op = "orr" -> logical(d | s)
      [] op = "mul" -> [product EXCEPT !.flags.c = FALSE]
      [] op = "bic" -> logical(d & Complement(s))
      [] op = "mvn" -> logical(Complement(s))

\* An instruction writes rd, unless it only compares, and the flags.
Computes(op, x) ==
    /\ rd' = IF op \in {"tst", "cmp", "cmn"} THEN rd ELSE x.result
    /\ flags' = x.flags
    /\ UNCHANGED rs

LoadOperand(x) == rs' = x /\ UNCHANGED <<rd, flags>>

AluNext ==
    \/ \E x \in Words : LoadOperand(x)
    \/ \E op \in ThumbOps : Computes(op, thumb_alu(op, rd, rs, flags))
    \/ \E type \in {"lsl", "lsr", "asr"}, n \in 0 .. WordBits - 1 :
           Computes("mov", move_shifted_reg(type, rs, n, flags))
    \/ \E sub \in BOOLEAN : Computes("add", add_subtract(sub, rd, rs, flags))
    \/ \E op \in {"mov", "cmp", "add", "sub"}, imm \in Words :
           Computes(op, mov_cmp_add_sub_imm(op, rd, imm, flags))

----------------------------------------------------------------------------
\* After a comparison every condition code says of the two operands what its
\* name says, unsigned and signed, and after an addition or subtraction with
\* carry the carry and overflow flags say whether the unsigned and the signed
\* result is exact (alu_sub, alu_add, alu_adc, alu_sbc, condition_met).
ConditionsCompare ==
    LET f == alu_sub(flags, rd, rs).flags
        met(cond) == condition_met(cond, f)
        sum == alu_adc(flags, rd, rs)
        difference == alu_sbc(flags, rd, rs)
        carry == FromBool(flags.c) IN
    /\ met("EQ") = (rd = rs) /\ met("NE") = (rd # rs)
    /\ met("CS") = (rd >= rs) /\ met("CC") = (rd < rs)
    /\ met("HI") = (rd > rs) /\ met("LS") = (rd <= rs)
    /\ met("GE") = (Signed(rd) >= Signed(rs)) /\ met("LT") = (Signed(rd) < Signed(rs))
    /\ met("GT") = (Signed(rd) > Signed(rs)) /\ met("LE") = (Signed(rd) <= Signed(rs))
    /\ sum.flags.c = (sum.result # rd + rs + carry)
    /\ sum.flags.v = (Signed(sum.result) # Signed(rd) + Signed(rs) + carry)
    /\ difference.flags.c = (difference.result = rd - rs - 1 + carry)
    /\ difference.flags.v = (Signed(difference.result) # Signed(rd) - Signed(rs) - 1 + carry)

OneStep(type, p) ==
    LET top == CASE type = "asr" -> Negative(p.result)
                 [] type = "ror" -> Extract(p.result, 0)
                 [] OTHER -> FALSE IN
    IF type = "lsl" THEN [result |-> (2 * p.result) % WordSize, carry |-> Negative(p.result)]
    ELSE [result |-> p.result \div 2 + (WordSize \div 2) * FromBool(top), carry |-> Extract(p.result, 0)]

RECURSIVE Steps(_, _, _)
Steps(type, p, n) == IF n = 0 THEN p ELSE Steps(type, OneStep(type, p), n - 1)

\* A shift by any amount, zero, the width and more included, does what that
\* many shifts by one bit do; an immediate of zero stands for the width, or
\* for one rotation through the carry (alu_barrel_shift and math.h).
ShiftsBitByBit ==
    \A type \in {"lsl", "lsr", "asr", "ror"}, n \in 0 .. 2 * WordBits + 1, imm \in BOOLEAN :
        LET start == [result |-> rs, carry |-> flags.c]
            shifted == alu_barrel_shift(type, rs, n, flags.c, imm) IN
        CASE imm /\ n = 0 /\ type \in {"lsr", "asr"} -> shifted = Steps(type, start, WordBits)
          [] imm /\ n = 0 /\ type = "ror" ->
                /\ shifted.carry = Extract(rs, 0)
                /\ shifted.result = rs \div 2 + (WordSize \div 2) * FromBool(flags.c)
          [] OTHER -> shifted = Steps(type, start, n)

\* The ARM instruction a Thumb ALU instruction stands for.
ArmForm(op) ==
    LET shift == alu_barrel_shift(op, rd, rs, flags.c, FALSE) IN
    CASE op \in {"lsl", "lsr", "asr", "ror"} ->
            arm_alu("mov", rd, shift.result, shift.carry, flags)
      [] op = "neg" -> arm_alu("rsb", rs, 0, flags.c, flags)
      [] op = "mul" -> alu_multiply(rs, rd, flags)
      [] OTHER -> arm_alu(op, rd, rs, flags.c, flags)

SameButCarry(x, y) ==
    x.result = y.result /\ \A flag \in {"n", "z", "v"} : x.flags[flag] = y.flags[flag]

\* The Thumb instructions, which have handlers of their own, set the same
\* result and the same flags as the ARM instructions they abbreviate
\* (alu, move_shifted_reg, add_subtract and mov_cmp_add_sub_imm against
\* data_processing and multiply).  A multiplication is the exception: Thumb's
\* clears the carry flag and ARM's leaves it, so the carry is not compared.
ThumbAgreesWithArm ==
    /\ \A op \in ThumbOps \ {"mul"} : thumb_alu(op, rd, rs, flags) = ArmForm(op)
    /\ SameButCarry(thumb_alu("mul", rd, rs, flags), ArmForm("mul"))
    /\ \A type \in {"lsl", "lsr", "asr"}, n \in 0 .. WordBits - 1 :
           LET b == alu_barrel_shift(type, rs, n, flags.c, TRUE) IN
           move_shifted_reg(type, rs, n, flags) = arm_alu("mov", rd, b.result, b.carry, flags)
    /\ add_subtract(TRUE, rd, rs, flags) = arm_alu("sub", rd, rs, flags.c, flags)
    /\ add_subtract(FALSE, rd, rs, flags) = arm_alu("add", rd, rs, flags.c, flags)
    /\ \A op \in {"mov", "cmp", "add", "sub"} :
           ~Negative(rs) => mov_cmp_add_sub_imm(op, rd, rs, flags) = arm_alu(op, rd, rs, flags.c, flags)
=============================================================================
