------------------------------ MODULE Cpu6502 ------------------------------
(* The 6502 core of 2026-10-12-rust-nes-6502.  Registers and memory are      *)
(* bytes; an opcode byte is the pair (operation, mode) it decodes to, and    *)
(* the program is whatever step meets at pc: an instruction with its operand *)
(* bytes, or a byte that is no opcode.                                       *)
EXTENDS Integers, Sequences, FiniteSetsExt, Bitwise, TLC

CONSTANTS Bytes,      \* sample values of registers and operand bytes
          Indexes,    \* sample values of x, y and of an operand's second byte
          Stacks,     \* sample values of sp
          MaxSteps    \* bound: steps of a run

Byte(n) == n % 256
Word(n) == n % 65536
Bit7(v) == v >= 128

FlagBit == [C |-> 1, Z |-> 2, I |-> 4, D |-> 8, B |-> 16, U |-> 32, V |-> 64, N |-> 128]
FlagsOf(b) == {f \in DOMAIN FlagBit : (b \div FlagBit[f]) % 2 = 1}
ByteOf(fs) == MapThenSumSet(LAMBDA f : FlagBit[f], fs)

\* OPCODES: the modes of every operation.
Sources  == {"Imm", "Zp", "ZpX", "Abs", "AbsX", "AbsY", "IndX", "IndY"}
Branches == {"Bcc", "Bcs", "Beq", "Bmi", "Bne", "Bpl", "Bvc", "Bvs"}
Shifts   == {"Asl", "Lsr", "Rol", "Ror"}
Stacked  == {"Brk", "Jsr", "Pha", "Php", "Pla", "Plp", "Rti", "Rts", "Tsx", "Txs"}
Implied  == {"Clc", "Cld", "Cli", "Clv", "Dex", "Dey", "Inx", "Iny", "Nop", "Sec", "Sed", "Sei",
             "Tax", "Tay", "Txa", "Tya"} \cup (Stacked \ {"Jsr"})
OPCODES ==
    {"Adc", "And", "Cmp", "Eor", "Lda", "Ora", "Sbc"} \X Sources
    \cup {"Sta"} \X (Sources \ {"Imm"})
    \cup Shifts \X {"Acc", "Zp", "ZpX", "Abs", "AbsX"} \cup {"Inc", "Dec"} \X {"Zp", "ZpX", "Abs", "AbsX"}
    \cup {"Ldx"} \X {"Imm", "Zp", "ZpY", "Abs", "AbsY"} \cup {"Ldy"} \X {"Imm", "Zp", "ZpX", "Abs", "AbsX"}
    \cup {"Stx"} \X {"Zp", "ZpY", "Abs"} \cup {"Sty"} \X {"Zp", "ZpX", "Abs"}
    \cup {"Cpx", "Cpy"} \X {"Imm", "Zp", "Abs"} \cup {"Bit"} \X {"Zp", "Abs"}
    \cup Branches \X {"Rel"} \cup {"Jmp"} \X {"Abs", "Ind"} \cup {"Jsr"} \X {"Abs"} \cup Implied \X {"Imp"}

\* Mode::size
size(mode) == CASE mode \in {"Imp", "Acc"} -> 1
                [] mode \in {"Abs", "AbsX", "AbsY", "Ind"} -> 3
                [] OTHER -> 2

VARIABLES cpu,     \* Cpu; memory is a function on the addresses written, 0 elsewhere
          ran,     \* the last instruction and its operand value
          frames,  \* what the pushes that are not yet pulled stand for
          steps, halted

vars == <<cpu, ran, frames, steps, halted>>

read(c, addr) == IF addr \in DOMAIN c.mem THEN c.mem[addr] ELSE 0
write(c, addr, v) == [c EXCEPT !.mem = [k \in DOMAIN @ \cup {addr} |-> IF k = addr THEN v ELSE @[k]]]
Le(lo, hi) == lo + 256 * hi
read_u16(c, addr) == Le(read(c, addr), read(c, Word(addr + 1)))

set_flag(c, f, on) == [c EXCEPT !.status = IF on THEN @ \cup {f} ELSE @ \ {f}]
set_zn(c, v) == set_flag(set_flag(c, "Z", v = 0), "N", Bit7(v))
Carry(c) == IF "C" \in c.status THEN 1 ELSE 0

push(c, v) == [write(c, 256 + c.sp, v) EXCEPT !.sp = Byte(@ + 255)]
push_u16(c, v) == push(push(c, v \div 256), Byte(v))
Top(c, n) == read(c, 256 + Byte(c.sp + n))      \* the byte that the n-th pull returns
pulled(c, n) == [c EXCEPT !.sp = Byte(@ + n)]

\* operand_addr, with pc at the first operand byte; Ind does not carry into the page.
operand_addr(c, mode) ==
    LET b    == read(c, c.pc)
        w    == read_u16(c, c.pc)
        zp16(p) == Le(read(c, p), read(c, Byte(p + 1)))
    IN CASE mode = "Imm"  -> c.pc
         [] mode = "Zp"   -> b
         [] mode = "ZpX"  -> Byte(b + c.x)
         [] mode = "ZpY"  -> Byte(b + c.y)
         [] mode = "Abs"  -> w
         [] mode = "AbsX" -> Word(w + c.x)
         [] mode = "AbsY" -> Word(w + c.y)
         [] mode = "IndX" -> zp16(Byte(b + c.x))
         [] mode = "IndY" -> Word(zp16(b) + c.y)
         [] mode = "Ind"  -> Le(read(c, w), read(c, (w \div 256) * 256 + Byte(w + 1)))

\* As add_with_carry, with the overflow of an addition without the carry.
add_with_carry_V(c, m) ==
    LET sum == c.a + m + Carry(c)
        r   == Byte(sum)
        p   == Byte(c.a + m)
        v   == Bit7(c.a) # Bit7(p) /\ Bit7(m) # Bit7(p)
    IN [set_zn(set_flag(set_flag(c, "C", sum > 255), "V", v), r) EXCEPT !.a = r]

add_with_carry(c, m) ==
    LET sum == c.a + m + Carry(c)
        r   == Byte(sum)
        v   == Bit7(c.a) # Bit7(r) /\ Bit7(m) # Bit7(r)
    IN [set_zn(set_flag(set_flag(c, "C", sum > 255), "V", v), r) EXCEPT !.a = r]

compare(c, reg, m) == set_zn(set_flag(c, "C", reg >= m), Byte(reg + 256 - m))

\* The closures of step for the four shifts: the result and the bit that goes out.
Shifted(c, op, v) ==
    CASE op = "Asl" -> <<Byte(2 * v), Bit7(v)>>
      [] op = "Lsr" -> <<v \div 2, v % 2 = 1>>
      [] op = "Rol" -> <<Byte(2 * v) + Carry(c), Bit7(v)>>
      [] op = "Ror" -> <<v \div 2 + 128 * Carry(c), v % 2 = 1>>

shift(c, op, mode) ==
    LET addr == operand_addr(c, mode)
        s    == Shifted(c, op, IF mode = "Acc" THEN c.a ELSE read(c, addr))
        d    == set_zn(set_flag(c, "C", s[2]), s[1])
    IN IF mode = "Acc" THEN [d EXCEPT !.a = s[1]] ELSE write(d, addr, s[1])

BranchFlag == [Bcc |-> "C", Bcs |-> "C", Beq |-> "Z", Bne |-> "Z", Bmi |-> "N", Bpl |-> "N", Bvs |-> "V", Bvc |-> "V"]
branch(c, op) ==
    LET taken  == (BranchFlag[op] \in c.status) <=> op \in {"Bcs", "Beq", "Bmi", "Bvs"}
        offset == read(c, c.pc)
        next   == Word(c.pc + 1)
    IN [c EXCEPT !.pc = IF ~taken THEN next ELSE Word(next + offset + IF Bit7(offset) THEN 65280 ELSE 0)]

\* A register r takes value v and the flags follow it.
Load(c, r, v) == [set_zn(c, v) EXCEPT ![r] = v]
RegOf == [Lda |-> "a", Ldx |-> "x", Ldy |-> "y", Sta |-> "a", Stx |-> "x", Sty |-> "y", Cmp |-> "a", Cpx |-> "x", Cpy |-> "y",
          Inx |-> "x", Iny |-> "y", Dex |-> "x", Dey |-> "y"]
FlagOp == [Clc |-> "C", Sec |-> "C", Cld |-> "D", Sed |-> "D", Cli |-> "I", Sei |-> "I", Clv |-> "V"]

\* Instructions that go on behind their operand; m is the value at addr.
Plain(c, op, mode, addr, m) ==
    CASE op \in {"Lda", "Ldx", "Ldy"} -> Load(c, RegOf[op], m)
      [] op \in {"Sta", "Stx", "Sty"} -> write(c, addr, c[RegOf[op]])
      [] op = "Tax" -> Load(c, "x", c.a)
      [] op = "Tay" -> Load(c, "y", c.a)
      [] op = "Txa" -> Load(c, "a", c.x)
      [] op = "Tya" -> Load(c, "a", c.y)
      [] op = "Tsx" -> Load(c, "x", c.sp)
      [] op = "Txs" -> [c EXCEPT !.sp = c.x]
      [] op = "Pha" -> push(c, c.a)
      [] op = "Php" -> push(c, ByteOf(c.status \cup {"B", "U"}))
      [] op = "Pla" -> Load(pulled(c, 1), "a", Top(c, 1))
      [] op = "Plp" -> [pulled(c, 1) EXCEPT !.status = (FlagsOf(Top(c, 1)) \ {"B"}) \cup {"U"}]
      [] op = "And" -> Load(c, "a", c.a & m)
      [] op = "Eor" -> Load(c, "a", c.a ^^ m)
      [] op = "Ora" -> Load(c, "a", c.a | m)
      [] op = "Bit" -> set_flag(set_flag(set_flag(c, "Z", (c.a & m) = 0), "V", "V" \in FlagsOf(m)), "N", Bit7(m))
      [] op = "Adc" -> add_with_carry(c, m)
      [] op = "Sbc" -> add_with_carry(c, 255 - m)
      [] op \in {"Cmp", "Cpx", "Cpy"} -> compare(c, c[RegOf[op]], m)
      [] op \in {"Inc", "Dec"} -> LET r == Byte(m + IF op = "Inc" THEN 1 ELSE 255) IN write(set_zn(c, r), addr, r)
      [] op \in {"Inx", "Iny"} -> Load(c, RegOf[op], Byte(c[RegOf[op]] + 1))
      [] op \in {"Dex", "Dey"} -> Load(c, RegOf[op], Byte(c[RegOf[op]] + 255))
      [] op \in Shifts -> shift(c, op, mode)
      [] op \in DOMAIN FlagOp -> set_flag(c, FlagOp[op], op \in {"Sec", "Sed", "Sei"})
      [] op = "Nop" -> c

\* As Rts, to the pulled address itself.
Rts_NoStep(c) == [pulled(c, 2) EXCEPT !.pc = Le(Top(c, 1), Top(c, 2))]

Rts(c) == [pulled(c, 2) EXCEPT !.pc = Word(Le(Top(c, 1), Top(c, 2)) + 1)]

\* step on c, whose pc is at the opcode of (op, mode).
Step(c0, op, mode) ==
    LET c    == [c0 EXCEPT !.pc = Word(@ + 1)]
        addr == operand_addr(c, mode)
    IN CASE op \in Branches -> branch(c, op)
         [] op = "Jmp" -> [c EXCEPT !.pc = addr]
         [] op = "Jsr" -> [push_u16(c, Word(c.pc + 1)) EXCEPT !.pc = addr]
         [] op = "Rts" -> Rts(c)
         [] op = "Rti" -> [pulled(c, 3) EXCEPT !.status = (FlagsOf(Top(c, 1)) \ {"B"}) \cup {"U"},
                                               !.pc = Le(Top(c, 2), Top(c, 3))]
         [] op = "Brk" -> [push(push_u16(c, Word(c.pc + 1)), ByteOf(c.status \cup {"B", "U"}))
                            EXCEPT !.status = @ \cup {"I"}, !.pc = read_u16(c, 65534)]
         [] OTHER -> [Plain(c, op, mode, addr, read(c, addr)) EXCEPT !.pc = Word(@ + size(mode) - 1)]

\* A program is loaded at 8000 and has run until its registers hold samples.
Init ==
    /\ cpu \in [a : Bytes, x : Indexes, y : Indexes, sp : Stacks, pc : {32768},
                status : {{"I", "U"}, {"I", "U", "C"}},
                mem : {(0 :> 1) @@ (255 :> 128) @@ (65532 :> 0) @@ (65533 :> 128) @@ (65534 :> 0) @@ (65535 :> 144)}]
    /\ ran = <<"Nop", 0>> /\ frames = << >> /\ steps = 0 /\ halted = FALSE

\* What the ghost frames are after op took c to d: a pull that does not match
\* the last push, or a new sp, gives the account up.
Pushed(c, d, op) ==
    LET n == Len(frames)
        pop(k) == IF n > 0 /\ frames[n][1] = k THEN SubSeq(frames, 1, n - 1) ELSE << >>
    IN CASE op = "Jsr" -> Append(frames, <<"Rts", Word(c.pc + 3), {}>>)
         [] op = "Pha" -> Append(frames, <<"Pla", c.a, {}>>)
         [] op = "Php" -> Append(frames, <<"Plp", 0, c.status>>)
         [] op = "Brk" -> Append(frames, <<"Rti", Word(c.pc + 2), c.status>>)
         [] op \in {"Rts", "Pla", "Plp", "Rti"} -> pop(op)
         [] OTHER -> IF d.sp = c.sp THEN frames ELSE << >>

\* run: one turn of its loop, with the instruction b1 b2 at pc, outside the
\* stack page.  After a BRK run returns, and the host may call it again.  Any
\* instruction may come first; runs are followed further while something that
\* was pushed is on the stack.
Run ==
    /\ ~halted /\ steps < MaxSteps /\ ~(cpu.pc \in 253 .. 511)
    /\ \E i \in OPCODES, b1 \in Bytes, b2 \in Indexes :
         /\ steps = 0 \/ (frames # << >> /\ i[1] \in Stacked)
         /\ size(i[2]) = 1 \/ i[1] = "Jsr" => b1 = Min(Bytes)
         /\ size(i[2]) < 3 => b2 = Min(Indexes)
         /\ LET c == write(write(cpu, Word(cpu.pc + 1), b1), Word(cpu.pc + 2), b2)
            IN /\ cpu' = Step(c, i[1], i[2])
               /\ ran' = <<i[1], IF i[2] \in Sources THEN read(c, operand_addr([c EXCEPT !.pc = Word(@ + 1)], i[2])) ELSE 0>>
               /\ frames' = Pushed(c, cpu', i[1])
    /\ steps' = steps + 1 /\ UNCHANGED halted

\* StepError: a byte that is no opcode stops the run where it is.
Unknown == ~halted /\ halted' = TRUE /\ UNCHANGED <<cpu, ran, frames, steps>>

\* reset, as the host calls it between runs.
Reset ==
    /\ steps > 0 /\ steps < MaxSteps
    /\ cpu' = [cpu EXCEPT !.a = 0, !.x = 0, !.y = 0, !.sp = 253, !.status = {"I", "U"}, !.pc = read_u16(cpu, 65532)]
    /\ ran' = <<"Nop", 0>> /\ frames' = << >> /\ steps' = MaxSteps /\ halted' = FALSE

Next == Run \/ Unknown \/ Reset
Spec == Init /\ [][Next]_vars

-----------------------------------------------------------------------------
(* Properties *)

Signed(v) == v - IF Bit7(v) THEN 256 ELSE 0
On(f) == f \in cpu'.status

\* add_with_carry serves ADC and, on the complement, SBC: in both C is the
\* unsigned carry (no borrow), V the signed overflow, and N differs from V
\* exactly when the true signed result is negative.
FlagsAfter ==
    LET m == ran'[2]
        sum == CASE ran'[1] = "Adc" -> Signed(cpu.a) + Signed(m) + Carry(cpu)
                 [] OTHER -> Signed(cpu.a) - Signed(m) - (1 - Carry(cpu))
    IN steps' = steps + 1 /\ ran'[1] \in {"Adc", "Sbc"} =>
         /\ On("V") <=> ~(sum \in -128 .. 127)
         /\ (On("N") # On("V")) <=> sum < 0
         /\ cpu'.a = (sum + 512) % 256
         /\ On("C") <=> IF ran'[1] = "Adc" THEN cpu.a + m + Carry(cpu) > 255
                        ELSE cpu.a >= m + 1 - Carry(cpu)
ArithmeticFlags == [][FlagsAfter]_vars

\* Whatever was pushed comes back from the matching pull, also when the stack
\* pointer wraps: A, the flags, and the place behind the JSR or BRK.
GivesBack ==
    LET f == frames[Len(frames)]
        op == ran'[1]
    IN steps' = steps + 1 /\ frames # << >> /\ op = f[1] /\ Len(frames') < Len(frames) =>
         /\ op \in {"Rts", "Rti"} => cpu'.pc = f[2]
         /\ op = "Pla" => cpu'.a = f[2]
         /\ op \in {"Plp", "Rti"} => cpu'.status = f[3]
StackGivesBack == [][GivesBack]_vars
=============================================================================
