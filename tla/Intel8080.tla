----------------------------- MODULE Intel8080 ------------------------------
(***************************************************************************)
(* The cpu: what Execute and Interrupt do to the registers, the flags, the *)
(* stack and the memory, for every opcode.  An opcode is taken apart as    *)
(* the octal number xyz, which is how the opcode table is laid out.  The   *)
(* memory controller maps Cells and ignores every other address.           *)
(*                                                                         *)
(* A definition named D_Something is D with a plausible bug.  Nothing uses *)
(* it: a property that cannot tell it from D says nothing about D.         *)
(***************************************************************************)
EXTENDS Integers, FiniteSets, Sequences

CONSTANTS
  Cells,      \* the addresses the memory controller maps
  Images,     \* the machine states a load may leave: memory and registers
  Unmapped,   \* what every other address reads
  Inputs,     \* what a port of the io controller may return
  Restarts    \* the interrupts the io controller may generate, Zero..Seven

MaxByte == 255
MaxWord == 65535
Byte == 0..MaxByte
Word == 0..MaxWord
Names == {"a", "b", "c", "d", "e", "h", "l"}
Bit == 0..7

CarryFlag == 0
ParityFlag == 2
AuxCarryFlag == 4
ZeroFlag == 6
SignFlag == 7
Flags == {CarryFlag, ParityFlag, AuxCarryFlag, ZeroFlag, SignFlag}

ASSUME CellsAssumption == Cells \subseteq Word /\ Unmapped \in Byte
ASSUME InputsAssumption == Inputs \subseteq Byte /\ Restarts \subseteq 0..7
ASSUME ImagesAssumption ==
  \A i \in Images :
    /\ i.memory \in [Cells -> Byte] /\ i.reg \in [Names -> Byte]
    /\ i.pc \in Word /\ i.sp \in Word
    /\ i.status \subseteq Flags

VARIABLES
  reg,          \* a_, b_, c_, d_, e_, h_ and l_
  pc_, sp_,
  status_,      \* the bits of the flags that are set
  iff_, hlt_,
  memory,       \* the memory controller's cells
  ticks,        \* what Execute or Interrupt returned last
  image         \* history: what was loaded

vars == <<reg, pc_, sp_, status_, iff_, hlt_, memory, ticks, image>>

-----------------------------------------------------------------------------
(* Bytes, words, bits.                                                     *)

Uint16(hi, low) == hi * 256 + low

Wrap_Signed(n) == IF n = 65536 THEN n ELSE n % 65536

\* uint16_t
Wrap(n) == n % 65536

\* std::bitset<8> and its value.
Bits(n) ==
  LET power == <<1, 2, 4, 8, 16, 32, 64, 128>>
  IN  {i \in Bit : (n \div power[i + 1]) % 2 = 1}

Value(bits) ==
  LET bit(i, power) == IF i \in bits THEN power ELSE 0
  IN  bit(0, 1) + bit(1, 2) + bit(2, 4) + bit(3, 8)
      + bit(4, 16) + bit(5, 32) + bit(6, 64) + bit(7, 128)

With(bits, bit, on) == IF on THEN bits \cup {bit} ELSE bits \ {bit}

-----------------------------------------------------------------------------
(* The arithmetic and logic unit.  An operation yields a byte and flags.   *)

Signs_OddParity(r) ==
  {f \in {SignFlag, ZeroFlag, ParityFlag} :
     \/ f = SignFlag /\ r >= 128
     \/ f = ZeroFlag /\ r = 0
     \/ f = ParityFlag /\ Cardinality(Bits(r)) % 2 = 1}

\* Sign, zero and parity of r.
Signs(r) ==
  {f \in {SignFlag, ZeroFlag, ParityFlag} :
     \/ f = SignFlag /\ r >= 128
     \/ f = ZeroFlag /\ r = 0
     \/ f = ParityFlag /\ Cardinality(Bits(r)) % 2 = 0}

Outcome(s, r, carry, aux) ==
  [value |-> r,
   status |-> With(With((s \ Flags) \cup Signs(r), CarryFlag, carry), AuxCarryFlag, aux)]

Add(s, a, b, carry, setCarryFlag) ==
  Outcome(s, (a + b + carry) % 256,
          IF setCarryFlag THEN a + b + carry > 255 ELSE CarryFlag \in s,
          (a % 16) + (b % 16) + carry > 15)

Sub_Unflipped(s, a, b, withCarry) == Add(s, a, 255 - b, 1 - withCarry, TRUE)

\* The difference is the sum with the complement; its carry is the borrow.
Sub(s, a, b, withCarry) ==
  LET sum == Add(s, a, 255 - b, 1 - withCarry, TRUE)
  IN  [sum EXCEPT !.status = With(@, CarryFlag, CarryFlag \notin @)]

Ana(s, a, b) ==
  Outcome(s, Value(Bits(a) \cap Bits(b)), FALSE, 3 \in Bits(a) \cup Bits(b))

Xra(s, a, b) ==
  Outcome(s, Value((Bits(a) \ Bits(b)) \cup (Bits(b) \ Bits(a))), FALSE, FALSE)

Ora(s, a, b) == Outcome(s, Value(Bits(a) \cup Bits(b)), FALSE, FALSE)

\* The operations in the order of their opcodes; Cmp is Sub without its byte.
Alu(op, s, a, b) ==
  LET carry == IF CarryFlag \in s THEN 1 ELSE 0
  IN  CASE op = 0 -> Add(s, a, b, 0, TRUE)
        [] op = 1 -> Add(s, a, b, carry, TRUE)
        [] op = 2 -> Sub(s, a, b, 0)
        [] op = 3 -> Sub(s, a, b, carry)
        [] op = 4 -> Ana(s, a, b)
        [] op = 5 -> Xra(s, a, b)
        [] op = 6 -> Ora(s, a, b)
        [] op = 7 -> [Sub(s, a, b, 0) EXCEPT !.value = a]

Adjust_NoRipple(s, a) ==
  LET low == a % 16 > 9 \/ AuxCarryFlag \in s
      high == a \div 16 > 9 \/ CarryFlag \in s
  IN  Add(With(s, CarryFlag, high), a,
          (IF low THEN 6 ELSE 0) + (IF high THEN 96 ELSE 0), 0, FALSE)

Adjust_NoHalfCarry(s, a) ==
  LET low == a % 16 > 9
      high == a \div 16 > 9 \/ CarryFlag \in s \/ (a \div 16 >= 9 /\ a % 16 > 9)
  IN  Add(With(s, CarryFlag, high), a,
          (IF low THEN 6 ELSE 0) + (IF high THEN 96 ELSE 0), 0, FALSE)

\* Daa: the accumulator becomes two decimal digits.
Adjust(s, a) ==
  LET low == a % 16 > 9 \/ AuxCarryFlag \in s
      high == a \div 16 > 9 \/ CarryFlag \in s \/ (a \div 16 >= 9 /\ a % 16 > 9)
  IN  Add(With(s, CarryFlag, high), a,
          (IF low THEN 6 ELSE 0) + (IF high THEN 96 ELSE 0), 0, FALSE)

Rotate_AroundCarry(op, s, a) ==
  LET leaves == IF op \in {0, 2} THEN 7 \in Bits(a) ELSE 0 \in Bits(a)
  IN  [value |-> IF op \in {0, 2} THEN ((2 * a) % 256) + (IF leaves THEN 1 ELSE 0)
                                  ELSE (a \div 2) + (IF leaves THEN 128 ELSE 0),
       status |-> With(s, CarryFlag, leaves)]

\* Rlc, Rrc, Ral, Rar: the bit that leaves is the carry; the one that enters
\* is that bit, or the carry there was.
Rotate(op, s, a) ==
  LET leaves == IF op \in {0, 2} THEN 7 \in Bits(a) ELSE 0 \in Bits(a)
      enters == IF op \in {0, 1} THEN leaves ELSE CarryFlag \in s
  IN  [value |-> IF op \in {0, 2} THEN ((2 * a) % 256) + (IF enters THEN 1 ELSE 0)
                                 ELSE (a \div 2) + (IF enters THEN 128 ELSE 0),
       status |-> With(s, CarryFlag, leaves)]

-----------------------------------------------------------------------------
(* Operands.                                                               *)

Peek(a) == IF a \in Cells THEN memory[a] ELSE Unmapped
Poke(a, v) == [memory EXCEPT ![a] = v]
Poke2_HighFirst(a, w) == [Poke(a, w \div 256) EXCEPT ![Wrap(a + 1)] = w % 256]

Poke2_Unwrapped(a, w) == [Poke(a, w % 256) EXCEPT ![a + 1] = w \div 256]

\* The low byte of a word comes first.
Poke2(a, w) == [Poke(a, w % 256) EXCEPT ![Wrap(a + 1)] = w \div 256]

opcode == Peek(pc_)
x == opcode \div 64
y == (opcode \div 8) % 8
z == opcode % 8
Is(group, ys, column) == x = group /\ y \in ys /\ z = column
Even == {0, 2, 4, 6}
Odd == {1, 3, 5, 7}

Data == Peek(Wrap(pc_ + 1))
Address == Uint16(Peek(Wrap(pc_ + 2)), Data)

\* The byte registers by number; the seventh is the cell that h and l address.
Name(r) == <<"b", "c", "d", "e", "h", "l", "m", "a">>[r + 1]
M == 6

\* The pairs bc, de, hl, and, as the fourth, sp.
High(p) == <<"b", "d", "h">>[p + 1]
Low(p) == <<"c", "e", "l">>[p + 1]
PairValue(p) == IF p = 3 THEN sp_ ELSE Uint16(reg[High(p)], reg[Low(p)])
SetPair(p, w) == [reg EXCEPT ![High(p)] = w \div 256, ![Low(p)] = w % 256]
Pair == y \div 2
HL == PairValue(2)

Operand(r) == IF r = M THEN Peek(HL) ELSE reg[Name(r)]

\* Whether the condition of a jump, a call or a return holds.
Holds == (<<ZeroFlag, CarryFlag, ParityFlag, SignFlag>>[Pair + 1] \in status_) = (y \in Odd)

-----------------------------------------------------------------------------
(* What an instruction does, apart from what it is about.                  *)

Changes(r, s, sp, m) ==
  /\ reg' = r
  /\ status_' = s
  /\ sp_' = sp
  /\ memory' = m
  /\ UNCHANGED <<iff_, hlt_, image>>

ChangeOperand(r, v, s) ==
  \/ r = M /\ Changes(reg, s, sp_, Poke(HL, v))
  \/ r # M /\ Changes([reg EXCEPT ![Name(r)] = v], s, sp_, memory)

ChangePair(p, w) ==
  \/ p = 3 /\ Changes(reg, status_, w, memory)
  \/ p # 3 /\ Changes(SetPair(p, w), status_, sp_, memory)

ChangeA(result) ==
  Changes([reg EXCEPT !["a"] = result.value], result.status, sp_, memory)

Advance(length, t) == pc_' = Wrap(pc_ + length) /\ ticks' = t
Jump(to, t) == pc_' = to /\ ticks' = t

Popped == Uint16(Peek(Wrap(sp_ + 1)), Peek(sp_))
PushOnto(w) == Changes(reg, status_, Wrap(sp_ + 65534), Poke2(Wrap(sp_ + 65534), w))

-----------------------------------------------------------------------------
(* The instructions.                                                       *)

Nop == (Is(0, {0}, 0) \/ (x = 1 /\ y = z /\ y # M))
       /\ Changes(reg, status_, sp_, memory) /\ Advance(1, 4)

\* Not an instruction: a build without assertions skips it and returns 0 ticks.
NotImplemented ==
  /\ Changes(reg, status_, sp_, memory)
  /\ \/ (Is(0, 1..7, 0) \/ Is(3, {1}, 3) \/ Is(3, {3}, 1)) /\ Advance(1, 0)
     \/ Is(3, {3, 5, 7}, 5) /\ Advance(2, 0)

Lxi == Is(0, Even, 1) /\ ChangePair(Pair, Address) /\ Advance(3, 10)
Inx == Is(0, Even, 3) /\ ChangePair(Pair, Wrap(PairValue(Pair) + 1)) /\ Advance(1, 5)
Dcx == Is(0, Odd, 3) /\ ChangePair(Pair, Wrap(PairValue(Pair) + 65535)) /\ Advance(1, 5)

Dad == LET sum == PairValue(Pair) + HL
       IN  /\ Is(0, Odd, 1)
           /\ Changes(SetPair(2, Wrap(sum)), With(status_, CarryFlag, sum > 65535), sp_, memory)
           /\ Advance(1, 10)

Stax == Is(0, {0, 2}, 2) /\ Advance(1, 7)
        /\ Changes(reg, status_, sp_, Poke(PairValue(Pair), reg["a"]))
Ldax == Is(0, {1, 3}, 2) /\ Advance(1, 7)
        /\ Changes([reg EXCEPT !["a"] = Peek(PairValue(Pair))], status_, sp_, memory)
Shld == Is(0, {4}, 2) /\ Changes(reg, status_, sp_, Poke2(Address, HL)) /\ Advance(3, 16)
Lhld == Is(0, {5}, 2) /\ Advance(3, 16)
        /\ ChangePair(2, Uint16(Peek(Wrap(Address + 1)), Peek(Address)))
Sta == Is(0, {6}, 2) /\ Changes(reg, status_, sp_, Poke(Address, reg["a"])) /\ Advance(3, 13)
Lda == Is(0, {7}, 2) /\ Advance(3, 13)
       /\ Changes([reg EXCEPT !["a"] = Peek(Address)], status_, sp_, memory)

Step(by) == Add(status_, Operand(y), by, 0, FALSE)
Inr == Is(0, 0..7, 4) /\ ChangeOperand(y, Step(1).value, Step(1).status)
       /\ Advance(1, IF y = M THEN 10 ELSE 5)

Dcr_SettingCarry ==
  LET difference == Add(status_, Operand(y), 255, 0, TRUE)
  IN  Is(0, 0..7, 5) /\ ChangeOperand(y, difference.value, difference.status)
      /\ Advance(1, IF y = M THEN 10 ELSE 5)

Dcr == Is(0, 0..7, 5) /\ ChangeOperand(y, Step(255).value, Step(255).status)
       /\ Advance(1, IF y = M THEN 10 ELSE 5)
Mvi == Is(0, 0..7, 6) /\ ChangeOperand(y, Data, status_)
       /\ Advance(2, IF y = M THEN 10 ELSE 7)

RotateA == Is(0, 0..3, 7) /\ ChangeA(Rotate(y, status_, reg["a"])) /\ Advance(1, 4)
Daa == Is(0, {4}, 7) /\ ChangeA(Adjust(status_, reg["a"])) /\ Advance(1, 4)
Cma == Is(0, {5}, 7) /\ ChangeA([value |-> 255 - reg["a"], status |-> status_]) /\ Advance(1, 4)
Stc == Is(0, {6}, 7) /\ Advance(1, 4)
       /\ Changes(reg, With(status_, CarryFlag, TRUE), sp_, memory)
Cmc == Is(0, {7}, 7) /\ Advance(1, 4)
       /\ Changes(reg, With(status_, CarryFlag, CarryFlag \notin status_), sp_, memory)

Mov == x = 1 /\ y # z /\ ChangeOperand(y, Operand(z), status_)
       /\ Advance(1, IF M \in {y, z} THEN 7 ELSE 5)

Hlt ==
  /\ Is(1, {M}, M)
  /\ hlt_' = TRUE
  /\ Advance(1, 7)
  /\ UNCHANGED <<reg, sp_, status_, iff_, memory, image>>

\* Add, Adc, Sub, Sbb, Ana, Xra, Ora and Cmp of a register, of memory, of data.
Arithmetic ==
  \/ x = 2 /\ ChangeA(Alu(y, status_, reg["a"], Operand(z)))
     /\ Advance(1, IF z = M THEN 7 ELSE 4)
  \/ Is(3, 0..7, 6) /\ ChangeA(Alu(y, status_, reg["a"], Data)) /\ Advance(2, 7)

RetOnFlag ==
  \/ Is(3, {1}, 1) /\ Changes(reg, status_, Wrap(sp_ + 2), memory) /\ Jump(Popped, 10)
  \/ Is(3, 0..7, 0) /\ Holds
     /\ Changes(reg, status_, Wrap(sp_ + 2), memory) /\ Jump(Popped, 11)
  \/ Is(3, 0..7, 0) /\ ~Holds /\ Changes(reg, status_, sp_, memory) /\ Advance(1, 5)

JmpOnFlag ==
  /\ Changes(reg, status_, sp_, memory)
  /\ \/ (Is(3, {0}, 3) \/ (Is(3, 0..7, 2) /\ Holds)) /\ Jump(Address, 10)
     \/ Is(3, 0..7, 2) /\ ~Holds /\ Advance(3, 10)

CallOnFlag ==
  \/ (Is(3, {1}, 5) \/ (Is(3, 0..7, 4) /\ Holds))
     /\ PushOnto(Wrap(pc_ + 3)) /\ Jump(Address, 17)
  \/ Is(3, 0..7, 4) /\ ~Holds /\ Changes(reg, status_, sp_, memory) /\ Advance(3, 11)

Rst == Is(3, 0..7, 7) /\ PushOnto(Wrap(pc_ + 1)) /\ Jump(8 * y, 11)

Push ==
  /\ Is(3, Even, 5)
  /\ PushOnto(IF y = 6 THEN Uint16(reg["a"], Value(status_)) ELSE PairValue(Pair))
  /\ Advance(1, 11)

PopPsw_Unmasked(psw) == Bits(psw % 256)

\* The flags of a byte that is popped into them.
PopPsw(psw) == (Bits(psw % 256) \ {3, 5}) \cup {1}

Pop ==
  /\ \/ Is(3, {0, 2, 4}, 1)
        /\ Changes(SetPair(Pair, Popped), status_, Wrap(sp_ + 2), memory)
     \/ Is(3, {6}, 1)
        /\ Changes([reg EXCEPT !["a"] = Popped \div 256], PopPsw(Popped), Wrap(sp_ + 2), memory)
  /\ Advance(1, 10)

Out == Is(3, {2}, 3) /\ Changes(reg, status_, sp_, memory) /\ Advance(2, 10)
In == Is(3, {3}, 3) /\ Advance(2, 10)
      /\ \E v \in Inputs : Changes([reg EXCEPT !["a"] = v], status_, sp_, memory)

Xthl == Is(3, {4}, 3) /\ Advance(1, 18)
        /\ Changes(SetPair(2, Popped), status_, sp_, Poke2(sp_, HL))
Xchg == Is(3, {5}, 3) /\ Advance(1, 4)
        /\ Changes([SetPair(2, PairValue(1)) EXCEPT !["d"] = reg["h"], !["e"] = reg["l"]],
                   status_, sp_, memory)
Pchl == Is(3, {5}, 1) /\ Changes(reg, status_, sp_, memory) /\ Jump(HL, 5)
Sphl == Is(3, {7}, 1) /\ Changes(reg, status_, HL, memory) /\ Advance(1, 5)

Di == Is(3, {6}, 3) /\ iff_' = FALSE /\ Advance(1, 4)
      /\ UNCHANGED <<reg, sp_, status_, hlt_, memory, image>>
Ei == Is(3, {7}, 3) /\ iff_' = TRUE /\ Advance(1, 4)
      /\ UNCHANGED <<reg, sp_, status_, hlt_, memory, image>>

-----------------------------------------------------------------------------
Init ==
  /\ image \in Images
  /\ reg = image.reg /\ pc_ = image.pc /\ sp_ = image.sp
  /\ status_ = image.status \cup {1}
  /\ iff_ = FALSE /\ hlt_ = FALSE
  /\ memory = image.memory
  /\ ticks = 0

Instruction ==
  \/ Nop \/ NotImplemented \/ Hlt \/ Di \/ Ei \/ Out \/ In
  \/ Lxi \/ Inx \/ Dcx \/ Dad
  \/ Stax \/ Ldax \/ Shld \/ Lhld \/ Sta \/ Lda \/ Mvi \/ Mov \/ Xchg \/ Xthl
  \/ Inr \/ Dcr \/ RotateA \/ Daa \/ Cma \/ Stc \/ Cmc \/ Arithmetic
  \/ RetOnFlag \/ JmpOnFlag \/ CallOnFlag \/ Rst \/ Pchl \/ Sphl \/ Push \/ Pop

\* A halted cpu does nothing and says so.
Stall == ticks' = 0 /\ UNCHANGED <<reg, pc_, sp_, status_, iff_, hlt_, memory, image>>

Execute == (~hlt_ /\ Instruction) \/ (hlt_ /\ Stall)

Return_NextInstruction == Wrap(pc_ + 1)

\* Where an interrupted program goes on: pc_ is past the last instruction.
Return == pc_

\* An interrupt that is not enabled is lost.
Interrupt(isr) ==
  \/ /\ iff_
     /\ sp_' = Wrap(sp_ + 65534)
     /\ memory' = Poke2(Wrap(sp_ + 65534), Return)
     /\ Jump(8 * isr, 11)
     /\ iff_' = FALSE
     /\ hlt_' = FALSE
     /\ UNCHANGED <<reg, status_, image>>
  \/ ~iff_ /\ Stall

Next == Execute \/ \E isr \in Restarts : Interrupt(isr)

Spec == Init /\ [][Next]_vars

-----------------------------------------------------------------------------
(* Properties.                                                             *)

\* Every variable stays within its type: registers, addresses and cells keep
\* their widths, and no instruction takes more than 18 ticks.
TypeOK ==
  /\ reg \in [Names -> Byte]
  /\ pc_ \in Word /\ sp_ \in Word
  /\ status_ \subseteq Bit
  /\ iff_ \in BOOLEAN /\ hlt_ \in BOOLEAN
  /\ memory \in [Cells -> Byte]
  /\ ticks \in 0..18

\* Bit 1 of the status byte is always set and bits 3 and 5 never are, whatever
\* a program pops into it: PUSH PSW always writes "S Z 0 AC 0 P 1 C".
StatusShape == 1 \in status_ /\ status_ \subseteq Flags \cup {1}

\* The flags that the instruction about to be executed may change.
Affected ==
  IF \/ x = 2 \/ (x = 3 /\ z = 6) \/ Is(0, {4}, 7) \/ Is(3, {6}, 1) THEN Flags
  ELSE IF x = 0 /\ z \in {4, 5} THEN Flags \ {CarryFlag}
  ELSE IF Is(0, {0, 1, 2, 3, 6, 7}, 7) \/ Is(0, Odd, 1) THEN {CarryFlag}
  ELSE {}

\* No step changes a flag that its instruction is not said to affect: a loop may
\* count and move its pointers without losing the carry it hands on.
FlagsKept ==
  [][(status_ \ status_') \cup (status_' \ status_) \subseteq Affected]_vars

\* What the stack will be when w is popped off it.
Returns(w) == Popped' = w /\ Wrap(sp_' + 2) = sp_

\* What a call, a restart, an interrupt or a push leaves on the stack is what a
\* return or a pop takes off it, flags included, on a stack that wraps too: it is
\* written in one place of the code and read in another.
StackReturns ==
  [][{Wrap(sp_ + 65534), Wrap(sp_ + 65535)} \subseteq Cells =>
       /\ CallOnFlag /\ (z = 5 \/ Holds) => Returns(Wrap(pc_ + 3))
       /\ Rst => Returns(Wrap(pc_ + 1))
       /\ \A isr \in Restarts : iff_ /\ Interrupt(isr) => Returns(pc_)
       /\ Push /\ y # 6 => Returns(PairValue(Pair))
       /\ Push /\ y = 6 => /\ PopPsw(Popped') = status_ /\ Popped' \div 256 = reg["a"]
                          /\ Wrap(sp_' + 2) = sp_]_vars
=============================================================================
