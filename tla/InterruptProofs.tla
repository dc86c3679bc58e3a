-------------------------- MODULE InterruptProofs ---------------------------
(***************************************************************************)
(* A program does not notice that it is interrupted: for every program     *)
(* that leaves the cells below its stack alone, every handler that gives   *)
(* back what it takes, and handlers that interrupt one another.            *)
(***************************************************************************)
EXTENDS MCInterruptedCpu, Intel8080Proofs

-----------------------------------------------------------------------------
(* The operators of the two cpus that are not about their state.           *)

\* Flags, registers and the digits of opcodes.
LEMMA SameNames ==
  /\ Quiet!CarryFlag = CarryFlag /\ Quiet!ParityFlag = ParityFlag /\ Quiet!ZeroFlag = ZeroFlag
  /\ Quiet!SignFlag = SignFlag /\ Quiet!AuxCarryFlag = AuxCarryFlag /\ Quiet!Flags = Flags
  /\ Quiet!Even = Even /\ Quiet!Odd = Odd /\ Quiet!M = M /\ Quiet!Bit = Bit
  /\ \A r : Quiet!Name(r) = Name(r) /\ Quiet!High(r) = High(r) /\ Quiet!Low(r) = Low(r)
BY DEF Quiet!CarryFlag, CarryFlag, Quiet!ParityFlag, ParityFlag, Quiet!ZeroFlag, ZeroFlag,
  Quiet!SignFlag, SignFlag, Quiet!AuxCarryFlag, AuxCarryFlag, Quiet!Flags, Flags,
  Quiet!Even, Even, Quiet!Odd, Odd, Quiet!M, M, Quiet!Bit, Bit,
  Quiet!Name, Name, Quiet!High, High, Quiet!Low, Low

\* Words, and the bits of a byte.
LEMMA SameWords ==
  /\ \A n : Quiet!Wrap(n) = Wrap(n)
  /\ \A hi, low : Quiet!Uint16(hi, low) = Uint16(hi, low)
  /\ \A n : Quiet!Bits(n) = Bits(n)
  /\ \A bits : Quiet!Value(bits) = Value(bits)
  /\ \A bits, bit, on : Quiet!With(bits, bit, on) = With(bits, bit, on)
  /\ \A psw : Quiet!PopPsw(psw) = PopPsw(psw)
<1>1. \A n : Quiet!Bits(n) = Bits(n)
  BY SameNames DEF Quiet!Bits, Bits
<1>2. \A psw : Quiet!PopPsw(psw) = PopPsw(psw)
  BY <1>1 DEF Quiet!PopPsw, PopPsw
<1>3. \A bits : Quiet!Value(bits) = Value(bits)
  BY DEF Quiet!Value, Value
<1>4. /\ \A n : Quiet!Wrap(n) = Wrap(n)
      /\ \A hi, low : Quiet!Uint16(hi, low) = Uint16(hi, low)
      /\ \A bits, bit, on : Quiet!With(bits, bit, on) = With(bits, bit, on)
  BY DEF Quiet!Wrap, Wrap, Quiet!Uint16, Uint16, Quiet!With, With
<1> QED
  BY <1>1, <1>2, <1>3, <1>4

\* The sum and its flags.
LEMMA SameSums ==
  /\ \A s, r, carry, aux : Quiet!Outcome(s, r, carry, aux) = Outcome(s, r, carry, aux)
  /\ \A s, a, b, carry, set : Quiet!Add(s, a, b, carry, set) = Add(s, a, b, carry, set)
<1>1. \A r : Quiet!Signs(r) = Signs(r)
  <2> SUFFICES ASSUME NEW r PROVE Quiet!Signs(r) = Signs(r)
    OBVIOUS
  <2>1. \A f : f \in Signs(r) <=>
                 \/ f = SignFlag /\ r >= 128
                 \/ f = ZeroFlag /\ r = 0
                 \/ f = ParityFlag /\ Cardinality(Bits(r)) % 2 = 0
    BY DEF Signs
  <2>2. \A f : f \in Quiet!Signs(r) <=>
                 \/ f = SignFlag /\ r >= 128
                 \/ f = ZeroFlag /\ r = 0
                 \/ f = ParityFlag /\ Cardinality(Bits(r)) % 2 = 0
    <3>1. /\ Quiet!SignFlag = SignFlag /\ Quiet!ZeroFlag = ZeroFlag
          /\ Quiet!ParityFlag = ParityFlag /\ Quiet!Bits(r) = Bits(r)
      BY SameNames, SameWords
    <3>2. Quiet!Cardinality(Bits(r)) = Cardinality(Bits(r))
      BY DEF Quiet!Cardinality, Cardinality
    <3> QED
      BY <3>1, <3>2 DEF Quiet!Signs
  <2> QED
    BY <2>1, <2>2
<1>2. \A s, r, carry, aux : Quiet!Outcome(s, r, carry, aux) = Outcome(s, r, carry, aux)
  BY <1>1, SameNames, SameWords DEF Quiet!Outcome, Outcome
<1>3. \A s, a, b, carry, set : Quiet!Add(s, a, b, carry, set) = Add(s, a, b, carry, set)
  BY <1>2, SameNames DEF Quiet!Add, Add
<1> QED
  BY <1>2, <1>3

\* The arithmetic group, DAA and the rotations.
LEMMA SameArithmetic ==
  /\ \A op \in 0..7 : \A s, a, b : Quiet!Alu(op, s, a, b) = Alu(op, s, a, b)
  /\ \A s, a : Quiet!Adjust(s, a) = Adjust(s, a)
  /\ \A op, s, a : Quiet!Rotate(op, s, a) = Rotate(op, s, a)
<1>1. \A s, a, b, carry : Quiet!Sub(s, a, b, carry) = Sub(s, a, b, carry)
  <2> SUFFICES ASSUME NEW s, NEW a, NEW b, NEW carry
               PROVE  Quiet!Sub(s, a, b, carry) = Sub(s, a, b, carry)
    OBVIOUS
  <2> DEFINE sum == Add(s, a, 255 - b, 1 - carry, TRUE)
             status == With(sum.status, CarryFlag, CarryFlag \notin sum.status)
  <2>1. Sub(s, a, b, carry) = [sum EXCEPT !.status = status]
    BY DEF Sub
  <2>2. Quiet!Add(s, a, 255 - b, 1 - carry, TRUE) = sum
    BY SameSums
  <2>3. Quiet!With(sum.status, Quiet!CarryFlag, Quiet!CarryFlag \notin sum.status) = status
    BY SameNames, SameWords
  <2> DEFINE total == Quiet!Add(s, a, 255 - b, 1 - carry, TRUE)
             with == Quiet!With(total.status, Quiet!CarryFlag, Quiet!CarryFlag \notin total.status)
  <2>4. Quiet!Sub(s, a, b, carry) = [total EXCEPT !.status = with]
    BY DEF Quiet!Sub
  <2>5. total = sum
    BY <2>2
  <2> HIDE DEF sum, status, total
  <2>6. with = status
    BY <2>3, <2>5
  <2> HIDE DEF with
  <2> QED
    BY <2>1, <2>4, <2>5, <2>6
<1>2. \A s, a, b : /\ Quiet!Ana(s, a, b) = Ana(s, a, b) /\ Quiet!Xra(s, a, b) = Xra(s, a, b)
                   /\ Quiet!Ora(s, a, b) = Ora(s, a, b)
  BY SameSums, SameWords DEF Quiet!Ana, Ana, Quiet!Xra, Xra, Quiet!Ora, Ora
<1>3. \A op \in 0..7 : \A s, a, b : Quiet!Alu(op, s, a, b) = Alu(op, s, a, b)
  <2> SUFFICES ASSUME NEW op \in 0..7, NEW s, NEW a, NEW b
               PROVE  Quiet!Alu(op, s, a, b) = Alu(op, s, a, b)
    OBVIOUS
  <2>1. /\ \A carry : Quiet!Add(s, a, b, carry, TRUE) = Add(s, a, b, carry, TRUE)
        /\ \A carry : Quiet!Sub(s, a, b, carry) = Sub(s, a, b, carry)
        /\ Quiet!Ana(s, a, b) = Ana(s, a, b) /\ Quiet!Xra(s, a, b) = Xra(s, a, b)
        /\ Quiet!Ora(s, a, b) = Ora(s, a, b)
    BY <1>1, <1>2, SameSums
  <2> DEFINE carry == IF CarryFlag \in s THEN 1 ELSE 0
  <2>2. CASE op = 0
    <3>1. Alu(op, s, a, b) = Add(s, a, b, 0, TRUE)
      BY <2>2 DEF Alu
    <3>2. Quiet!Alu(op, s, a, b) = Quiet!Add(s, a, b, 0, TRUE)
      BY <2>2 DEF Quiet!Alu
    <3> QED
      BY <2>1, <3>1, <3>2
  <2>3. CASE op = 1
    <3>1. Alu(op, s, a, b) = Add(s, a, b, carry, TRUE)
      BY <2>3 DEF Alu
    <3>2. Quiet!Alu(op, s, a, b) = Quiet!Add(s, a, b, carry, TRUE)
      BY <2>3, SameNames DEF Quiet!Alu
    <3> QED
      <4> HIDE DEF carry
      <4> QED
        BY <2>1, <3>1, <3>2
  <2>4. CASE op = 2
    BY <2>1, <2>4, SameNames DEF Quiet!Alu, Alu
  <2>5. CASE op = 3
    BY <2>1, <2>5, SameNames DEF Quiet!Alu, Alu
  <2>6. CASE op = 4
    BY <2>1, <2>6, SameNames DEF Quiet!Alu, Alu
  <2>7. CASE op = 5
    BY <2>1, <2>7, SameNames DEF Quiet!Alu, Alu
  <2>8. CASE op = 6
    BY <2>1, <2>8, SameNames DEF Quiet!Alu, Alu
  <2>9. CASE op = 7
    BY <2>1, <2>9, SameNames DEF Quiet!Alu, Alu
  <2> QED
    BY <2>2, <2>3, <2>4, <2>5, <2>6, <2>7, <2>8, <2>9
<1>4. \A s, a : Quiet!Adjust(s, a) = Adjust(s, a)
  <2> SUFFICES ASSUME NEW s, NEW a PROVE Quiet!Adjust(s, a) = Adjust(s, a)
    OBVIOUS
  <2>1. \A t, k : Quiet!Add(t, a, k, 0, FALSE) = Add(t, a, k, 0, FALSE)
    BY SameSums
  <2>2. \A on : Quiet!With(s, Quiet!CarryFlag, on) = With(s, CarryFlag, on)
    BY SameNames, SameWords
  <2> QED
    BY <2>1, <2>2, SameNames DEF Quiet!Adjust, Adjust
<1>5. \A op, s, a : Quiet!Rotate(op, s, a) = Rotate(op, s, a)
  BY SameNames, SameWords DEF Quiet!Rotate, Rotate
<1> QED
  BY <1>3, <1>4, <1>5
-----------------------------------------------------------------------------
(* The instruction both execute.                                           *)

\* What the quiet cpu executes has the digits of its opcode.
LEMMA QuietGuards ==
  /\ Quiet!Nop => \/ Quiet!Is(0, {0}, 0)
                  \/ (Quiet!x = 1 /\ Quiet!y = Quiet!z /\ Quiet!y # Quiet!M)
  /\ Quiet!NotImplemented => \/ Quiet!Is(0, 1..7, 0)
                             \/ Quiet!Is(3, {1}, 3)
                             \/ Quiet!Is(3, {3}, 1)
                             \/ Quiet!Is(3, {3, 5, 7}, 5)
  /\ Quiet!Hlt => Quiet!Is(1, {Quiet!M}, Quiet!M)
  /\ Quiet!Di => Quiet!Is(3, {6}, 3)
  /\ Quiet!Ei => Quiet!Is(3, {7}, 3)
  /\ Quiet!Out => Quiet!Is(3, {2}, 3)
  /\ Quiet!In => Quiet!Is(3, {3}, 3)
  /\ Quiet!Lxi => Quiet!Is(0, Quiet!Even, 1)
  /\ Quiet!Inx => Quiet!Is(0, Quiet!Even, 3)
  /\ Quiet!Dcx => Quiet!Is(0, Quiet!Odd, 3)
  /\ Quiet!Dad => Quiet!Is(0, Quiet!Odd, 1)
  /\ Quiet!Stax => Quiet!Is(0, {0, 2}, 2)
  /\ Quiet!Ldax => Quiet!Is(0, {1, 3}, 2)
  /\ Quiet!Shld => Quiet!Is(0, {4}, 2)
  /\ Quiet!Lhld => Quiet!Is(0, {5}, 2)
  /\ Quiet!Sta => Quiet!Is(0, {6}, 2)
  /\ Quiet!Lda => Quiet!Is(0, {7}, 2)
  /\ Quiet!Mvi => Quiet!Is(0, 0..7, 6)
  /\ Quiet!Mov => Quiet!x = 1 /\ Quiet!y # Quiet!z
  /\ Quiet!Xchg => Quiet!Is(3, {5}, 3)
  /\ Quiet!Xthl => Quiet!Is(3, {4}, 3)
  /\ Quiet!Inr => Quiet!Is(0, 0..7, 4)
  /\ Quiet!Dcr => Quiet!Is(0, 0..7, 5)
  /\ Quiet!RotateA => Quiet!Is(0, 0..3, 7)
  /\ Quiet!Daa => Quiet!Is(0, {4}, 7)
  /\ Quiet!Cma => Quiet!Is(0, {5}, 7)
  /\ Quiet!Stc => Quiet!Is(0, {6}, 7)
  /\ Quiet!Cmc => Quiet!Is(0, {7}, 7)
  /\ Quiet!Arithmetic => Quiet!x = 2 \/ Quiet!Is(3, 0..7, 6)
  /\ Quiet!RetOnFlag => Quiet!Is(3, {1}, 1) \/ Quiet!Is(3, 0..7, 0)
  /\ Quiet!JmpOnFlag => Quiet!Is(3, {0}, 3) \/ Quiet!Is(3, 0..7, 2)
  /\ Quiet!CallOnFlag => Quiet!Is(3, {1}, 5) \/ Quiet!Is(3, 0..7, 4)
  /\ Quiet!Rst => Quiet!Is(3, 0..7, 7)
  /\ Quiet!Pchl => Quiet!Is(3, {5}, 1)
  /\ Quiet!Sphl => Quiet!Is(3, {7}, 1)
  /\ Quiet!Push => Quiet!Is(3, Quiet!Even, 5)
  /\ Quiet!Pop => Quiet!Is(3, {0, 2, 4}, 1) \/ Quiet!Is(3, {6}, 1)
<1>1. /\ Quiet!Nop => \/ Quiet!Is(0, {0}, 0)
                      \/ (Quiet!x = 1 /\ Quiet!y = Quiet!z /\ Quiet!y # Quiet!M)
      /\ Quiet!NotImplemented => \/ Quiet!Is(0, 1..7, 0)
                                 \/ Quiet!Is(3, {1}, 3)
                                 \/ Quiet!Is(3, {3}, 1)
                                 \/ Quiet!Is(3, {3, 5, 7}, 5)
      /\ Quiet!Hlt => Quiet!Is(1, {Quiet!M}, Quiet!M)
      /\ Quiet!Di => Quiet!Is(3, {6}, 3)
      /\ Quiet!Ei => Quiet!Is(3, {7}, 3)
  BY DEF Quiet!Nop, Quiet!NotImplemented, Quiet!Hlt, Quiet!Di, Quiet!Ei
<1>2. /\ Quiet!Out => Quiet!Is(3, {2}, 3)
      /\ Quiet!In => Quiet!Is(3, {3}, 3)
      /\ Quiet!Lxi => Quiet!Is(0, Quiet!Even, 1)
      /\ Quiet!Inx => Quiet!Is(0, Quiet!Even, 3)
      /\ Quiet!Dcx => Quiet!Is(0, Quiet!Odd, 3)
  BY DEF Quiet!Out, Quiet!In, Quiet!Lxi, Quiet!Inx, Quiet!Dcx
<1>3. /\ Quiet!Dad => Quiet!Is(0, Quiet!Odd, 1)
      /\ Quiet!Stax => Quiet!Is(0, {0, 2}, 2)
      /\ Quiet!Ldax => Quiet!Is(0, {1, 3}, 2)
      /\ Quiet!Shld => Quiet!Is(0, {4}, 2)
      /\ Quiet!Lhld => Quiet!Is(0, {5}, 2)
  BY DEF Quiet!Dad, Quiet!Stax, Quiet!Ldax, Quiet!Shld, Quiet!Lhld
<1>4. /\ Quiet!Sta => Quiet!Is(0, {6}, 2)
      /\ Quiet!Lda => Quiet!Is(0, {7}, 2)
      /\ Quiet!Mvi => Quiet!Is(0, 0..7, 6)
      /\ Quiet!Mov => Quiet!x = 1 /\ Quiet!y # Quiet!z
      /\ Quiet!Xchg => Quiet!Is(3, {5}, 3)
  BY DEF Quiet!Sta, Quiet!Lda, Quiet!Mvi, Quiet!Mov, Quiet!Xchg
<1>5. /\ Quiet!Xthl => Quiet!Is(3, {4}, 3)
      /\ Quiet!Inr => Quiet!Is(0, 0..7, 4)
      /\ Quiet!Dcr => Quiet!Is(0, 0..7, 5)
      /\ Quiet!RotateA => Quiet!Is(0, 0..3, 7)
      /\ Quiet!Daa => Quiet!Is(0, {4}, 7)
  BY DEF Quiet!Xthl, Quiet!Inr, Quiet!Dcr, Quiet!RotateA, Quiet!Daa
<1>6. /\ Quiet!Cma => Quiet!Is(0, {5}, 7)
      /\ Quiet!Stc => Quiet!Is(0, {6}, 7)
      /\ Quiet!Cmc => Quiet!Is(0, {7}, 7)
      /\ Quiet!Arithmetic => Quiet!x = 2 \/ Quiet!Is(3, 0..7, 6)
      /\ Quiet!RetOnFlag => Quiet!Is(3, {1}, 1) \/ Quiet!Is(3, 0..7, 0)
  BY DEF Quiet!Cma, Quiet!Stc, Quiet!Cmc, Quiet!Arithmetic, Quiet!RetOnFlag
<1>7. /\ Quiet!JmpOnFlag => Quiet!Is(3, {0}, 3) \/ Quiet!Is(3, 0..7, 2)
      /\ Quiet!CallOnFlag => Quiet!Is(3, {1}, 5) \/ Quiet!Is(3, 0..7, 4)
      /\ Quiet!Rst => Quiet!Is(3, 0..7, 7)
      /\ Quiet!Pchl => Quiet!Is(3, {5}, 1)
      /\ Quiet!Sphl => Quiet!Is(3, {7}, 1)
  BY DEF Quiet!JmpOnFlag, Quiet!CallOnFlag, Quiet!Rst, Quiet!Pchl, Quiet!Sphl
<1>8. /\ Quiet!Push => Quiet!Is(3, Quiet!Even, 5)
      /\ Quiet!Pop => Quiet!Is(3, {0, 2, 4}, 1) \/ Quiet!Is(3, {6}, 1)
  BY DEF Quiet!Push, Quiet!Pop
<1> QED
  BY <1>1, <1>2, <1>3, <1>4, <1>5, <1>6, <1>7, <1>8

\* Digits that are the same are the same instruction.
LEMMA SameInstruction ==
  ASSUME Quiet!Instruction, Quiet!x = x, Quiet!y = y, Quiet!z = z
  PROVE
  /\ (Nop => Quiet!Nop) /\ (NotImplemented => Quiet!NotImplemented) /\ (Hlt => Quiet!Hlt)
  /\ (Di => Quiet!Di) /\ (Ei => Quiet!Ei) /\ (Out => Quiet!Out)
  /\ (In => Quiet!In) /\ (Lxi => Quiet!Lxi) /\ (Inx => Quiet!Inx)
  /\ (Dcx => Quiet!Dcx) /\ (Dad => Quiet!Dad) /\ (Stax => Quiet!Stax)
  /\ (Ldax => Quiet!Ldax) /\ (Shld => Quiet!Shld) /\ (Lhld => Quiet!Lhld)
  /\ (Sta => Quiet!Sta) /\ (Lda => Quiet!Lda) /\ (Mvi => Quiet!Mvi)
  /\ (Mov => Quiet!Mov) /\ (Xchg => Quiet!Xchg) /\ (Xthl => Quiet!Xthl)
  /\ (Inr => Quiet!Inr) /\ (Dcr => Quiet!Dcr) /\ (RotateA => Quiet!RotateA)
  /\ (Daa => Quiet!Daa) /\ (Cma => Quiet!Cma) /\ (Stc => Quiet!Stc)
  /\ (Cmc => Quiet!Cmc) /\ (Arithmetic => Quiet!Arithmetic) /\ (RetOnFlag => Quiet!RetOnFlag)
  /\ (JmpOnFlag => Quiet!JmpOnFlag) /\ (CallOnFlag => Quiet!CallOnFlag) /\ (Rst => Quiet!Rst)
  /\ (Pchl => Quiet!Pchl) /\ (Sphl => Quiet!Sphl) /\ (Push => Quiet!Push)
  /\ (Pop => Quiet!Pop)
<1>1. \A group, ys, column : Quiet!Is(group, ys, column) <=> Is(group, ys, column)
  BY DEF Quiet!Is, Is
<1>2. Quiet!Even = Even /\ Quiet!Odd = Odd /\ Quiet!M = M
  BY SameNames
<1> QED
  BY <1>1, <1>2, Guards, QuietGuards DEF Quiet!Instruction, Is, Even, Odd, M

-----------------------------------------------------------------------------
(* The two cpus alike, and a step of both.                                 *)

\* All but the memory.
Alike ==
  /\ reg = quietReg /\ pc_ = quietPc /\ sp_ = quietSp /\ status_ = quietStatus
  /\ iff_ = quietIff /\ hlt_ = quietHlt

\* What an instruction fetches.
SameFetch ==
  Quiet!opcode = opcode /\ Quiet!Data = Data /\ Quiet!Address = Address

\* What it reads besides.
SameReads ==
  /\ \/ x = 2 /\ z = M
     \/ x = 1 /\ z = M /\ y # M
     \/ x = 0 /\ z \in {4, 5} /\ y = M
     => Quiet!Peek(HL) = Peek(HL)
  /\ Is(0, {1, 3}, 2) => Quiet!Peek(PairValue(Pair)) = Peek(PairValue(Pair))
  /\ Is(0, {5}, 2) \/ Is(0, {7}, 2) => Quiet!Peek(Address) = Peek(Address)
  /\ Is(0, {5}, 2) => Quiet!Peek(Wrap(Address + 1)) = Peek(Wrap(Address + 1))
  /\ Quiet!Popped = Popped

Mapped == DOMAIN memory = Cells /\ DOMAIN quietMemory = Cells

\* What is the same in both memories stays the same.
Carried == \A a \in Cells : memory[a] = quietMemory[a] => memory'[a] = quietMemory'[a]

Together == Alike' /\ Carried /\ DOMAIN quietMemory' = Cells

\* The parts of an opcode and the operands that are not memory.
LEMMA SameOperands ==
  ASSUME Alike, SameFetch
  PROVE  /\ Quiet!x = x /\ Quiet!y = y /\ Quiet!z = z /\ Quiet!Pair = Pair
         /\ Quiet!Data = Data /\ Quiet!Address = Address /\ Quiet!HL = HL
         /\ \A group, ys, column : Quiet!Is(group, ys, column) <=> Is(group, ys, column)
         /\ \A p : Quiet!PairValue(p) = PairValue(p)
         /\ \A p, w : Quiet!SetPair(p, w) = SetPair(p, w)
         /\ Quiet!Holds <=> Holds
<1>1. Quiet!x = x /\ Quiet!y = y /\ Quiet!z = z
  BY DEF SameFetch, Quiet!x, x, Quiet!y, y, Quiet!z, z
<1>2. Quiet!Pair = Pair
  BY <1>1 DEF Quiet!Pair, Pair
<1>3. \A group, ys, column : Quiet!Is(group, ys, column) <=> Is(group, ys, column)
  BY <1>1 DEF Quiet!Is, Is
<1>4. \A p : Quiet!PairValue(p) = PairValue(p)
  BY SameNames, SameWords DEF Alike, Quiet!PairValue, PairValue
<1>5. \A p, w : Quiet!SetPair(p, w) = SetPair(p, w)
  BY SameNames DEF Alike, Quiet!SetPair, SetPair
<1>6. Quiet!Holds <=> Holds
  BY <1>1, <1>2, SameNames DEF Alike, Quiet!Holds, Holds
<1>7. Quiet!HL = HL
  BY <1>4 DEF Quiet!HL, HL
<1> QED
  BY <1>1, <1>2, <1>3, <1>4, <1>5, <1>6, <1>7 DEF SameFetch

\* Both cells written alike.
LEMMA PokesCarry ==
  ASSUME Mapped, NEW a, NEW v
  PROVE  /\ memory' = memory /\ quietMemory' = quietMemory
              => Carried /\ DOMAIN quietMemory' = Cells
         /\ memory' = Poke(a, v) /\ quietMemory' = Quiet!Poke(a, v)
              => Carried /\ DOMAIN quietMemory' = Cells
         /\ memory' = Poke2(a, v) /\ quietMemory' = Quiet!Poke2(a, v)
              => Carried /\ DOMAIN quietMemory' = Cells
<1>1. memory' = memory /\ quietMemory' = quietMemory
        => Carried /\ DOMAIN quietMemory' = Cells
  BY DEF Mapped, Carried
<1>2. memory' = Poke(a, v) /\ quietMemory' = Quiet!Poke(a, v)
        => Carried /\ DOMAIN quietMemory' = Cells
  BY DEF Mapped, Carried, Poke, Quiet!Poke
<1>3. memory' = Poke2(a, v) /\ quietMemory' = Quiet!Poke2(a, v)
        => Carried /\ DOMAIN quietMemory' = Cells
  <2> DEFINE lo == v % 256
             hi == v \div 256
             next == Wrap(a + 1)
  <2>1. Poke2(a, v) = [[memory EXCEPT ![a] = lo] EXCEPT ![next] = hi]
    BY DEF Poke2, Poke
  <2>2. Quiet!Poke2(a, v) = [[quietMemory EXCEPT ![a] = lo] EXCEPT ![next] = hi]
    BY SameWords DEF Quiet!Poke2, Quiet!Poke
  <2> HIDE DEF lo, hi, next
  <2> QED
    BY <2>1, <2>2 DEF Mapped, Carried
<1> QED
  BY <1>1, <1>2, <1>3

\* Instructions that go on at the next one.
LEMMA AdvanceTogether ==
  ASSUME Alike, NEW length, NEW t, Advance(length, t), Quiet!Advance(length, t)
  PROVE  pc_' = quietPc'
BY SameWords DEF Alike, Advance, Quiet!Advance

\* Instructions that change what Changes changes.
LEMMA ChangesTogether ==
  ASSUME Alike, Mapped, NEW r, NEW s, NEW sp, NEW m, NEW q, pc_' = quietPc',
         Changes(r, s, sp, m), Quiet!Changes(r, s, sp, q),
         \/ m = memory /\ q = quietMemory
         \/ \E a, v : m = Poke(a, v) /\ q = Quiet!Poke(a, v)
         \/ \E a, v : m = Poke2(a, v) /\ q = Quiet!Poke2(a, v)
  PROVE  Together
<1>1. memory' = m /\ quietMemory' = q /\ Alike'
  BY DEF Changes, Quiet!Changes, Alike
<1>2. Carried /\ DOMAIN quietMemory' = Cells
  BY <1>1, PokesCarry
<1> QED
  BY <1>1, <1>2 DEF Together

\* A pair or the stack pointer.
LEMMA ChangePairTogether ==
  ASSUME Alike, Mapped, SameFetch, NEW p, NEW w, pc_' = quietPc',
         ChangePair(p, w), Quiet!ChangePair(p, w)
  PROVE  Together
BY SameOperands, ChangesTogether DEF Alike, ChangePair, Quiet!ChangePair

\* A register or the cell at HL.
LEMMA ChangeOperandTogether ==
  ASSUME Alike, Mapped, SameFetch, NEW r, NEW v, NEW s, pc_' = quietPc',
         ChangeOperand(r, v, s), Quiet!ChangeOperand(r, v, s)
  PROVE  Together
BY SameOperands, SameNames, ChangesTogether DEF Alike, ChangeOperand, Quiet!ChangeOperand

\* The accumulator.
LEMMA ChangeATogether ==
  ASSUME Alike, Mapped, NEW result, pc_' = quietPc',
         ChangeA(result), Quiet!ChangeA(result)
  PROVE  Together
BY ChangesTogether DEF Alike, ChangeA, Quiet!ChangeA

\* The stack.
LEMMA PushTogether ==
  ASSUME Alike, Mapped, NEW w, pc_' = quietPc', PushOnto(w), Quiet!PushOnto(w)
  PROVE  /\ Together
         /\ \A a \in Cells \cap {sp_', Wrap(sp_' + 1)} : memory'[a] = quietMemory'[a]
<1> DEFINE to == Wrap(sp_ + 65534)
<1>1. /\ Changes(reg, status_, to, Poke2(to, w))
      /\ Quiet!Changes(reg, status_, to, Quiet!Poke2(to, w))
  BY SameWords DEF Alike, PushOnto, Quiet!PushOnto
<1>2. Together
  BY <1>1, ChangesTogether
<1>3. \A a \in Cells \cap {to, Wrap(to + 1)} : memory'[a] = quietMemory'[a]
  <2> DEFINE lo == w % 256
             hi == w \div 256
             next == Wrap(to + 1)
  <2>1. memory' = [[memory EXCEPT ![to] = lo] EXCEPT ![next] = hi]
    BY <1>1 DEF Changes, Poke2, Poke
  <2>2. quietMemory' = [[quietMemory EXCEPT ![to] = lo] EXCEPT ![next] = hi]
    <3>1. Quiet!Wrap(to + 1) = next
      BY SameWords
    <3>2. quietMemory' = Quiet!Poke2(to, w)
      BY <1>1 DEF Quiet!Changes
    <3> HIDE DEF to
    <3> QED
      BY <3>1, <3>2 DEF Quiet!Poke2, Quiet!Poke
  <2> HIDE DEF lo, hi, next, to
  <2>3. \A a \in Cells \cap {to, next} : memory'[a] = quietMemory'[a]
    BY <2>1, <2>2 DEF Mapped
  <2> QED
    BY <2>3 DEF next
<1>4. sp_' = to
  BY <1>1 DEF Changes
<1> QED
  BY <1>2, <1>3, <1>4

\* NOP, jumps and the other instructions that only move pc_ or a switch.
LEMMA ControlTogether ==
  ASSUME Alike, Mapped, SameFetch
  PROVE  /\ Nop /\ Quiet!Nop => Together
         /\ NotImplemented /\ Quiet!NotImplemented => Together
         /\ Hlt /\ Quiet!Hlt => Together
         /\ Di /\ Quiet!Di => Together
         /\ Ei /\ Quiet!Ei => Together
         /\ Out /\ Quiet!Out => Together
         /\ JmpOnFlag /\ Quiet!JmpOnFlag => Together
         /\ Pchl /\ Quiet!Pchl => Together
         /\ Sphl /\ Quiet!Sphl => Together
<1>1. ASSUME Nop, Quiet!Nop PROVE Together
  BY <1>1, AdvanceTogether, ChangesTogether DEF Nop, Quiet!Nop, Alike
<1>2. ASSUME NotImplemented, Quiet!NotImplemented PROVE Together
  <2>1. pc_' = quietPc'
    BY <1>2, AdvanceTogether, SameOperands DEF NotImplemented, Quiet!NotImplemented, Is
  <2> QED
    BY <1>2, <2>1, ChangesTogether DEF NotImplemented, Quiet!NotImplemented, Alike
<1>3. /\ (Hlt /\ Quiet!Hlt) \/ (Di /\ Quiet!Di) \/ (Ei /\ Quiet!Ei) => Together
  <2>1. UNCHANGED <<memory, quietMemory>> => Carried /\ DOMAIN quietMemory' = Cells
    BY PokesCarry
  <2>2. (Hlt /\ Quiet!Hlt) \/ (Di /\ Quiet!Di) \/ (Ei /\ Quiet!Ei) => pc_' = quietPc'
    BY AdvanceTogether DEF Hlt, Quiet!Hlt, Di, Quiet!Di, Ei, Quiet!Ei
  <2> QED
    BY <2>1, <2>2 DEF Hlt, Quiet!Hlt, Di, Quiet!Di, Ei, Quiet!Ei, Alike, Together
<1>4. ASSUME Out, Quiet!Out PROVE Together
  BY <1>4, AdvanceTogether, ChangesTogether DEF Out, Quiet!Out, Alike
<1>5. ASSUME JmpOnFlag, Quiet!JmpOnFlag PROVE Together
  <2>1. pc_' = quietPc'
    BY <1>5, AdvanceTogether, SameOperands
    DEF JmpOnFlag, Quiet!JmpOnFlag, Is, Jump, Quiet!Jump
  <2> QED
    BY <1>5, <2>1, ChangesTogether DEF JmpOnFlag, Quiet!JmpOnFlag, Alike
<1>6. ASSUME Pchl, Quiet!Pchl PROVE Together
  BY <1>6, SameOperands, ChangesTogether DEF Pchl, Quiet!Pchl, Jump, Quiet!Jump, Alike
<1>7. ASSUME Sphl, Quiet!Sphl PROVE Together
  BY <1>7, SameOperands, AdvanceTogether, ChangesTogether DEF Sphl, Quiet!Sphl, Alike
<1> QED
  BY <1>1, <1>2, <1>3, <1>4, <1>5, <1>6, <1>7

\* Pairs.
LEMMA PairsTogether ==
  ASSUME Alike, Mapped, SameFetch
  PROVE  /\ Lxi /\ Quiet!Lxi => Together
         /\ Inx /\ Quiet!Inx => Together
         /\ Dcx /\ Quiet!Dcx => Together
         /\ Dad /\ Quiet!Dad => Together
         /\ Xchg /\ Quiet!Xchg => Together
<1>1. ASSUME Lxi, Quiet!Lxi PROVE Together
  BY <1>1, SameOperands, AdvanceTogether, ChangePairTogether DEF Lxi, Quiet!Lxi
<1>2. ASSUME Inx, Quiet!Inx PROVE Together
  BY <1>2, SameOperands, SameWords, AdvanceTogether, ChangePairTogether DEF Inx, Quiet!Inx
<1>3. ASSUME Dcx, Quiet!Dcx PROVE Together
  BY <1>3, SameOperands, SameWords, AdvanceTogether, ChangePairTogether DEF Dcx, Quiet!Dcx
<1>4. ASSUME Dad, Quiet!Dad PROVE Together
  BY <1>4, SameOperands, SameWords, SameNames, AdvanceTogether, ChangesTogether
  DEF Dad, Quiet!Dad, Alike
<1>5. ASSUME Xchg, Quiet!Xchg PROVE Together
  BY <1>5, SameOperands, AdvanceTogether, ChangesTogether DEF Xchg, Quiet!Xchg, Alike
<1> QED
  BY <1>1, <1>2, <1>3, <1>4, <1>5

\* Loads and stores.
LEMMA MemoryTogether ==
  ASSUME Alike, Mapped, SameFetch, SameReads
  PROVE  /\ Stax /\ Quiet!Stax => Together
         /\ Ldax /\ Quiet!Ldax => Together
         /\ Shld /\ Quiet!Shld => Together
         /\ Lhld /\ Quiet!Lhld => Together
         /\ Sta /\ Quiet!Sta => Together
         /\ Lda /\ Quiet!Lda => Together
         /\ Xthl /\ Quiet!Xthl => Together
         /\ Mvi /\ Quiet!Mvi => Together
<1>1. ASSUME Stax, Quiet!Stax PROVE Together
  BY <1>1, SameOperands, AdvanceTogether, ChangesTogether DEF Stax, Quiet!Stax, Alike
<1>2. ASSUME Ldax, Quiet!Ldax PROVE Together
  BY <1>2, SameOperands, AdvanceTogether, ChangesTogether
  DEF Ldax, Quiet!Ldax, Alike, SameReads
<1>3. ASSUME Shld, Quiet!Shld PROVE Together
  BY <1>3, SameOperands, AdvanceTogether, ChangesTogether DEF Shld, Quiet!Shld, Alike
<1>4. ASSUME Lhld, Quiet!Lhld PROVE Together
  <2>1. Is(0, {5}, 2)
    BY <1>4 DEF Lhld
  <2>2. /\ Quiet!Peek(Address) = Peek(Address)
        /\ Quiet!Peek(Wrap(Address + 1)) = Peek(Wrap(Address + 1))
    BY <2>1 DEF SameReads
  <2> QED
    BY <1>4, <2>2, SameOperands, SameWords, AdvanceTogether, ChangePairTogether
    DEF Lhld, Quiet!Lhld
<1>5. ASSUME Sta, Quiet!Sta PROVE Together
  BY <1>5, SameOperands, AdvanceTogether, ChangesTogether DEF Sta, Quiet!Sta, Alike
<1>6. ASSUME Lda, Quiet!Lda PROVE Together
  BY <1>6, SameOperands, AdvanceTogether, ChangesTogether
  DEF Lda, Quiet!Lda, Alike, SameReads
<1>7. ASSUME Xthl, Quiet!Xthl PROVE Together
  BY <1>7, SameOperands, AdvanceTogether, ChangesTogether
  DEF Xthl, Quiet!Xthl, Alike, SameReads
<1>8. ASSUME Mvi, Quiet!Mvi PROVE Together
  BY <1>8, SameOperands, SameNames, AdvanceTogether, ChangeOperandTogether
  DEF Mvi, Quiet!Mvi, Alike
<1> QED
  BY <1>1, <1>2, <1>3, <1>4, <1>5, <1>6, <1>7, <1>8

\* The operand of an instruction.
LEMMA SameOperand ==
  ASSUME Alike, SameFetch, SameReads
  PROVE  /\ x = 2 \/ (x = 1 /\ y # z) => Quiet!Operand(z) = Operand(z)
         /\ x = 0 /\ z \in {4, 5} => Quiet!Operand(y) = Operand(y)
BY SameOperands, SameNames DEF SameReads, Alike, Quiet!Operand, Operand

\* Moves, arithmetic and logic.
LEMMA ArithmeticTogether ==
  ASSUME Alike, Mapped, SameFetch, SameReads, y \in 0..7
  PROVE  /\ Mov /\ Quiet!Mov => Together
         /\ Inr /\ Quiet!Inr => Together
         /\ Dcr /\ Quiet!Dcr => Together
         /\ RotateA /\ Quiet!RotateA => Together
         /\ Daa /\ Quiet!Daa => Together
         /\ Cma /\ Quiet!Cma => Together
         /\ Stc /\ Quiet!Stc => Together
         /\ Cmc /\ Quiet!Cmc => Together
         /\ Arithmetic /\ Quiet!Arithmetic => Together
<1>1. ASSUME Mov, Quiet!Mov PROVE Together
  <2>1. Quiet!Operand(z) = Operand(z)
    BY <1>1, SameOperand DEF Mov
  <2> QED
    BY <1>1, <2>1, SameOperands, SameNames, AdvanceTogether, ChangeOperandTogether
    DEF Mov, Quiet!Mov, Alike
<1>2. ASSUME x = 0, z \in {4, 5}, NEW by PROVE Quiet!Step(by) = Step(by)
  <2>1. Quiet!Operand(y) = Operand(y)
    BY <1>2, SameOperand
  <2> QED
    BY <2>1, SameOperands, SameSums DEF Quiet!Step, Step, Alike
<1>3. ASSUME Inr, Quiet!Inr PROVE Together
  BY <1>2, <1>3, SameOperands, SameNames, AdvanceTogether, ChangeOperandTogether
  DEF Inr, Quiet!Inr, Is
<1>4. ASSUME Dcr, Quiet!Dcr PROVE Together
  BY <1>2, <1>4, SameOperands, SameNames, AdvanceTogether, ChangeOperandTogether
  DEF Dcr, Quiet!Dcr, Is
<1>5. ASSUME RotateA, Quiet!RotateA PROVE Together
  BY <1>5, SameOperands, SameArithmetic, AdvanceTogether, ChangeATogether
  DEF RotateA, Quiet!RotateA, Alike
<1>6. ASSUME Daa, Quiet!Daa PROVE Together
  BY <1>6, SameArithmetic, AdvanceTogether, ChangeATogether DEF Daa, Quiet!Daa, Alike
<1>7. ASSUME Cma, Quiet!Cma PROVE Together
  BY <1>7, AdvanceTogether, ChangeATogether DEF Cma, Quiet!Cma, Alike
<1>8. ASSUME Stc, Quiet!Stc PROVE Together
  BY <1>8, SameNames, SameWords, AdvanceTogether, ChangesTogether DEF Stc, Quiet!Stc, Alike
<1>9. ASSUME Cmc, Quiet!Cmc PROVE Together
  BY <1>9, SameNames, SameWords, AdvanceTogether, ChangesTogether DEF Cmc, Quiet!Cmc, Alike
<1>10. ASSUME Arithmetic, Quiet!Arithmetic PROVE Together
  <2>1. \A a, b : Quiet!Alu(y, status_, a, b) = Alu(y, status_, a, b)
    BY SameArithmetic
  <2>2. CASE x = 2
    <3>1. Quiet!Operand(z) = Operand(z)
      BY <2>2, SameOperand
    <3>2. /\ ChangeA(Alu(y, status_, reg["a"], Operand(z)))
          /\ Quiet!ChangeA(Alu(y, status_, reg["a"], Operand(z)))
      BY <1>10, <2>1, <2>2, <3>1, SameOperands DEF Arithmetic, Quiet!Arithmetic, Is, Alike
    <3>3. pc_' = quietPc'
      BY <1>10, <2>2, SameOperands, SameNames, AdvanceTogether
      DEF Arithmetic, Quiet!Arithmetic, Is
    <3> QED
      BY <3>2, <3>3, ChangeATogether
  <2>3. CASE x # 2
    <3>1. /\ ChangeA(Alu(y, status_, reg["a"], Data))
          /\ Quiet!ChangeA(Alu(y, status_, reg["a"], Data))
      BY <1>10, <2>1, <2>3, SameOperands DEF Arithmetic, Quiet!Arithmetic, Is, Alike
    <3>2. pc_' = quietPc'
      BY <1>10, <2>3, SameOperands, AdvanceTogether DEF Arithmetic, Quiet!Arithmetic, Is
    <3> QED
      BY <3>1, <3>2, ChangeATogether
  <2> QED
    BY <2>2, <2>3
<1> QED
  BY <1>1, <1>3, <1>4, <1>5, <1>6, <1>7, <1>8, <1>9, <1>10

\* Whether the instruction may push a word.
Pushing == x = 3 /\ z \in {4, 5, 7}

\* The cells that were pushed.
PushedAlike ==
  Pushing /\ sp_' = Wrap(sp_ + 65534) =>
    \A a \in Cells \cap {sp_', Wrap(sp_' + 1)} : memory'[a] = quietMemory'[a]

\* Calls, returns and the stack.
LEMMA StackTogether ==
  ASSUME Alike, Mapped, SameFetch, SameReads, sp_ \in Word
  PROVE  /\ RetOnFlag /\ Quiet!RetOnFlag => Together
         /\ Pop /\ Quiet!Pop => Together
         /\ CallOnFlag /\ Quiet!CallOnFlag => Together /\ PushedAlike
         /\ Rst /\ Quiet!Rst => Together /\ PushedAlike
         /\ Push /\ Quiet!Push => Together /\ PushedAlike
<1>1. ASSUME RetOnFlag, Quiet!RetOnFlag PROVE Together
  <2>1. pc_' = quietPc'
    BY <1>1, SameOperands, AdvanceTogether
    DEF RetOnFlag, Quiet!RetOnFlag, Is, SameReads, Jump, Quiet!Jump
  <2>2. \/ /\ Changes(reg, status_, Wrap(sp_ + 2), memory)
           /\ Quiet!Changes(reg, status_, Wrap(sp_ + 2), quietMemory)
        \/ /\ Changes(reg, status_, sp_, memory)
           /\ Quiet!Changes(reg, status_, sp_, quietMemory)
    BY <1>1, SameOperands, SameWords DEF RetOnFlag, Quiet!RetOnFlag, Is, Alike
  <2> QED
    BY <2>1, <2>2, ChangesTogether
<1>2. ASSUME Pop, Quiet!Pop PROVE Together
  <2>1. pc_' = quietPc'
    BY <1>2, AdvanceTogether DEF Pop, Quiet!Pop
  <2>2. \/ /\ Changes(SetPair(Pair, Popped), status_, Wrap(sp_ + 2), memory)
           /\ Quiet!Changes(SetPair(Pair, Popped), status_, Wrap(sp_ + 2), quietMemory)
        \/ /\ Changes([reg EXCEPT !["a"] = Popped \div 256], PopPsw(Popped), Wrap(sp_ + 2), memory)
           /\ Quiet!Changes([reg EXCEPT !["a"] = Popped \div 256], PopPsw(Popped),
                            Wrap(sp_ + 2), quietMemory)
    <3>1. /\ Quiet!SetPair(Quiet!Pair, Quiet!Popped) = SetPair(Pair, Popped)
          /\ Quiet!Wrap(quietSp + 2) = Wrap(sp_ + 2)
          /\ Quiet!PopPsw(Quiet!Popped) = PopPsw(Popped)
          /\ Quiet!Popped = Popped
      BY SameOperands, SameWords DEF SameReads, Alike
    <3>2. \A ys, column : Quiet!Is(3, ys, column) <=> Is(3, ys, column)
      BY SameOperands
    <3>3. ~(Is(3, {0, 2, 4}, 1) /\ Is(3, {6}, 1))
      BY DEF Is
    <3> QED
      BY <1>2, <3>1, <3>2, <3>3 DEF Pop, Quiet!Pop, Alike
  <2> QED
    BY <2>1, <2>2, ChangesTogether
<1>3. ASSUME NEW w, PushOnto(w), Quiet!PushOnto(w), pc_' = quietPc'
      PROVE  Together /\ PushedAlike
  BY <1>3, PushTogether DEF PushedAlike
<1>4. ASSUME CallOnFlag, Quiet!CallOnFlag PROVE Together /\ PushedAlike
  <2>1. pc_' = quietPc'
    BY <1>4, SameOperands, AdvanceTogether
    DEF CallOnFlag, Quiet!CallOnFlag, Is, Jump, Quiet!Jump
  <2>2. \/ /\ PushOnto(Wrap(pc_ + 3)) /\ Quiet!PushOnto(Wrap(pc_ + 3))
        \/ /\ Changes(reg, status_, sp_, memory)
           /\ Quiet!Changes(reg, status_, sp_, quietMemory)
    BY <1>4, SameOperands, SameWords DEF CallOnFlag, Quiet!CallOnFlag, Is, Alike
  <2>3. CASE PushOnto(Wrap(pc_ + 3)) /\ Quiet!PushOnto(Wrap(pc_ + 3))
    BY <1>3, <2>1, <2>3
  <2>4. CASE /\ Changes(reg, status_, sp_, memory)
             /\ Quiet!Changes(reg, status_, sp_, quietMemory)
    <3>1. sp_' = sp_
      BY <2>4 DEF Changes
    <3>2. Wrap(sp_ + 65534) # sp_
      BY WordRange DEF Wrap
    <3> QED
      BY <2>1, <2>4, <3>1, <3>2, ChangesTogether DEF PushedAlike
  <2> QED
    BY <2>2, <2>3, <2>4
<1>5. ASSUME Rst, Quiet!Rst PROVE Together /\ PushedAlike
  BY <1>3, <1>5, SameOperands, SameWords DEF Rst, Quiet!Rst, Jump, Quiet!Jump, Alike
<1>6. ASSUME Push, Quiet!Push PROVE Together /\ PushedAlike
  <2>1. pc_' = quietPc'
    BY <1>6, AdvanceTogether DEF Push, Quiet!Push
  <2>2. \E w : PushOnto(w) /\ Quiet!PushOnto(w)
    BY <1>6, SameOperands, SameWords DEF Push, Quiet!Push, Alike
  <2> QED
    BY <1>3, <2>1, <2>2
<1> QED
  BY <1>1, <1>2, <1>4, <1>5, <1>6

\* An instruction that both execute, unless it reads a port.
LEMMA InstructionTogether ==
  ASSUME Alike, Mapped, SameFetch, SameReads, TypeOK, ~In, Instruction, Quiet!Instruction
  PROVE  Together /\ PushedAlike
<1>1. y \in 0..7 /\ z \in 0..7 /\ sp_ \in Word
  BY Fields DEF TypeOK
<1>2. Quiet!x = x /\ Quiet!y = y /\ Quiet!z = z
  BY SameOperands
<1>3. CallOnFlag \/ Rst \/ Push => Together /\ PushedAlike
  BY <1>1, <1>2, SameInstruction, StackTogether
<1>4. ASSUME ~(CallOnFlag \/ Rst \/ Push) PROVE Together
  BY <1>1, <1>2, <1>4, SameInstruction, StackTogether, ArithmeticTogether, MemoryTogether,
     PairsTogether, ControlTogether DEF Instruction
<1>5. ASSUME ~(CallOnFlag \/ Rst \/ Push), Pushing PROVE NotImplemented
  <2>1. ~Is(3, Even, 5) /\ ~Is(3, {1}, 5) /\ ~Is(3, 0..7, 4) /\ ~Is(3, 0..7, 7)
    BY <1>5, Decoded
  <2>2. Is(3, {3, 5, 7}, 5)
    BY <1>1, <1>5, <2>1 DEF Pushing, Is, Even
  <2> QED
    BY <2>2, Decoded
<1>6. NotImplemented => PushedAlike
  <2>1. Wrap(sp_ + 65534) # sp_
    BY <1>1, WordRange DEF Wrap
  <2> QED
    BY <2>1 DEF NotImplemented, Changes, PushedAlike
<1> QED
  BY <1>3, <1>4, <1>5, <1>6 DEF PushedAlike

-----------------------------------------------------------------------------
(* Handlers.                                                               *)

\* The pairs by number: bc, de, hl, and the accumulator with the flags.
Pairs == 0..3

\* The instructions that store nothing, leave the stack and the switches alone
\* and go on at the next one: their length and the pairs that they may change.
Computes(op, length, touched) ==
  LET u == op \div 64
      v == (op \div 8) % 8
      w == op % 8
  IN  \/ op = 0 /\ length = 1 /\ touched = {}
      \/ u = 0 /\ v \in {0, 2, 4} /\ w = 1 /\ length = 3 /\ touched = {v \div 2}
      \/ u = 0 /\ v \in Odd /\ w = 1 /\ length = 1 /\ touched = {2, 3}
      \/ u = 0 /\ v \in {1, 3} /\ w = 2 /\ length = 1 /\ touched = {3}
      \/ u = 0 /\ v = 5 /\ w = 2 /\ length = 3 /\ touched = {2}
      \/ u = 0 /\ v = 7 /\ w = 2 /\ length = 3 /\ touched = {3}
      \/ u = 0 /\ v < 6 /\ w = 3 /\ length = 1 /\ touched = {v \div 2}
      \/ u = 0 /\ v # M /\ w \in {4, 5} /\ length = 1 /\ touched = {v \div 2, 3}
      \/ u = 0 /\ v # M /\ w = 6 /\ length = 2 /\ touched = {v \div 2}
      \/ u = 0 /\ w = 7 /\ length = 1 /\ touched = {3}
      \/ u = 1 /\ v # M /\ length = 1 /\ touched = {v \div 2}
      \/ u = 2 /\ length = 1 /\ touched = {3}
      \/ u = 3 /\ w = 6 /\ length = 2 /\ touched = {3}
      \/ op = 211 /\ length = 2 /\ touched = {}
      \/ op = 219 /\ length = 2 /\ touched = {3}
      \/ op = 235 /\ length = 1 /\ touched = {1, 2}

\* A pair that a step leaves as it is.
PairKept(p) ==
  IF p = 3 THEN reg'["a"] = reg["a"] /\ status_' = status_
           ELSE reg'[High(p)] = reg[High(p)] /\ reg'[Low(p)] = reg[Low(p)]

\* What an instruction of a handler may do that is neither PUSH, POP, EI nor RET.
Computed(length, touched) ==
  /\ pc_' = Wrap(pc_ + length)
  /\ UNCHANGED <<sp_, memory, iff_, hlt_, image>>
  /\ \A p \in Pairs \ touched : PairKept(p)

\* The registers are those of the pairs.
LEMMA NamedPairs ==
  /\ High(0) = "b" /\ Low(0) = "c" /\ High(1) = "d" /\ Low(1) = "e"
  /\ High(2) = "h" /\ Low(2) = "l"
  /\ Name(0) = "b" /\ Name(1) = "c" /\ Name(2) = "d" /\ Name(3) = "e"
  /\ Name(4) = "h" /\ Name(5) = "l" /\ Name(7) = "a"
BY DEF High, Low, Name

\* A register is of one pair.
LEMMA RegisterChanged ==
  ASSUME TypeOK, NEW r \in 0..7, r # M, NEW v, NEW s, NEW touched,
         Changes([reg EXCEPT ![Name(r)] = v], s, sp_, memory),
         r \div 2 \in touched, s = status_ \/ 3 \in touched,
         NEW length, NEW t, Advance(length, t)
  PROVE  Computed(length, touched)
<1>1. reg \in [Names -> Byte]
  BY DEF TypeOK
<1>2. reg' = [reg EXCEPT ![Name(r)] = v] /\ status_' = s
  BY DEF Changes
<1>3. \A p \in Pairs \ touched : PairKept(p)
  <2> SUFFICES ASSUME NEW p \in 0..3, p \notin touched PROVE PairKept(p)
    BY DEF Pairs
  <2>1. r \in {0, 1, 2, 3, 4, 5, 7} /\ p \in {0, 1, 2, 3} /\ p # r \div 2
    BY DEF M
  <2> QED
    BY <1>1, <1>2, <2>1, NamedPairs DEF PairKept, Names
<1> QED
  BY <1>3 DEF Changes, Advance, Computed

\* Two registers are of one pair.
LEMMA PairChanged ==
  ASSUME TypeOK, NEW q \in 0..2, NEW w, NEW s, NEW touched,
         Changes(SetPair(q, w), s, sp_, memory),
         q \in touched, s = status_ \/ 3 \in touched,
         NEW length, NEW t, Advance(length, t)
  PROVE  Computed(length, touched)
<1>1. reg \in [Names -> Byte]
  BY DEF TypeOK
<1>2. reg' = SetPair(q, w) /\ status_' = s
  BY DEF Changes
<1>3. \A p \in Pairs \ touched : PairKept(p)
  <2> SUFFICES ASSUME NEW p \in 0..3, p \notin touched PROVE PairKept(p)
    BY DEF Pairs
  <2>1. q \in {0, 1, 2} /\ p \in {0, 1, 2, 3} /\ p # q
    OBVIOUS
  <2> QED
    BY <1>1, <1>2, <2>1, NamedPairs DEF PairKept, Names, SetPair
<1> QED
  BY <1>3 DEF Changes, Advance, Computed

\* The accumulator and the flags are a pair.
LEMMA ResultChanged ==
  ASSUME TypeOK, NEW v, NEW s, NEW touched, 3 \in touched,
         Changes([reg EXCEPT !["a"] = v], s, sp_, memory),
         NEW length, NEW t, Advance(length, t)
  PROVE  Computed(length, touched)
BY RegisterChanged, NamedPairs DEF M

\* What the instructions of a handler do is what the list says.
LEMMA ComputesGoes ==
  ASSUME TypeOK, Instruction, NEW length, NEW touched, Computes(opcode, length, touched)
  PROVE  Computed(length, touched)
<1>1. opcode \in 0..255 /\ x \in 0..3 /\ y \in 0..7 /\ z \in 0..7
  BY PeekByte, Fields, MaxOf DEF opcode, Byte
<1>2. Pair = y \div 2
  BY DEF Pair
<1>3. CASE opcode = 0 /\ length = 1 /\ touched = {}
  <2>1. x = 0 /\ y = 0 /\ z = 0
    BY <1>3 DEF x, y, z
  <2> QED
    BY <1>3, <2>1, NopGoes DEF Goes, Computed, PairKept
<1>4. CASE x = 0 /\ y \in {0, 2, 4} /\ z = 1 /\ length = 3 /\ touched = {y \div 2}
  <2>1. Lxi /\ Pair \in 0..2
    BY <1>2, <1>4, Decoded DEF Is, Even
  <2> QED
    BY <1>2, <1>4, <2>1, PairChanged DEF Lxi, ChangePair
<1>5. CASE x = 0 /\ y \in Odd /\ z = 1 /\ length = 1 /\ touched = {2, 3}
  <2>1. Dad
    BY <1>5, Decoded DEF Is
  <2> QED
    BY <1>5, <2>1, PairChanged DEF Dad
<1>6. CASE x = 0 /\ y \in {1, 3} /\ z = 2 /\ length = 1 /\ touched = {3}
  <2>1. Ldax
    BY <1>6, Decoded DEF Is
  <2> QED
    BY <1>6, <2>1, ResultChanged DEF Ldax
<1>7. CASE x = 0 /\ y = 5 /\ z = 2 /\ length = 3 /\ touched = {2}
  <2>1. Lhld
    BY <1>7, Decoded DEF Is
  <2> QED
    BY <1>7, <2>1, PairChanged DEF Lhld, ChangePair
<1>8. CASE x = 0 /\ y = 7 /\ z = 2 /\ length = 3 /\ touched = {3}
  <2>1. Lda
    BY <1>8, Decoded DEF Is
  <2> QED
    BY <1>8, <2>1, ResultChanged DEF Lda
<1>9. CASE x = 0 /\ y < 6 /\ z = 3 /\ length = 1 /\ touched = {y \div 2}
  <2>1. y \in {0, 2, 4} \/ y \in {1, 3, 5}
    BY <1>1, <1>9
  <2>2. (Inx \/ Dcx) /\ Pair \in 0..2
    BY <1>2, <1>9, <2>1, Decoded DEF Is, Even, Odd
  <2> QED
    BY <1>2, <1>9, <2>2, PairChanged DEF Inx, Dcx, ChangePair
<1>10. CASE x = 0 /\ y # M /\ z \in {4, 5} /\ length = 1 /\ touched = {y \div 2, 3}
  <2>1. Inr \/ Dcr
    BY <1>1, <1>10, Decoded DEF Is
  <2> QED
    BY <1>1, <1>10, <2>1, RegisterChanged DEF Inr, Dcr, ChangeOperand
<1>11. CASE x = 0 /\ y # M /\ z = 6 /\ length = 2 /\ touched = {y \div 2}
  <2>1. Mvi
    BY <1>1, <1>11, Decoded DEF Is
  <2> QED
    BY <1>1, <1>11, <2>1, RegisterChanged DEF Mvi, ChangeOperand
<1>12. CASE x = 0 /\ z = 7 /\ length = 1 /\ touched = {3}
  <2>1. RotateA \/ Daa \/ Cma \/ Stc \/ Cmc
    BY <1>1, <1>12, Decoded DEF Is
  <2>2. Stc \/ Cmc => Computed(length, touched)
    BY <1>12 DEF Stc, Cmc, Changes, Advance, Computed, Pairs, PairKept
  <2> QED
    BY <1>12, <2>1, <2>2, ResultChanged DEF RotateA, Daa, Cma, ChangeA
<1>13. CASE x = 1 /\ y # M /\ length = 1 /\ touched = {y \div 2}
  <2>1. CASE y = z
    <3>1. Nop
      BY <1>13, <2>1, Decoded
    <3> QED
      BY <1>13, <3>1 DEF Nop, Changes, Advance, Computed, PairKept
  <2>2. CASE y # z
    <3>1. Mov
      BY <1>13, <2>2, Decoded
    <3> QED
      BY <1>1, <1>13, <3>1, RegisterChanged DEF Mov, ChangeOperand
  <2> QED
    BY <2>1, <2>2
<1>14. CASE x = 2 /\ length = 1 /\ touched = {3}
  <2>1. Arithmetic
    BY <1>14, Decoded
  <2> QED
    BY <1>14, <2>1, ResultChanged DEF Arithmetic, Is, ChangeA
<1>15. CASE x = 3 /\ z = 6 /\ length = 2 /\ touched = {3}
  <2>1. Arithmetic
    BY <1>1, <1>15, Decoded DEF Is
  <2> QED
    BY <1>15, <2>1, ResultChanged DEF Arithmetic, Is, ChangeA
<1>16. CASE opcode = 211 /\ length = 2 /\ touched = {}
  <2>1. x = 3 /\ y = 2 /\ z = 3
    BY <1>16 DEF x, y, z
  <2>2. Out
    BY <2>1, Decoded DEF Is
  <2> QED
    BY <1>16, <2>2 DEF Out, Changes, Advance, Computed, PairKept
<1>17. CASE opcode = 219 /\ length = 2 /\ touched = {3}
  <2>1. x = 3 /\ y = 3 /\ z = 3
    BY <1>17 DEF x, y, z
  <2>2. In
    BY <2>1, Decoded DEF Is
  <2> QED
    BY <1>17, <2>2, ResultChanged DEF In
<1>18. CASE opcode = 235 /\ length = 1 /\ touched = {1, 2}
  <2>1. x = 3 /\ y = 5 /\ z = 3
    BY <1>18 DEF x, y, z
  <2>2. Xchg
    BY <2>1, Decoded DEF Is
  <2>3. /\ reg' = [SetPair(2, PairValue(1)) EXCEPT !["d"] = reg["h"], !["e"] = reg["l"]]
        /\ status_' = status_
    BY <2>2 DEF Xchg, Changes
  <2>4. reg'["a"] = reg["a"] /\ reg'["b"] = reg["b"] /\ reg'["c"] = reg["c"]
    BY <2>3, NamedPairs DEF TypeOK, SetPair, Names
  <2>5. \A p \in Pairs \ touched : PairKept(p)
    BY <1>18, <2>3, <2>4, NamedPairs DEF Pairs, PairKept
  <2> QED
    BY <1>18, <2>2, <2>5 DEF Xchg, Changes, Advance, Computed
<1> QED
  BY <1>3, <1>4, <1>5, <1>6, <1>7, <1>8, <1>9, <1>10, <1>11, <1>12, <1>13, <1>14, <1>15,
     <1>16, <1>17, <1>18 DEF Computes, x, y, z

-----------------------------------------------------------------------------
(* The stack below a program.                                              *)

\* How far a is above b.
Offset(b, a) == Wrap(a - b)

\* The k-th address below the stack of the program, and the word at an address.
Under(k) == Wrap(quietSp - k)
WordAt(a) == Uint16(Peek(Wrap(a + 1)), Peek(a))

\* There are cells for the next depth bytes, all above bottom.
Roomy(bottom, depth) ==
  /\ bottom \in Word /\ quietSp \in Word /\ depth \in Nat /\ depth <= 32768
  /\ \A k \in 1..depth :
       Under(k) \in Cells /\ Offset(bottom, Under(k)) < Offset(bottom, quietSp)

\* To wrap twice is to wrap once.
LEMMA WrapTwice ==
  ASSUME NEW n \in Int, -65536 <= n, n < 65536, NEW m \in Int, 0 <= m, m < 65536
  PROVE  Wrap(Wrap(n) + m) = Wrap(n + m)
<1>1. CASE 0 <= n
  BY <1>1, WrapNear
<1>2. CASE n < 0 /\ n + m < 0
  <2>1. Wrap(n) = n + 65536 /\ Wrap(n + m) = n + m + 65536
    BY <1>2, WrapNear
  <2>2. Wrap(n + m + 65536) = n + m + 65536
    BY <1>2, WrapNear
  <2> QED
    BY <2>1, <2>2
<1>3. CASE n < 0 /\ n + m >= 0
  <2>1. Wrap(n) = n + 65536 /\ Wrap(n + m) = n + m
    BY <1>3, WrapNear
  <2>2. Wrap(n + m + 65536) = n + m
    BY <1>3, WrapNear
  <2> QED
    BY <2>1, <2>2
<1> QED
  BY <1>1, <1>2, <1>3

\* The addresses below a stack are different and follow one another.
LEMMA UnderAddresses ==
  ASSUME quietSp \in Word
  PROVE  /\ \A j, k \in Nat : j <= 65535 /\ k <= 65535 /\ Under(j) = Under(k) => j = k
         /\ \A k \in Nat \ {0} : k <= 65536 => Wrap(Under(k) + 1) = Under(k - 1)
         /\ \A k \in Nat \ {0, 1} : k <= 65536 => Wrap(Under(k) + 2) = Under(k - 2)
         /\ \A k \in Nat : k <= 65000 => Wrap(Under(k) + 65534) = Under(k + 2)
         /\ Under(0) = quietSp
<1>1. quietSp \in Int /\ 0 <= quietSp /\ quietSp <= 65535
  BY WordRange
<1>2. ASSUME NEW j \in Nat, NEW k \in Nat, j <= 65535, k <= 65535, Under(j) = Under(k)
      PROVE  j = k
  <2>1. Under(j) = quietSp - j \/ (quietSp < j /\ Under(j) = quietSp - j + 65536)
    BY <1>1, <1>2, WrapNear DEF Under
  <2>2. Under(k) = quietSp - k \/ (quietSp < k /\ Under(k) = quietSp - k + 65536)
    BY <1>1, <1>2, WrapNear DEF Under
  <2>3. Under(j) >= 0 /\ Under(k) >= 0
    BY <1>1, <1>2, WrapNear DEF Under
  <2> QED
    BY <1>1, <1>2, <2>1, <2>2, <2>3
<1>3. ASSUME NEW k \in Nat, k <= 65536, NEW m \in Nat, m < 65536
      PROVE  Wrap(Under(k) + m) = Wrap(quietSp - k + m)
  BY <1>1, <1>3, WrapTwice DEF Under
<1>4. \A k \in Nat \ {0} : k <= 65536 => Wrap(Under(k) + 1) = Under(k - 1)
  <2> SUFFICES ASSUME NEW k \in Nat \ {0}, k <= 65536
               PROVE  Wrap(Under(k) + 1) = Under(k - 1)
    OBVIOUS
  <2>1. quietSp - k + 1 = quietSp - (k - 1)
    BY <1>1
  <2> QED
    BY <1>3, <2>1 DEF Under
<1>5. \A k \in Nat \ {0, 1} : k <= 65536 => Wrap(Under(k) + 2) = Under(k - 2)
  <2> SUFFICES ASSUME NEW k \in Nat \ {0, 1}, k <= 65536
               PROVE  Wrap(Under(k) + 2) = Under(k - 2)
    OBVIOUS
  <2>1. quietSp - k + 2 = quietSp - (k - 2)
    BY <1>1
  <2> QED
    BY <1>3, <2>1 DEF Under
<1>6. \A k \in Nat : k <= 65000 => Wrap(Under(k) + 65534) = Under(k + 2)
  <2> SUFFICES ASSUME NEW k \in Nat, k <= 65000
               PROVE  Wrap(Under(k) + 65534) = Under(k + 2)
    OBVIOUS
  <2>1. Wrap(quietSp - k + 65534) = Wrap(quietSp - (k + 2))
    <3> DEFINE n == quietSp - (k + 2)
    <3>1. n \in Int /\ -65536 <= n /\ n < 65536 /\ quietSp - k + 65534 = n + 65536
      BY <1>1
    <3> HIDE DEF n
    <3>2. Wrap(n + 65536) = Wrap(n)
      BY <3>1, WrapNear
    <3> QED
      BY <3>1, <3>2 DEF n
  <2>2. Wrap(Under(k) + 65534) = Wrap(quietSp - k + 65534)
    BY <1>3
  <2> QED
    BY <2>1, <2>2 DEF Under
<1>7. Under(0) = quietSp
  BY <1>1, WrapNear DEF Under
<1> QED
  BY <1>2, <1>4, <1>5, <1>6, <1>7

\* A region of the memory that a stack has to itself is room for it.
LEMMA RegionIsRoom ==
  ASSUME NEW bottom \in Word, NEW size \in Nat, size <= 32768, quietSp \in Word,
         \A a \in Word : Offset(bottom, a) < size => a \in Cells,
         NEW depth \in Nat, depth <= Offset(bottom, quietSp), Offset(bottom, quietSp) <= size
  PROVE  Roomy(bottom, depth)
<1>1. PICK s \in Int, b \in Int : /\ s = quietSp /\ 0 <= s /\ s <= 65535
                                  /\ b = bottom /\ 0 <= b /\ b <= 65535
  BY WordRange
<1> DEFINE top == Offset(bottom, quietSp)
<1>2. top = IF b <= s THEN s - b ELSE s - b + 65536
  BY <1>1 DEF Offset, Wrap
<1>3. \A k \in 1..depth : Under(k) \in Word /\ Offset(bottom, Under(k)) = top - k
  <2> SUFFICES ASSUME NEW k \in 1..depth
               PROVE  Under(k) \in Word /\ Offset(bottom, Under(k)) = top - k
    OBVIOUS
  <2>1. k \in Int /\ 1 <= k /\ k <= top /\ top <= 32768
    BY <1>1, <1>2
  <2>2. Under(k) = IF k <= s THEN s - k ELSE s - k + 65536
    BY <1>1, <1>2, <2>1 DEF Under, Wrap
  <2> HIDE DEF top
  <2>3. Under(k) \in Word
    BY <1>1, <1>2, <2>1, <2>2, WordRange
  <2>4. Wrap(Under(k) - b) = top - k
    BY <1>1, <1>2, <2>1, <2>2 DEF Wrap
  <2> QED
    BY <1>1, <2>3, <2>4 DEF Offset
<1>4. Offset(bottom, quietSp) = top /\ top \in Int
  BY <1>1, <1>2
<1> HIDE DEF top
<1>5. \A k \in 1..depth : top - k < top /\ top - k < size
  BY <1>4
<1> QED
  BY <1>3, <1>4, <1>5 DEF Roomy

\* A word is written in two cells.
LEMMA PokedWord ==
  ASSUME memory \in [Cells -> Byte], NEW w \in Word,
         NEW a \in Cells, NEW b \in Cells, b = Wrap(a + 1), a # b
  PROVE  /\ Poke2(a, w)[a] = w % 256 /\ Poke2(a, w)[b] = w \div 256
         /\ \A c \in Cells \ {a, b} : Poke2(a, w)[c] = memory[c]
<1> DEFINE first == Poke(a, w % 256)
<1>1. w % 256 \in Byte /\ w \div 256 \in Byte
  BY Halves
<1>2. /\ first \in [Cells -> Byte] /\ first[a] = w % 256
      /\ \A c \in Cells : c # a => first[c] = memory[c]
  BY <1>1 DEF Poke
<1>3. Poke2(a, w) = [first EXCEPT ![b] = w \div 256]
  BY DEF Poke2
<1> HIDE DEF first
<1> QED
  BY <1>1, <1>2, <1>3

\* A word pushed under d others leaves them and the cells of the program alone.
LEMMA PushUnder ==
  ASSUME Sound, NEW bottom, NEW depth \in Nat, depth <= 32768, Roomy(bottom, depth),
         NEW d \in Nat, 2 * d + 2 <= depth, sp_ = Under(2 * d), NEW w \in Word,
         sp_' = Wrap(sp_ + 65534), memory' = Poke2(Wrap(sp_ + 65534), w), UNCHANGED quietSp
  PROVE  /\ sp_' = Under(2 * (d + 1))
         /\ WordAt(Under(2 * (d + 1)))' = w
         /\ \A i \in 1..d : WordAt(Under(2 * i))' = WordAt(Under(2 * i))
         /\ \A a \in Cells : Offset(bottom, a) >= Offset(bottom, quietSp) => memory'[a] = memory[a]
<1> DEFINE lo == Under(2 * d + 2)
           hi == Under(2 * d + 1)
<1>0. quietSp \in Word
  BY DEF Roomy
<1>1. /\ 2 * d \in Nat /\ 2 * d <= 65000
      /\ 2 * d + 2 \in 1..depth /\ 2 * d + 1 \in 1..depth
      /\ 2 * d + 2 \in Nat \ {0} /\ 2 * d + 2 <= 65535
      /\ 2 * d + 1 \in Nat /\ 2 * d + 1 <= 65535
      /\ 2 * d + 2 # 2 * d + 1 /\ (2 * d + 2) - 1 = 2 * d + 1
  OBVIOUS
<1>2. sp_' = lo /\ Wrap(lo + 1) = hi
  BY <1>0, <1>1, UnderAddresses
<1>3. /\ lo \in Cells /\ Offset(bottom, lo) < Offset(bottom, quietSp)
      /\ hi \in Cells /\ Offset(bottom, hi) < Offset(bottom, quietSp)
  BY <1>1 DEF Roomy
<1>4. lo # hi
  BY <1>0, <1>1, UnderAddresses
<1>5. w % 256 \in Byte /\ w \div 256 \in Byte /\ memory \in [Cells -> Byte]
  BY Halves DEF Sound, TypeOK
<1>7. \A i \in 1..d : LET l == Under(2 * i)
                          h == Under(2 * i - 1)
                      IN  /\ l # lo /\ l # hi /\ h # lo /\ h # hi /\ l \in Cells /\ h \in Cells
                          /\ Wrap(l + 1) = h
  <2> SUFFICES ASSUME NEW i \in 1..d
               PROVE  LET l == Under(2 * i)
                          h == Under(2 * i - 1)
                      IN  /\ l # lo /\ l # hi /\ h # lo /\ h # hi /\ l \in Cells /\ h \in Cells
                          /\ Wrap(l + 1) = h
    OBVIOUS
  <2>1. /\ 2 * i \in 1..depth /\ 2 * i - 1 \in 1..depth
        /\ 2 * i \in Nat \ {0} /\ 2 * i <= 65535 /\ 2 * i - 1 \in Nat /\ 2 * i - 1 <= 65535
        /\ 2 * i < 2 * d + 1 /\ 2 * i - 1 < 2 * d + 1
    OBVIOUS
  <2>2. Under(2 * i) \in Cells /\ Under(2 * i - 1) \in Cells
    BY <2>1 DEF Roomy
  <2>3. Wrap(Under(2 * i) + 1) = Under(2 * i - 1)
    BY <1>0, <1>1, <2>1, UnderAddresses
  <2>4. /\ Under(2 * i) # lo /\ Under(2 * i) # hi
        /\ Under(2 * i - 1) # lo /\ Under(2 * i - 1) # hi
    BY <1>0, <1>1, <2>1, UnderAddresses
  <2> QED
    BY <2>2, <2>3, <2>4
<1> HIDE DEF lo, hi
<1>6. memory' = Poke2(lo, w)
  BY <1>2
<1>8. memory'[lo] = w % 256 /\ memory'[hi] = w \div 256
  BY <1>2, <1>3, <1>4, <1>5, <1>6, PokedWord
<1>9. \A a \in Cells \ {lo, hi} : memory'[a] = memory[a]
  BY <1>2, <1>3, <1>4, <1>5, <1>6, PokedWord
<1>10. \A k : Under(k)' = Under(k)
  BY DEF Under
<1>11. WordAt(lo)' = w
  <2>1. w = Uint16(w \div 256, w % 256)
    BY WordRange DEF Uint16
  <2> QED
    BY <1>2, <1>3, <1>8, <1>10, <2>1 DEF WordAt, Peek, lo
<1>12. ASSUME NEW i \in 1..d
       PROVE  WordAt(Under(2 * i))' = WordAt(Under(2 * i))
  <2> DEFINE l == Under(2 * i)
             h == Under(2 * i - 1)
  <2>1. l \in Cells \ {lo, hi} /\ h \in Cells \ {lo, hi} /\ Wrap(l + 1) = h
    BY <1>7
  <2>2. l' = l
    BY <1>10
  <2>3. WordAt(l) = Uint16(memory[h], memory[l])
    BY <2>1 DEF WordAt, Peek
  <2>4. WordAt(l)' = Uint16(memory'[h], memory'[l])
    <3> HIDE DEF l, h
    <3> QED
      BY <2>1, <2>2 DEF WordAt, Peek
  <2> QED
    BY <1>9, <2>1, <2>3, <2>4
<1>13. \A a \in Cells : Offset(bottom, a) >= Offset(bottom, quietSp) => memory'[a] = memory[a]
  <2> SUFFICES ASSUME NEW a \in Cells, Offset(bottom, a) >= Offset(bottom, quietSp)
               PROVE  memory'[a] = memory[a]
    OBVIOUS
  <2>1. a # lo /\ a # hi
    <3>1. \A n \in Int : Wrap(n) \in Int
      BY DEF Wrap
    <3>2. \A c \in Word : Offset(bottom, c) \in Int
      BY <3>1, WordRange DEF Offset, Roomy
    <3>3. Offset(bottom, a) \in Int /\ Offset(bottom, quietSp) \in Int
      <4>1. quietSp \in Word /\ a \in Word
        BY <1>0, CellsAssumption
      <4> QED
        BY <3>2, <4>1
    <3> QED
      BY <1>3, <3>3
  <2> QED
    BY <1>9, <2>1
<1>14. 2 * (d + 1) = 2 * d + 2
  OBVIOUS
<1> QED
  BY <1>2, <1>11, <1>12, <1>13, <1>14 DEF lo

\* What a return or a pop takes off the stack there.
LEMMA PopUnder ==
  ASSUME NEW bottom, NEW depth \in Nat, depth <= 32768, Roomy(bottom, depth),
         NEW d \in Nat \ {0}, 2 * d <= depth, sp_ = Under(2 * d)
  PROVE  Popped = WordAt(Under(2 * d)) /\ Wrap(sp_ + 2) = Under(2 * (d - 1))
<1>0. 2 * d \in Nat \ {0, 1} /\ 2 * d <= 65536
  OBVIOUS
<1>1. quietSp \in Word
  BY DEF Roomy
<1>2. 2 * (d - 1) = 2 * d - 2
  OBVIOUS
<1> QED
  BY <1>0, <1>1, <1>2, UnderAddresses DEF Popped, WordAt

-----------------------------------------------------------------------------
(* Handlers that give back what they take, and programs that leave them    *)
(* alone.  A plan says where the stack of the program is (size bytes from  *)
(* bottom), what the cells of the handlers hold (code), and which pairs a  *)
(* handler has on the stack, the last one pushed last, when it is at an    *)
(* address (saved).                                                        *)

\* Where a handler is about to return, interrupts enabled.
Leaving(plan) == {Wrap(p + 1) : p \in {q \in DOMAIN plan.saved : plan.code[q] = 251}}

\* The handler goes on at p, with the pairs of s on the stack.
GoesOn(plan, p, s) == p \in DOMAIN plan.saved /\ plan.saved[p] = s

\* The instruction at p pushes r, or pops it.
Pushes(plan, p, r) ==
  plan.code[p] = 197 + 16 * r /\ GoesOn(plan, Wrap(p + 1), Append(plan.saved[p], r))
Pops(plan, p, r) ==
  /\ plan.code[p] = 193 + 16 * r /\ Wrap(p + 1) \in DOMAIN plan.saved
  /\ plan.saved[p] = Append(plan.saved[Wrap(p + 1)], r)

\* The instruction at p is the EI of EI, RET, and nothing is on the stack.
Enables(plan, p) ==
  /\ plan.code[p] = 251 /\ plan.saved[p] = <<>>
  /\ Wrap(p + 1) \in DOMAIN plan.code /\ plan.code[Wrap(p + 1)] = 201

\* The instruction at p pushes a pair, pops the last one pushed, computes with
\* pairs that are on the stack, or enables interrupts to return.
Place(plan, p) ==
  \/ \E r \in Pairs : Pushes(plan, p, r) \/ Pops(plan, p, r)
  \/ \E length \in 1..3, touched \in SUBSET Pairs :
       /\ Computes(plan.code[p], length, touched)
       /\ \A r \in touched : \E j \in 1..Len(plan.saved[p]) : plan.saved[p][j] = r
       /\ GoesOn(plan, Wrap(p + length), plan.saved[p])
  \/ Enables(plan, p)

\* The handlers of a plan give back what they take.
GivesBack(plan) ==
  /\ plan.bottom \in Word /\ plan.size \in Nat /\ plan.size <= 32768 /\ plan.most \in Nat
  /\ \A a \in Word : Offset(plan.bottom, a) < plan.size => a \in Cells
  /\ DOMAIN plan.saved \subseteq DOMAIN plan.code /\ DOMAIN plan.code \subseteq Cells
  /\ \A a \in DOMAIN plan.code : Offset(plan.bottom, a) >= plan.size
  /\ \A p \in DOMAIN plan.saved :
       /\ plan.saved[p] \in Seq(Pairs) /\ Len(plan.saved[p]) <= plan.most
       /\ \A i, j \in 1..Len(plan.saved[p]) : plan.saved[p][i] = plan.saved[p][j] => i = j
       /\ Place(plan, p)
  /\ \A isr \in Restarts : 8 * isr \in DOMAIN plan.saved /\ plan.saved[8 * isr] = <<>>

\* The bytes that interruptions, and what their handlers push, may take.
Room(plan) == 2 * (MaxFrames + plan.most)

\* What is not below the stack of the program.
Above(plan, a) == Offset(plan.bottom, a) >= Offset(plan.bottom, quietSp)

\* The program that is not interrupted keeps its stack where the plan says, does
\* not overwrite the handlers, reads no port and nothing that is below its stack.
Disciplined(plan) ==
  /\ Room(plan) <= Offset(plan.bottom, quietSp) /\ Offset(plan.bottom, quietSp) <= plan.size
  /\ \A a \in DOMAIN plan.code : quietMemory[a] = plan.code[a]
  /\ ~quietHlt =>
       /\ Above(plan, quietPc) /\ Above(plan, Wrap(quietPc + 1)) /\ Above(plan, Wrap(quietPc + 2))
       /\ ~Quiet!Is(3, {3}, 3)
       /\ \/ Quiet!x = 2 /\ Quiet!z = M
          \/ Quiet!x = 1 /\ Quiet!z = M /\ Quiet!y # M
          \/ Quiet!x = 0 /\ Quiet!z \in {4, 5} /\ Quiet!y = M
          => Above(plan, Quiet!HL)
       /\ Quiet!Is(0, {1, 3}, 2) => Above(plan, Quiet!PairValue(Quiet!Pair))
       /\ Quiet!Is(0, {5}, 2) \/ Quiet!Is(0, {7}, 2) => Above(plan, Quiet!Address)
       /\ Quiet!Is(0, {5}, 2) => Above(plan, Wrap(Quiet!Address + 1))

\* Its stack grows by what it pushes, and by nothing else.
Grows(plan) ==
  \/ Offset(plan.bottom, quietSp') >= Offset(plan.bottom, quietSp)
  \/ /\ Quiet!x = 3 /\ Quiet!z \in {4, 5, 7}
     /\ quietSp' = Wrap(quietSp + 65534)

-----------------------------------------------------------------------------
(* The inductive invariant.                                                *)

\* Pairs of the program, and pairs that are what they are for the program.
QuietPair(p) ==
  IF p = 3 THEN Uint16(quietReg["a"], Value(quietStatus))
           ELSE Uint16(quietReg[High(p)], quietReg[Low(p)])

SamePair(p) ==
  IF p = 3 THEN reg["a"] = quietReg["a"] /\ status_ = quietStatus
           ELSE reg[High(p)] = quietReg[High(p)] /\ reg[Low(p)] = quietReg[Low(p)]

QuietSound ==
  quietReg \in [Names -> Byte] /\ quietPc \in Word /\ quietSp \in Word /\ Shape(quietStatus)

\* The memories are the same but below the stack of the program.
Agreed(plan) ==
  /\ DOMAIN quietMemory = Cells
  /\ \A a \in Cells : Above(plan, a) => memory[a] = quietMemory[a]

\* The interruptions follow one another on the stack: the first will return to
\* the program, each of the others to a handler that is about to return.
Nested(plan) ==
  /\ frames \in Seq(Word) /\ Len(frames) <= MaxFrames
  /\ \A i \in 1..Len(frames) : frames[i] = Under(2 * (Len(frames) - i))
  /\ Len(frames) > 0 => WordAt(Under(2)) = quietPc
  /\ \A i \in 2..Len(frames) : WordAt(Under(2 * i)) \in Leaving(plan)

\* The pairs of s are on the stack, and the others are those of the program.
Held(s) ==
  /\ sp_ = Under(2 * (Len(frames) + Len(s)))
  /\ \A j \in 1..Len(s) : WordAt(Under(2 * (Len(frames) + j))) = QuietPair(s[j])
  /\ \A p \in Pairs : (\A j \in 1..Len(s) : s[j] # p) => SamePair(p)

InHandler(plan) ==
  /\ hlt_ = FALSE /\ quietHlt = FALSE /\ quietIff = TRUE
  /\ \/ pc_ \in DOMAIN plan.saved /\ iff_ = FALSE /\ Held(plan.saved[pc_])
     \/ pc_ \in Leaving(plan) /\ iff_ = TRUE /\ Held(<<>>)

Unnoticed(plan) ==
  /\ Sound /\ QuietSound
  /\ Agreed(plan) /\ Nested(plan)
  /\ frames = <<>> => Alike
  /\ frames # <<>> => InHandler(plan)

\* What is not below the stack is read alike.
LEMMA PeekAbove ==
  ASSUME NEW plan, Agreed(plan), NEW a, Above(plan, a)
  PROVE  Quiet!Peek(a) = Peek(a)
BY DEF Agreed, Peek, Quiet!Peek

\* The stack has room, and what is at the stack is not below it.
LEMMA PlanIsRoomy ==
  ASSUME NEW plan, GivesBack(plan), Disciplined(plan), QuietSound
  PROVE  /\ Roomy(plan.bottom, Room(plan)) /\ Room(plan) \in Nat /\ Room(plan) <= 32768
         /\ Above(plan, quietSp) /\ Above(plan, Wrap(quietSp + 1))
<1>1. /\ plan.bottom \in Word /\ plan.size \in Nat /\ plan.size <= 32768 /\ quietSp \in Word
      /\ \A a \in Word : Offset(plan.bottom, a) < plan.size => a \in Cells
  BY DEF GivesBack, QuietSound
<1> DEFINE top == Offset(plan.bottom, quietSp)
<1>2. Room(plan) \in Nat /\ Room(plan) <= top /\ top <= plan.size
  BY MaxFramesAssumption DEF Room, GivesBack, Disciplined
<1>3. top \in Int /\ 0 <= top
  <2>1. PICK s \in Int, b \in Int : /\ s = quietSp /\ 0 <= s /\ s <= 65535
                                    /\ b = plan.bottom /\ 0 <= b /\ b <= 65535
    BY <1>1, WordRange
  <2> QED
    BY <2>1, WrapNear DEF Offset
<1>4. Roomy(plan.bottom, Room(plan))
  BY <1>1, <1>2, RegionIsRoom
<1>5. Above(plan, quietSp)
  BY <1>3 DEF Above
<1>6. Above(plan, Wrap(quietSp + 1))
  <2>1. PICK s \in Int, b \in Int : /\ s = quietSp /\ 0 <= s /\ s <= 65535
                                    /\ b = plan.bottom /\ 0 <= b /\ b <= 65535
    BY <1>1, WordRange
  <2>2. top = Wrap(s - b)
    BY <2>1 DEF Offset
  <2>3. Wrap(Wrap(s + 1) - b) = top + 1
    BY <1>1, <1>2, <2>1, <2>2, WrapNear
  <2>4. Offset(plan.bottom, Wrap(quietSp + 1)) = top + 1
    BY <2>1, <2>3 DEF Offset
  <2> HIDE DEF top
  <2> QED
    BY <1>3, <2>4 DEF Above, top
<1> HIDE DEF top
<1> QED
  BY <1>1, <1>2, <1>3, <1>4, <1>5, <1>6

-----------------------------------------------------------------------------
(* Every step keeps it.                                                    *)

\* What the two cpus fetch and read, when nothing else runs.
LEMMA ProgramReads ==
  ASSUME NEW plan, GivesBack(plan), Unnoticed(plan), Disciplined(plan), frames = <<>>, ~hlt_
  PROVE  SameFetch /\ SameReads /\ ~Is(3, {3}, 3)
<1>1. Agreed(plan) /\ Alike /\ ~quietHlt /\ QuietSound
  BY DEF Unnoticed, Alike
<1>2. \A a : Above(plan, a) => Quiet!Peek(a) = Peek(a)
  BY <1>1, PeekAbove
<1>3. SameFetch
  BY <1>1, <1>2, SameWords
  DEF Disciplined, SameFetch, Alike, Quiet!opcode, opcode, Quiet!Data, Data, Quiet!Address, Address
<1>4. /\ Quiet!x = x /\ Quiet!y = y /\ Quiet!z = z /\ Quiet!Pair = Pair
      /\ Quiet!Address = Address /\ Quiet!HL = HL
      /\ \A group, ys, column : Quiet!Is(group, ys, column) <=> Is(group, ys, column)
      /\ \A p : Quiet!PairValue(p) = PairValue(p)
  BY <1>1, <1>3, SameOperands
<1>5. Quiet!Popped = Popped
  <2>1. Above(plan, quietSp) /\ Above(plan, Wrap(quietSp + 1))
    BY <1>1, PlanIsRoomy
  <2> QED
    BY <1>1, <1>2, <2>1, SameWords DEF Quiet!Popped, Popped, Alike
<1>6. SameReads
  BY <1>1, <1>2, <1>4, <1>5 DEF Disciplined, SameReads
<1>7. ~Is(3, {3}, 3)
  BY <1>1, <1>4 DEF Disciplined
<1> QED
  BY <1>3, <1>6, <1>7

\* A step of the program, from agreement to agreement.
LEMMA AgreementGoesOn ==
  ASSUME NEW plan, QuietSound, QuietSound', Agreed(plan), Carried, DOMAIN quietMemory' = Cells,
         plan.bottom \in Word,
         \/ Offset(plan.bottom, quietSp') >= Offset(plan.bottom, quietSp)
         \/ /\ quietSp' = Wrap(quietSp + 65534)
            /\ \A a \in Cells \cap {quietSp', Wrap(quietSp' + 1)} : memory'[a] = quietMemory'[a]
  PROVE  Agreed(plan)'
<1> SUFFICES ASSUME NEW a \in Cells, Offset(plan.bottom, a) >= Offset(plan.bottom, quietSp')
             PROVE  memory'[a] = quietMemory'[a]
  BY DEF Agreed, Above
<1>1. PICK s \in Int, t \in Int, b \in Int, c \in Int :
        /\ s = quietSp /\ 0 <= s /\ s <= 65535 /\ t = quietSp' /\ 0 <= t /\ t <= 65535
        /\ b = plan.bottom /\ 0 <= b /\ b <= 65535 /\ c = a /\ 0 <= c /\ c <= 65535
  BY WordRange, CellsAssumption DEF QuietSound
<1>2. CASE Offset(plan.bottom, a) >= Offset(plan.bottom, quietSp)
  BY <1>2 DEF Agreed, Above, Carried
<1>3. CASE Offset(plan.bottom, a) < Offset(plan.bottom, quietSp)
  <2>1. ~(Offset(plan.bottom, quietSp') >= Offset(plan.bottom, quietSp))
    <3>1. /\ Offset(plan.bottom, a) \in Int /\ Offset(plan.bottom, quietSp) \in Int
          /\ Offset(plan.bottom, quietSp') \in Int
      BY <1>1, WrapNear DEF Offset
    <3> QED
      BY <1>3, <3>1
  <2>2. t = Wrap(s + 65534)
    BY <1>1, <2>1
  <2>3. Wrap(t - b) <= Wrap(c - b) /\ Wrap(c - b) < Wrap(s - b)
    BY <1>1, <1>3 DEF Offset
  <2>4. c = t \/ c = Wrap(t + 1)
    <3>1. t = IF s >= 2 THEN s - 2 ELSE s + 65534
      BY <1>1, <2>2, WrapNear
    <3>2. Wrap(t - b) = IF t >= b THEN t - b ELSE t - b + 65536
      BY <1>1, WrapNear
    <3>3. Wrap(s - b) = IF s >= b THEN s - b ELSE s - b + 65536
      BY <1>1, WrapNear
    <3>4. Wrap(c - b) = IF c >= b THEN c - b ELSE c - b + 65536
      BY <1>1, WrapNear
    <3>5. Wrap(t + 1) = IF t = 65535 THEN 0 ELSE t + 1
      BY <1>1, WrapNear
    <3> QED
      BY <1>1, <2>3, <3>1, <3>2, <3>3, <3>4, <3>5
  <2> QED
    BY <1>1, <2>1, <2>4
<1>4. Offset(plan.bottom, a) \in Int /\ Offset(plan.bottom, quietSp) \in Int
  BY <1>1, WrapNear DEF Offset
<1> QED
  BY <1>2, <1>3, <1>4

\* The program.
LEMMA ProgramKeeps ==
  ASSUME NEW plan, GivesBack(plan), Unnoticed(plan), Disciplined(plan), ExecuteProgram,
         quietSp' = quietSp \/ Grows(plan)
  PROVE  Unnoticed(plan)'
<1>1. /\ frames = <<>> /\ frames' = <<>> /\ Execute /\ Quiet!Execute
      /\ Sound /\ QuietSound /\ Agreed(plan) /\ Alike
  BY DEF ExecuteProgram, Unnoticed
<1>2. Sound'
  BY <1>1, NextSound DEF Next
<1>3. CASE hlt_
  <2>1. Stall /\ Quiet!Stall
    BY <1>1, <1>3 DEF Execute, Quiet!Execute, Alike
  <2> QED
    BY <1>1, <1>2, <2>1
    DEF Unnoticed, Stall, Quiet!Stall, QuietSound, Agreed, Above, Nested, Under, WordAt, Peek, Alike
<1>4. CASE ~hlt_
  <2>1. Instruction /\ Quiet!Instruction /\ TypeOK
    BY <1>1, <1>4 DEF Execute, Quiet!Execute, Alike, Sound
  <2>2. SameFetch /\ SameReads /\ ~In
    BY <1>1, <1>4, ProgramReads DEF In
  <2>3. Together /\ PushedAlike
    <3>1. Mapped
      BY <1>1 DEF Mapped, Agreed, Sound, TypeOK
    <3> QED
      BY <1>1, <2>1, <2>2, <3>1, InstructionTogether
  <2>4. QuietSound'
    BY <1>2, <2>3, SoundFacts DEF Together, Alike, QuietSound, Sound, TypeOK, StatusShape, Shape
  <2>5. Agreed(plan)'
    <3>1. CASE Offset(plan.bottom, quietSp') >= Offset(plan.bottom, quietSp)
      BY <1>1, <2>3, <2>4, <3>1, AgreementGoesOn DEF Together, GivesBack
    <3>2. CASE quietSp' = quietSp
      <4>1. \A a : Above(plan, a)' <=> Above(plan, a)
        BY <3>2 DEF Above
      <4> QED
        BY <1>1, <2>3, <4>1 DEF Agreed, Together, Carried
    <3>3. CASE /\ Quiet!x = 3 /\ Quiet!z \in {4, 5, 7}
               /\ quietSp' = Wrap(quietSp + 65534)
      <4>1. Pushing /\ sp_' = Wrap(sp_ + 65534) /\ sp_' = quietSp'
        BY <1>1, <2>2, <2>3, <3>3, SameOperands DEF Pushing, Together, Alike
      <4>2. \A a \in Cells \cap {quietSp', Wrap(quietSp' + 1)} : memory'[a] = quietMemory'[a]
        BY <2>3, <4>1 DEF PushedAlike
      <4> QED
        BY <1>1, <2>3, <2>4, <3>3, <4>2, AgreementGoesOn DEF Together, GivesBack
    <3> QED
      BY <3>1, <3>2, <3>3 DEF Grows
  <2>6. Nested(plan)'
    BY <1>1 DEF Nested, Unnoticed
  <2> QED
    BY <1>1, <1>2, <2>3, <2>4, <2>5, <2>6 DEF Unnoticed, Together
<1> QED
  BY <1>3, <1>4

\* What a pair is made of the word that was pushed for it.
LEMMA QuietPairBack ==
  ASSUME QuietSound, NEW p \in Pairs
  PROVE  /\ QuietPair(p) \in Word
         /\ p # 3 => /\ QuietPair(p) \div 256 = quietReg[High(p)]
                     /\ QuietPair(p) % 256 = quietReg[Low(p)]
         /\ p = 3 => /\ QuietPair(p) \div 256 = quietReg["a"]
                     /\ PopPsw(QuietPair(p)) = quietStatus
<1>1. CASE p # 3
  <2>1. quietReg[High(p)] \in Byte /\ quietReg[Low(p)] \in Byte
    BY <1>1, PairNames DEF QuietSound, Pairs
  <2>2. QuietPair(p) = Uint16(quietReg[High(p)], quietReg[Low(p)])
    BY <1>1 DEF QuietPair
  <2> QED
    BY <1>1, <2>1, <2>2, Uint16Word, ByteRange DEF Uint16
<1>2. CASE p = 3
  <2>1. quietReg["a"] \in Byte /\ Value(quietStatus) \in Byte
    BY ValueByte DEF QuietSound, Names
  <2>2. QuietPair(p) = Uint16(quietReg["a"], Value(quietStatus))
    BY <1>2 DEF QuietPair
  <2>3. QuietPair(p) % 256 = Value(quietStatus) /\ QuietPair(p) \div 256 = quietReg["a"]
    BY <2>1, <2>2, ByteRange DEF Uint16
  <2>4. quietStatus \subseteq Bit /\ (quietStatus \ {3, 5}) \cup {1} = quietStatus
    BY DEF QuietSound, Shape, Bit, Flags, CarryFlag, ParityFlag, AuxCarryFlag, ZeroFlag, SignFlag
  <2>5. PopPsw(QuietPair(p)) = quietStatus
    BY <2>3, <2>4, BitsOfValue DEF PopPsw
  <2> QED
    BY <1>2, <2>1, <2>2, <2>3, <2>5, Uint16Word
<1> QED
  BY <1>1, <1>2

\* A handler step changes nothing of the program, and no interruption.
LEMMA NestedGoesOn ==
  ASSUME NEW plan, Nested(plan), UNCHANGED <<frames, quiet>>,
         \A i \in 1..Len(frames) : WordAt(Under(2 * i))' = WordAt(Under(2 * i))
  PROVE  Nested(plan)'
<1>1. \A k : Under(k)' = Under(k)
  BY DEF Under, quiet
<1>2. frames' = frames /\ quietPc' = quietPc
  BY DEF quiet
<1>3. Len(frames) \in Nat
  BY DEF Nested
<1>4. Len(frames) > 0 => WordAt(Under(2))' = WordAt(Under(2))
  <2>1. Len(frames) > 0 => 1 \in 1..Len(frames) /\ 2 * 1 = 2
    BY <1>3
  <2> QED
    BY <2>1
<1>5. \A i \in 2..Len(frames) : WordAt(Under(2 * i))' = WordAt(Under(2 * i))
  BY <1>3
<1> QED
  BY <1>1, <1>2, <1>4, <1>5 DEF Nested, Leaving

\* The frame on top is not that of an instruction above it.
LEMMA NotTheFrame ==
  ASSUME NEW plan, GivesBack(plan), Nested(plan), Disciplined(plan), QuietSound, frames # <<>>,
         NEW l \in Nat, l <= plan.most
  PROVE  Under(2 * (Len(frames) + l)) # Head(frames)
<1>1. /\ Room(plan) = 2 * (MaxFrames + plan.most) /\ Room(plan) <= 32768
      /\ MaxFrames \in Nat /\ plan.most \in Nat /\ quietSp \in Word
  BY MaxFramesAssumption, PlanIsRoomy DEF Room, GivesBack, QuietSound
<1>2. Len(frames) \in Nat \ {0} /\ Len(frames) <= MaxFrames
  BY DEF Nested
<1> DEFINE n == Len(frames)
<1>3. Head(frames) = Under(2 * (n - 1))
  BY <1>2 DEF Nested
<1> HIDE DEF n
<1>4. n \in Nat \ {0} /\ n <= MaxFrames
  BY <1>2 DEF n
<1>5. /\ 2 * (n + l) \in Nat /\ 2 * (n + l) <= 65535
      /\ 2 * (n - 1) \in Nat /\ 2 * (n - 1) <= 65535 /\ 2 * (n + l) # 2 * (n - 1)
  BY <1>1, <1>4
<1>6. Under(2 * (n + l)) # Under(2 * (n - 1))
  BY <1>1, <1>5, UnderAddresses
<1> QED
  BY <1>3, <1>6 DEF n

\* What the handlers are made of is what the cpu fetches.
LEMMA FetchesCode ==
  ASSUME NEW plan, GivesBack(plan), Agreed(plan), Disciplined(plan), QuietSound,
         pc_ \in DOMAIN plan.code
  PROVE  opcode = plan.code[pc_]
<1>1. Offset(plan.bottom, pc_) >= plan.size /\ pc_ \in Cells
  BY DEF GivesBack
<1>2. Offset(plan.bottom, quietSp) <= plan.size
  BY DEF Disciplined
<1>3. Above(plan, pc_)
  <2>1. plan.bottom \in Int /\ quietSp \in Int /\ pc_ \in Int /\ plan.size \in Int
    BY <1>1, WordRange, CellsAssumption DEF GivesBack, QuietSound
  <2>2. Offset(plan.bottom, pc_) \in Int /\ Offset(plan.bottom, quietSp) \in Int
    BY <2>1 DEF Offset, Wrap
  <2> QED
    BY <1>1, <1>2, <2>1, <2>2 DEF Above
<1>4. memory[pc_] = quietMemory[pc_] /\ quietMemory[pc_] = plan.code[pc_]
  BY <1>1, <1>3 DEF Agreed, Disciplined
<1> QED
  BY <1>1, <1>4 DEF opcode, Peek

\* What a working handler knows.
Working(plan) ==
  /\ GivesBack(plan) /\ Disciplined(plan)
  /\ Sound /\ QuietSound /\ Agreed(plan) /\ Nested(plan) /\ frames # <<>>
  /\ hlt_ = FALSE /\ quietHlt = FALSE /\ quietIff = TRUE
  /\ UNCHANGED <<quiet, quietHlt>>
  /\ frames' = IF sp_' = Head(frames) THEN Tail(frames) ELSE frames
  /\ Sound'

\* A step of a handler after which the pairs of s are on the stack, above n frames.
Leads(plan, n, s) ==
  /\ hlt_' = hlt_
  /\ \A a \in Cells : Above(plan, a) => memory'[a] = memory[a]
  /\ \A i \in 1..n : WordAt(Under(2 * i))' = WordAt(Under(2 * i))
  /\ s \in Seq(Pairs) /\ Len(s) <= plan.most
  /\ sp_' = Under(2 * (n + Len(s)))
  /\ \A j \in 1..Len(s) : WordAt(Under(2 * (n + j)))' = QuietPair(s[j])
  /\ \A p \in Pairs : (\A j \in 1..Len(s) : s[j] # p) => SamePair(p)'
  /\ \/ pc_' \in DOMAIN plan.saved /\ iff_' = FALSE /\ plan.saved[pc_'] = s
     \/ pc_' \in Leaving(plan) /\ iff_' = TRUE /\ s = <<>>

\* Putting the parts together again, for a step that leaves the frames alone.
LEMMA WorkGoesOn ==
  ASSUME NEW plan, Working(plan), NEW s, NEW n, n = Len(frames), Leads(plan, n, s)
  PROVE  Unnoticed(plan)'
<1>0. /\ hlt_' = hlt_
      /\ \A a \in Cells : Above(plan, a) => memory'[a] = memory[a]
      /\ \A i \in 1..n : WordAt(Under(2 * i))' = WordAt(Under(2 * i))
      /\ s \in Seq(Pairs) /\ Len(s) <= plan.most
      /\ sp_' = Under(2 * (n + Len(s)))
      /\ \A j \in 1..Len(s) : WordAt(Under(2 * (n + j)))' = QuietPair(s[j])
      /\ \A p \in Pairs : (\A j \in 1..Len(s) : s[j] # p) => SamePair(p)'
      /\ \/ pc_' \in DOMAIN plan.saved /\ iff_' = FALSE /\ plan.saved[pc_'] = s
         \/ pc_' \in Leaving(plan) /\ iff_' = TRUE /\ s = <<>>
  BY Zenon DEF Leads
<1>1. frames' = frames
  <2>1. sp_' # Head(frames)
    <3>1. Len(s) \in Nat
      BY <1>0
    <3> QED
      BY <1>0, <3>1, NotTheFrame DEF Working
  <2> QED
    BY <2>1 DEF Working
<1>2. /\ quietReg' = quietReg /\ quietPc' = quietPc /\ quietSp' = quietSp
      /\ quietStatus' = quietStatus /\ quietIff' = quietIff /\ quietMemory' = quietMemory
      /\ quietHlt' = quietHlt
  BY DEF Working, quiet
<1>3. QuietSound'
  BY <1>2 DEF Working, QuietSound
<1>4. Agreed(plan)'
  BY <1>0, <1>2 DEF Working, Agreed, Above
<1>5. Nested(plan)'
  BY <1>0, <1>1, NestedGoesOn DEF Working
<1>6. Held(s)'
  <2>1. (\A k : Under(k)' = Under(k)) /\ (\A p : QuietPair(p)' = QuietPair(p))
    BY <1>2 DEF Under, QuietPair
  <2> QED
    BY <1>0, <1>1, <2>1 DEF Held
<1>7. InHandler(plan)'
  <2>1. Leaving(plan)' = Leaving(plan)
    BY DEF Leaving
  <2>2. CASE pc_' \in DOMAIN plan.saved /\ iff_' = FALSE /\ plan.saved[pc_'] = s
    BY <1>0, <1>2, <1>6, <2>2 DEF InHandler, Working
  <2>3. CASE pc_' \in Leaving(plan) /\ iff_' = TRUE /\ s = <<>>
    BY <1>0, <1>2, <1>6, <2>1, <2>3 DEF InHandler, Working
  <2> QED
    BY <1>0, <2>2, <2>3
<1> QED
  BY <1>1, <1>3, <1>4, <1>5, <1>7, Zenon DEF Unnoticed, Working

\* How far down a handler is on the stack.
LEMMA WorkSizes ==
  ASSUME NEW plan, Working(plan), pc_ \in DOMAIN plan.saved
  PROVE  /\ plan.saved[pc_] \in Seq(Pairs)
         /\ Len(plan.saved[pc_]) \in Nat /\ Len(plan.saved[pc_]) <= plan.most
         /\ Len(frames) \in Nat \ {0} /\ Len(frames) <= MaxFrames
         /\ plan.most \in Nat /\ Room(plan) = 2 * (MaxFrames + plan.most)
<1>1. plan.saved[pc_] \in Seq(Pairs) /\ Len(plan.saved[pc_]) <= plan.most /\ plan.most \in Nat
  BY DEF Working, GivesBack
<1>2. Len(frames) \in Nat \ {0} /\ Len(frames) <= MaxFrames
  BY DEF Working, Nested
<1> QED
  BY <1>1, <1>2 DEF Room

\* What a handler is about to do.
LEMMA WorkPlace ==
  ASSUME NEW plan, Working(plan), pc_ \in DOMAIN plan.saved
  PROVE  opcode = plan.code[pc_] /\ Place(plan, pc_)
<1>1. pc_ \in DOMAIN plan.code /\ Place(plan, pc_)
  BY DEF Working, GivesBack
<1> QED
  BY <1>1, FetchesCode DEF Working

\* The addresses below the stack stay where they are.
LEMMA UnderStays ==
  ASSUME UNCHANGED quietSp
  PROVE  \A k : Under(k)' = Under(k)
BY DEF Under

\* A word goes onto the stack.
Stacks(w) == sp_' = Wrap(sp_ + 65534) /\ memory' = Poke2(Wrap(sp_ + 65534), w)

\* What is pushed below the stack of the program, under d words of others.
LEMMA PushBelow ==
  ASSUME NEW plan, GivesBack(plan), Disciplined(plan), Sound, QuietSound, UNCHANGED quietSp,
         NEW d \in Nat, 2 * d + 2 <= Room(plan), sp_ = Under(2 * d),
         NEW w \in Word, Stacks(w)
  PROVE  /\ sp_' = Under(2 * (d + 1))
         /\ WordAt(Under(2 * (d + 1)))' = w
         /\ \A i \in 1..d : WordAt(Under(2 * i))' = WordAt(Under(2 * i))
         /\ \A a \in Cells : Above(plan, a) => memory'[a] = memory[a]
<1>1. Room(plan) \in Nat /\ Room(plan) <= 32768 /\ Roomy(plan.bottom, Room(plan))
  BY PlanIsRoomy
<1>2. /\ sp_' = Under(2 * (d + 1))
      /\ WordAt(Under(2 * (d + 1)))' = w
      /\ \A i \in 1..d : WordAt(Under(2 * i))' = WordAt(Under(2 * i))
      /\ \A a \in Cells : Offset(plan.bottom, a) >= Offset(plan.bottom, quietSp)
                              => memory'[a] = memory[a]
  BY <1>1, PushUnder DEF Stacks
<1> QED
  BY <1>2 DEF Above

\* What is popped there.
LEMMA PopBelow ==
  ASSUME NEW plan, GivesBack(plan), Disciplined(plan), QuietSound,
         NEW d \in Nat \ {0}, 2 * d <= Room(plan), sp_ = Under(2 * d)
  PROVE  Popped = WordAt(Under(2 * d)) /\ Wrap(sp_ + 2) = Under(2 * (d - 1))
<1>1. Room(plan) \in Nat /\ Room(plan) <= 32768 /\ Roomy(plan.bottom, Room(plan))
  BY PlanIsRoomy
<1> QED
  BY <1>1, PopUnder

\* What the plan says of the places of PUSH and POP.
LEMMA StackPlaces ==
  ASSUME NEW plan, NEW p, NEW r
  PROVE  /\ Pushes(plan, p, r) => /\ plan.code[p] = 197 + 16 * r
                                  /\ Wrap(p + 1) \in DOMAIN plan.saved
                                  /\ plan.saved[Wrap(p + 1)] = Append(plan.saved[p], r)
         /\ Pops(plan, p, r) => /\ plan.code[p] = 193 + 16 * r
                                /\ Wrap(p + 1) \in DOMAIN plan.saved
                                /\ plan.saved[p] = Append(plan.saved[Wrap(p + 1)], r)
BY Zenon DEF Pushes, Pops, GoesOn

\* A pair that a step of a handler leaves as it is, and one that is not pushed.
LEMMA StillSame ==
  ASSUME NEW plan, Working(plan), NEW p \in Pairs, SamePair(p), PairKept(p)
  PROVE  SamePair(p)'
<1>1. quietReg' = quietReg /\ quietStatus' = quietStatus
  BY DEF Working, quiet
<1> QED
  BY <1>1 DEF SamePair, PairKept

\* The digits of PUSH and POP.
LEMMA StackDigits ==
  ASSUME NEW r \in Pairs
  PROVE  /\ opcode = 197 + 16 * r => x = 3 /\ y = 2 * r /\ z = 5
         /\ opcode = 193 + 16 * r => x = 3 /\ y = 2 * r /\ z = 1
<1>1. r \in {0, 1, 2, 3}
  BY DEF Pairs
<1>2. ASSUME opcode = 197 + 16 * r PROVE x = 3 /\ y = 2 * r /\ z = 5
  <2>1. \/ r = 0 /\ opcode = 197
        \/ r = 1 /\ opcode = 213
        \/ r = 2 /\ opcode = 229
        \/ r = 3 /\ opcode = 245
    BY <1>1, <1>2
  <2> QED
    BY <2>1 DEF x, y, z
<1>3. ASSUME opcode = 193 + 16 * r PROVE x = 3 /\ y = 2 * r /\ z = 1
  <2>1. \/ r = 0 /\ opcode = 193
        \/ r = 1 /\ opcode = 209
        \/ r = 2 /\ opcode = 225
        \/ r = 3 /\ opcode = 241
    BY <1>1, <1>3
  <2> QED
    BY <2>1 DEF x, y, z
<1> QED
  BY <1>2, <1>3

\* A sequence with one more.
LEMMA Appended ==
  ASSUME NEW s \in Seq(Pairs), NEW r \in Pairs, NEW t, t = Append(s, r)
  PROVE  /\ t \in Seq(Pairs) /\ Len(t) = Len(s) + 1 /\ Len(s) \in Nat
         /\ \A j \in 1..Len(s) : t[j] = s[j] /\ j \in 1..Len(t)
         /\ t[Len(s) + 1] = r /\ Len(s) + 1 \in 1..Len(t)
         /\ \A j \in 1..Len(t) : j \in 1..Len(s) \/ j = Len(s) + 1
OBVIOUS

\* Frames and pairs fit into the room there is for them.
LEMMA DepthsFit ==
  ASSUME NEW n \in Nat \ {0}, NEW l \in Nat, NEW most \in Nat, NEW room,
         n <= MaxFrames, l <= most, room = 2 * (MaxFrames + most)
  PROVE  /\ n + l \in Nat \ {0} /\ 2 * (n + l) <= room
         /\ l < most => 2 * (n + l) + 2 <= room
         /\ n < MaxFrames => 2 * (n + l) + 2 <= room
         /\ \A j \in 1..l : n + j \in 1..(n + l)
         /\ \A i \in 1..n : i \in 1..(n + l)
         /\ (n + l) + 1 = n + (l + 1) /\ (n + (l + 1)) - 1 = n + l
BY MaxFramesAssumption

\* PUSH.
LEMMA HandlerPushes ==
  ASSUME NEW plan, Working(plan), pc_ \in DOMAIN plan.saved, Held(plan.saved[pc_]),
         iff_ = FALSE, Instruction,
         NEW r \in Pairs, Pushes(plan, pc_, r)
  PROVE  Unnoticed(plan)'
<1> SUFFICES ASSUME NEW s, s = plan.saved[pc_], NEW t, t = plan.saved[Wrap(pc_ + 1)],
                    NEW n, n = Len(frames), NEW l, l = Len(s), NEW d, d = n + l
             PROVE  Unnoticed(plan)'
  OBVIOUS
<1>1. /\ s \in Seq(Pairs) /\ l <= plan.most /\ l \in Nat
      /\ n \in Nat \ {0} /\ n <= MaxFrames
      /\ plan.most \in Nat /\ Room(plan) = 2 * (MaxFrames + plan.most)
  BY WorkSizes
<1>2. sp_ = Under(2 * d)
  BY DEF Held
<1>3. x = 3 /\ y = 2 * r /\ z = 5
  <2>1. opcode = 197 + 16 * r
    <3>1. opcode = plan.code[pc_]
      BY WorkPlace
    <3>2. plan.code[pc_] = 197 + 16 * r
      BY StackPlaces
    <3> QED
      BY <3>1, <3>2, Zenon
  <2> QED
    BY <2>1, StackDigits
<1>4. Push
  BY <1>3, Decoded DEF Is, Even, Pairs
<1>5. /\ \A j \in 1..l : WordAt(Under(2 * (n + j))) = QuietPair(s[j])
      /\ \A p \in Pairs : (\A j \in 1..l : s[j] # p) => SamePair(p)
  BY DEF Held
<1>6. /\ Wrap(pc_ + 1) \in DOMAIN plan.saved /\ Len(t) <= plan.most /\ t = Append(s, r)
      /\ \A i, j \in 1..Len(t) : t[i] = t[j] => i = j
  <2>1. Wrap(pc_ + 1) \in DOMAIN plan.saved /\ t = Append(s, r)
    BY StackPlaces
  <2>2. \A p \in DOMAIN plan.saved :
          /\ Len(plan.saved[p]) <= plan.most
          /\ \A i, j \in 1..Len(plan.saved[p]) : plan.saved[p][i] = plan.saved[p][j] => i = j
    BY DEF Working, GivesBack
  <2> QED
    BY <2>1, <2>2, Zenon
<1>7. /\ t \in Seq(Pairs) /\ Len(t) = l + 1
      /\ \A j \in 1..l : t[j] = s[j] /\ j \in 1..(l + 1)
      /\ t[l + 1] = r /\ l + 1 \in 1..(l + 1)
      /\ \A j \in 1..(l + 1) : j \in 1..l \/ j = l + 1
  BY <1>1, <1>6, Appended
<1>8. /\ d \in Nat /\ 2 * d + 2 <= Room(plan) /\ d + 1 = n + (l + 1)
      /\ \A j \in 1..l : n + j \in 1..d
      /\ \A i \in 1..n : i \in 1..d
  <2>1. l < plan.most
    BY <1>1, <1>6, <1>7
  <2> QED
    BY <1>1, <2>1, DepthsFit
<1>9. SamePair(r)
  <2>1. \A j \in 1..l : s[j] # r
    <3>1. \A j \in 1..l : j # l + 1
      BY <1>1
    <3> QED
      BY <1>6, <1>7, <3>1
  <2> QED
    BY <1>5, <2>1
<1>10. (IF y = 6 THEN Uint16(reg["a"], Value(status_)) ELSE PairValue(Pair)) = QuietPair(r)
  <2>1. Pair = r
    BY <1>3 DEF Pair, Pairs
  <2>2. y = 6 <=> r = 3
    BY <1>3 DEF Pairs
  <2> QED
    BY <1>9, <2>1, <2>2 DEF SamePair, QuietPair, PairValue
<1>11. /\ PushOnto(QuietPair(r)) /\ pc_' = Wrap(pc_ + 1)
       /\ UNCHANGED <<reg, status_, iff_, hlt_>>
  BY <1>4, <1>10 DEF Push, PushOnto, Changes, Advance
<1>12. /\ sp_' = Under(2 * (d + 1))
       /\ WordAt(Under(2 * (d + 1)))' = QuietPair(r)
       /\ \A i \in 1..d : WordAt(Under(2 * i))' = WordAt(Under(2 * i))
       /\ \A a \in Cells : Above(plan, a) => memory'[a] = memory[a]
  <2>1. /\ GivesBack(plan) /\ Disciplined(plan) /\ Sound /\ QuietSound /\ UNCHANGED quietSp
        /\ QuietPair(r) \in Word
    BY QuietPairBack DEF Working, quiet
  <2>2. Stacks(QuietPair(r))
    BY <1>11 DEF Stacks, PushOnto, Changes
  <2> QED
    BY <1>2, <1>8, <2>1, <2>2, PushBelow, Zenon
<1>13. \A i \in 1..n : WordAt(Under(2 * i))' = WordAt(Under(2 * i))
  BY <1>8, <1>12
<1>14. ASSUME NEW j \in 1..(l + 1) PROVE WordAt(Under(2 * (n + j)))' = QuietPair(t[j])
  <2>1. CASE j \in 1..l
    <3>1. WordAt(Under(2 * (n + j))) = QuietPair(s[j]) /\ n + j \in 1..d /\ t[j] = s[j]
      BY <1>5, <1>7, <1>8, <2>1
    <3>2. \A i : i \in 1..d => WordAt(Under(2 * i))' = WordAt(Under(2 * i))
      BY <1>12
    <3>3. WordAt(Under(2 * (n + j)))' = WordAt(Under(2 * (n + j)))
      BY <3>1, <3>2, Zenon
    <3> QED
      BY <3>1, <3>3
  <2>2. CASE j = l + 1
    <3>1. n + j = d + 1 /\ t[j] = r
      BY <1>7, <1>8, <2>2
    <3> QED
      BY <1>12, <3>1
  <2> QED
    BY <1>7, <2>1, <2>2
<1>15. ASSUME NEW p \in Pairs, \A j \in 1..(l + 1) : t[j] # p PROVE SamePair(p)'
  <2>1. SamePair(p)
    <3>1. \A j \in 1..l : s[j] # p
      BY <1>7, <1>15
    <3> QED
      BY <1>5, <3>1
  <2>2. PairKept(p)
    BY <1>11 DEF PairKept
  <2> QED
    BY <2>1, <2>2, StillSame
<1>16. Leads(plan, n, t)
  <2>1. hlt_' = hlt_ /\ iff_' = FALSE /\ pc_' \in DOMAIN plan.saved /\ plan.saved[pc_'] = t
    BY <1>6, <1>11
  <2>2. t \in Seq(Pairs) /\ Len(t) <= plan.most /\ sp_' = Under(2 * (n + Len(t)))
    BY <1>6, <1>7, <1>8, <1>12, Zenon
  <2>3. \A j \in 1..Len(t) : WordAt(Under(2 * (n + j)))' = QuietPair(t[j])
    BY <1>7, <1>14, Zenon
  <2>4. \A p \in Pairs : (\A j \in 1..Len(t) : t[j] # p) => SamePair(p)'
    BY <1>7, <1>15, Zenon
  <2> QED
    BY <1>12, <1>13, <2>1, <2>2, <2>3, <2>4, Zenon DEF Leads
<1> QED
  BY <1>16, WorkGoesOn, Zenon

\* POP.
LEMMA HandlerPops ==
  ASSUME NEW plan, Working(plan), pc_ \in DOMAIN plan.saved, Held(plan.saved[pc_]),
         iff_ = FALSE, Instruction,
         NEW r \in Pairs, Pops(plan, pc_, r)
  PROVE  Unnoticed(plan)'
<1> SUFFICES ASSUME NEW s, s = plan.saved[pc_], NEW t, t = plan.saved[Wrap(pc_ + 1)],
                    NEW n, n = Len(frames), NEW l, l = Len(t), NEW d, d = n + (l + 1)
             PROVE  Unnoticed(plan)'
  OBVIOUS
<1>1. /\ t \in Seq(Pairs) /\ l \in Nat /\ l <= plan.most /\ s = Append(t, r)
      /\ Wrap(pc_ + 1) \in DOMAIN plan.saved
  <2>1. Wrap(pc_ + 1) \in DOMAIN plan.saved /\ s = Append(t, r)
    BY StackPlaces
  <2>2. \A p \in DOMAIN plan.saved : plan.saved[p] \in Seq(Pairs) /\ Len(plan.saved[p]) <= plan.most
    BY DEF Working, GivesBack
  <2>3. t \in Seq(Pairs) /\ l <= plan.most
    BY <2>1, <2>2, Zenon
  <2> QED
    BY <2>1, <2>3
<1>2. /\ Len(s) = l + 1
      /\ \A j \in 1..l : s[j] = t[j] /\ j \in 1..(l + 1)
      /\ s[l + 1] = r /\ l + 1 \in 1..(l + 1)
      /\ \A j \in 1..(l + 1) : j \in 1..l \/ j = l + 1
  BY <1>1, Appended
<1>3. /\ n \in Nat \ {0} /\ n <= MaxFrames /\ l + 1 \in Nat /\ l + 1 <= plan.most
      /\ plan.most \in Nat /\ Room(plan) = 2 * (MaxFrames + plan.most)
  <2>1. /\ Len(s) <= plan.most /\ n \in Nat \ {0} /\ n <= MaxFrames
        /\ plan.most \in Nat /\ Room(plan) = 2 * (MaxFrames + plan.most)
    BY WorkSizes, Zenon
  <2> QED
    BY <1>1, <1>2, <2>1
<1>4. sp_ = Under(2 * d)
  BY <1>2, Zenon DEF Held
<1>5. x = 3 /\ y = 2 * r /\ z = 1
  <2>1. opcode = 193 + 16 * r
    <3>1. opcode = plan.code[pc_]
      BY WorkPlace
    <3>2. plan.code[pc_] = 193 + 16 * r
      BY StackPlaces
    <3> QED
      BY <3>1, <3>2, Zenon
  <2> QED
    BY <2>1, StackDigits
<1>6. Pop /\ Pair = r
  BY <1>5, Decoded DEF Is, Pairs, Pair
<1>7. /\ \A j \in 1..(l + 1) : WordAt(Under(2 * (n + j))) = QuietPair(s[j])
      /\ \A p \in Pairs : (\A j \in 1..(l + 1) : s[j] # p) => SamePair(p)
  BY <1>2 DEF Held
<1>8. d \in Nat \ {0} /\ 2 * d <= Room(plan) /\ d - 1 = n + l
  BY <1>1, <1>3, DepthsFit
<1>9. Popped = QuietPair(r) /\ Wrap(sp_ + 2) = Under(2 * (n + l))
  <2>1. WordAt(Under(2 * d)) = QuietPair(r)
    BY <1>2, <1>7
  <2>2. Popped = WordAt(Under(2 * d)) /\ Wrap(sp_ + 2) = Under(2 * (d - 1))
    <3>1. GivesBack(plan) /\ Disciplined(plan) /\ QuietSound
      BY DEF Working
    <3> QED
      BY <1>4, <1>8, <3>1, PopBelow, Zenon
  <2> QED
    BY <1>8, <2>1, <2>2
<1>10. /\ sp_' = Under(2 * (n + l)) /\ memory' = memory /\ iff_' = FALSE /\ hlt_' = hlt_
       /\ pc_' = Wrap(pc_ + 1)
  BY <1>6, <1>9 DEF Pop, Changes, Advance
<1>11. /\ r # 3 => reg' = SetPair(r, QuietPair(r)) /\ status_' = status_
       /\ r = 3 => /\ reg' = [reg EXCEPT !["a"] = QuietPair(r) \div 256]
                   /\ status_' = PopPsw(QuietPair(r))
  <2>1. (r = 3) = (y = 6)
    BY <1>5 DEF Pairs
  <2> QED
    BY <1>6, <1>9, <2>1 DEF Pop, Changes, Is
<1>12. reg \in [Names -> Byte] /\ QuietSound /\ quietReg' = quietReg /\ quietStatus' = quietStatus
  BY DEF Working, Sound, TypeOK, quiet
<1>13. SamePair(r)'
  <2>1. CASE r # 3
    <3>1. High(r) \in Names /\ Low(r) \in Names /\ High(r) # Low(r)
      BY <2>1, PairNames, NamedPairs DEF Pairs
    <3>2. QuietPair(r) \div 256 = quietReg[High(r)] /\ QuietPair(r) % 256 = quietReg[Low(r)]
      BY <1>12, <2>1, QuietPairBack
    <3> QED
      BY <1>11, <1>12, <2>1, <3>1, <3>2 DEF SamePair, SetPair
  <2>2. CASE r = 3
    <3>1. QuietPair(r) \div 256 = quietReg["a"] /\ PopPsw(QuietPair(r)) = quietStatus
      BY <1>12, <2>2, QuietPairBack
    <3> QED
      BY <1>11, <1>12, <2>2, <3>1 DEF SamePair, Names
  <2> QED
    BY <2>1, <2>2
<1>14. ASSUME NEW p \in Pairs, p # r PROVE PairKept(p)
  <2>1. p \in {0, 1, 2, 3} /\ r \in {0, 1, 2, 3}
    BY DEF Pairs
  <2> QED
    BY <1>11, <1>12, <1>14, <2>1, NamedPairs DEF PairKept, SetPair, Names
<1>15. ASSUME NEW p \in Pairs, \A j \in 1..l : t[j] # p PROVE SamePair(p)'
  <2>1. CASE p = r
    BY <1>13, <2>1
  <2>2. CASE p # r
    <3>1. \A j \in 1..(l + 1) : s[j] # p
      BY <1>2, <1>15, <2>2
    <3>2. SamePair(p)
      BY <1>7, <3>1
    <3> QED
      BY <1>14, <2>2, <3>2, StillSame
  <2> QED
    BY <2>1, <2>2
<1>16. \A k : WordAt(Under(k))' = WordAt(Under(k))
  <2>1. \A k : Under(k)' = Under(k)
    BY UnderStays DEF Working, quiet
  <2> QED
    BY <1>10, <2>1 DEF WordAt, Peek
<1>17. ASSUME NEW j \in 1..l PROVE WordAt(Under(2 * (n + j)))' = QuietPair(t[j])
  <2>1. WordAt(Under(2 * (n + j))) = QuietPair(t[j])
    BY <1>2, <1>7
  <2> QED
    BY <1>16, <2>1
<1>18. Leads(plan, n, t)
  <2>1. hlt_' = hlt_ /\ iff_' = FALSE /\ pc_' \in DOMAIN plan.saved /\ plan.saved[pc_'] = t
    BY <1>1, <1>10
  <2>2. \A a \in Cells : Above(plan, a) => memory'[a] = memory[a]
    BY <1>10
  <2>3. \A p \in Pairs : (\A j \in 1..Len(t) : t[j] # p) => SamePair(p)'
    BY <1>15, Zenon
  <2> QED
    BY <1>1, <1>10, <1>16, <1>17, <2>1, <2>2, <2>3, Zenon DEF Leads
<1> QED
  BY <1>18, WorkGoesOn, Zenon

\* An instruction that computes with pairs that are on the stack.
LEMMA HandlerComputes ==
  ASSUME NEW plan, Working(plan), pc_ \in DOMAIN plan.saved, Held(plan.saved[pc_]),
         iff_ = FALSE, Instruction,
         NEW length, NEW touched, Computes(plan.code[pc_], length, touched),
         \A r \in touched : \E j \in 1..Len(plan.saved[pc_]) : plan.saved[pc_][j] = r,
         GoesOn(plan, Wrap(pc_ + length), plan.saved[pc_])
  PROVE  Unnoticed(plan)'
<1> SUFFICES ASSUME NEW s, s = plan.saved[pc_], NEW n, n = Len(frames)
             PROVE  Unnoticed(plan)'
  OBVIOUS
<1>1. s \in Seq(Pairs) /\ Len(s) <= plan.most
  BY WorkSizes, Zenon
<1>2. Computed(length, touched)
  <2>1. opcode = plan.code[pc_]
    BY WorkPlace
  <2>2. TypeOK
    BY DEF Working, Sound
  <2> QED
    BY <2>1, <2>2, ComputesGoes
<1>3. /\ pc_' = Wrap(pc_ + length)
      /\ sp_' = sp_ /\ memory' = memory /\ iff_' = FALSE /\ hlt_' = hlt_
      /\ \A p \in Pairs \ touched : PairKept(p)
  BY <1>2 DEF Computed
<1>4. \A k : WordAt(Under(k))' = WordAt(Under(k))
  <2>1. \A k : Under(k)' = Under(k)
    BY UnderStays DEF Working, quiet
  <2> QED
    BY <1>3, <2>1 DEF WordAt, Peek
<1>5. /\ sp_ = Under(2 * (n + Len(s)))
      /\ \A j \in 1..Len(s) : WordAt(Under(2 * (n + j))) = QuietPair(s[j])
      /\ \A p \in Pairs : (\A j \in 1..Len(s) : s[j] # p) => SamePair(p)
  BY DEF Held
<1>6. \A p \in Pairs : (\A j \in 1..Len(s) : s[j] # p) => SamePair(p)'
  <2> SUFFICES ASSUME NEW p \in Pairs, \A j \in 1..Len(s) : s[j] # p
               PROVE  SamePair(p)'
    OBVIOUS
  <2>1. p \notin touched
    OBVIOUS
  <2> QED
    BY <1>3, <1>5, <2>1, StillSame
<1>7. pc_' \in DOMAIN plan.saved /\ iff_' = FALSE /\ plan.saved[pc_'] = s
  BY <1>3 DEF GoesOn
<1>8. \A a \in Cells : Above(plan, a) => memory'[a] = memory[a]
  BY <1>3
<1>9. \A j \in 1..Len(s) : WordAt(Under(2 * (n + j)))' = QuietPair(s[j])
  BY <1>4, <1>5, Zenon
<1>10. Leads(plan, n, s)
  BY <1>1, <1>3, <1>4, <1>5, <1>6, <1>7, <1>8, <1>9, Zenon DEF Leads
<1> QED
  BY <1>10, WorkGoesOn, Zenon

\* The EI before the RET of a handler.
LEMMA HandlerEnables ==
  ASSUME NEW plan, Working(plan), pc_ \in DOMAIN plan.saved, Held(plan.saved[pc_]),
         iff_ = FALSE, Instruction, Enables(plan, pc_)
  PROVE  Unnoticed(plan)'
<1> SUFFICES ASSUME NEW s, s = plan.saved[pc_], NEW n, n = Len(frames)
             PROVE  Unnoticed(plan)'
  OBVIOUS
<1>1. s \in Seq(Pairs) /\ Len(s) <= plan.most /\ s = <<>> /\ Len(s) = 0
  BY WorkSizes DEF Enables
<1>2. x = 3 /\ y = 7 /\ z = 3
  <2>1. opcode = 251
    BY WorkPlace DEF Enables
  <2> QED
    BY <2>1 DEF x, y, z
<1>3. Ei
  BY <1>2, Decoded DEF Is
<1>4. /\ pc_' = Wrap(pc_ + 1)
      /\ sp_' = sp_ /\ memory' = memory /\ iff_' = TRUE /\ hlt_' = hlt_
      /\ \A p \in Pairs : PairKept(p)
  BY <1>3 DEF Ei, Advance, PairKept
<1>5. \A k : WordAt(Under(k))' = WordAt(Under(k))
  <2>1. \A k : Under(k)' = Under(k)
    BY UnderStays DEF Working, quiet
  <2> QED
    BY <1>4, <2>1 DEF WordAt, Peek
<1>6. /\ sp_ = Under(2 * (n + Len(s)))
      /\ \A p \in Pairs : (\A j \in 1..Len(s) : s[j] # p) => SamePair(p)
  BY DEF Held
<1>7. \A p \in Pairs : (\A j \in 1..Len(s) : s[j] # p) => SamePair(p)'
  BY <1>4, <1>6, StillSame
<1>8. pc_' \in Leaving(plan) /\ iff_' = TRUE
  BY <1>4 DEF Leaving, Enables
<1>9. \A a \in Cells : Above(plan, a) => memory'[a] = memory[a]
  BY <1>4
<1>10. \A j \in 1..Len(s) : WordAt(Under(2 * (n + j)))' = QuietPair(s[j])
  BY <1>1
<1>11. Leads(plan, n, s)
  BY <1>1, <1>4, <1>5, <1>6, <1>7, <1>8, <1>9, <1>10, Zenon DEF Leads
<1> QED
  BY <1>11, WorkGoesOn, Zenon

\* After EI there is RET.
LEMMA LeavingReturns ==
  ASSUME NEW plan, GivesBack(plan), NEW p \in Leaving(plan)
  PROVE  p \in DOMAIN plan.code /\ plan.code[p] = 201
<1>1. PICK q \in DOMAIN plan.saved : plan.code[q] = 251 /\ p = Wrap(q + 1)
  BY DEF Leaving
<1>2. Place(plan, q)
  BY DEF GivesBack
<1>3. \A r \in Pairs : ~Pushes(plan, q, r) /\ ~Pops(plan, q, r)
  <2> SUFFICES ASSUME NEW r \in Pairs
               PROVE  plan.code[q] # 197 + 16 * r /\ plan.code[q] # 193 + 16 * r
    BY StackPlaces
  <2>1. r \in {0, 1, 2, 3}
    BY DEF Pairs
  <2> QED
    BY <1>1, <2>1
<1>4. \A length, touched : ~Computes(plan.code[q], length, touched)
  BY <1>1 DEF Computes, Odd
<1> QED
  BY <1>1, <1>2, <1>3, <1>4 DEF Place, Enables

\* All pairs are those of the program: so are the registers and the flags.
LEMMA AllSame ==
  ASSUME TypeOK, QuietSound, \A p \in Pairs : SamePair(p)
  PROVE  reg = quietReg /\ status_ = quietStatus
<1>1. SamePair(0) /\ SamePair(1) /\ SamePair(2) /\ SamePair(3)
  BY DEF Pairs
<1>2. /\ reg["a"] = quietReg["a"] /\ reg["b"] = quietReg["b"] /\ reg["c"] = quietReg["c"]
      /\ reg["d"] = quietReg["d"] /\ reg["e"] = quietReg["e"]
      /\ reg["h"] = quietReg["h"] /\ reg["l"] = quietReg["l"]
      /\ status_ = quietStatus
  BY <1>1, NamedPairs DEF SamePair
<1> QED
  BY <1>2 DEF TypeOK, QuietSound, Names

\* One frame less.
LEMMA NestedReturns ==
  ASSUME NEW plan, Nested(plan), frames # <<>>, frames' = Tail(frames), UNCHANGED quiet,
         \A k : WordAt(Under(k))' = WordAt(Under(k))
  PROVE  Nested(plan)' /\ Len(frames') = Len(frames) - 1
<1>1. /\ frames \in Seq(Word) /\ Len(frames) <= MaxFrames /\ Len(frames) \in Nat \ {0}
      /\ frames' \in Seq(Word) /\ Len(frames') = Len(frames) - 1
      /\ \A i \in 1..Len(frames') : frames'[i] = frames[i + 1]
  BY DEF Nested
<1>2. (\A k : Under(k)' = Under(k)) /\ quietPc' = quietPc /\ Leaving(plan)' = Leaving(plan)
  BY UnderStays DEF quiet, Leaving
<1>3. \A i \in 1..Len(frames') : frames'[i] = Under(2 * (Len(frames') - i))
  <2> SUFFICES ASSUME NEW i \in 1..Len(frames')
               PROVE  frames[i + 1] = Under(2 * (Len(frames') - i))
    BY <1>1
  <2>1. i + 1 \in 1..Len(frames) /\ Len(frames) - (i + 1) = Len(frames') - i
    BY <1>1
  <2>2. frames[i + 1] = Under(2 * (Len(frames) - (i + 1)))
    BY <2>1 DEF Nested
  <2> QED
    BY <2>1, <2>2
<1>4. Len(frames') > 0 => WordAt(Under(2))' = quietPc'
  <2>1. Len(frames) > 0
    BY <1>1
  <2> QED
    BY <1>2, <2>1 DEF Nested
<1>5. \A i \in 2..Len(frames') : WordAt(Under(2 * i)) \in Leaving(plan)
  <2> SUFFICES ASSUME NEW i \in 2..Len(frames')
               PROVE  WordAt(Under(2 * i)) \in Leaving(plan)
    OBVIOUS
  <2>1. i \in 2..Len(frames)
    BY <1>1
  <2> QED
    BY <2>1 DEF Nested
<1>6. Len(frames') <= MaxFrames
  BY <1>1, MaxFramesAssumption
<1>7. \A i \in 1..Len(frames') : frames'[i] = Under(2 * (Len(frames) - i))'
  BY <1>2, <1>3, Zenon
<1>8. \A i \in 2..Len(frames') : WordAt(Under(2 * i))' \in Leaving(plan)'
  BY <1>2, <1>5, Zenon
<1> QED
  BY <1>1, <1>4, <1>6, <1>7, <1>8, Zenon DEF Nested

\* The RET of a handler, to the program or to the handler that it interrupted.
LEMMA HandlerReturns ==
  ASSUME NEW plan, Working(plan), pc_ \in Leaving(plan), Held(<<>>), iff_ = TRUE, Instruction
  PROVE  Unnoticed(plan)'
<1> SUFFICES ASSUME NEW n, n = Len(frames) PROVE Unnoticed(plan)'
  OBVIOUS
<1>1. GivesBack(plan) /\ Disciplined(plan) /\ Sound /\ QuietSound /\ Agreed(plan) /\ Nested(plan)
  BY DEF Working
<1>2. /\ quietReg' = quietReg /\ quietPc' = quietPc /\ quietSp' = quietSp
      /\ quietStatus' = quietStatus /\ quietIff' = quietIff /\ quietMemory' = quietMemory
      /\ quietHlt' = quietHlt
  BY DEF Working, quiet
<1>3. /\ n \in Nat \ {0} /\ n <= MaxFrames /\ plan.most \in Nat
      /\ Room(plan) = 2 * (MaxFrames + plan.most)
  BY <1>1 DEF Working, Nested, GivesBack, Room
<1>4. sp_ = Under(2 * n) /\ \A p \in Pairs : SamePair(p)
  <2>1. sp_ = Under(2 * (n + 0)) /\ \A p \in Pairs : SamePair(p)
    BY DEF Held
  <2> QED
    BY <1>3, <2>1
<1>5. opcode = 201
  BY <1>1, LeavingReturns, FetchesCode
<1>6. RetOnFlag /\ x = 3 /\ y = 1 /\ z = 1
  <2>1. x = 3 /\ y = 1 /\ z = 1
    BY <1>5 DEF x, y, z
  <2> QED
    BY <2>1, Decoded DEF Is
<1>7. /\ pc_' = Popped /\ sp_' = Wrap(sp_ + 2)
      /\ reg' = reg /\ status_' = status_ /\ memory' = memory /\ iff_' = TRUE /\ hlt_' = hlt_
  BY <1>6 DEF RetOnFlag, Is, Changes, Jump
<1>8. pc_' = WordAt(Under(2 * n)) /\ sp_' = Under(2 * (n - 1))
  <2>1. 2 * n <= Room(plan)
    BY <1>3, MaxFramesAssumption
  <2>2. Popped = WordAt(Under(2 * n)) /\ Wrap(sp_ + 2) = Under(2 * (n - 1))
    BY <1>1, <1>3, <1>4, <2>1, PopBelow
  <2> QED
    BY <1>7, <2>2
<1>9. frames' = Tail(frames)
  <2>1. Head(frames) = Under(2 * (n - 1))
    BY <1>1, <1>3 DEF Nested, Working
  <2> QED
    BY <1>8, <2>1 DEF Working
<1>10. \A k : WordAt(Under(k))' = WordAt(Under(k))
  <2>1. \A k : Under(k)' = Under(k)
    BY <1>2, UnderStays
  <2> QED
    BY <1>7, <2>1 DEF WordAt, Peek
<1>11. Nested(plan)' /\ Len(frames') = n - 1
  BY <1>1, <1>9, <1>10, NestedReturns DEF Working
<1>12. \A p \in Pairs : SamePair(p)'
  BY <1>2, <1>4, <1>7 DEF SamePair
<1>13. QuietSound' /\ Sound'
  BY <1>1, <1>2 DEF Working, QuietSound
<1>14. Agreed(plan)'
  BY <1>1, <1>2, <1>7 DEF Agreed, Above
<1>15. n - 1 = 0 => n = 1
  <2>1. n \in Int
    BY <1>3
  <2> QED
    BY ONLY <2>1
<1>16. ASSUME frames' = <<>> PROVE Alike'
  <2>1. n = 1
    <3>1. Len(frames') = 0
      BY <1>16
    <3>2. n - 1 = 0
      BY <1>11, <3>1, Zenon
    <3> QED
      BY <1>15, <3>2
  <2>2. reg = quietReg /\ status_ = quietStatus
    BY <1>1, <1>4, AllSame DEF Sound
  <2>3. pc_' = quietPc
    <3>1. WordAt(Under(2)) = quietPc
      BY <1>1, <2>1 DEF Nested
    <3> QED
      BY <1>8, <2>1, <3>1
  <2>4. sp_' = quietSp
    <3>1. Under(0) = quietSp
      BY <1>1, UnderAddresses DEF QuietSound
    <3> QED
      BY <1>8, <2>1, <3>1
  <2> QED
    BY <1>2, <1>7, <2>2, <2>3, <2>4 DEF Alike, Working
<1>17. ASSUME frames' # <<>> PROVE InHandler(plan)'
  <2>1. n \in 2..Len(frames) /\ Len(frames') = n - 1
    <3>1. frames' \in Seq(Word)
      BY <1>11 DEF Nested
    <3> QED
      BY <1>3, <1>11, <1>17, <3>1
  <2>2. pc_' \in Leaving(plan)'
    BY <1>1, <1>8, <2>1 DEF Nested, Leaving
  <2>3. Held(<<>>)'
    <3>1. sp_' = Under(2 * (Len(frames') + Len(<<>>)))
      <4>1. Len(frames') + Len(<<>>) = n - 1
        BY <1>3, <2>1
      <4> QED
        BY <1>8, <4>1
    <3>2. sp_' = Under(2 * (Len(frames) + Len(<<>>)))'
      BY <1>2, <3>1, UnderStays
    <3> QED
      BY <1>12, <3>2 DEF Held
  <2> QED
    BY <1>2, <1>7, <2>2, <2>3 DEF InHandler, Working
<1> QED
  BY <1>11, <1>13, <1>14, <1>16, <1>17 DEF Unnoticed

\* Every step of a handler.
LEMMA HandlerKeeps ==
  ASSUME NEW plan, GivesBack(plan), Unnoticed(plan), Disciplined(plan), ExecuteHandler
  PROVE  Unnoticed(plan)'
<1>1. InHandler(plan) /\ Instruction
  BY DEF Unnoticed, ExecuteHandler, InHandler, Execute
<1>2. Working(plan)
  <2>1. Sound'
    BY NextSound DEF Unnoticed, ExecuteHandler, Next
  <2> QED
    BY <1>1, <2>1 DEF Working, Unnoticed, ExecuteHandler, InHandler
<1>3. CASE pc_ \in Leaving(plan) /\ iff_ = TRUE /\ Held(<<>>)
  BY <1>1, <1>2, <1>3, HandlerReturns
<1>4. CASE pc_ \in DOMAIN plan.saved /\ iff_ = FALSE /\ Held(plan.saved[pc_])
  <2>1. Place(plan, pc_)
    BY <1>4 DEF GivesBack
  <2>2. CASE \E r \in Pairs : Pushes(plan, pc_, r) \/ Pops(plan, pc_, r)
    BY <1>1, <1>2, <1>4, <2>2, HandlerPushes, HandlerPops
  <2>3. CASE Enables(plan, pc_)
    BY <1>1, <1>2, <1>4, <2>3, HandlerEnables
  <2>4. CASE \E length \in 1..3, touched \in SUBSET Pairs :
               /\ Computes(plan.code[pc_], length, touched)
               /\ \A r \in touched : \E j \in 1..Len(plan.saved[pc_]) : plan.saved[pc_][j] = r
               /\ GoesOn(plan, Wrap(pc_ + length), plan.saved[pc_])
    BY <1>1, <1>2, <1>4, <2>4, HandlerComputes
  <2> QED
    BY <2>1, <2>2, <2>3, <2>4 DEF Place
<1> QED
  BY <1>1, <1>3, <1>4 DEF InHandler


\* One frame more, for a handler that starts.
LEMMA NestedStarts ==
  ASSUME NEW plan, Nested(plan), NEW n, n = Len(frames), n < MaxFrames,
         sp_ \in Word, sp_ = Under(2 * n), frames' = <<sp_>> \o frames, UNCHANGED quiet,
         \A i \in 1..n : WordAt(Under(2 * i))' = WordAt(Under(2 * i)),
         n = 0 => WordAt(Under(2 * (n + 1)))' = quietPc,
         n > 0 => WordAt(Under(2 * (n + 1)))' \in Leaving(plan)
  PROVE  Nested(plan)' /\ Len(frames') = n + 1 /\ frames' # <<>>
<1>1. frames \in Seq(Word) /\ n \in Nat /\ n + 1 <= MaxFrames
  BY MaxFramesAssumption DEF Nested
<1>2. /\ frames' \in Seq(Word) /\ Len(frames') = n + 1 /\ frames' # <<>>
      /\ frames'[1] = sp_ /\ \A i \in 2..(n + 1) : frames'[i] = frames[i - 1]
  BY <1>1
<1>3. (\A k : Under(k)' = Under(k)) /\ quietPc' = quietPc /\ Leaving(plan)' = Leaving(plan)
  BY UnderStays DEF quiet, Leaving
<1>4. \A i \in 1..(n + 1) : frames'[i] = Under(2 * ((n + 1) - i))
  <2> SUFFICES ASSUME NEW i \in 1..(n + 1)
               PROVE  frames'[i] = Under(2 * ((n + 1) - i))
    OBVIOUS
  <2>1. CASE i = 1
    <3>1. (n + 1) - i = n
      BY <1>1, <2>1
    <3> QED
      BY <1>2, <2>1, <3>1
  <2>2. CASE i # 1
    <3>1. i \in 2..(n + 1) /\ i - 1 \in 1..n /\ n - (i - 1) = (n + 1) - i
      BY <1>1, <2>2
    <3>2. frames[i - 1] = Under(2 * (n - (i - 1)))
      BY <3>1 DEF Nested
    <3> QED
      BY <1>2, <3>1, <3>2
  <2> QED
    BY <2>1, <2>2
<1>5. WordAt(Under(2))' = quietPc
  <2>1. CASE n = 0
    <3>1. 2 * (n + 1) = 2
      BY <2>1
    <3> QED
      BY <2>1, <3>1
  <2>2. CASE n # 0
    <3>1. n > 0 /\ 1 \in 1..n /\ 2 * 1 = 2
      BY <1>1, <2>2
    <3> QED
      BY <3>1 DEF Nested
  <2> QED
    BY <2>1, <2>2
<1>6. \A i \in 2..(n + 1) : WordAt(Under(2 * i))' \in Leaving(plan)
  <2> SUFFICES ASSUME NEW i \in 2..(n + 1)
               PROVE  WordAt(Under(2 * i))' \in Leaving(plan)
    OBVIOUS
  <2>1. CASE i = n + 1
    <3>1. n > 0
      BY <1>1, <2>1
    <3> QED
      BY <2>1, <3>1
  <2>2. CASE i # n + 1
    <3>1. i \in 1..n /\ i \in 2..n
      BY <1>1, <2>2
    <3> QED
      BY <3>1 DEF Nested
  <2> QED
    BY <2>1, <2>2
<1>7. \A i \in 1..Len(frames') : frames'[i] = Under(2 * ((n + 1) - i))'
  BY <1>2, <1>3, <1>4, Zenon
<1>8. \A i \in 2..Len(frames') : WordAt(Under(2 * i))' \in Leaving(plan)'
  BY <1>2, <1>3, <1>6, Zenon
<1>9. Len(frames') <= MaxFrames /\ quietPc' = WordAt(Under(2))'
  BY <1>1, <1>2, <1>3, <1>5
<1>10. \A m : m = n + 1 => Nested(plan)'
  BY <1>2, <1>7, <1>8, <1>9 DEF Nested
<1> QED
  BY <1>2, <1>10

\* An interrupt that is not enabled.
LEMMA LostKeeps ==
  ASSUME NEW plan, Unnoticed(plan), NEW isr \in Restarts, Interrupted(isr), ~iff_
  PROVE  Unnoticed(plan)'
<1>1. /\ UNCHANGED <<reg, pc_, sp_, status_, iff_, hlt_, memory>>
      /\ frames' = frames
      /\ UNCHANGED <<quietReg, quietPc, quietSp, quietStatus, quietIff, quietMemory>>
  BY DEF Interrupted, Interrupt, Stall, quiet
<1>2. quietHlt' = quietHlt
  <2>1. quietHlt \in BOOLEAN
    BY DEF Unnoticed, Alike, InHandler, Sound, TypeOK
  <2>2. quietHlt' = (quietHlt /\ ~(iff_ /\ frames = <<>>))
    BY DEF Interrupted
  <2> QED
    BY <2>1, <2>2
<1>3. Sound'
  BY NextSound DEF Unnoticed, Interrupted, Next
<1>4. QuietSound' /\ Agreed(plan)'
  BY <1>1 DEF Unnoticed, QuietSound, Agreed, Above
<1>5. \A k : Under(k)' = Under(k) /\ WordAt(Under(k))' = WordAt(Under(k))
  BY <1>1 DEF Under, WordAt, Peek
<1>6. Nested(plan)'
  <2>1. Nested(plan) /\ UNCHANGED <<frames, quiet>>
    BY DEF Unnoticed, Interrupted, Interrupt
  <2> QED
    BY <1>1, <1>5, <2>1, NestedGoesOn
<1>7. frames' = <<>> => Alike'
  BY <1>1, <1>2 DEF Unnoticed, Alike
<1>8. ASSUME frames' # <<>> PROVE InHandler(plan)'
  <2>1. \A p \in Pairs : SamePair(p)' <=> SamePair(p)
    BY <1>1 DEF SamePair
  <2>2. \A p \in Pairs : QuietPair(p)' = QuietPair(p)
    BY <1>1 DEF QuietPair
  <2>3. pc_ \in DOMAIN plan.saved /\ iff_ = FALSE /\ Held(plan.saved[pc_])
    BY <1>1, <1>8 DEF Unnoticed, InHandler
  <2>4. Held(plan.saved[pc_])'
    <3> SUFFICES ASSUME NEW s, s = plan.saved[pc_], NEW n, n = Len(frames)
                 PROVE  Held(plan.saved[pc_])'
      OBVIOUS
    <3>1. plan.saved[pc_'] = s /\ Len(frames') = n
      BY <1>1
    <3>2. sp_' = Under(2 * (n + Len(s)))'
      BY <1>1, <1>5, <2>3 DEF Held
    <3>3. \A j \in 1..Len(s) : WordAt(Under(2 * (n + j)))' = QuietPair(s[j])'
      BY <1>1, <1>5, <2>3 DEF Held, QuietPair
    <3>4. \A p \in Pairs : (\A j \in 1..Len(s) : s[j] # p) => SamePair(p)'
      BY <2>1, <2>3 DEF Held
    <3> QED
      BY <3>1, <3>2, <3>3, <3>4 DEF Held
  <2>5. hlt_ = FALSE /\ quietHlt = FALSE /\ quietIff = TRUE
    BY <1>1, <1>8 DEF Unnoticed, InHandler
  <2> QED
    BY <1>1, <1>2, <2>3, <2>4, <2>5 DEF InHandler
<1> QED
  BY <1>3, <1>4, <1>6, <1>7, <1>8 DEF Unnoticed

\* An interrupt, of the program or of a handler that is about to return.
LEMMA TakenKeeps ==
  ASSUME NEW plan, GivesBack(plan), Unnoticed(plan), Disciplined(plan),
         NEW isr \in Restarts, Interrupted(isr), iff_
  PROVE  Unnoticed(plan)'
<1> SUFFICES ASSUME NEW n, n = Len(frames) PROVE Unnoticed(plan)'
  OBVIOUS
<1>1. Sound /\ QuietSound /\ Agreed(plan) /\ Nested(plan) /\ iff_ = TRUE
  BY DEF Unnoticed, Sound, TypeOK
<1>2. /\ Stacks(pc_) /\ pc_' = 8 * isr /\ iff_' = FALSE /\ hlt_' = FALSE
      /\ reg' = reg /\ status_' = status_ /\ frames' = <<sp_>> \o frames /\ n < MaxFrames
      /\ UNCHANGED quiet /\ quietHlt' = (quietHlt /\ frames # <<>>)
  BY <1>1 DEF Interrupted, Interrupt, Return, Jump, Stacks
<1>3. /\ quietReg' = quietReg /\ quietPc' = quietPc /\ quietSp' = quietSp
      /\ quietStatus' = quietStatus /\ quietIff' = quietIff /\ quietMemory' = quietMemory
  BY <1>2 DEF quiet
<1>4. n \in Nat /\ n <= MaxFrames /\ (n = 0 <=> frames = <<>>)
  BY <1>1 DEF Nested
<1>5. /\ sp_ = Under(2 * n) /\ quietIff = TRUE /\ quietHlt' = FALSE
      /\ \A p \in Pairs : SamePair(p)
      /\ n = 0 => pc_ = quietPc
      /\ n > 0 => pc_ \in Leaving(plan)
  <2>1. CASE frames = <<>>
    <3>1. Alike /\ n = 0
      BY <1>4, <2>1 DEF Unnoticed
    <3>2. Under(0) = quietSp
      BY <1>1, UnderAddresses DEF QuietSound
    <3>3. \A p \in Pairs : SamePair(p)
      BY <3>1 DEF Alike, SamePair
    <3>4. pc_ = quietPc /\ sp_ = quietSp /\ quietIff = TRUE
      BY <1>1, <3>1 DEF Alike
    <3>5. sp_ = Under(2 * n) /\ ~(n > 0)
      BY <3>1, <3>2, <3>4
    <3>6. quietHlt' = FALSE
      BY <1>2, <2>1
    <3> QED
      BY <3>3, <3>4, <3>5, <3>6
  <2>2. CASE frames # <<>>
    <3>1. InHandler(plan) /\ n # 0
      BY <1>4, <2>2 DEF Unnoticed
    <3>2. pc_ \in Leaving(plan) /\ Held(<<>>) /\ quietHlt = FALSE /\ quietIff = TRUE
      BY <1>1, <3>1 DEF InHandler
    <3>3. sp_ = Under(2 * n) /\ \A p \in Pairs : SamePair(p)
      <4>1. sp_ = Under(2 * (n + 0)) /\ \A p \in Pairs : SamePair(p)
        BY <3>2 DEF Held
      <4> QED
        BY <1>4, <4>1
    <3> QED
      BY <1>2, <1>4, <3>1, <3>2, <3>3
  <2> QED
    BY <2>1, <2>2
<1>6. /\ sp_' = Under(2 * (n + 1)) /\ WordAt(Under(2 * (n + 1)))' = pc_
      /\ \A i \in 1..n : WordAt(Under(2 * i))' = WordAt(Under(2 * i))
      /\ \A a \in Cells : Above(plan, a) => memory'[a] = memory[a]
  <2>1. pc_ \in Word /\ n \in Nat /\ 2 * n + 2 <= Room(plan)
    <3>1. plan.most \in Nat /\ Room(plan) = 2 * (MaxFrames + plan.most)
      BY DEF GivesBack, Room
    <3> QED
      BY <1>1, <1>2, <1>4, <3>1, MaxFramesAssumption DEF Sound, TypeOK
  <2> QED
    BY <1>1, <1>2, <1>3, <1>5, <2>1, PushBelow
<1>7. Nested(plan)' /\ Len(frames') = n + 1 /\ frames' # <<>>
  <2>1. sp_ \in Word
    BY <1>1 DEF Sound, TypeOK
  <2> QED
    BY <1>1, <1>2, <1>5, <1>6, <2>1, NestedStarts
<1>8. Sound' /\ QuietSound'
  BY <1>1, <1>3, NextSound DEF Interrupted, Next, QuietSound
<1>9. Agreed(plan)'
  BY <1>1, <1>3, <1>6 DEF Agreed, Above
<1>10. InHandler(plan)'
  <2>1. pc_' \in DOMAIN plan.saved /\ plan.saved[pc_'] = <<>>
    BY <1>2 DEF GivesBack
  <2>2. Held(<<>>)'
    <3>1. sp_' = Under(2 * (Len(frames') + Len(<<>>)))
      <4>1. Len(frames') + Len(<<>>) = n + 1
        BY <1>4, <1>7
      <4> QED
        BY <1>6, <4>1
    <3>2. sp_' = Under(2 * (Len(frames) + Len(<<>>)))'
      BY <1>3, <3>1, UnderStays
    <3>3. \A p \in Pairs : SamePair(p)'
      BY <1>2, <1>3, <1>5 DEF SamePair
    <3> QED
      BY <3>2, <3>3 DEF Held
  <2> QED
    BY <1>2, <1>3, <1>5, <2>1, <2>2 DEF InHandler
<1> QED
  BY <1>7, <1>8, <1>9, <1>10 DEF Unnoticed

-----------------------------------------------------------------------------
(* The theorem.                                                            *)

\* Both cpus start alike.
LEMMA InitUnnoticed ==
  ASSUME NEW plan, InterruptedInit
  PROVE  Unnoticed(plan)
<1>1. Init /\ Quiet!Init /\ frames = <<>>
  BY DEF InterruptedInit
<1>2. Sound
  BY <1>1, InitSound
<1>3. Alike /\ quietMemory = memory
  BY <1>1 DEF Init, Quiet!Init, Alike
<1>4. QuietSound
  BY <1>2, <1>3, SoundFacts DEF Alike, QuietSound, Sound, TypeOK, StatusShape, Shape
<1>5. Agreed(plan)
  BY <1>2, <1>3 DEF Agreed, Sound, TypeOK
<1>6. Nested(plan)
  BY <1>1, MaxFramesAssumption DEF Nested
<1> QED
  BY <1>1, <1>2, <1>3, <1>4, <1>5, <1>6 DEF Unnoticed

\* Every step keeps what makes an interruption unnoticed.
LEMMA UnnoticedKept ==
  ASSUME NEW plan, GivesBack(plan), Unnoticed(plan), Disciplined(plan),
         [InterruptedNext]_<<vars, frames, quiet, quietHlt>>, [Grows(plan)]_quietSp
  PROVE  Unnoticed(plan)'
<1>1. CASE ExecuteProgram
  BY <1>1, ProgramKeeps
<1>2. CASE ExecuteHandler
  BY <1>2, HandlerKeeps
<1>3. ASSUME NEW isr \in Restarts, Interrupted(isr) PROVE Unnoticed(plan)'
  BY <1>3, LostKeeps, TakenKeeps
<1>4. CASE UNCHANGED <<vars, frames, quiet, quietHlt>>
  BY <1>4 DEF vars, quiet, Unnoticed, Sound, TypeOK, StatusShape, QuietSound, Agreed, Above, Nested, Alike,
    InHandler, Held, SamePair, QuietPair, Under, WordAt, Peek, Leaving
<1> QED
  BY <1>1, <1>2, <1>3, <1>4 DEF InterruptedNext

\* The cells that the program may read are above its stack.
LEMMA KeptIsAbove ==
  ASSUME NEW plan, GivesBack(plan), Disciplined(plan), QuietSound, sp_ = quietSp,
         NEW a \in Kept
  PROVE  Above(plan, a)
<1>1. PICK s \in Int, b \in Int, c \in Int :
        /\ s = quietSp /\ 0 <= s /\ s <= 65535 /\ b = plan.bottom /\ 0 <= b /\ b <= 65535
        /\ c = a /\ 0 <= c /\ c <= 65535
  BY WordRange, CellsAssumption DEF QuietSound, GivesBack, Kept
<1>2. Wrap(c - s) < 32768
  BY <1>1 DEF Kept, Wrap
<1>3. Wrap(s - b) <= 32768
  <2>1. Wrap(s - b) <= plan.size /\ plan.size \in Nat /\ plan.size <= 32768
    BY <1>1 DEF Disciplined, GivesBack, Offset
  <2>2. Wrap(s - b) \in Int
    BY <1>1, WrapNear
  <2> QED
    BY <2>1, <2>2
<1>4. Wrap(c - s) = IF c >= s THEN c - s ELSE c - s + 65536
  BY <1>1, WrapNear
<1>5. Wrap(s - b) = IF s >= b THEN s - b ELSE s - b + 65536
  BY <1>1, WrapNear
<1>6. Wrap(c - b) = IF c >= b THEN c - b ELSE c - b + 65536
  BY <1>1, WrapNear
<1>7. Wrap(c - b) >= Wrap(s - b)
  BY <1>1, <1>2, <1>3, <1>4, <1>5, <1>6
<1> QED
  BY <1>1, <1>7 DEF Above, Offset

\* What the program sees of itself.
LEMMA UnnoticedSuffices ==
  ASSUME NEW plan, GivesBack(plan), Disciplined(plan), Unnoticed(plan)
  PROVE  InterruptsUnnoticed
<1> SUFFICES ASSUME frames = <<>>
             PROVE  /\ <<reg, pc_, sp_, status_, iff_, hlt_>>
                         = <<quietReg, quietPc, quietSp, quietStatus, quietIff, quietHlt>>
                    /\ \A a \in Kept : memory[a] = quietMemory[a]
  BY DEF InterruptsUnnoticed
<1>1. Alike /\ Agreed(plan) /\ QuietSound
  BY DEF Unnoticed
<1>2. sp_ = quietSp
  BY <1>1 DEF Alike
<1>3. \A a \in Kept : Above(plan, a) /\ a \in Cells
  BY <1>1, <1>2, KeptIsAbove DEF Kept
<1> QED
  BY <1>1, <1>3 DEF Alike, Agreed

\* A program does not notice that it was interrupted: whatever the program and the
\* handlers are, if the handlers give back what they take and the program leaves
\* them, and what is below its stack, alone.
THEOREM DisciplineIsEnough ==
  ASSUME NEW CONSTANT plan, GivesBack(plan)
  PROVE  InterruptedSpec /\ []Disciplined(plan) /\ [][Grows(plan)]_quietSp
           => []InterruptsUnnoticed
<1>1. InterruptedInit => Unnoticed(plan)
  BY InitUnnoticed
<1>2. /\ Unnoticed(plan) /\ Disciplined(plan)
      /\ [InterruptedNext]_<<vars, frames, quiet, quietHlt>> /\ [Grows(plan)]_quietSp
      => Unnoticed(plan)'
  BY UnnoticedKept
<1>3. Unnoticed(plan) /\ Disciplined(plan) => InterruptsUnnoticed
  BY UnnoticedSuffices
<1> QED
  BY <1>1, <1>2, <1>3, PTL DEF InterruptedSpec

-----------------------------------------------------------------------------
(* The handlers of MCInterruptedCpu.                                       *)

\* What they have on the stack at p.
Given(p) ==
  IF p \in 10..12 THEN <<3, 0>> ELSE IF p \in {9, 13} \cup (17..21) THEN <<3>> ELSE <<>>

\* Their code, what they have on the stack, and the cells below the program.
SomePlan ==
  [bottom |-> 65516, size |-> 24, most |-> 2,
   code |-> [a \in 8..23 |-> Handlers[a - 7]],
   saved |-> [p \in (8..14) \cup (16..22) |-> Given(p)]]

\* Where its code is.
LEMMA SomeShape ==
  /\ SomePlan.bottom = 65516 /\ SomePlan.size = 24 /\ SomePlan.most = 2
  /\ DOMAIN SomePlan.code = 8..23 /\ DOMAIN SomePlan.saved = (8..14) \cup (16..22)
BY DEF SomePlan

\* The bytes of the handlers.
LEMMA SomeHandlers ==
  /\ SomePlan.code[8] = 245 /\ SomePlan.code[9] = 197 /\ SomePlan.code[10] = 175
  /\ SomePlan.code[11] = 71 /\ SomePlan.code[12] = 193 /\ SomePlan.code[13] = 241
  /\ SomePlan.code[14] = 251 /\ SomePlan.code[15] = 201
  /\ SomePlan.code[16] = 245 /\ SomePlan.code[17] = 55 /\ SomePlan.code[18] = 23
  /\ SomePlan.code[19] = 47 /\ SomePlan.code[20] = 0 /\ SomePlan.code[21] = 241
  /\ SomePlan.code[22] = 251 /\ SomePlan.code[23] = 201
<1>1. \A a \in 8..23 : SomePlan.code[a] = Handlers[a - 7]
  BY DEF SomePlan
<1> QED
  BY <1>1 DEF Handlers

\* What they have on the stack, place by place.
LEMMA SomeSaved ==
  /\ \A p \in {8, 14, 16, 22} : p \in DOMAIN SomePlan.saved /\ SomePlan.saved[p] = <<>>
  /\ \A p \in {9, 13, 17, 18, 19, 20, 21} :
       p \in DOMAIN SomePlan.saved /\ SomePlan.saved[p] = <<3>>
  /\ \A p \in {10, 11, 12} : p \in DOMAIN SomePlan.saved /\ SomePlan.saved[p] = <<3, 0>>
<1>1. \A p \in (8..14) \cup (16..22) : p \in DOMAIN SomePlan.saved /\ SomePlan.saved[p] = Given(p)
  BY DEF SomePlan
<1>2. /\ \A p \in {8, 14, 16, 22} : p \in (8..14) \cup (16..22) /\ Given(p) = <<>>
      /\ \A p \in {9, 13, 17, 18, 19, 20, 21} : p \in (8..14) \cup (16..22) /\ Given(p) = <<3>>
      /\ \A p \in {10, 11, 12} : p \in (8..14) \cup (16..22) /\ Given(p) = <<3, 0>>
  BY DEF Given
<1> QED
  BY <1>1, <1>2

\* One and two pairs on the stack.
LEMMA OneAndTwo ==
  /\ Append(<<>>, 3) = <<3>> /\ Append(<<3>>, 0) = <<3, 0>>
  /\ \A s : s = <<>> \/ s = <<3>> \/ s = <<3, 0>> =>
       s \in Seq(Pairs) /\ Len(s) <= 2 /\ \A i, j \in 1..Len(s) : s[i] = s[j] => i = j
  /\ \E j \in 1..Len(<<3>>) : <<3>>[j] = 3
  /\ \A r \in {0, 3} : \E j \in 1..Len(<<3, 0>>) : <<3, 0>>[j] = r
<1>1. Append(<<>>, 3) = <<3>>
  OBVIOUS
<1>9. Append(<<3>>, 0) = <<3, 0>>
  <2> DEFINE s == Append(<<3>>, 0)
             t == <<3, 0>>
  <2>1. s \in [1..2 -> Nat] /\ s[1] = 3 /\ s[2] = 0
    <3>1. s \in Seq(Nat) /\ Len(s) = 2 /\ s[1] = 3 /\ s[2] = 0
      OBVIOUS
    <3> HIDE DEF s
    <3> QED
      BY <3>1
  <2>2. t \in [1..2 -> Nat] /\ t[1] = 3 /\ t[2] = 0
    OBVIOUS
  <2>3. \A i \in 1..2 : s[i] = t[i]
    <3>1. \A i \in 1..2 : i = 1 \/ i = 2
      OBVIOUS
    <3> HIDE DEF s, t
    <3> QED
      BY <2>1, <2>2, <3>1
  <2> HIDE DEF s, t
  <2>4. s = t
    BY <2>1, <2>2, <2>3
  <2> QED
    BY <2>4 DEF s, t
<1>2. \A i, j \in 1..Len(<<>>) : <<>>[i] = <<>>[j] => i = j
  OBVIOUS
<1>3. \A i, j \in 1..Len(<<3>>) : <<3>>[i] = <<3>>[j] => i = j
  OBVIOUS
<1>4. \A i, j \in 1..Len(<<3, 0>>) : <<3, 0>>[i] = <<3, 0>>[j] => i = j
  OBVIOUS
<1>5. <<>> \in Seq(Pairs) /\ <<3>> \in Seq(Pairs) /\ <<3, 0>> \in Seq(Pairs)
  BY DEF Pairs
<1>6. Len(<<>>) <= 2 /\ Len(<<3>>) <= 2 /\ Len(<<3, 0>>) <= 2
  OBVIOUS
<1>7. \E j \in 1..Len(<<3>>) : <<3>>[j] = 3
  <2>1. 1 \in 1..Len(<<3>>) /\ <<3>>[1] = 3
    OBVIOUS
  <2> QED
    BY <2>1
<1>8. \A r \in {0, 3} : \E j \in 1..Len(<<3, 0>>) : <<3, 0>>[j] = r
  <2>1. 1 \in 1..Len(<<3, 0>>) /\ <<3, 0>>[1] = 3
    OBVIOUS
  <2>2. 2 \in 1..Len(<<3, 0>>) /\ <<3, 0>>[2] = 0
    OBVIOUS
  <2> QED
    BY <2>1, <2>2, Zenon
<1>10. ASSUME NEW s
       PROVE  s = <<>> \/ s = <<3>> \/ s = <<3, 0>> =>
                s \in Seq(Pairs) /\ Len(s) <= 2 /\ \A i, j \in 1..Len(s) : s[i] = s[j] => i = j
  <2> HAVE s = <<>> \/ s = <<3>> \/ s = <<3, 0>>
  <2>1. CASE s = <<>>
    BY <1>2, <1>5, <1>6, <2>1, Zenon
  <2>2. CASE s = <<3>>
    BY <1>3, <1>5, <1>6, <2>2, Zenon
  <2>3. CASE s = <<3, 0>>
    BY <1>4, <1>5, <1>6, <2>3, Zenon
  <2> QED
    BY <2>1, <2>2, <2>3, Zenon
<1> QED
  BY <1>1, <1>9, <1>7, <1>8, <1>10, Zenon

\* The next place of a handler.
LEMMA NextPlace == \A p \in 8..22 : Wrap(p + 1) = p + 1
BY DEF Wrap

\* The places of the handlers are what a plan allows.
LEMMA SomePlaces ==
  ASSUME NEW p \in DOMAIN SomePlan.saved
  PROVE  Place(SomePlan, p)
<1>1. p \in {8, 9, 10, 11, 12, 13, 14, 16, 17, 18, 19, 20, 21, 22}
  BY SomeShape
<1>2. CASE p \in {8, 16}
  <2>1. SomePlan.code[p] = 197 + 16 * 3
    BY <1>2, SomeHandlers
  <2>2. GoesOn(SomePlan, Wrap(p + 1), <<3>>)
    BY <1>2, NextPlace, SomeSaved DEF GoesOn
  <2>3. SomePlan.saved[p] = <<>>
    BY <1>2, SomeSaved, Zenon
  <2>4. Append(SomePlan.saved[p], 3) = <<3>>
    BY <2>3, OneAndTwo, Zenon
  <2>5. 3 \in Pairs
    BY DEF Pairs
  <2>6. Pushes(SomePlan, p, 3)
    BY <2>1, <2>2, <2>4, Zenon DEF Pushes
  <2> QED
    BY <2>5, <2>6, Zenon DEF Place
<1>3. CASE p = 9
  <2>1. SomePlan.code[9] = 197 + 16 * 0
    BY SomeHandlers
  <2>2. GoesOn(SomePlan, Wrap(9 + 1), <<3, 0>>)
    BY NextPlace, SomeSaved DEF GoesOn
  <2>3. SomePlan.saved[9] = <<3>>
    BY SomeSaved, Zenon
  <2>4. Append(SomePlan.saved[9], 0) = <<3, 0>>
    BY <2>3, OneAndTwo, Zenon
  <2>5. 0 \in Pairs
    BY DEF Pairs
  <2>6. Pushes(SomePlan, 9, 0)
    BY <2>1, <2>2, <2>4, Zenon DEF Pushes
  <2> QED
    BY <1>3, <2>5, <2>6, Zenon DEF Place
<1>4. CASE p \in {10, 11}
  <2>1. PICK r \in {0, 3} : Computes(SomePlan.code[p], 1, {r})
    <3>1. Computes(175, 1, {3}) /\ Computes(71, 1, {0})
      BY DEF Computes, M
    <3> QED
      BY <1>4, <3>1, SomeHandlers
  <2>2. GoesOn(SomePlan, Wrap(p + 1), SomePlan.saved[p])
    BY <1>4, NextPlace, SomeSaved DEF GoesOn
  <2>3. \E j \in 1..Len(SomePlan.saved[p]) : SomePlan.saved[p][j] = r
    <3>1. SomePlan.saved[p] = <<3, 0>>
      BY <1>4, SomeSaved, Zenon
    <3> QED
      BY <3>1, OneAndTwo, Zenon
  <2>4. 1 \in 1..3 /\ {r} \in SUBSET Pairs
    BY DEF Pairs
  <2> QED
    BY <2>1, <2>2, <2>3, <2>4, Zenon DEF Place
<1>5. CASE p = 12
  <2>1. SomePlan.code[12] = 193 + 16 * 0
    BY SomeHandlers
  <2>2. Wrap(12 + 1) = 13 /\ 13 \in DOMAIN SomePlan.saved
    BY NextPlace, SomeSaved
  <2>3. SomePlan.saved[12] = <<3, 0>> /\ SomePlan.saved[13] = <<3>>
    BY SomeSaved, Zenon
  <2>4. SomePlan.saved[12] = Append(SomePlan.saved[13], 0)
    BY <2>3, OneAndTwo, Zenon
  <2>5. 0 \in Pairs
    BY DEF Pairs
  <2>6. Pops(SomePlan, 12, 0)
    BY <2>1, <2>2, <2>4, Zenon DEF Pops
  <2> QED
    BY <1>5, <2>5, <2>6, Zenon DEF Place
<1>6. CASE p \in {13, 21}
  <2>1. SomePlan.code[p] = 193 + 16 * 3
    BY <1>6, SomeHandlers
  <2>2. Wrap(p + 1) \in {14, 22} /\ \A q \in {14, 22} : q \in DOMAIN SomePlan.saved
    BY <1>6, NextPlace, SomeSaved
  <2>3. SomePlan.saved[p] = <<3>> /\ \A q \in {14, 22} : SomePlan.saved[q] = <<>>
    BY <1>6, SomeSaved, Zenon
  <2>4. \A q \in {14, 22} : SomePlan.saved[p] = Append(SomePlan.saved[q], 3)
    BY <2>3, OneAndTwo, Zenon
  <2>5. 3 \in Pairs
    BY DEF Pairs
  <2>6. Pops(SomePlan, p, 3)
    BY <2>1, <2>2, <2>4, Zenon DEF Pops
  <2> QED
    BY <2>5, <2>6, Zenon DEF Place
<1>7. CASE p \in {17, 18, 19, 20}
  <2>1. PICK touched \in {{}, {3}} : Computes(SomePlan.code[p], 1, touched)
    <3>1. Computes(55, 1, {3}) /\ Computes(23, 1, {3}) /\ Computes(47, 1, {3})
          /\ Computes(0, 1, {})
      BY DEF Computes
    <3> QED
      BY <1>7, <3>1, SomeHandlers
  <2>2. GoesOn(SomePlan, Wrap(p + 1), SomePlan.saved[p])
    BY <1>7, NextPlace, SomeSaved DEF GoesOn
  <2>3. \A r \in touched : \E j \in 1..Len(SomePlan.saved[p]) : SomePlan.saved[p][j] = r
    <3>1. SomePlan.saved[p] = <<3>>
      BY <1>7, SomeSaved, Zenon
    <3>2. \A r \in touched : r = 3
      OBVIOUS
    <3> QED
      BY <3>1, <3>2, OneAndTwo, Zenon
  <2>4. 1 \in 1..3 /\ touched \in SUBSET Pairs
    BY DEF Pairs
  <2> QED
    BY <2>1, <2>2, <2>3, <2>4, Zenon DEF Place
<1>8. CASE p \in {14, 22}
  <2>1. SomePlan.code[p] = 251
    BY <1>8, SomeHandlers
  <2>2. Wrap(p + 1) \in {15, 23} /\ \A q \in {15, 23} : q \in DOMAIN SomePlan.code
    BY <1>8, NextPlace, SomeShape
  <2>3. \A q \in {15, 23} : SomePlan.code[q] = 201
    BY SomeHandlers
  <2>4. SomePlan.saved[p] = <<>>
    BY <1>8, SomeSaved, Zenon
  <2>5. SomePlan.code[Wrap(p + 1)] = 201 /\ Wrap(p + 1) \in DOMAIN SomePlan.code
    BY <2>2, <2>3, Zenon
  <2>6. Enables(SomePlan, p)
    BY <2>1, <2>4, <2>5, Zenon DEF Enables
  <2> QED
    BY <2>6, Zenon DEF Place
<1> QED
  BY <1>1, <1>2, <1>3, <1>4, <1>5, <1>6, <1>7, <1>8

\* How far above the cells below the program an address is.
LEMMA SomeOffsets ==
  /\ \A a \in Int : 65516 <= a /\ a <= 65535 => Offset(65516, a) = a - 65516
  /\ \A a \in Int : 0 <= a /\ a < 65516 => Offset(65516, a) = a + 20
  /\ Offset(65516, 2) = 22
  /\ \A a \in (8..23) \cup (250..273) \cup {511, 512, 767, 768} : Offset(65516, a) >= 24
<1>1. \A a \in Int : 65516 <= a /\ a <= 65535 => Offset(65516, a) = a - 65516
  BY WrapNear DEF Offset
<1>2. \A a \in Int : 0 <= a /\ a < 65516 => Offset(65516, a) = a + 20
  BY WrapNear DEF Offset
<1>3. Offset(65516, 2) = 22
  BY <1>2
<1>4. ASSUME NEW a \in (8..23) \cup (250..273) \cup {511, 512, 767, 768}
      PROVE  Offset(65516, a) >= 24
  <2>1. a \in Int /\ 8 <= a /\ a <= 768
    BY <1>4
  <2> QED
    BY <1>2, <2>1
<1> QED
  BY <1>1, <1>2, <1>3, <1>4

\* The cells of the machine, where the stack is and where it is not.
LEMMA SomeRegions ==
  /\ \A a \in Word : Offset(65516, a) < 24 => a \in SomeCells
  /\ \A a \in (8..23) \cup (250..273) \cup {511, 512, 767, 768} :
       a \in SomeCells /\ Offset(65516, a) >= 24
<1>1. ASSUME NEW a \in Word, Offset(65516, a) < 24 PROVE a \in SomeCells
  <2>1. a \in Int /\ 0 <= a /\ a <= 65535
    BY WordRange
  <2>2. (65516 <= a /\ a <= 65535) \/ (0 <= a /\ a <= 3)
    BY <1>1, <2>1, SomeOffsets
  <2> QED
    BY <2>1, <2>2 DEF SomeCells, Stack
<1>2. ASSUME NEW a \in (8..23) \cup (250..273) \cup {511, 512, 767, 768}
      PROVE  a \in SomeCells
  BY <1>2 DEF SomeCells, Origin, X, Y
<1> QED
  BY <1>1, <1>2, SomeOffsets

\* The handlers of MCInterruptedCpu give back what they take.
LEMMA PlanGivesBack ==
  ASSUME Cells = SomeCells, Restarts \subseteq {1, 2}
  PROVE  GivesBack(SomePlan)
<1>1. /\ 65516 \in Word /\ 24 \in Nat /\ 24 <= 32768 /\ 2 \in Nat
  BY WordRange
<1>2. /\ \A a \in Word : Offset(65516, a) < 24 => a \in Cells
      /\ 8..23 \subseteq Cells /\ \A a \in 8..23 : Offset(65516, a) >= 24
  BY SomeRegions
<1>3. (8..14) \cup (16..22) \subseteq 8..23
  OBVIOUS
<1>4. ASSUME NEW p \in DOMAIN SomePlan.saved
      PROVE  /\ SomePlan.saved[p] \in Seq(Pairs) /\ Len(SomePlan.saved[p]) <= 2
             /\ \A i, j \in 1..Len(SomePlan.saved[p]) :
                  SomePlan.saved[p][i] = SomePlan.saved[p][j] => i = j
  <2>1. p \in {8, 14, 16, 22} \/ p \in {9, 13, 17, 18, 19, 20, 21} \/ p \in {10, 11, 12}
    BY SomeShape
  <2>2. SomePlan.saved[p] = <<>> \/ SomePlan.saved[p] = <<3>> \/ SomePlan.saved[p] = <<3, 0>>
    BY <2>1, SomeSaved, Zenon
  <2> QED
    BY <2>2, OneAndTwo, Zenon
<1>5. ASSUME NEW isr \in Restarts
      PROVE  8 * isr \in DOMAIN SomePlan.saved /\ SomePlan.saved[8 * isr] = <<>>
  <2>1. 8 * isr \in {8, 14, 16, 22}
    OBVIOUS
  <2> QED
    BY <2>1, SomeSaved
<1> QED
  BY <1>1, <1>2, <1>3, <1>4, <1>5, SomeShape, SomePlaces DEF GivesBack

-----------------------------------------------------------------------------
(* The program of MCInterruptedCpu.                                        *)

\* Where the pointers are among the registers r.
Points(r, d, h) == Uint16(r["d"], r["e"]) = X + d /\ Uint16(r["h"], r["l"]) = Y + h

\* The places of the program: before its loop, in round k, and after it.
Starting(r, pc) ==
  \/ pc = Origin
  \/ pc = Origin + 3 /\ Uint16(r["d"], r["e"]) = X
  \/ pc = Origin + 6 /\ Points(r, 0, 0)
  \/ pc \in {Origin + 8, Origin + 9} /\ Points(r, 0, 0) /\ r["b"] = 2

Rounding(r, s, pc, k) ==
  \/ pc \in (Origin + 10)..(Origin + 14) /\ Points(r, k, k) /\ r["b"] = 2 - k
  \/ pc = Origin + 15 /\ Points(r, k + 1, k) /\ r["b"] = 2 - k
  \/ pc = Origin + 16 /\ Points(r, k + 1, k + 1) /\ r["b"] = 2 - k
  \/ /\ pc = Origin + 17 /\ Points(r, k + 1, k + 1) /\ r["b"] = 1 - k
     /\ ZeroFlag \in s <=> k = 1

Ending(pc, on, halted) ==
  \/ pc = Origin + 20
  \/ pc = Origin + 21 /\ ~on
  \/ pc = Origin + 22 /\ ~on /\ halted

\* It waits for an interrupt in each round, and at its end for none.
Runs(r, s, pc, on, halted) ==
  /\ halted => pc \in {Origin + 14, Origin + 22}
  /\ \/ Starting(r, pc)
     \/ \E k \in 0..1 : Rounding(r, s, pc, k)
     \/ Ending(pc, on, halted)

\* Its code and that of the handlers.
Loaded(m) ==
  /\ \A i \in 1..22 : m[Origin + i - 1] = Program[i]
  /\ \A a \in 8..23 : m[a] = Handlers[a - 7]

QuietRuns ==
  /\ quietSp = 2 /\ Loaded(quietMemory)
  /\ Runs(quietReg, quietStatus, quietPc, quietIff, quietHlt)

\* The bytes of the program as they are decoded.
LEMMA ProgramCode ==
  ASSUME Cells = SomeCells, Loaded(quietMemory), quietPc \in Nat
  PROVE  /\ quietPc = 250 => Quiet!x = 0 /\ Quiet!y = 2 /\ Quiet!z = 1 /\ Quiet!Address = 511
         /\ quietPc = 253 => Quiet!x = 0 /\ Quiet!y = 4 /\ Quiet!z = 1 /\ Quiet!Address = 767
         /\ quietPc = 256 => Quiet!x = 0 /\ Quiet!y = 0 /\ Quiet!z = 6 /\ Quiet!Data = 2
         /\ quietPc = 258 => Quiet!x = 2 /\ Quiet!y = 5 /\ Quiet!z = 7
         /\ quietPc = 259 => Quiet!x = 3 /\ Quiet!y = 7 /\ Quiet!z = 3
         /\ quietPc = 260 => Quiet!x = 0 /\ Quiet!y = 3 /\ Quiet!z = 2
         /\ quietPc = 261 => Quiet!x = 2 /\ Quiet!y = 3 /\ Quiet!z = 6
         /\ quietPc = 262 => Quiet!x = 0 /\ Quiet!y = 2 /\ Quiet!z = 2
         /\ quietPc = 263 => Quiet!x = 1 /\ Quiet!y = 6 /\ Quiet!z = 6
         /\ quietPc = 264 => Quiet!x = 0 /\ Quiet!y = 2 /\ Quiet!z = 3
         /\ quietPc = 265 => Quiet!x = 0 /\ Quiet!y = 4 /\ Quiet!z = 3
         /\ quietPc = 266 => Quiet!x = 0 /\ Quiet!y = 0 /\ Quiet!z = 5
         /\ quietPc = 267 => Quiet!x = 3 /\ Quiet!y = 0 /\ Quiet!z = 2 /\ Quiet!Address = 260
         /\ quietPc = 270 => Quiet!x = 3 /\ Quiet!y = 6 /\ Quiet!z = 3
         /\ quietPc = 271 => Quiet!x = 1 /\ Quiet!y = 6 /\ Quiet!z = 6
<1> DEFINE m(i) == quietMemory[250 + i]
<1>1. /\ m(0) = 17 /\ m(1) = 255 /\ m(2) = 1 /\ m(3) = 33 /\ m(4) = 255 /\ m(5) = 2
      /\ m(6) = 6 /\ m(7) = 2 /\ m(8) = 175 /\ m(9) = 251 /\ m(10) = 26 /\ m(11) = 158
      /\ m(12) = 18 /\ m(13) = 118 /\ m(14) = 19 /\ m(15) = 35 /\ m(16) = 5 /\ m(17) = 194
      /\ m(18) = 4 /\ m(19) = 1 /\ m(20) = 243 /\ m(21) = 118
  <2>1. \A i \in 1..22 : quietMemory[250 + i - 1] = Program[i]
    BY DEF Loaded, Origin
  <2> QED
    BY <2>1 DEF Program, Origin, X, Y
<1>2. \A n \in 250..273 : n \in Cells
  BY SomeRegions
<1>3. ASSUME NEW i \in 0..21, quietPc = 250 + i
      PROVE  /\ Quiet!x = m(i) \div 64 /\ Quiet!y = (m(i) \div 8) % 8 /\ Quiet!z = m(i) % 8
             /\ Quiet!Data = m(i + 1) /\ Quiet!Address = m(i + 2) * 256 + m(i + 1)
  <2>1. Wrap(quietPc + 1) = 250 + (i + 1) /\ Wrap(quietPc + 2) = 250 + (i + 2)
    BY <1>3 DEF Wrap
  <2>2. /\ Quiet!opcode = m(i) /\ Quiet!Data = m(i + 1)
        /\ Quiet!Peek(Quiet!Wrap(quietPc + 2)) = m(i + 2)
    BY <1>2, <1>3, <2>1, SameWords DEF Quiet!opcode, Quiet!Data, Quiet!Peek
  <2> HIDE DEF m
  <2> QED
    BY <2>2, SameWords DEF Quiet!x, Quiet!y, Quiet!z, Quiet!Address, Uint16
<1> HIDE DEF m
<1>4. \A i \in 0..21 : quietPc = 250 + i =>
        /\ Quiet!x = m(i) \div 64 /\ Quiet!y = (m(i) \div 8) % 8 /\ Quiet!z = m(i) % 8
        /\ Quiet!Data = m(i + 1) /\ Quiet!Address = m(i + 2) * 256 + m(i + 1)
  BY <1>3
<1> QED
  BY <1>1, <1>4

\* The places in numbers.
LEMMA RunsPlaces ==
  ASSUME NEW r, NEW s, NEW pc, NEW on, NEW halted, Runs(r, s, pc, on, halted)
  PROVE  /\ pc \in (250..267) \cup (270..272)
         /\ pc \notin {251, 252, 254, 255, 257}
         /\ pc = 272 => halted
BY DEF Runs, Starting, Rounding, Ending, Origin

\* The pointers in round k, in numbers.
LEMMA RoundPointers ==
  ASSUME NEW r, NEW s, NEW pc, NEW on, NEW halted, Runs(r, s, pc, on, halted),
         pc \in 260..267
  PROVE  \E k \in 0..1 :
           /\ pc \in 260..264 => Uint16(r["d"], r["e"]) = 511 + k /\ Uint16(r["h"], r["l"]) = 767 + k
           /\ Rounding(r, s, pc, k)
<1>1. PICK k \in 0..1 : Rounding(r, s, pc, k)
  BY DEF Runs, Starting, Ending, Origin
<1>2. pc \in 260..264 => Points(r, k, k)
  BY <1>1 DEF Rounding, Origin
<1> QED
  BY <1>1, <1>2 DEF Points, X, Y

\* Code, handlers and operands are not below its stack.
LEMMA AboveTheStack ==
  ASSUME quietSp = 2
  PROVE  \A a \in (8..23) \cup (250..273) \cup {511, 512, 767, 768} : Above(SomePlan, a)
BY SomeOffsets, SomeShape DEF Above

\* It leaves the handlers, and what is below its stack, alone.
LEMMA ProgramIsDisciplined ==
  ASSUME Cells = SomeCells, MaxFrames <= 9, QuietRuns
  PROVE  Disciplined(SomePlan)
<1>1. Offset(65516, 2) = 22
  BY SomeOffsets
<1>2. Room(SomePlan) <= Offset(SomePlan.bottom, quietSp)
      /\ Offset(SomePlan.bottom, quietSp) <= SomePlan.size
  BY <1>1, SomeShape, MaxFramesAssumption DEF Room, QuietRuns
<1>3. \A a \in DOMAIN SomePlan.code : quietMemory[a] = SomePlan.code[a]
  BY SomeShape DEF QuietRuns, Loaded, SomePlan
<1>4. \A a \in (250..273) \cup {511, 512, 767, 768} : Above(SomePlan, a)
  BY AboveTheStack DEF QuietRuns
<1>5. ASSUME ~quietHlt
      PROVE
       /\ Above(SomePlan, quietPc) /\ Above(SomePlan, Wrap(quietPc + 1))
       /\ Above(SomePlan, Wrap(quietPc + 2))
       /\ ~Quiet!Is(3, {3}, 3)
       /\ \/ Quiet!x = 2 /\ Quiet!z = M
          \/ Quiet!x = 1 /\ Quiet!z = M /\ Quiet!y # M
          \/ Quiet!x = 0 /\ Quiet!z \in {4, 5} /\ Quiet!y = M
          => Above(SomePlan, Quiet!HL)
       /\ Quiet!Is(0, {1, 3}, 2) => Above(SomePlan, Quiet!PairValue(Quiet!Pair))
       /\ ~Quiet!Is(0, {5}, 2) /\ ~Quiet!Is(0, {7}, 2)
  <2>1. /\ Runs(quietReg, quietStatus, quietPc, quietIff, quietHlt) /\ Loaded(quietMemory)
        /\ quietPc \in (250..267) \cup (270..271) /\ quietPc \notin {251, 252, 254, 255, 257}
    BY <1>5, RunsPlaces DEF QuietRuns
  <2>2. Wrap(quietPc + 1) = quietPc + 1 /\ Wrap(quietPc + 2) = quietPc + 2
    BY <2>1 DEF Wrap
  <2>3. /\ Above(SomePlan, quietPc) /\ Above(SomePlan, Wrap(quietPc + 1))
        /\ Above(SomePlan, Wrap(quietPc + 2))
    BY <1>4, <2>1, <2>2
  <2>4. \/ quietPc = 250 \/ quietPc = 253 \/ quietPc = 256 \/ quietPc = 258 \/ quietPc = 259
        \/ quietPc \in 262..267 \/ quietPc = 270 \/ quietPc = 271
        => /\ ~Quiet!Is(3, {3}, 3) /\ ~Quiet!Is(0, {1, 3}, 2)
           /\ ~Quiet!Is(0, {5}, 2) /\ ~Quiet!Is(0, {7}, 2)
           /\ ~(Quiet!x = 2 /\ Quiet!z = M) /\ ~(Quiet!x = 1 /\ Quiet!z = M /\ Quiet!y # M)
           /\ ~(Quiet!x = 0 /\ Quiet!z \in {4, 5} /\ Quiet!y = M)
    BY <2>1, ProgramCode DEF Quiet!Is, M
  <2>5. CASE quietPc \in 260..261
    <3>1. PICK k \in 0..1 : /\ Uint16(quietReg["d"], quietReg["e"]) = 511 + k
                            /\ Uint16(quietReg["h"], quietReg["l"]) = 767 + k
      BY <2>1, <2>5, RoundPointers
    <3>2. Quiet!PairValue(1) = 511 + k /\ Quiet!HL = 767 + k
      BY <3>1, SameNames, SameWords, NamedPairs DEF Quiet!PairValue, Quiet!HL
    <3>3. Above(SomePlan, Quiet!PairValue(1)) /\ Above(SomePlan, Quiet!HL)
      BY <1>4, <3>2
    <3>4. quietPc = 260 => Quiet!x = 0 /\ Quiet!y = 3 /\ Quiet!z = 2 /\ Quiet!Pair = 1
      BY <2>1, ProgramCode DEF Quiet!Pair
    <3>5. quietPc = 261 => Quiet!x = 2 /\ Quiet!y = 3 /\ Quiet!z = 6
      BY <2>1, ProgramCode
    <3> QED
      BY <2>3, <2>5, <3>3, <3>4, <3>5 DEF Quiet!Is, M
  <2> QED
    BY <2>1, <2>3, <2>4, <2>5
<1> QED
  BY <1>2, <1>3, <1>5 DEF Disciplined

\* A step of the program stores where it points, if it stores at all.
Spares == memory' = memory \/ \E k \in 0..1 : \E v : memory' = Poke(X + k, v)

\* What a step of the program leaves to the next one.
StaysIn == Runs(reg', status_', pc_', iff_', hlt_') /\ sp_' = sp_ /\ Spares

\* The pointers are pairs.
LEMMA PointersArePairs ==
  /\ DE = Uint16(reg["d"], reg["e"]) /\ HL = Uint16(reg["h"], reg["l"])
  /\ DE' = Uint16(reg'["d"], reg'["e"]) /\ HL' = Uint16(reg'["h"], reg'["l"])
BY DEF DE, HL, PairValue, High, Low

\* An instruction that goes on at a place of the program.
LEMMA GoesToRun ==
  ASSUME ~hlt_, NEW r, NEW s, NEW to, Goes(r, s, memory, to),
         \/ Starting(reg', to)
         \/ \E k \in 0..1 : Rounding(reg', s, to, k)
         \/ to = Origin + 20
  PROVE  StaysIn
BY DEF Goes, StaysIn, Spares, Runs, Ending

\* What the program executes is what is decoded.
LEMMA DecodedAlike ==
  ASSUME Cells = SomeCells, Loaded(quietMemory), Alike, SameFetch
  PROVE  /\ quietPc = pc_
         /\ Quiet!x = x /\ Quiet!y = y /\ Quiet!z = z
         /\ Quiet!Data = Data /\ Quiet!Address = Address
BY SameOperands DEF Alike

\* Before the loop.
LEMMA ProgramStarts ==
  ASSUME Cells = SomeCells, Loaded(quietMemory), Alike, SameFetch, Sound,
         ~hlt_, Instruction, Starting(reg, pc_)
  PROVE  StaysIn
<1>1. /\ quietPc = pc_ /\ Quiet!x = x /\ Quiet!y = y /\ Quiet!z = z
      /\ Quiet!Data = Data /\ Quiet!Address = Address
  BY DecodedAlike
<1>2. 511 \in Word /\ 767 \in Word
  BY WordRange
<1>3. CASE pc_ = 250
  <2>1. x = 0 /\ y = 2 * 1 /\ z = 1 /\ Address = 511 /\ Wrap(pc_ + 3) = 253
    BY <1>1, <1>3, ProgramCode DEF Wrap
  <2>2. Goes(SetPair(1, 511), status_, memory, 253)
    BY <2>1, LxiGoes
  <2>3. DE' = 511
    BY <1>2, <2>2, PairAssigned DEF Goes, DE
  <2>4. Starting(reg', 253)
    BY <2>3, PointersArePairs DEF Starting, Origin, X
  <2> QED
    BY <2>2, <2>4, GoesToRun
<1>4. CASE pc_ = 253 /\ DE = 511
  <2>1. x = 0 /\ y = 2 * 2 /\ z = 1 /\ Address = 767 /\ Wrap(pc_ + 3) = 256
    BY <1>1, <1>4, ProgramCode DEF Wrap
  <2>2. Goes(SetPair(2, 767), status_, memory, 256)
    BY <2>1, LxiGoes
  <2>3. DE' = 511 /\ HL' = 767
    BY <1>2, <1>4, <2>2, PairAssigned DEF Goes, DE, HL
  <2>4. Starting(reg', 256)
    BY <2>3, PointersArePairs DEF Starting, Points, Origin, X, Y
  <2> QED
    BY <2>2, <2>4, GoesToRun
<1>5. CASE pc_ = 256 /\ DE = 511 /\ HL = 767
  <2>1. x = 0 /\ y = 0 /\ z = 6 /\ Data = 2 /\ Wrap(pc_ + 2) = 258 /\ Name(0) = "b"
    BY <1>1, <1>5, ProgramCode, Numbered DEF Wrap
  <2>2. Goes(Assigned("b", 2), status_, memory, 258)
    BY <2>1, MviGoes DEF M
  <2>3. reg'["b"] = 2 /\ DE' = 511 /\ HL' = 767
    BY <1>5, <2>2, RegisterAssigned DEF Goes
  <2>4. Starting(reg', 258)
    BY <2>3, PointersArePairs DEF Starting, Points, Origin, X, Y
  <2> QED
    BY <2>2, <2>4, GoesToRun
<1>6. CASE pc_ = 258 /\ DE = 511 /\ HL = 767 /\ reg["b"] = 2
  <2>1. x = 2 /\ y = 5 /\ z = 7 /\ Wrap(pc_ + 1) = 259
    BY <1>1, <1>6, ProgramCode DEF Wrap
  <2>2. PICK v, s : Goes(Assigned("a", v), s, memory, 259)
    BY <2>1, AluGoes
  <2>3. reg'["b"] = 2 /\ DE' = 511 /\ HL' = 767
    BY <1>6, <2>2, RegisterAssigned DEF Goes
  <2>4. Starting(reg', 259)
    BY <2>3, PointersArePairs DEF Starting, Points, Origin, X, Y
  <2> QED
    BY <2>2, <2>4, GoesToRun
<1>7. CASE pc_ = 259 /\ DE = 511 /\ HL = 767 /\ reg["b"] = 2
  <2>1. x = 3 /\ y = 7 /\ z = 3 /\ Wrap(pc_ + 1) = 260
    BY <1>1, <1>7, ProgramCode DEF Wrap
  <2>2. Ei
    BY <2>1, Decoded DEF Is
  <2>3. reg' = reg /\ sp_' = sp_ /\ memory' = memory /\ hlt_' = hlt_ /\ pc_' = 260
    BY <2>1, <2>2 DEF Ei, Advance
  <2>4. Rounding(reg', status_', pc_', 0)
    BY <1>7, <2>3, PointersArePairs DEF Rounding, Points, Origin, X, Y
  <2> QED
    BY <2>3, <2>4 DEF StaysIn, Runs, Spares
<1> QED
  BY <1>3, <1>4, <1>5, <1>6, <1>7, PointersArePairs DEF Starting, Points, Origin, X, Y

\* A round: a byte of the difference, and the wait for an interrupt.
LEMMA ProgramSubtracts ==
  ASSUME Cells = SomeCells, Loaded(quietMemory), Alike, SameFetch, Sound,
         ~hlt_, Instruction, NEW k \in 0..1, pc_ \in 260..263,
         Points(reg, k, k), reg["b"] = 2 - k
  PROVE  StaysIn
<1>1. /\ quietPc = pc_ /\ Quiet!x = x /\ Quiet!y = y /\ Quiet!z = z
  BY DecodedAlike
<1>2. DE = X + k
  BY PointersArePairs DEF Points
<1>3. ASSUME DE' = DE, HL' = HL, reg'["b"] = reg["b"]
      PROVE  Points(reg', k, k) /\ reg'["b"] = 2 - k
  BY <1>3, PointersArePairs DEF Points
<1>4. CASE pc_ = 260
  <2>1. x = 0 /\ y = 2 * 1 + 1 /\ z = 2 /\ Wrap(pc_ + 1) = 261
    BY <1>1, <1>4, ProgramCode DEF Wrap
  <2>2. Goes(Assigned("a", Peek(PairValue(1))), status_, memory, 261)
    BY <2>1, LdaxGoes
  <2>3. reg'["b"] = reg["b"] /\ DE' = DE /\ HL' = HL
    BY <2>2, RegisterAssigned DEF Goes
  <2>4. Rounding(reg', status_, 261, k)
    BY <1>3, <2>3 DEF Rounding, Origin
  <2> QED
    BY <2>2, <2>4, GoesToRun
<1>5. CASE pc_ = 261
  <2>1. x = 2 /\ y = 3 /\ z = 6 /\ Wrap(pc_ + 1) = 262
    BY <1>1, <1>5, ProgramCode DEF Wrap
  <2>2. PICK v, s : Goes(Assigned("a", v), s, memory, 262)
    BY <2>1, AluGoes
  <2>3. reg'["b"] = reg["b"] /\ DE' = DE /\ HL' = HL
    BY <2>2, RegisterAssigned DEF Goes
  <2>4. Rounding(reg', s, 262, k)
    BY <1>3, <2>3 DEF Rounding, Origin
  <2> QED
    BY <2>2, <2>4, GoesToRun
<1>6. CASE pc_ = 262
  <2>1. x = 0 /\ y = 2 * 1 /\ z = 2 /\ Wrap(pc_ + 1) = 263
    BY <1>1, <1>6, ProgramCode DEF Wrap
  <2>2. Goes(reg, status_, Poke(X + k, reg["a"]), 263)
    BY <1>2, <2>1, StaxGoes DEF DE
  <2>3. Rounding(reg', status_', 263, k)
    BY <2>2 DEF Goes, Rounding, Origin
  <2> QED
    BY <2>2, <2>3 DEF Goes, StaysIn, Spares, Runs
<1>7. CASE pc_ = 263
  <2>1. x = 1 /\ y = 6 /\ z = 6 /\ Wrap(pc_ + 1) = 264
    BY <1>1, <1>7, ProgramCode DEF Wrap
  <2>2. Hlt
    BY <2>1, Decoded DEF Is, M
  <2>3. reg' = reg /\ sp_' = sp_ /\ memory' = memory /\ pc_' = 264
    BY <2>1, <2>2 DEF Hlt, Advance
  <2>4. Rounding(reg', status_', pc_', k)
    BY <2>3 DEF Rounding, Origin
  <2>5. pc_' \in {Origin + 14, Origin + 22}
    BY <2>3 DEF Origin
  <2> QED
    BY <2>3, <2>4, <2>5 DEF StaysIn, Spares, Runs
<1> QED
  BY <1>4, <1>5, <1>6, <1>7

\* The pointers and the counter go on, and so does the loop.
LEMMA ProgramAdvances ==
  ASSUME Cells = SomeCells, Loaded(quietMemory), Alike, SameFetch, Sound,
         ~hlt_, Instruction, NEW k \in 0..1, pc_ \in 264..267, Rounding(reg, status_, pc_, k)
  PROVE  StaysIn
<1>1. /\ quietPc = pc_ /\ Quiet!x = x /\ Quiet!y = y /\ Quiet!z = z
      /\ Quiet!Data = Data /\ Quiet!Address = Address
  BY DecodedAlike
<1>2. \A d, h : Points(reg, d, h) <=> DE = 511 + d /\ HL = 767 + h
  BY PointersArePairs DEF Points, X, Y
<1>3. \A d, h : Points(reg', d, h) <=> DE' = 511 + d /\ HL' = 767 + h
  BY PointersArePairs DEF Points, X, Y
<1>4. CASE pc_ = 264
  <2>1. x = 0 /\ y = 2 * 1 /\ z = 3 /\ Wrap(pc_ + 1) = 265
    BY <1>1, <1>4, ProgramCode DEF Wrap
  <2>2. DE = 511 + k /\ HL = 767 + k /\ reg["b"] = 2 - k
    BY <1>2, <1>4 DEF Rounding, Origin
  <2>3. Wrap(DE + 1) = 511 + (k + 1) /\ 511 + (k + 1) \in Word
    BY <2>2, WordRange DEF Wrap
  <2>4. Goes(SetPair(1, 511 + (k + 1)), status_, memory, 265)
    BY <2>1, <2>3, InxGoes DEF DE
  <2>5. DE' = 511 + (k + 1) /\ HL' = HL /\ reg'["b"] = reg["b"]
    BY <2>3, <2>4, PairAssigned DEF Goes, DE, HL
  <2>6. Rounding(reg', status_, 265, k)
    BY <1>3, <2>2, <2>5 DEF Rounding, Origin
  <2> QED
    BY <2>4, <2>6, GoesToRun
<1>5. CASE pc_ = 265
  <2>1. x = 0 /\ y = 2 * 2 /\ z = 3 /\ Wrap(pc_ + 1) = 266
    BY <1>1, <1>5, ProgramCode DEF Wrap
  <2>2. DE = 511 + (k + 1) /\ HL = 767 + k /\ reg["b"] = 2 - k
    BY <1>2, <1>5 DEF Rounding, Origin
  <2>3. Wrap(HL + 1) = 767 + (k + 1) /\ 767 + (k + 1) \in Word
    BY <2>2, WordRange DEF Wrap
  <2>4. Goes(SetPair(2, 767 + (k + 1)), status_, memory, 266)
    BY <2>1, <2>3, InxGoes DEF HL
  <2>5. HL' = 767 + (k + 1) /\ DE' = DE /\ reg'["b"] = reg["b"]
    BY <2>3, <2>4, PairAssigned DEF Goes, DE, HL
  <2>6. Rounding(reg', status_, 266, k)
    BY <1>3, <2>2, <2>5 DEF Rounding, Origin
  <2> QED
    BY <2>4, <2>6, GoesToRun
<1>6. CASE pc_ = 266
  <2> DEFINE d == Decremented(status_, reg["b"])
  <2>1. x = 0 /\ y = 0 /\ z = 5 /\ Wrap(pc_ + 1) = 267 /\ Name(0) = "b"
    BY <1>1, <1>6, ProgramCode, Numbered DEF Wrap
  <2>2. DE = 511 + (k + 1) /\ HL = 767 + (k + 1) /\ reg["b"] = 2 - k
    BY <1>2, <1>6 DEF Rounding, Origin
  <2>3. Goes(Assigned("b", d.value), d.status, memory, 267)
    BY <2>1, DcrGoes DEF M
  <2>4. d.value = 1 - k /\ (ZeroFlag \in d.status <=> k = 1)
    <3>1. 2 - k \in Byte
      BY ByteRange
    <3>2. d.value = (2 - k + 255) % 256 /\ (ZeroFlag \in d.status <=> d.value = 0)
      BY <2>2, <3>1, DecrementFlags
    <3> HIDE DEF d
    <3> QED
      BY <3>2
  <2> HIDE DEF d
  <2>5. reg'["b"] = 1 - k /\ DE' = DE /\ HL' = HL
    BY <2>3, <2>4, RegisterAssigned DEF Goes
  <2>6. Rounding(reg', d.status, 267, k)
    BY <1>3, <2>2, <2>4, <2>5 DEF Rounding, Origin
  <2> QED
    BY <2>3, <2>6, GoesToRun
<1>7. CASE pc_ = 267
  <2>1. x = 3 /\ y = 0 /\ z = 2 /\ Address = 260 /\ Wrap(pc_ + 3) = 270
    BY <1>1, <1>7, ProgramCode DEF Wrap
  <2>2. /\ DE = 511 + (k + 1) /\ HL = 767 + (k + 1) /\ reg["b"] = 1 - k
        /\ ZeroFlag \in status_ <=> k = 1
    BY <1>2, <1>7 DEF Rounding, Origin
  <2>3. Holds <=> k = 0
    <3>1. Pair = 0 /\ y \notin Odd
      BY <2>1 DEF Pair, Odd
    <3>2. Holds <=> ZeroFlag \notin status_
      BY <3>1 DEF Holds
    <3> QED
      BY <2>2, <3>2
  <2>4. Goes(reg, status_, memory, IF k = 0 THEN 260 ELSE 270)
    BY <2>1, <2>3, JumpGoes
  <2>5. CASE k = 0
    <3>1. Rounding(reg', status_, 260, 1)
      BY <1>3, <2>2, <2>4, <2>5, RegistersKept DEF Goes, Rounding, Origin
    <3> QED
      BY <2>4, <2>5, <3>1, GoesToRun
  <2>6. CASE k = 1
    <3>1. 270 = Origin + 20
      BY DEF Origin
    <3> QED
      BY <2>4, <2>6, <3>1, GoesToRun
  <2> QED
    BY <2>5, <2>6
<1> QED
  BY <1>4, <1>5, <1>6, <1>7

\* After the loop.
LEMMA ProgramEnds ==
  ASSUME Cells = SomeCells, Loaded(quietMemory), Alike, SameFetch,
         ~hlt_, Instruction, Ending(pc_, iff_, hlt_)
  PROVE  StaysIn
<1>1. /\ quietPc = pc_ /\ Quiet!x = x /\ Quiet!y = y /\ Quiet!z = z
  BY DecodedAlike
<1>2. CASE pc_ = 270
  <2>1. x = 3 /\ y = 6 /\ z = 3 /\ Wrap(pc_ + 1) = 271
    BY <1>1, <1>2, ProgramCode DEF Wrap
  <2>2. Di
    BY <2>1, Decoded DEF Is
  <2>3. /\ iff_' = FALSE /\ hlt_' = hlt_ /\ pc_' = Origin + 21
        /\ sp_' = sp_ /\ memory' = memory
    BY <2>1, <2>2 DEF Di, Advance, Origin
  <2> QED
    BY <2>3 DEF StaysIn, Spares, Runs, Ending
<1>3. CASE pc_ = 271 /\ ~iff_
  <2>1. x = 1 /\ y = 6 /\ z = 6 /\ Wrap(pc_ + 1) = 272
    BY <1>1, <1>3, ProgramCode DEF Wrap
  <2>2. Hlt
    BY <2>1, Decoded DEF Is, M
  <2>3. /\ iff_' = iff_ /\ hlt_' = TRUE /\ pc_' = Origin + 22
        /\ sp_' = sp_ /\ memory' = memory
    BY <2>1, <2>2 DEF Hlt, Advance, Origin
  <2> QED
    BY <1>3, <2>3 DEF StaysIn, Spares, Runs, Ending
<1> QED
  BY <1>2, <1>3 DEF Ending, Origin

\* An instruction of the program.
LEMMA ProgramStays ==
  ASSUME Cells = SomeCells, Loaded(quietMemory), Alike, SameFetch, Sound,
         ~hlt_, Instruction, Runs(reg, status_, pc_, iff_, hlt_)
  PROVE  StaysIn
<1>1. CASE Starting(reg, pc_)
  BY <1>1, ProgramStarts
<1>2. ASSUME NEW k \in 0..1, Rounding(reg, status_, pc_, k) PROVE StaysIn
  <2>1. pc_ \in 260..267
    BY <1>2 DEF Rounding, Origin
  <2>2. CASE pc_ \in 260..263
    <3>1. Points(reg, k, k) /\ reg["b"] = 2 - k
      BY <1>2, <2>2 DEF Rounding, Origin
    <3> QED
      BY <2>2, <3>1, ProgramSubtracts
  <2>3. CASE pc_ \in 264..267
    BY <1>2, <2>3, ProgramAdvances
  <2> QED
    BY <2>1, <2>2, <2>3
<1>3. CASE Ending(pc_, iff_, hlt_)
  BY <1>3, ProgramEnds
<1> QED
  BY <1>1, <1>2, <1>3 DEF Runs

-----------------------------------------------------------------------------
(* The program, and the interruptions that it does not notice.             *)

\* What is stored where the program points is neither code nor handler.
LEMMA LoadedStays ==
  ASSUME Cells = SomeCells, Sound, Spares, Carried, Loaded(quietMemory), Agreed(SomePlan), quietSp = 2
  PROVE  Loaded(quietMemory')
<1>1. \A a \in (8..23) \cup (250..273) : a \in Cells /\ Offset(65516, a) >= 24
  BY SomeRegions
<1>2. Agreed(SomePlan)
  OBVIOUS
<1>3. \A a \in (8..23) \cup (250..273) : memory[a] = quietMemory[a]
  <2> SUFFICES ASSUME NEW a \in (8..23) \cup (250..273) PROVE memory[a] = quietMemory[a]
    OBVIOUS
  <2>1. a \in Cells /\ Above(SomePlan, a)
    BY <1>1, AboveTheStack
  <2> QED
    BY ONLY <1>2, <2>1, Zenon DEF Agreed
<1>4. \A a \in (8..23) \cup (250..273) : memory'[a] = memory[a]
  <2>1. CASE memory' = memory
    BY <2>1
  <2>2. ASSUME NEW k \in 0..1, NEW v, memory' = Poke(X + k, v)
        PROVE  \A a \in (8..23) \cup (250..273) : memory'[a] = memory[a]
    <3>1. \A a \in (8..23) \cup (250..273) : a # X + k
      BY DEF X
    <3>2. DOMAIN memory = Cells
      BY DEF Sound, TypeOK
    <3> QED
      BY <1>1, <2>2, <3>1, <3>2 DEF Poke
  <2> QED
    BY <2>1, <2>2 DEF Spares
<1>5. \A a \in (8..23) \cup (250..273) : quietMemory'[a] = quietMemory[a]
  BY <1>1, <1>3, <1>4 DEF Carried
<1>6. ASSUME NEW i \in 1..22 PROVE quietMemory'[Origin + i - 1] = Program[i]
  <2>1. Origin + i - 1 \in 250..273
    BY DEF Origin
  <2>2. quietMemory'[Origin + i - 1] = quietMemory[Origin + i - 1]
    BY <1>5, <2>1
  <2> QED
    BY <2>2 DEF Loaded
<1>7. ASSUME NEW a \in 8..23 PROVE quietMemory'[a] = Handlers[a - 7]
  BY <1>5, <1>7 DEF Loaded
<1> QED
  BY <1>6, <1>7 DEF Loaded

\* What is loaded is the program with some operands.
AreLoads == \A i \in Images : \E m, n \in Word : i = Load(m, n)

\* The program starts at its start.
LEMMA InitRuns ==
  ASSUME AreLoads, InterruptedInit
  PROVE  QuietRuns
<1>1. /\ image \in Images /\ quietReg = image.reg /\ quietPc = image.pc /\ quietSp = image.sp
      /\ quietIff = FALSE /\ quietHlt = FALSE /\ quietMemory = image.memory
  BY DEF InterruptedInit, Quiet!Init
<1>2. PICK m \in Word, n \in Word : image = Load(m, n)
  BY <1>1 DEF AreLoads
<1>3. quietPc = Origin /\ quietSp = 2
  BY <1>1, <1>2 DEF Load
<1>4. Loaded(quietMemory)
  <2>1. DOMAIN Handlers = 1..16 /\ DOMAIN Program = 1..22
    BY DEF Handlers, Program
  <2>2. \A a \in (8..23) \cup (250..273) : a \in SomeCells
    BY SomeRegions
  <2>3. ASSUME NEW a \in SomeCells
        PROVE  /\ a - 7 \in DOMAIN Handlers => quietMemory[a] = Handlers[a - 7]
               /\ a - 7 \notin DOMAIN Handlers /\ a - Origin + 1 \in DOMAIN Program
                    => quietMemory[a] = Program[a - Origin + 1]
    BY <1>1, <1>2 DEF Load
  <2>4. ASSUME NEW a \in 8..23 PROVE quietMemory[a] = Handlers[a - 7]
    BY <2>1, <2>2, <2>3
  <2>5. ASSUME NEW i \in 1..22 PROVE quietMemory[Origin + i - 1] = Program[i]
    <3>1. /\ Origin + i - 1 \in SomeCells /\ (Origin + i - 1) - 7 \notin DOMAIN Handlers
          /\ (Origin + i - 1) - Origin + 1 = i /\ i \in DOMAIN Program
      BY <2>1, <2>2 DEF Origin
    <3> QED
      BY <2>3, <3>1
  <2> QED
    BY <2>4, <2>5 DEF Loaded
<1> QED
  BY <1>1, <1>3, <1>4 DEF QuietRuns, Runs, Starting

\* An instruction of both cpus.
LEMMA ProgramRuns ==
  ASSUME Cells = SomeCells, Restarts \subseteq {1, 2}, MaxFrames <= 9,
         Unnoticed(SomePlan), QuietRuns, frames = <<>>, ~hlt_, Instruction, Quiet!Instruction
  PROVE  QuietRuns' /\ quietSp' = quietSp
<1>1. Sound /\ Alike /\ Agreed(SomePlan) /\ TypeOK /\ Mapped
  BY DEF Unnoticed, Sound, TypeOK, Mapped, Agreed
<1>2. SameFetch /\ SameReads /\ ~In
  BY PlanGivesBack, ProgramIsDisciplined, ProgramReads DEF In
<1>3. Together
  BY <1>1, <1>2, InstructionTogether
<1>4. Loaded(quietMemory) /\ quietSp = 2 /\ Runs(reg, status_, pc_, iff_, hlt_)
  BY <1>1 DEF QuietRuns, Alike
<1>5. StaysIn
  BY <1>1, <1>2, <1>4, ProgramStays
<1>6. Loaded(quietMemory')
  BY <1>1, <1>3, <1>4, <1>5, LoadedStays DEF StaysIn, Together
<1>7. quietSp' = quietSp /\ Runs(quietReg', quietStatus', quietPc', quietIff', quietHlt')
  BY <1>1, <1>3, <1>5 DEF StaysIn, Together, Alike
<1> QED
  BY <1>4, <1>6, <1>7 DEF QuietRuns

\* An interrupt of the program, or of a handler.
LEMMA InterruptedRuns ==
  ASSUME Unnoticed(SomePlan), QuietRuns, NEW isr, Interrupted(isr)
  PROVE  QuietRuns' /\ quietSp' = quietSp
<1>1. /\ quietReg' = quietReg /\ quietPc' = quietPc /\ quietSp' = quietSp
      /\ quietStatus' = quietStatus /\ quietIff' = quietIff /\ quietMemory' = quietMemory
  BY DEF Interrupted, quiet
<1>2. quietHlt' = (quietHlt /\ ~(iff_ /\ frames = <<>>))
  BY DEF Interrupted
<1>3. Runs(quietReg, quietStatus, quietPc, quietIff, quietHlt)
  BY DEF QuietRuns
<1>4. CASE iff_ /\ frames = <<>>
  <2>1. quietIff = iff_
    BY <1>4 DEF Unnoticed, Alike
  <2>2. ~quietHlt'
    BY <1>2, <1>4
  <2>3. \/ Starting(quietReg, quietPc)
        \/ \E k \in 0..1 : Rounding(quietReg, quietStatus, quietPc, k)
        \/ quietPc = Origin + 20
    BY <1>3, <1>4, <2>1 DEF Runs, Ending
  <2>4. Runs(quietReg, quietStatus, quietPc, quietIff, quietHlt')
    BY <2>2, <2>3 DEF Runs, Ending
  <2> QED
    BY <1>1, <2>4 DEF QuietRuns
<1>5. CASE ~(iff_ /\ frames = <<>>)
  <2>1. quietHlt' <=> quietHlt
    BY <1>2, <1>5
  <2>2. Runs(quietReg, quietStatus, quietPc, quietIff, quietHlt')
    BY <1>3, <2>1 DEF Runs, Ending
  <2> QED
    BY <1>1, <2>2 DEF QuietRuns
<1> QED
  BY <1>4, <1>5

\* The program runs as it does without interrupts, whatever the steps.
LEMMA RunsKept ==
  ASSUME Cells = SomeCells, Restarts \subseteq {1, 2}, MaxFrames <= 9,
         Unnoticed(SomePlan), QuietRuns, [InterruptedNext]_<<vars, frames, quiet, quietHlt>>
  PROVE  QuietRuns' /\ quietSp' = quietSp
<1>1. CASE UNCHANGED <<quiet, quietHlt>>
  BY <1>1 DEF quiet, QuietRuns
<1>2. CASE ExecuteProgram
  <2>1. CASE hlt_
    <3>1. quietHlt
      BY <1>2, <2>1 DEF ExecuteProgram, Unnoticed, Alike
    <3>2. Quiet!Stall
      BY <1>2, <3>1 DEF ExecuteProgram, Quiet!Execute
    <3> QED
      BY <3>2 DEF Quiet!Stall, QuietRuns
  <2>2. CASE ~hlt_
    <3>1. ~quietHlt
      BY <1>2, <2>2 DEF ExecuteProgram, Unnoticed, Alike
    <3> QED
      BY <1>2, <2>2, <3>1, ProgramRuns DEF ExecuteProgram, Execute, Quiet!Execute
  <2> QED
    BY <2>1, <2>2
<1>3. CASE ExecuteHandler
  BY <1>1, <1>3 DEF ExecuteHandler
<1>4. ASSUME NEW isr \in Restarts, Interrupted(isr)
      PROVE  QuietRuns' /\ quietSp' = quietSp
  BY <1>4, InterruptedRuns
<1> QED
  BY <1>1, <1>2, <1>3, <1>4 DEF InterruptedNext

\* The subtraction of any two words that waits for an interrupt in each round does
\* not notice that it is interrupted, at any instruction, by one handler or the
\* other, or by one within the other: up to nine of them fit below its stack.
THEOREM SubtractionIsUndisturbed ==
  ASSUME Cells = SomeCells, Restarts \subseteq {1, 2}, MaxFrames <= 9, AreLoads
  PROVE  InterruptedSpec => []InterruptsUnnoticed
<1> DEFINE Undisturbed == Unnoticed(SomePlan) /\ QuietRuns
<1>1. InterruptedInit => Undisturbed
  BY InitUnnoticed, InitRuns
<1>2. ASSUME Undisturbed, [InterruptedNext]_<<vars, frames, quiet, quietHlt>>
      PROVE  Undisturbed'
  <2>1. QuietRuns' /\ quietSp' = quietSp
    BY <1>2, RunsKept
  <2>2. GivesBack(SomePlan) /\ Disciplined(SomePlan)
    BY <1>2, PlanGivesBack, ProgramIsDisciplined
  <2>3. Unnoticed(SomePlan)'
    BY <1>2, <2>1, <2>2, UnnoticedKept
  <2> QED
    BY <2>1, <2>3
<1>3. Undisturbed => InterruptsUnnoticed
  BY PlanGivesBack, ProgramIsDisciplined, UnnoticedSuffices
<1> QED
  BY <1>1, <1>2, <1>3, PTL DEF InterruptedSpec
=============================================================================
