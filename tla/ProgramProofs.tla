--------------------------- MODULE ProgramProofs ----------------------------
(***************************************************************************)
(* What the programs of MCIntel8080 compute, for all operands.             *)
(***************************************************************************)
EXTENDS MCIntel8080, Intel8080Proofs, FiniteSetTheorems

-----------------------------------------------------------------------------
(* The machine of the programs.                                            *)

\* The program in memory.
Holding(code) == \A i \in DOMAIN code : memory[Origin + i - 1] = code[i]

\* The bytes of a word, and what is left of x when k bytes of r replace it.
ByteOf(w, k) == IF k = 0 THEN w % 256 ELSE w \div 256

Operands(k, r) ==
  /\ \A j \in 0..1 : memory[X + j] = IF j < k THEN r[j] ELSE ByteOf(image.x, j)
  /\ \A j \in 0..1 : memory[Y + j] = ByteOf(image.y, j)

\* The pointers and the counter of Loop at its instruction i.
At(i, d, h, b) ==
  pc_ = Origin + i /\ DE = X + d /\ HL = Y + h /\ reg["b"] = b

\* The places of Loop(op, fix), which puts the bytes r for x, with the carries c.
Starting(r) ==
  /\ Operands(0, r)
  /\ \/ pc_ = Origin
     \/ pc_ = Origin + 3 /\ DE = X
     \/ pc_ = Origin + 6 /\ DE = X /\ HL = Y
     \/ At(8, 0, 0, 2)

Heading(k, r, c) == At(9, k, k, 2 - k) /\ Operands(k, r) /\ (Carried <=> c[k])

Fetched(k, r, c) ==
  /\ At(10, k, k, 2 - k) /\ Operands(k, r) /\ (Carried <=> c[k])
  /\ reg["a"] = ByteOf(image.x, k)

Computed(k, r, c, op) ==
  /\ At(11, k, k, 2 - k) /\ Operands(k, r)
  /\ \E s : /\ CarryFlag \in s <=> c[k]
            /\ LET o == Alu((op \div 8) % 8, s, ByteOf(image.x, k), ByteOf(image.y, k))
               IN  reg["a"] = o.value /\ status_ = o.status

Fixed(k, r, c) ==
  At(12, k, k, 2 - k) /\ Operands(k, r) /\ (Carried <=> c[k + 1]) /\ reg["a"] = r[k]

Stored(k, r, c) ==
  /\ Operands(k + 1, r) /\ (Carried <=> c[k + 1])
  /\ \/ At(13, k, k, 2 - k)
     \/ At(14, k + 1, k, 2 - k)
     \/ At(15, k + 1, k + 1, 2 - k)
     \/ At(16, k + 1, k + 1, 1 - k) /\ (ZeroFlag \in status_ <=> k = 1)

Done(r, c) == Operands(2, r) /\ (Carried <=> c[2])

Looping(op, fix, r, c) ==
  /\ ~iff_ /\ Holding(Loop(op, fix))
  /\ \/ ~hlt_ /\ Starting(r)
     \/ \E k \in 0..1 :
          /\ ~hlt_
          /\ \/ Heading(k, r, c) \/ Fetched(k, r, c) \/ Computed(k, r, c, op)
             \/ Fixed(k, r, c) \/ Stored(k, r, c)
     \/ Done(r, c) /\ (~hlt_ => pc_ = Origin + 19)

\* The bytes and carries that op and fix make of the operands.
IsRound(op, fix, r, c, v, w) ==
  /\ ~c[0]
  /\ \A k \in 0..1 : \A s :
       (CarryFlag \in s <=> c[k]) =>
         LET o == Alu((op \div 8) % 8, s, ByteOf(v, k), ByteOf(w, k))
             f == IF fix = DAA THEN Adjust(o.status, o.value) ELSE o
         IN  f.value = r[k] /\ (CarryFlag \in f.status <=> c[k + 1])

\* What is fetched in the code.
LEMMA Fetching ==
  ASSUME Cells = SomeCells, NEW i \in 0..31, pc_ = Origin + i
  PROVE  /\ opcode = memory[Origin + i]
         /\ i < 31 => Data = memory[Origin + i + 1] /\ Wrap(pc_ + 1) = Origin + i + 1
         /\ i < 30 => /\ Address = memory[Origin + i + 2] * 256 + memory[Origin + i + 1]
                      /\ Wrap(pc_ + 2) = Origin + i + 2 /\ Wrap(pc_ + 3) = Origin + i + 3
<1>1. Wrap(pc_ + 1) = Origin + i + 1 /\ Wrap(pc_ + 2) = Origin + i + 2
      /\ Wrap(pc_ + 3) = Origin + i + 3
  BY DEF Wrap, Origin
<1>2. \A n \in Origin..(Origin + 31) : n \in Cells
  BY DEF SomeCells, Code
<1> QED
  BY <1>1, <1>2 DEF opcode, Data, Address, Peek, Uint16, Origin

\* The length of Loop.
LEMMA LoopLength ==
  ASSUME NEW op, NEW fix
  PROVE  DOMAIN Loop(op, fix) = 1..20
BY DEF Loop

\* The bytes of Loop(op, fix) as they are decoded.
LEMMA LoopCode ==
  ASSUME Cells = SomeCells, Sound, NEW op \in {ADCM, SBBM}, NEW fix \in {DAA, NOP},
         Holding(Loop(op, fix))
  PROVE  /\ pc_ = Origin => x = 0 /\ y = 2 /\ z = 1 /\ Address = X /\ Wrap(pc_ + 3) = Origin + 3
         /\ pc_ = Origin + 3 =>
              x = 0 /\ y = 4 /\ z = 1 /\ Address = Y /\ Wrap(pc_ + 3) = Origin + 6
         /\ pc_ = Origin + 6 => x = 0 /\ y = 0 /\ z = 6 /\ Data = 2 /\ Wrap(pc_ + 2) = Origin + 8
         /\ pc_ = Origin + 8 => x = 2 /\ y = 5 /\ z = 7 /\ Wrap(pc_ + 1) = Origin + 9
         /\ pc_ = Origin + 9 => x = 0 /\ y = 3 /\ z = 2 /\ Wrap(pc_ + 1) = Origin + 10
         /\ pc_ = Origin + 10 =>
              x = 2 /\ y = (op \div 8) % 8 /\ z = 6 /\ Wrap(pc_ + 1) = Origin + 11
         /\ pc_ = Origin + 11 =>
              /\ fix = DAA => x = 0 /\ y = 4 /\ z = 7
              /\ fix = NOP => x = 0 /\ y = 0 /\ z = 0
              /\ Wrap(pc_ + 1) = Origin + 12
         /\ pc_ = Origin + 12 => x = 0 /\ y = 2 /\ z = 2 /\ Wrap(pc_ + 1) = Origin + 13
         /\ pc_ = Origin + 13 => x = 0 /\ y = 2 /\ z = 3 /\ Wrap(pc_ + 1) = Origin + 14
         /\ pc_ = Origin + 14 => x = 0 /\ y = 4 /\ z = 3 /\ Wrap(pc_ + 1) = Origin + 15
         /\ pc_ = Origin + 15 => x = 0 /\ y = 0 /\ z = 5 /\ Wrap(pc_ + 1) = Origin + 16
         /\ pc_ = Origin + 16 =>
              /\ x = 3 /\ y = 0 /\ z = 2
              /\ Address = Origin + 9 /\ Wrap(pc_ + 3) = Origin + 19
         /\ pc_ = Origin + 19 => x = 1 /\ y = 6 /\ z = 6
<1> DEFINE m(i) == memory[Origin + i]
<1>1. /\ m(0) = 17 /\ m(1) = 255 /\ m(2) = 1 /\ m(3) = 33 /\ m(4) = 255 /\ m(5) = 2
      /\ m(6) = 6 /\ m(7) = 2 /\ m(8) = 175 /\ m(9) = 26 /\ m(10) = op /\ m(11) = fix
      /\ m(12) = 18 /\ m(13) = 19 /\ m(14) = 35 /\ m(15) = 5 /\ m(16) = 194
      /\ m(17) = 3 /\ m(18) = 1 /\ m(19) = 118
  <2>1. \A i \in 1..20 : memory[Origin + i - 1] = Loop(op, fix)[i]
    BY LoopLength DEF Holding
  <2> QED
    BY <2>1 DEF Loop, Origin, X, Y, Lo, Hi, HLT
<1>2. /\ X = 511 /\ Y = 767 /\ Origin = 250
      /\ op \in {142, 158} /\ fix \in {39, 0}
  BY DEF X, Y, Origin, ADCM, SBBM, DAA, NOP
<1>3. ASSUME NEW i \in 0..19, pc_ = Origin + i
      PROVE  /\ x = m(i) \div 64 /\ y = (m(i) \div 8) % 8 /\ z = m(i) % 8
             /\ Data = m(i + 1) /\ Address = m(i + 2) * 256 + m(i + 1)
             /\ Wrap(pc_ + 1) = Origin + (i + 1) /\ Wrap(pc_ + 2) = Origin + (i + 2)
             /\ Wrap(pc_ + 3) = Origin + (i + 3)
  BY <1>3, Fetching DEF x, y, z, Origin
<1> HIDE DEF m
<1>4. \A i \in 0..19 : pc_ = 250 + i =>
        /\ x = m(i) \div 64 /\ y = (m(i) \div 8) % 8 /\ z = m(i) % 8
        /\ Data = m(i + 1) /\ Address = m(i + 2) * 256 + m(i + 1)
        /\ Wrap(pc_ + 1) = 250 + (i + 1) /\ Wrap(pc_ + 2) = 250 + (i + 2)
        /\ Wrap(pc_ + 3) = 250 + (i + 3)
  BY <1>2, <1>3
<1> QED
  BY <1>1, <1>2, <1>4 DEF DAA, NOP

\* The bit that leaves a byte on the right, and the one that enters on the left.
LEMMA RotatesRight ==
  ASSUME NEW s, NEW a \in Byte
  PROVE  LET o == Rotate(3, s, a)
         IN  /\ o.value = (a \div 2) + (IF CarryFlag \in s THEN 128 ELSE 0)
             /\ CarryFlag \in o.status <=> a % 2 = 1
<1> DEFINE o == Rotate(3, s, a)
<1>1. 0 \in Bits(a) <=> a % 2 = 1
  <2>1. a \in Int /\ a \div 1 = a
    BY ByteRange
  <2>2. 0 \in Bits(a) <=> (a \div 1) % 2 = 1
    BY DEF Bits, Bit
  <2> QED
    BY <2>1, <2>2
<1>2. o.value = (a \div 2) + (IF CarryFlag \in s THEN 128 ELSE 0)
  BY DEF Rotate
<1>3. CarryFlag \in o.status <=> 0 \in Bits(a)
  BY DEF Rotate, With
<1> QED
  BY <1>1, <1>2, <1>3

\* What stays with the memory.
LEMMA MemoryKept ==
  ASSUME memory' = memory, image' = image
  PROVE  /\ \A code : Holding(code) => Holding(code)'
         /\ \A k, r : Operands(k, r) => Operands(k, r)'
BY DEF Holding, Operands

-----------------------------------------------------------------------------
(* The program Loop.                                                       *)

\* The instructions that load the pointers and the counter and clear the carry.
LEMMA LoopStarts ==
  ASSUME Cells = SomeCells, Sound, NEW op \in {ADCM, SBBM}, NEW fix \in {DAA, NOP},
         Holding(Loop(op, fix)), NEW r, NEW c, ~c[0], Starting(r), Instruction
  PROVE  /\ Starting(r)' \/ Heading(0, r, c)'
         /\ Holding(Loop(op, fix))' /\ UNCHANGED <<iff_, hlt_, image>>
<1>1. X \in Word /\ Y \in Word
  BY DEF X, Y, Word, MaxWord
<1>2. CASE pc_ = Origin
  <2>1. x = 0 /\ y = 2 * 1 /\ z = 1 /\ Address = X /\ Wrap(pc_ + 3) = Origin + 3
    BY <1>2, LoopCode
  <2>2. Goes(SetPair(1, X), status_, memory, Origin + 3)
    BY <2>1, LxiGoes
  <2>3. DE' = X
    BY <1>1, <2>2, PairAssigned DEF Goes, DE
  <2> QED
    BY <2>2, <2>3, MemoryKept DEF Goes, Starting
<1>3. CASE pc_ = Origin + 3 /\ DE = X
  <2>1. x = 0 /\ y = 2 * 2 /\ z = 1 /\ Address = Y /\ Wrap(pc_ + 3) = Origin + 6
    BY <1>3, LoopCode
  <2>2. Goes(SetPair(2, Y), status_, memory, Origin + 6)
    BY <2>1, LxiGoes
  <2>3. HL' = Y /\ DE' = X
    BY <1>1, <1>3, <2>2, PairAssigned DEF Goes, HL, DE
  <2> QED
    BY <2>2, <2>3, MemoryKept DEF Goes, Starting
<1>4. CASE pc_ = Origin + 6 /\ DE = X /\ HL = Y
  <2>1. x = 0 /\ y = 0 /\ z = 6 /\ Data = 2 /\ Wrap(pc_ + 2) = Origin + 8 /\ Name(0) = "b"
    BY <1>4, LoopCode DEF Name
  <2>2. Goes(Assigned("b", 2), status_, memory, Origin + 8)
    BY <2>1, MviGoes DEF M
  <2>3. reg'["b"] = 2 /\ DE' = X + 0 /\ HL' = Y + 0
    BY <1>4, <2>2, RegisterAssigned DEF Goes, X, Y
  <2> QED
    BY <2>2, <2>3, MemoryKept DEF Goes, Starting, At
<1>5. CASE At(8, 0, 0, 2)
  <2>1. x = 2 /\ y = 5 /\ z = 7 /\ Wrap(pc_ + 1) = Origin + 9
    BY <1>5, LoopCode DEF At
  <2>2. Alu(5, status_, reg["a"], Operand(7)) = Xra(status_, reg["a"], Operand(7))
    BY DEF Alu
  <2>3. PICK v : Goes(Assigned("a", v), Xra(status_, reg["a"], Operand(7)).status,
                      memory, Origin + 9)
    BY <2>1, <2>2, AluGoes
  <2>4. CarryFlag \notin Xra(status_, reg["a"], Operand(7)).status
    BY DEF Xra, Outcome, With, CarryFlag, AuxCarryFlag
  <2>5. reg'["b"] = 2 - 0 /\ DE' = X + 0 /\ HL' = Y + 0
    BY <1>5, <2>3, RegisterAssigned DEF Goes, At
  <2> QED
    BY <2>3, <2>4, <2>5, MemoryKept DEF Goes, Heading, At, Starting, Carried
<1> QED
  BY <1>2, <1>3, <1>4, <1>5 DEF Starting

\* LDAX D, the operation on M, and what is done about its result.
LEMMA LoopComputes ==
  ASSUME Cells = SomeCells, Sound, NEW op \in {ADCM, SBBM}, NEW fix \in {DAA, NOP},
         Holding(Loop(op, fix)), NEW r, NEW c, NEW k \in 0..1, Instruction,
         IsRound(op, fix, r, c, image.x, image.y),
         Heading(k, r, c) \/ Fetched(k, r, c) \/ Computed(k, r, c, op)
  PROVE  /\ Fetched(k, r, c)' \/ Computed(k, r, c, op)' \/ Fixed(k, r, c)'
         /\ Holding(Loop(op, fix))' /\ UNCHANGED <<iff_, hlt_, image>>
<1>1. CASE Heading(k, r, c)
  <2>1. x = 0 /\ y = 2 * 1 + 1 /\ z = 2 /\ Wrap(pc_ + 1) = Origin + 10
    BY <1>1, LoopCode DEF Heading, At
  <2>2. Goes(Assigned("a", Peek(DE)), status_, memory, Origin + 10)
    BY <2>1, LdaxGoes DEF DE
  <2>3. Peek(DE) = ByteOf(image.x, k)
    <3>1. DE = X + k /\ X + k \in Cells
      BY <1>1 DEF Heading, At, SomeCells, X
    <3>2. memory[X + k] = ByteOf(image.x, k)
      BY <1>1 DEF Heading, Operands
    <3> QED
      BY <3>1, <3>2 DEF Peek
  <2>4. reg'["a"] = ByteOf(image.x, k) /\ reg'["b"] = reg["b"] /\ DE' = DE /\ HL' = HL
    BY <2>2, <2>3, RegisterAssigned DEF Goes
  <2> QED
    BY <1>1, <2>2, <2>4, MemoryKept DEF Goes, Heading, Fetched, At, Carried
<1>2. CASE Fetched(k, r, c)
  <2> DEFINE q == (op \div 8) % 8
             o == Alu(q, status_, ByteOf(image.x, k), ByteOf(image.y, k))
  <2>1. x = 2 /\ y = q /\ z = 6 /\ Wrap(pc_ + 1) = Origin + 11
    BY <1>2, LoopCode DEF Fetched, At
  <2>2. Operand(6) = ByteOf(image.y, k)
    <3>1. HL = Y + k /\ Y + k \in Cells
      BY <1>2 DEF Fetched, At, SomeCells, Y
    <3>2. memory[Y + k] = ByteOf(image.y, k)
      BY <1>2 DEF Fetched, Operands
    <3> QED
      BY <3>1, <3>2 DEF Operand, Peek, M
  <2>3. reg["a"] = ByteOf(image.x, k)
    BY <1>2 DEF Fetched
  <2>4. Goes(Assigned("a", o.value), o.status, memory, Origin + 11)
    BY <2>1, <2>2, <2>3, AluGoes
  <2>5. reg'["a"] = o.value /\ reg'["b"] = reg["b"] /\ DE' = DE /\ HL' = HL
    BY <2>4, RegisterAssigned DEF Goes
  <2>6. image' = image /\ (CarryFlag \in status_ <=> c[k])
    BY <1>2, <2>4 DEF Goes, Fetched, Carried
  <2>7. \E s : /\ CarryFlag \in s <=> c[k]
               /\ LET u == Alu((op \div 8) % 8, s, ByteOf(image.x, k), ByteOf(image.y, k))'
                  IN  reg'["a"] = u.value /\ status_' = u.status
    BY <2>4, <2>5, <2>6 DEF Goes
  <2>8. At(11, k, k, 2 - k)' /\ Operands(k, r)'
    BY <1>2, <2>4, <2>5, MemoryKept DEF Goes, Fetched, At
  <2>9. Computed(k, r, c, op)'
    BY <2>6, <2>7, <2>8 DEF Computed
  <2> QED
    BY <2>4, <2>9, MemoryKept DEF Goes
<1>3. CASE Computed(k, r, c, op)
  <2>1. PICK s : /\ CarryFlag \in s <=> c[k]
                 /\ LET o == Alu((op \div 8) % 8, s, ByteOf(image.x, k), ByteOf(image.y, k))
                    IN  reg["a"] = o.value /\ status_ = o.status
    BY <1>3 DEF Computed
  <2> DEFINE o == Alu((op \div 8) % 8, s, ByteOf(image.x, k), ByteOf(image.y, k))
             f == IF fix = DAA THEN Adjust(o.status, o.value) ELSE o
  <2>2. f.value = r[k] /\ (CarryFlag \in f.status <=> c[k + 1])
    BY <2>1 DEF IsRound
  <2>3. reg["a"] = o.value /\ status_ = o.status
    BY <2>1
  <2> HIDE DEF o
  <2>4. pc_ = Origin + 11
    BY <1>3 DEF Computed, At
  <2>5. CASE fix = DAA
    <3>1. x = 0 /\ y = 4 /\ z = 7 /\ Wrap(pc_ + 1) = Origin + 12
      BY <2>4, <2>5, LoopCode
    <3>2. Goes(Assigned("a", f.value), f.status, memory, Origin + 12)
      BY <2>3, <2>5, <3>1, DaaGoes
    <3>3. reg'["a"] = r[k] /\ reg'["b"] = reg["b"] /\ DE' = DE /\ HL' = HL
      BY <2>2, <3>2, RegisterAssigned DEF Goes
    <3> HIDE DEF f
    <3> QED
      BY <1>3, <2>2, <3>2, <3>3, MemoryKept DEF Goes, Computed, Fixed, At, Carried
  <2>6. CASE fix # DAA
    <3>1. x = 0 /\ y = 0 /\ z = 0 /\ Wrap(pc_ + 1) = Origin + 12
      BY <2>4, <2>6, LoopCode
    <3>2. Goes(reg, status_, memory, Origin + 12)
      BY <3>1, NopGoes
    <3>3. reg'["a"] = r[k] /\ reg'["b"] = reg["b"] /\ DE' = DE /\ HL' = HL
      BY <2>2, <2>3, <2>6, <3>2, RegistersKept DEF Goes
    <3>4. CarryFlag \in status_ <=> c[k + 1]
      BY <2>2, <2>3, <2>6
    <3> HIDE DEF f
    <3> QED
      BY <1>3, <3>2, <3>3, <3>4, MemoryKept DEF Goes, Computed, Fixed, At, Carried
  <2> QED
    BY <2>5, <2>6
<1> QED
  BY <1>1, <1>2, <1>3

\* A byte of the result is stored.
LEMMA ByteStored ==
  ASSUME Cells = SomeCells, Sound, NEW code, DOMAIN code \subseteq 1..26, Holding(code),
         NEW r, NEW k \in 0..1, Operands(k, r), image' = image,
         memory' = Poke(X + k, r[k])
  PROVE  Holding(code)' /\ Operands(k + 1, r)'
<1>1. memory' = [memory EXCEPT ![X + k] = r[k]] /\ memory \in [Cells -> Byte]
  BY SoundFacts DEF Poke
<1>2. X + k \in Cells /\ \A i \in 1..26 : Origin + i - 1 \in Cells
  BY DEF SomeCells, Code, X, Origin
<1>3. \A i \in 1..26 : memory'[Origin + i - 1] = memory[Origin + i - 1]
  <2>1. \A i \in 1..26 : Origin + i - 1 # X + k
    BY DEF X, Origin
  <2> QED
    BY <1>1, <1>2, <2>1
<1>4. \A j \in 0..1 : X + j \in Cells /\ Y + j \in Cells /\ Y + j # X + k
  BY DEF SomeCells, X, Y
<1>5. \A j \in 0..1 : memory'[X + j] = IF j < k + 1 THEN r[j] ELSE ByteOf(image.x, j)
  <2>1. memory'[X + k] = r[k]
    BY <1>1, <1>2
  <2>2. ASSUME NEW j \in 0..1, j # k
        PROVE  memory'[X + j] = memory[X + j]
    <3>1. X + j # X + k
      BY <2>2 DEF X
    <3> QED
      BY <1>1, <1>2, <1>4, <3>1
  <2>3. \A j \in 0..1 : j < k + 1 <=> j < k \/ j = k
    OBVIOUS
  <2> QED
    BY <2>1, <2>2, <2>3 DEF Operands
<1>6. \A j \in 0..1 : memory'[Y + j] = memory[Y + j]
  BY <1>1, <1>2, <1>4
<1> QED
  BY <1>3, <1>5, <1>6 DEF Holding, Operands

\* STAX D, the steps of the pointers and the counter, and the jump.
LEMMA LoopStores ==
  ASSUME Cells = SomeCells, Sound, NEW op \in {ADCM, SBBM}, NEW fix \in {DAA, NOP},
         Holding(Loop(op, fix)), NEW r, NEW c, NEW k \in 0..1, Instruction,
         Fixed(k, r, c) \/ Stored(k, r, c)
  PROVE  /\ \/ Stored(k, r, c)'
            \/ k = 0 /\ Heading(1, r, c)'
            \/ k = 1 /\ Done(r, c)' /\ pc_' = Origin + 19
         /\ Holding(Loop(op, fix))' /\ UNCHANGED <<iff_, hlt_, image>>
<1>1. CASE Fixed(k, r, c)
  <2>1. x = 0 /\ y = 2 * 1 /\ z = 2 /\ Wrap(pc_ + 1) = Origin + 13
    BY <1>1, LoopCode DEF Fixed, At
  <2>2. Goes(reg, status_, Poke(X + k, r[k]), Origin + 13)
    BY <1>1, <2>1, StaxGoes DEF Fixed, At, DE
  <2>3. Holding(Loop(op, fix))' /\ Operands(k + 1, r)'
    <3>1. DOMAIN Loop(op, fix) \subseteq 1..26
      BY LoopLength
    <3> QED
      BY <1>1, <2>2, <3>1, ByteStored DEF Goes, Fixed
  <2>4. At(13, k, k, 2 - k)'
    BY <1>1, <2>2, RegistersKept DEF Goes, Fixed, At
  <2> QED
    BY <1>1, <2>2, <2>3, <2>4 DEF Goes, Fixed, Stored, Carried
<1>2. ASSUME Stored(k, r, c), memory' = memory, image' = image
      PROVE  Operands(k + 1, r)' /\ Holding(Loop(op, fix))'
  BY <1>2, MemoryKept DEF Stored
<1>3. CASE Stored(k, r, c) /\ At(13, k, k, 2 - k)
  <2>1. x = 0 /\ y = 2 * 1 /\ z = 3 /\ Wrap(pc_ + 1) = Origin + 14
    BY <1>3, LoopCode DEF At
  <2>2. Wrap(DE + 1) = X + (k + 1) /\ X + (k + 1) \in Word
    BY <1>3, WordRange DEF At, Wrap, X
  <2>3. Goes(SetPair(1, X + (k + 1)), status_, memory, Origin + 14)
    BY <2>1, <2>2, InxGoes DEF DE
  <2>4. DE' = X + (k + 1) /\ HL' = HL /\ reg'["b"] = reg["b"]
    BY <2>2, <2>3, PairAssigned DEF Goes, DE, HL
  <2> QED
    BY <1>2, <1>3, <2>3, <2>4 DEF Goes, At, Stored, Carried
<1>4. CASE Stored(k, r, c) /\ At(14, k + 1, k, 2 - k)
  <2>1. x = 0 /\ y = 2 * 2 /\ z = 3 /\ Wrap(pc_ + 1) = Origin + 15
    BY <1>4, LoopCode DEF At
  <2>2. Wrap(HL + 1) = Y + (k + 1) /\ Y + (k + 1) \in Word
    BY <1>4, WordRange DEF At, Wrap, Y
  <2>3. Goes(SetPair(2, Y + (k + 1)), status_, memory, Origin + 15)
    BY <2>1, <2>2, InxGoes DEF HL
  <2>4. HL' = Y + (k + 1) /\ DE' = DE /\ reg'["b"] = reg["b"]
    BY <2>2, <2>3, PairAssigned DEF Goes, DE, HL
  <2> QED
    BY <1>2, <1>4, <2>3, <2>4 DEF Goes, At, Stored, Carried
<1>5. CASE Stored(k, r, c) /\ At(15, k + 1, k + 1, 2 - k)
  <2> DEFINE d == Decremented(status_, reg["b"])
  <2>1. x = 0 /\ y = 0 /\ z = 5 /\ Wrap(pc_ + 1) = Origin + 16 /\ Name(0) = "b"
    BY <1>5, LoopCode DEF At, Name
  <2>2. Goes(Assigned("b", d.value), d.status, memory, Origin + 16)
    BY <2>1, DcrGoes DEF M
  <2>3. reg["b"] = 2 - k /\ 2 - k \in Byte
    BY <1>5, ByteRange DEF At
  <2>4. /\ d.value = 1 - k
        /\ CarryFlag \in d.status <=> CarryFlag \in status_
        /\ ZeroFlag \in d.status <=> k = 1
    <3>1. d.value = (2 - k + 255) % 256 /\ (ZeroFlag \in d.status <=> d.value = 0)
      BY <2>3, DecrementFlags
    <3>2. CarryFlag \in d.status <=> CarryFlag \in status_
      BY <2>3, DecrementFlags
    <3> HIDE DEF d
    <3> QED
      BY <3>1, <3>2
  <2> HIDE DEF d
  <2>5. reg'["b"] = 1 - k /\ DE' = DE /\ HL' = HL
    BY <2>2, <2>4, RegisterAssigned DEF Goes
  <2> QED
    BY <1>2, <1>5, <2>2, <2>4, <2>5 DEF Goes, At, Stored, Carried
<1>6. CASE Stored(k, r, c) /\ At(16, k + 1, k + 1, 1 - k) /\ (ZeroFlag \in status_ <=> k = 1)
  <2>1. /\ x = 3 /\ y = 0 /\ z = 2
        /\ Address = Origin + 9 /\ Wrap(pc_ + 3) = Origin + 19
    BY <1>6, LoopCode DEF At
  <2>2. Holds <=> k = 0
    <3>1. Pair = 0 /\ y \notin Odd
      BY <2>1 DEF Pair, Odd
    <3>2. Holds <=> ZeroFlag \notin status_
      BY <3>1 DEF Holds
    <3> QED
      BY <1>6, <3>2
  <2>3. Goes(reg, status_, memory, IF k = 0 THEN Origin + 9 ELSE Origin + 19)
    BY <2>1, <2>2, JumpGoes
  <2>4. DE' = DE /\ HL' = HL
    BY <2>3, RegistersKept DEF Goes
  <2>5. CASE k = 0
    BY <1>2, <1>6, <2>3, <2>4, <2>5 DEF Goes, At, Stored, Heading, Carried
  <2>6. CASE k = 1
    BY <1>2, <1>6, <2>3, <2>6 DEF Goes, Stored, Done, Carried
  <2> QED
    BY <2>5, <2>6
<1> QED
  BY <1>1, <1>3, <1>4, <1>5, <1>6 DEF Stored

\* A step that is no instruction.
Rests == UNCHANGED <<reg, pc_, sp_, status_, iff_, hlt_, memory, image>>

\* What a step is while interrupts are disabled.
LEMMA QuietSteps ==
  ASSUME ~iff_, [Next]_vars
  PROVE  Rests \/ (~hlt_ /\ Instruction)
<1>1. CASE Execute
  BY <1>1 DEF Execute, Stall, Rests
<1>2. ASSUME NEW isr \in Restarts, Interrupt(isr) PROVE Rests
  BY <1>2 DEF Interrupt, Stall, Rests
<1>3. CASE UNCHANGED vars
  BY <1>3 DEF vars, Rests
<1> QED
  BY <1>1, <1>2, <1>3 DEF Next

\* A machine that rests stays where it is.
LEMMA LoopRests ==
  ASSUME NEW op, NEW fix, NEW r, NEW c, Looping(op, fix, r, c), Rests
  PROVE  Looping(op, fix, r, c)'
<1> USE DEF Rests
<1>1. /\ Holding(Loop(op, fix))' = Holding(Loop(op, fix)) /\ Done(r, c)' = Done(r, c)
      /\ Starting(r)' = Starting(r)
  BY DEF Holding, Operands, Done, Carried, Starting, At, DE, HL, PairValue
<1>2. ASSUME NEW k
      PROVE  /\ Heading(k, r, c)' = Heading(k, r, c) /\ Fetched(k, r, c)' = Fetched(k, r, c)
             /\ Computed(k, r, c, op)' = Computed(k, r, c, op)
             /\ Fixed(k, r, c)' = Fixed(k, r, c) /\ Stored(k, r, c)' = Stored(k, r, c)
  BY DEF Heading, Fetched, Computed, Fixed, Stored, Operands, Carried, At, DE, HL, PairValue
<1>3. pc_' = pc_ /\ hlt_' = hlt_ /\ iff_' = iff_
  OBVIOUS
<1> USE DEF Looping
<1> HIDE DEF Rests
<1> QED
  BY <1>1, <1>2, <1>3

\* From instruction to instruction, until it halts.
LEMMA LoopSteps ==
  ASSUME Cells = SomeCells, Sound, [Next]_vars,
         NEW op \in {ADCM, SBBM}, NEW fix \in {DAA, NOP}, NEW r, NEW c,
         IsRound(op, fix, r, c, image.x, image.y), Looping(op, fix, r, c)
  PROVE  Looping(op, fix, r, c)' /\ image' = image
<1>1. CASE Rests
  BY <1>1, LoopRests DEF Rests
<1>2. CASE ~hlt_ /\ Instruction
  <2>1. Holding(Loop(op, fix)) /\ ~iff_ /\ ~c[0]
    BY DEF Looping, IsRound
  <2>2. CASE Starting(r)
    BY <1>2, <2>1, <2>2, LoopStarts DEF Looping
  <2>3. ASSUME NEW k \in 0..1,
               Heading(k, r, c) \/ Fetched(k, r, c) \/ Computed(k, r, c, op)
        PROVE  Looping(op, fix, r, c)' /\ image' = image
    BY <1>2, <2>1, <2>3, LoopComputes DEF Looping
  <2>4. ASSUME NEW k \in 0..1, Fixed(k, r, c) \/ Stored(k, r, c)
        PROVE  Looping(op, fix, r, c)' /\ image' = image
    BY <1>2, <2>1, <2>4, LoopStores DEF Looping
  <2>5. CASE Done(r, c) /\ pc_ = Origin + 19
    <3>1. x = 1 /\ y = 6 /\ z = 6
      BY <2>1, <2>5, LoopCode
    <3>2. hlt_' /\ UNCHANGED <<reg, status_, memory, iff_, image>>
      BY <1>2, <3>1, HltGoes
    <3>3. Done(r, c)'
      BY <2>5, <3>2 DEF Done, Operands, Carried
    <3> QED
      BY <2>1, <3>2, <3>3, MemoryKept DEF Looping
  <2> QED
    BY <1>2, <2>2, <2>3, <2>4, <2>5 DEF Looping
<1> QED
  BY <1>1, <1>2, QuietSteps DEF Looping

\* The machines of MCIntel8080.
LEMMA MachineBegins ==
  ASSUME Cells = SomeCells, Init, NEW kind, NEW code, NEW m, NEW n, NEW given, NEW flags,
         NEW length \in 0..26, DOMAIN code = 1..length,
         image = Machine(kind, code, m, n, given, flags)
  PROVE  /\ Holding(code) /\ image.x = m /\ image.y = n
         /\ memory[X] = Lo(m) /\ memory[X + 1] = Hi(m)
         /\ memory[Y] = Lo(n) /\ memory[Y + 1] = Hi(n)
         /\ reg = [r \in Names |-> IF r \in DOMAIN given THEN given[r] ELSE 0]
         /\ pc_ = Origin /\ ~iff_ /\ ~hlt_
<1>1. /\ image.x = m /\ image.y = n /\ image.pc = Origin
      /\ image.reg = [r \in Names |-> IF r \in DOMAIN given THEN given[r] ELSE 0]
      /\ image.memory = [a \in SomeCells |->
                 IF a - Origin + 1 \in DOMAIN code THEN code[a - Origin + 1]
                 ELSE CASE a = X -> Lo(m) [] a = X + 1 -> Hi(m)
                        [] a = Y -> Lo(n) [] a = Y + 1 -> Hi(n)
                        [] a \in Code -> HLT [] OTHER -> 255]
  BY DEF Machine
<1>2. memory = image.memory /\ reg = image.reg /\ pc_ = Origin /\ ~iff_ /\ ~hlt_
  BY <1>1 DEF Init
<1>3. ASSUME NEW i \in 1..length PROVE memory[Origin + i - 1] = code[i]
  <2>1. Origin + i - 1 \in SomeCells /\ (Origin + i - 1) - Origin + 1 = i
    BY DEF SomeCells, Code, Origin
  <2> QED
    BY <1>1, <1>2, <2>1
<1>4. /\ {X, X + 1, Y, Y + 1} \subseteq SomeCells
      /\ \A a \in {X, X + 1, Y, Y + 1} : a - Origin + 1 \notin 1..length
      /\ X + 1 # X /\ Y \notin {X, X + 1} /\ Y + 1 \notin {X, X + 1, Y}
  BY DEF SomeCells, Origin, X, Y
<1>5. memory[X] = Lo(m) /\ memory[X + 1] = Hi(m) /\ memory[Y] = Lo(n) /\ memory[Y + 1] = Hi(n)
  <2> DEFINE cell(a) == CASE a = X -> Lo(m) [] a = X + 1 -> Hi(m)
                          [] a = Y -> Lo(n) [] a = Y + 1 -> Hi(n)
                          [] a \in Code -> HLT [] OTHER -> 255
  <2>1. \A a \in {X, X + 1, Y, Y + 1} : memory[a] = cell(a)
    BY <1>1, <1>2, <1>4
  <2>2. {X, X + 1, Y, Y + 1} \cap Code = {}
    BY DEF X, Y, Code, Origin
  <2>3. cell(X) = Lo(m)
    BY <1>4, <2>2
  <2>4. cell(X + 1) = Hi(m)
    BY <1>4, <2>2
  <2>5. cell(Y) = Lo(n)
    BY <1>4, <2>2
  <2>6. cell(Y + 1) = Hi(n)
    BY <1>4, <2>2
  <2> HIDE DEF cell
  <2> QED
    BY <2>1, <2>3, <2>4, <2>5, <2>6
<1> QED
  BY <1>1, <1>2, <1>3, <1>5 DEF Holding

\* Those whose operands are two words in memory.
LEMMA OperandsBegin ==
  ASSUME NEW m, NEW n, image.x = m, image.y = n,
         memory[X] = Lo(m), memory[X + 1] = Hi(m), memory[Y] = Lo(n), memory[Y + 1] = Hi(n),
         NEW r
  PROVE  Operands(0, r)
<1>1. X + 0 = X /\ Y + 0 = Y /\ \A j \in 0..1 : j = 0 \/ j = 1
  BY DEF X, Y
<1> QED
  BY <1>1 DEF Operands, ByteOf, Lo, Hi

\* The machine that is about to execute Loop.
LEMMA LoopBegins ==
  ASSUME Cells = SomeCells, Init, NEW op, NEW fix, NEW m, NEW n, NEW kind,
         image = Machine(kind, Loop(op, fix), m, n, <<>>, {}), NEW r, NEW c
  PROVE  Looping(op, fix, r, c) /\ image.x = m /\ image.y = n
<1>1. /\ Holding(Loop(op, fix)) /\ image.x = m /\ image.y = n
      /\ memory[X] = Lo(m) /\ memory[X + 1] = Hi(m)
      /\ memory[Y] = Lo(n) /\ memory[Y + 1] = Hi(n)
      /\ pc_ = Origin /\ ~iff_ /\ ~hlt_
  <2>1. 20 \in 0..26 /\ DOMAIN Loop(op, fix) = 1..20
    BY LoopLength
  <2> QED
    BY <2>1, MachineBegins
<1>2. Operands(0, r)
  BY <1>1, OperandsBegin
<1> QED
  BY <1>1, <1>2 DEF Looping, Starting

\* The word that the bytes are.
LEMMA WordStored ==
  ASSUME NEW r, Operands(2, r)
  PROVE  Word1(X) = r[0] + 256 * r[1]
<1>1. memory[X + 0] = r[0] /\ memory[X + 1] = r[1] /\ X + 0 = X
  BY DEF Operands, X
<1> QED
  BY <1>1 DEF Word1

\* No step changes what was loaded.
LEMMA ImageKept ==
  ASSUME [Next]_vars
  PROVE  image' = image
<1> USE DEF Changes, ChangeOperand, ChangePair, ChangeA, PushOnto
<1>1. Nop \/ NotImplemented \/ Hlt \/ Di \/ Ei \/ Out \/ In => image' = image
  BY DEF Nop, NotImplemented, Hlt, Di, Ei, Out, In
<1>2. Lxi \/ Inx \/ Dcx \/ Dad => image' = image
  BY DEF Lxi, Inx, Dcx, Dad
<1>3. Stax \/ Ldax \/ Shld \/ Lhld \/ Sta \/ Lda => image' = image
  BY DEF Stax, Ldax, Shld, Lhld, Sta, Lda
<1>4. Mvi \/ Mov \/ Xchg \/ Xthl \/ Inr \/ Dcr => image' = image
  BY DEF Mvi, Mov, Xchg, Xthl, Inr, Dcr
<1>5. RotateA \/ Daa \/ Cma \/ Stc \/ Cmc \/ Arithmetic => image' = image
  BY DEF RotateA, Daa, Cma, Stc, Cmc, Arithmetic
<1>6. RetOnFlag \/ JmpOnFlag \/ CallOnFlag \/ Rst => image' = image
  BY DEF RetOnFlag, JmpOnFlag, CallOnFlag, Rst
<1>7. Pchl \/ Sphl \/ Push \/ Pop => image' = image
  BY DEF Pchl, Sphl, Push, Pop
<1>8. Instruction => image' = image
  BY <1>1, <1>2, <1>3, <1>4, <1>5, <1>6, <1>7 DEF Instruction
<1>9. \A isr \in Restarts : Interrupt(isr) => image' = image
  BY DEF Interrupt, Stall
<1> QED
  BY <1>8, <1>9 DEF Next, Execute, Stall, vars

-----------------------------------------------------------------------------
(* The difference of two words.                                            *)

\* The machines of a kind hold one program, each with two of the operands.
AreImages(kind, code, operands) ==
  \A i \in Images : i.kind = kind =>
    \E m \in operands, n \in operands : i = Machine(kind, code, m, n, <<>>, {})

\* Bytes that are subtracted from the lowest, the borrow handed on.
LEMMA BorrowedWord ==
  ASSUME NEW a \in Byte, NEW b \in Byte, NEW e \in Byte, NEW f \in Byte
  PROVE  LET borrowed == IF a < b THEN 1 ELSE 0
         IN  /\ ((a - b) % 256) + 256 * ((e - f - borrowed) % 256)
                  = ((256 * e + a) - (256 * f + b)) % 65536
             /\ e < f + borrowed <=> 256 * e + a < 256 * f + b
<1> DEFINE borrowed == IF a < b THEN 1 ELSE 0
           low == a - b
           high == e - f - borrowed
<1>1. /\ a \in Int /\ 0 <= a /\ a <= 255 /\ b \in Int /\ 0 <= b /\ b <= 255
      /\ e \in Int /\ 0 <= e /\ e <= 255 /\ f \in Int /\ 0 <= f /\ f <= 255
  BY ByteRange
<1>2. low % 256 = IF a < b THEN low + 256 ELSE low
  BY <1>1
<1>3. high % 256 = IF high < 0 THEN high + 256 ELSE high
  <2>1. high \in Int /\ -256 <= high /\ high <= 255
    BY <1>1
  <2> HIDE DEF high
  <2> QED
    BY <2>1
<1>4. e < f + borrowed <=> 256 * e + a < 256 * f + b
  BY <1>1
<1>5. ((256 * e + a) - (256 * f + b)) % 65536
        = IF 256 * e + a < 256 * f + b THEN (256 * e + a) - (256 * f + b) + 65536
          ELSE (256 * e + a) - (256 * f + b)
  <2> DEFINE d == (256 * e + a) - (256 * f + b)
  <2>1. /\ d \in Int /\ -65536 < d /\ d < 65536
        /\ d < 0 <=> 256 * e + a < 256 * f + b
    BY <1>1
  <2> HIDE DEF d
  <2>2. d % 65536 = IF d < 0 THEN d + 65536 ELSE d
    BY <2>1
  <2> QED
    BY <2>1, <2>2 DEF d
<1>6. high < 0 <=> e < f + borrowed
  BY <1>1
<1> QED
  BY <1>1, <1>2, <1>3, <1>4, <1>5, <1>6

\* The bytes of the difference and their borrows.
LEMMA DifferenceRounds ==
  ASSUME NEW m \in Word, NEW n \in Word
  PROVE  \E r, c : /\ IsRound(SBBM, NOP, r, c, m, n)
                   /\ r[0] + 256 * r[1] = (m - n) % 65536
                   /\ c[2] <=> m < n
<1> DEFINE borrow(k) == IF k = 0 THEN FALSE ELSE IF k = 1 THEN m % 256 < n % 256 ELSE m < n
           one(k) == IF borrow(k) THEN 1 ELSE 0
           byte(k) == (ByteOf(m, k) - ByteOf(n, k) - one(k)) % 256
           r == [j \in 0..1 |-> byte(j)]
           c == [j \in 0..2 |-> borrow(j)]
<1>1. m \in Int /\ 0 <= m /\ m <= 65535 /\ n \in Int /\ 0 <= n /\ n <= 65535
  BY WordRange
<1>2. /\ m % 256 \in Byte /\ n % 256 \in Byte /\ m \div 256 \in Byte /\ n \div 256 \in Byte
      /\ m = 256 * (m \div 256) + (m % 256) /\ n = 256 * (n \div 256) + (n % 256)
  BY <1>1, Halves
<1>3. /\ byte(0) + 256 * byte(1) = (m - n) % 65536
      /\ \A k \in 0..1 : ByteOf(m, k) < ByteOf(n, k) + one(k) <=> borrow(k + 1)
  <2>1. PICK a \in Byte, b \in Byte, e \in Byte, f \in Byte :
          /\ a = m % 256 /\ b = n % 256 /\ e = m \div 256 /\ f = n \div 256
          /\ m = 256 * e + a /\ n = 256 * f + b
    BY <1>2
  <2>2. byte(0) = (a - b) % 256 /\ byte(1) = (e - f - one(1)) % 256
    BY <1>1, <2>1 DEF ByteOf
  <2>3. one(1) = (IF a < b THEN 1 ELSE 0) /\ one(0) = 0
    BY <2>1
  <2>4. /\ ByteOf(m, 0) = a /\ ByteOf(n, 0) = b /\ ByteOf(m, 1) = e /\ ByteOf(n, 1) = f
        /\ borrow(1) <=> a < b
        /\ borrow(2) <=> 256 * e + a < 256 * f + b
    BY <2>1 DEF ByteOf
  <2> HIDE DEF byte, one, borrow
  <2>5. byte(0) + 256 * byte(1) = (m - n) % 65536
    <3>1. ((a - b) % 256) + 256 * ((e - f - one(1)) % 256)
            = ((256 * e + a) - (256 * f + b)) % 65536
      BY <2>3, BorrowedWord
    <3>2. (256 * e + a) - (256 * f + b) = m - n
      BY <2>1
    <3> QED
      BY <2>2, <3>1, <3>2
  <2>6. \A k \in 0..1 : k = 0 \/ k = 1
    OBVIOUS
  <2>7. ByteOf(m, 0) < ByteOf(n, 0) + one(0) <=> borrow(0 + 1)
    BY <2>3, <2>4, ByteRange
  <2>8. ByteOf(m, 1) < ByteOf(n, 1) + one(1) <=> borrow(1 + 1)
    BY <2>3, <2>4, BorrowedWord
  <2> QED
    BY <2>5, <2>6, <2>7, <2>8
<1>4. ASSUME NEW k \in 0..1
      PROVE  ByteOf(m, k) \in Byte /\ ByteOf(n, k) \in Byte /\ one(k) \in {0, 1}
  BY Halves DEF ByteOf
<1> HIDE DEF borrow
<1>5. ASSUME NEW k \in 0..1, NEW s, CarryFlag \in s <=> borrow(k)
      PROVE  LET o == Alu(3, s, ByteOf(m, k), ByteOf(n, k))
             IN  o.value = byte(k) /\ (CarryFlag \in o.status <=> borrow(k + 1))
  <2> DEFINE a == ByteOf(m, k)
             b == ByteOf(n, k)
  <2>1. one(k) = IF CarryFlag \in s THEN 1 ELSE 0
    BY <1>5
  <2> HIDE DEF one, a, b
  <2>2. Alu(3, s, a, b) = Sub(s, a, b, one(k))
    BY <2>1 DEF Alu
  <2>3. a \in Byte /\ b \in Byte /\ one(k) \in {0, 1}
    BY <1>4 DEF a, b
  <2>4. Differs(s, a, b, one(k))
    BY <2>3, SubIsDifference
  <2> QED
    BY <1>3, <2>2, <2>4 DEF Differs, a, b
<1>6. (SBBM \div 8) % 8 = 3 /\ NOP # DAA
  BY DEF SBBM, NOP, DAA
<1>7. ~borrow(0) /\ (borrow(2) <=> m < n)
  BY DEF borrow
<1> HIDE DEF byte
<1>8. /\ \A k \in 0..1 : r[k] = byte(k) /\ c[k] = borrow(k) /\ c[k + 1] = borrow(k + 1)
      /\ c[0] = borrow(0) /\ c[2] = borrow(2) /\ r[0] = byte(0) /\ r[1] = byte(1)
  OBVIOUS
<1> HIDE DEF r, c
<1>9. IsRound(SBBM, NOP, r, c, m, n)
  BY <1>5, <1>6, <1>7, <1>8 DEF IsRound
<1> QED
  BY <1>3, <1>7, <1>8, <1>9

\* What is true in a machine that executes the subtraction.
Subtracting ==
  image.kind = "difference" =>
    \E r, c : /\ IsRound(SBBM, NOP, r, c, image.x, image.y)
              /\ r[0] + 256 * r[1] = (image.x - image.y) % 65536
              /\ c[2] <=> image.x < image.y
              /\ Looping(SBBM, NOP, r, c)

\* LDAX D, SBB M, STAX D, byte after byte from the lowest, subtracts any two words,
\* and the carry left over tells whether the first is less.
THEOREM DifferenceOfWords ==
  ASSUME Cells = SomeCells, AreImages("difference", Loop(SBBM, NOP), Word)
  PROVE  Spec => []Difference
<1> SBBM \in {ADCM, SBBM} /\ NOP \in {DAA, NOP}
  OBVIOUS
<1>1. ASSUME Init PROVE Subtracting
  <2> SUFFICES ASSUME image.kind = "difference" PROVE Subtracting
    BY DEF Subtracting
  <2>1. PICK m \in Word, n \in Word :
          image = Machine("difference", Loop(SBBM, NOP), m, n, <<>>, {})
    BY <1>1 DEF Init, AreImages
  <2>2. PICK r, c : /\ IsRound(SBBM, NOP, r, c, m, n)
                    /\ r[0] + 256 * r[1] = (m - n) % 65536
                    /\ c[2] <=> m < n
    BY DifferenceRounds
  <2>3. Looping(SBBM, NOP, r, c) /\ image.x = m /\ image.y = n
    BY <1>1, <2>1, LoopBegins
  <2> QED
    BY <2>2, <2>3 DEF Subtracting
<1>2. ASSUME Sound, Subtracting, [Next]_vars PROVE Subtracting'
  <2>1. CASE image.kind = "difference"
    <3>1. PICK r, c : /\ IsRound(SBBM, NOP, r, c, image.x, image.y)
                      /\ r[0] + 256 * r[1] = (image.x - image.y) % 65536
                      /\ c[2] <=> image.x < image.y
                      /\ Looping(SBBM, NOP, r, c)
      BY <1>2, <2>1 DEF Subtracting
    <3>2. Looping(SBBM, NOP, r, c)' /\ image' = image
      BY <1>2, <3>1, LoopSteps
    <3> QED
      BY <3>1, <3>2 DEF Subtracting
  <2>2. CASE image.kind # "difference"
    <3>1. image' = image
      BY <1>2, ImageKept
    <3> QED
      BY <2>2, <3>1 DEF Subtracting
  <2> QED
    BY <2>1, <2>2
<1>3. Subtracting => Difference
  <2> SUFFICES ASSUME Subtracting, hlt_, image.kind = "difference"
               PROVE  /\ Word1(X) = (image.x - image.y) % 65536
                      /\ Carried <=> image.x < image.y
    BY DEF Difference, Ended
  <2>1. PICK r, c : /\ r[0] + 256 * r[1] = (image.x - image.y) % 65536
                    /\ c[2] <=> image.x < image.y
                    /\ Looping(SBBM, NOP, r, c)
    BY DEF Subtracting
  <2>2. Done(r, c)
    BY <2>1 DEF Looping
  <2> QED
    BY <2>1, <2>2, WordStored DEF Done
<1> QED
  BY <1>1, <1>2, <1>3, SpecSound, PTL DEF Spec

-----------------------------------------------------------------------------
(* The sum of two decimal numbers.                                         *)

\* Numbers of two and of four decimal digits.
Hundred == 0..99
TenThousand == 0..9999

\* The byte of a number of two decimal digits.
Packed(n) == Digits(n \div 10, n % 10)

\* A number of four decimal digits is two of two.
LEMMA TwoByTwo ==
  ASSUME NEW n \in TenThousand
  PROVE  /\ n % 100 \in Hundred /\ n \div 100 \in Hundred
         /\ n = 100 * (n \div 100) + (n % 100)
<1>1. n \in Int /\ 0 <= n /\ n <= 9999
  BY DEF TenThousand
<1>2. n % 100 \in 0..99
  BY <1>1
<1>3. n \div 100 \in 0..99
  BY <1>1
<1>4. n = 100 * (n \div 100) + (n % 100)
  BY <1>1
<1> QED
  BY <1>2, <1>3, <1>4 DEF Hundred

\* A number of four decimal digits is two bytes of two.
LEMMA PackedBytes ==
  ASSUME NEW n \in TenThousand
  PROVE  /\ n % 100 \in Hundred /\ n \div 100 \in Hundred
         /\ Bcd(n) % 256 = Packed(n % 100) /\ Bcd(n) \div 256 = Packed(n \div 100)
         /\ Bcd(n) = Packed(n % 100) + 256 * Packed(n \div 100)
         /\ Bcd(n) \in Word /\ Decimal(Bcd(n)) = n
<1>1. n \in Int /\ 0 <= n /\ n <= 9999
  BY DEF TenThousand
<1> DEFINE d0 == n % 10
           d1 == (n \div 10) % 10
           d2 == (n \div 100) % 10
           d3 == n \div 1000
<1>2. /\ d0 \in 0..9 /\ d1 \in 0..9 /\ d2 \in 0..9 /\ d3 \in 0..9
      /\ n = d0 + 10 * d1 + 100 * d2 + 1000 * d3
  <2>1. (n \div 10) \div 10 = n \div 100 /\ (n \div 100) \div 10 = n \div 1000
    BY <1>1
  <2>2. /\ n \in Nat /\ n \div 10 \in Int /\ 0 <= n \div 10
        /\ n \div 100 \in Int /\ 0 <= n \div 100
        /\ n \div 1000 \in Int /\ 0 <= n \div 1000 /\ n \div 1000 <= 9
    BY <1>1
  <2>3. \A e \in Nat : e % 10 \in 0..9 /\ e = 10 * (e \div 10) + (e % 10)
    OBVIOUS
  <2> DEFINE tens == n \div 10
             hundreds == n \div 100
  <2>4. d0 \in 0..9 /\ d1 \in 0..9 /\ d2 \in 0..9 /\ d3 \in 0..9
    BY <2>2, <2>3
  <2>5. /\ n = 10 * tens + d0 /\ tens = 10 * hundreds + d1 /\ hundreds = 10 * d3 + d2
        /\ tens \in Int /\ hundreds \in Int
    BY <2>1, <2>2, <2>3
  <2> HIDE DEF d0, d1, d2, d3, tens, hundreds
  <2> QED
    BY <2>4, <2>5
<1> HIDE DEF d0, d1, d2, d3
<1> USE <1>2
<1>3. /\ n % 10 = d0 /\ n \div 10 = d1 + 10 * d2 + 100 * d3 /\ n \div 100 = d2 + 10 * d3
      /\ n \div 1000 = d3 /\ n % 100 = d0 + 10 * d1
  BY <1>2
<1>4. /\ (d1 + 10 * d2 + 100 * d3) % 10 = d1 /\ (d2 + 10 * d3) % 10 = d2
      /\ (d2 + 10 * d3) \div 10 = d3 /\ (d0 + 10 * d1) % 10 = d0 /\ (d0 + 10 * d1) \div 10 = d1
  OBVIOUS
<1>5. Bcd(n) = (d0 + d1 * 16) + (d2 + d3 * 16) * 256
  <2>1. (n \div 10) % 10 = d1 /\ (n \div 100) % 10 = d2
    BY <1>3, <1>4
  <2> QED
    BY <1>3, <2>1 DEF Bcd
<1>6. Packed(n % 100) = d0 + 16 * d1 /\ Packed(n \div 100) = d2 + 16 * d3
  BY <1>3, <1>4 DEF Packed, Digits
<1>7. /\ n % 100 \in Hundred /\ n \div 100 \in Hundred
      /\ Bcd(n) = Packed(n % 100) + 256 * Packed(n \div 100)
      /\ Bcd(n) \in Word
  <2>1. Bcd(n) = Packed(n % 100) + 256 * Packed(n \div 100)
    BY <1>5, <1>6
  <2>2. n % 100 \in Hundred /\ n \div 100 \in Hundred
    BY <1>3 DEF Hundred
  <2>3. Bcd(n) \in Word
    BY <1>5, WordRange
  <2> QED
    BY <2>1, <2>2, <2>3
<1>8. /\ Bcd(n) % 256 = d0 + 16 * d1 /\ Bcd(n) \div 256 = d2 + 16 * d3
  BY <1>5
<1>9. /\ Bcd(n) % 16 = d0 /\ (Bcd(n) \div 16) % 16 = d1 /\ (Bcd(n) \div 256) % 16 = d2
      /\ Bcd(n) \div 4096 = d3
  <2>1. Bcd(n) \div 16 = d1 + 16 * d2 + 256 * d3 /\ Bcd(n) % 16 = d0 /\ Bcd(n) \div 4096 = d3
    BY <1>5
  <2>2. (d1 + 16 * d2 + 256 * d3) % 16 = d1 /\ (d2 + 16 * d3) % 16 = d2
    OBVIOUS
  <2> QED
    BY <1>8, <2>1, <2>2
<1> QED
  BY <1>2, <1>6, <1>7, <1>8, <1>9 DEF Decimal

\* The sum of two such bytes, adjusted.
LEMMA PackedSum ==
  ASSUME NEW m \in Hundred, NEW n \in Hundred, NEW carry \in {0, 1}, NEW s,
         carry = IF CarryFlag \in s THEN 1 ELSE 0
  PROVE  LET sum == Alu(1, s, Packed(m), Packed(n))
             adjusted == Adjust(sum.status, sum.value)
         IN  /\ adjusted.value = Packed((m + n + carry) % 100)
             /\ CarryFlag \in adjusted.status <=> m + n + carry > 99
<1> DEFINE h1 == m \div 10
           l1 == m % 10
           h2 == n \div 10
           l2 == n % 10
           sum == Add(s, Digits(h1, l1), Digits(h2, l2), carry, TRUE)
           adjusted == Adjust(sum.status, sum.value)
           t == 10 * (h1 + h2) + (l1 + l2 + carry)
<1>1. /\ h1 \in 0..9 /\ l1 \in 0..9 /\ h2 \in 0..9 /\ l2 \in 0..9
      /\ t = m + n + carry /\ t \in 0..199
  BY DEF Hundred
<1>2. Alu(1, s, Packed(m), Packed(n)) = sum
  BY DEF Alu, Packed
<1> HIDE DEF h1, l1, h2, l2, sum
<1>3. /\ adjusted.value = Digits((t % 100) \div 10, t % 10)
      /\ CarryFlag \in adjusted.status <=> t > 99
  <2>1. AddsDecimally(s, h1, l1, h2, l2, carry)
    BY <1>1, AdjustIsDecimal
  <2> QED
    BY <2>1 DEF AddsDecimally, sum
<1> HIDE DEF adjusted, t
<1>4. t % 10 = (t % 100) % 10
  <2>1. t \in 0..99 \/ t \in 100..199
    BY <1>1
  <2>2. CASE t \in 0..99
    BY <2>2
  <2>3. CASE t \in 100..199
    <3>1. t % 100 = t - 100 /\ (t - 100) % 10 = t % 10
      BY <2>3
    <3> QED
      BY <3>1
  <2> QED
    BY <2>1, <2>2, <2>3
<1> QED
  BY <1>1, <1>2, <1>3, <1>4 DEF Packed, adjusted

\* Numbers below 100 that are added from the lowest, the carry handed on.
LEMMA CarriedNumber ==
  ASSUME NEW a \in Hundred, NEW b \in Hundred, NEW e \in Hundred, NEW f \in Hundred,
         NEW one \in {0, 1}, one = 1 <=> a + b > 99
  PROVE  LET sum == (100 * e + a) + (100 * f + b)
             low == (a + b) % 100
             high == (e + f + one) % 100
         IN  /\ low \in Hundred /\ high \in Hundred
             /\ sum % 10000 = 100 * high + low
             /\ e + f + one > 99 <=> sum > 9999
<1> DEFINE sum == (100 * e + a) + (100 * f + b)
           low == (a + b) % 100
           high == (e + f + one) % 100
<1>1. /\ a \in Int /\ 0 <= a /\ a <= 99 /\ b \in Int /\ 0 <= b /\ b <= 99
      /\ e \in Int /\ 0 <= e /\ e <= 99 /\ f \in Int /\ 0 <= f /\ f <= 99
      /\ one \in Int /\ 0 <= one /\ one <= 1
  BY DEF Hundred
<1>2. low = a + b - 100 * one
  <2>1. CASE one = 1
    BY <1>1, <2>1
  <2>2. CASE one = 0
    BY <1>1, <2>2
  <2> QED
    BY <2>1, <2>2
<1>3. high = IF e + f + one > 99 THEN e + f + one - 100 ELSE e + f + one
  BY <1>1
<1>4. sum % 10000 = IF sum > 9999 THEN sum - 10000 ELSE sum
  <2>1. sum \in Int /\ 0 <= sum /\ sum < 20000
    BY <1>1
  <2> HIDE DEF sum
  <2> QED
    BY <2>1
<1>5. e + f + one > 99 <=> sum > 9999
  BY <1>1
<1>6. low \in Hundred /\ high \in Hundred
  BY <1>1 DEF Hundred
<1>7. sum % 10000 = 100 * high + low
  <2> HIDE DEF low, high, sum
  <2>1. sum = (100 * e + a) + (100 * f + b)
    BY DEF sum
  <2>2. CASE sum > 9999
    BY <1>1, <1>2, <1>3, <1>4, <1>5, <2>1, <2>2
  <2>3. CASE ~(sum > 9999)
    BY <1>1, <1>2, <1>3, <1>4, <1>5, <2>1, <2>3
  <2> QED
    BY <2>2, <2>3
<1> HIDE DEF low, high, sum
<1>8. /\ low \in Hundred /\ high \in Hundred
      /\ sum % 10000 = 100 * high + low
      /\ e + f + one > 99 <=> sum > 9999
  BY <1>5, <1>6, <1>7
<1> QED
  BY <1>8 DEF low, high, sum

\* A number between two bounds is in their range.
LEMMA WithinRange ==
  ASSUME NEW k \in Int, NEW n \in Int, 0 <= n, n <= k
  PROVE  n \in 0..k
OBVIOUS

\* The numbers of four decimal digits: their bound is a name to the provers,
\* which are slow with its digits.
LEMMA InTenThousand ==
  ASSUME NEW n \in Int, 0 <= n, n <= 9999
  PROVE  n \in TenThousand
<1>1. PICK k \in Int : k = 9999
  OBVIOUS
<1>2. n <= k
  BY <1>1
<1>3. n \in 0..k
  BY <1>2, WithinRange
<1>4. 0..k = TenThousand
  BY <1>1 DEF TenThousand
<1> QED
  BY <1>3, <1>4

\* Four digits that are added two by two.
LEMMA PackedNumber ==
  ASSUME NEW low \in Hundred, NEW high \in Hundred, NEW t, t = 100 * high + low
  PROVE  Bcd(t) = Packed(low) + 256 * Packed(high)
<1>1. /\ low \in Int /\ 0 <= low /\ low <= 99 /\ high \in Int /\ 0 <= high /\ high <= 99
      /\ t \in Int /\ 0 <= t /\ t <= 9999
  BY DEF Hundred
<1>2. t \in TenThousand
  BY <1>1, InTenThousand
<1>3. t \div 100 = high
  BY <1>1
<1>4. t % 100 = low
  BY <1>1
<1> QED
  BY <1>2, <1>3, <1>4, PackedBytes

\* The bytes of the decimal sum and their carries.
LEMMA DecimalRounds ==
  ASSUME NEW m \in TenThousand, NEW n \in TenThousand
  PROVE  \E r, c : /\ IsRound(ADCM, DAA, r, c, Bcd(m), Bcd(n))
                   /\ r[0] + 256 * r[1] = Bcd((m + n) % 10000)
                   /\ c[2] <=> m + n > 9999
<1> DEFINE two(v, k) == IF k = 0 THEN v % 100 ELSE v \div 100
           carry(k) == IF k = 0 THEN FALSE
                       ELSE IF k = 1 THEN two(m, 0) + two(n, 0) > 99 ELSE m + n > 9999
           one(k) == IF carry(k) THEN 1 ELSE 0
           byte(k) == Packed((two(m, k) + two(n, k) + one(k)) % 100)
           r == [j \in 0..1 |-> byte(j)]
           c == [j \in 0..2 |-> carry(j)]
           a == m % 100
           b == n % 100
           e == m \div 100
           f == n \div 100
<1>1. /\ a \in Hundred /\ e \in Hundred /\ m = 100 * e + a
      /\ b \in Hundred /\ f \in Hundred /\ n = 100 * f + b
  BY TwoByTwo
<1>2. /\ two(m, 0) = a /\ two(n, 0) = b /\ two(m, 1) = e /\ two(n, 1) = f
  OBVIOUS
<1>3. /\ ByteOf(Bcd(m), 0) = Packed(a) /\ ByteOf(Bcd(n), 0) = Packed(b)
      /\ ByteOf(Bcd(m), 1) = Packed(e) /\ ByteOf(Bcd(n), 1) = Packed(f)
  BY PackedBytes DEF ByteOf
<1> HIDE DEF two, a, b, e, f
<1>4. /\ one(0) = 0 /\ one(1) \in {0, 1} /\ (one(1) = 1 <=> a + b > 99)
      /\ carry(0) = FALSE /\ (carry(1) <=> a + b > 99) /\ (carry(2) <=> m + n > 9999)
  BY <1>2
<1>5. /\ a \in Int /\ 0 <= a /\ a <= 99 /\ b \in Int /\ 0 <= b /\ b <= 99
      /\ e \in Int /\ 0 <= e /\ e <= 99 /\ f \in Int /\ 0 <= f /\ f <= 99
  BY <1>1 DEF Hundred
<1>6. \A k \in 0..1 : one(k) \in {0, 1} /\ (one(k) = IF carry(k) THEN 1 ELSE 0)
  OBVIOUS
<1>7. byte(0) = Packed((a + b) % 100) /\ byte(1) = Packed((e + f + one(1)) % 100)
  <2>1. a + b + 0 = a + b
    BY <1>5
  <2> HIDE DEF one
  <2> QED
    BY <1>2, <1>4, <2>1
<1> HIDE DEF carry, one, byte
<1>8. /\ byte(0) + 256 * byte(1) = Bcd((m + n) % 10000)
      /\ e + f + one(1) > 99 <=> carry(2)
  <2> DEFINE low == (a + b) % 100
             high == (e + f + one(1)) % 100
             sum == (100 * e + a) + (100 * f + b)
  <2>1. /\ low \in Hundred /\ high \in Hundred /\ sum % 10000 = 100 * high + low
        /\ e + f + one(1) > 99 <=> sum > 9999
    BY <1>1, <1>4, CarriedNumber
  <2>2. sum = m + n
    BY <1>5, <1>1
  <2> HIDE DEF low, high, sum
  <2>3. Bcd(sum % 10000) = Packed(low) + 256 * Packed(high)
    BY <2>1, PackedNumber
  <2> QED
    BY <1>4, <1>7, <2>1, <2>2, <2>3 DEF low, high
<1>9. ASSUME NEW k \in 0..1
      PROVE  /\ two(m, k) \in Hundred /\ two(n, k) \in Hundred
             /\ two(m, k) + two(n, k) + one(k) > 99 <=> carry(k + 1)
             /\ ByteOf(Bcd(m), k) = Packed(two(m, k)) /\ ByteOf(Bcd(n), k) = Packed(two(n, k))
             /\ byte(k) = Packed((two(m, k) + two(n, k) + one(k)) % 100)
  <2>1. byte(k) = Packed((two(m, k) + two(n, k) + one(k)) % 100)
    BY DEF byte
  <2>2. CASE k = 0
    <3>1. a + b + one(0) > 99 <=> carry(1)
      BY <1>5, <1>4
    <3> QED
      BY <1>1, <1>2, <1>3, <2>1, <2>2, <3>1
  <2>3. CASE k = 1
    BY <1>1, <1>2, <1>3, <1>8, <2>1, <2>3
  <2> QED
    BY <2>2, <2>3
<1>10. ASSUME NEW k \in 0..1, NEW s, CarryFlag \in s <=> carry(k)
      PROVE  LET o == Alu(1, s, ByteOf(Bcd(m), k), ByteOf(Bcd(n), k))
                 g == Adjust(o.status, o.value)
             IN  g.value = byte(k) /\ (CarryFlag \in g.status <=> carry(k + 1))
  <2>1. one(k) = (IF CarryFlag \in s THEN 1 ELSE 0) /\ one(k) \in {0, 1}
    BY <1>6, <1>10
  <2>2. LET o == Alu(1, s, Packed(two(m, k)), Packed(two(n, k)))
            g == Adjust(o.status, o.value)
        IN  /\ g.value = byte(k)
            /\ CarryFlag \in g.status <=> two(m, k) + two(n, k) + one(k) > 99
    BY <1>9, <2>1, PackedSum
  <2> QED
    BY <1>9, <2>2
<1>11. (ADCM \div 8) % 8 = 1
  BY DEF ADCM
<1>12. /\ \A k \in 0..1 : r[k] = byte(k) /\ c[k] = carry(k) /\ c[k + 1] = carry(k + 1)
       /\ c[0] = carry(0) /\ c[2] = carry(2) /\ r[0] = byte(0) /\ r[1] = byte(1)
  OBVIOUS
<1> HIDE DEF r, c
<1>13. IsRound(ADCM, DAA, r, c, Bcd(m), Bcd(n))
  <2>1. ASSUME NEW k \in 0..1, NEW s, CarryFlag \in s <=> c[k]
        PROVE  LET o == Alu((ADCM \div 8) % 8, s, ByteOf(Bcd(m), k), ByteOf(Bcd(n), k))
                   g == IF DAA = DAA THEN Adjust(o.status, o.value) ELSE o
               IN  g.value = r[k] /\ (CarryFlag \in g.status <=> c[k + 1])
    BY <1>10, <1>11, <1>12, <2>1
  <2> QED
    BY <1>4, <1>12, <2>1 DEF IsRound
<1>14. c[2] <=> m + n > 9999
  BY <1>4, <1>12
<1> QED
  BY <1>8, <1>12, <1>13, <1>14

\* What is true in a machine that executes the addition.
Summing ==
  image.kind = "decimalSum" =>
    LET sum == Decimal(image.x) + Decimal(image.y)
    IN  \E r, c : /\ IsRound(ADCM, DAA, r, c, image.x, image.y)
                  /\ r[0] + 256 * r[1] = Bcd(sum % 10000)
                  /\ c[2] <=> sum > 9999
                  /\ Looping(ADCM, DAA, r, c)

DecimalWords == {Bcd(n) : n \in TenThousand}

\* LDAX D, ADC M, DAA, STAX D, two digits after two from the lowest, adds any two
\* numbers of four decimal digits, and the carry left over is that of the sum.
THEOREM DecimalSumOfNumbers ==
  ASSUME Cells = SomeCells,
         AreImages("decimalSum", Loop(ADCM, DAA), DecimalWords)
  PROVE  Spec => []DecimalSum
<1> ADCM \in {ADCM, SBBM} /\ DAA \in {DAA, NOP}
  OBVIOUS
<1>1. ASSUME Init PROVE Summing
  <2> SUFFICES ASSUME image.kind = "decimalSum" PROVE Summing
    BY DEF Summing
  <2>1. PICK v \in DecimalWords, w \in DecimalWords :
          image = Machine("decimalSum", Loop(ADCM, DAA), v, w, <<>>, {})
    BY <1>1 DEF Init, AreImages
  <2>2. PICK m \in TenThousand, n \in TenThousand : v = Bcd(m) /\ w = Bcd(n)
    BY DEF DecimalWords
  <2>3. /\ v \in Word /\ Decimal(v) = m /\ w \in Word /\ Decimal(w) = n
    BY <2>2, PackedBytes
  <2>4. PICK r, c : /\ IsRound(ADCM, DAA, r, c, v, w)
                    /\ r[0] + 256 * r[1] = Bcd((m + n) % 10000)
                    /\ c[2] <=> m + n > 9999
    BY <2>2, DecimalRounds
  <2>5. Looping(ADCM, DAA, r, c) /\ image.x = v /\ image.y = w
    BY <1>1, <2>1, <2>3, LoopBegins
  <2> QED
    BY <2>3, <2>4, <2>5 DEF Summing
<1>2. ASSUME Sound, Summing, [Next]_vars PROVE Summing'
  <2>1. CASE image.kind = "decimalSum"
    <3> DEFINE sum == Decimal(image.x) + Decimal(image.y)
    <3>1. PICK r, c : /\ IsRound(ADCM, DAA, r, c, image.x, image.y)
                      /\ r[0] + 256 * r[1] = Bcd(sum % 10000)
                      /\ c[2] <=> sum > 9999
                      /\ Looping(ADCM, DAA, r, c)
      BY <1>2, <2>1 DEF Summing
    <3>2. Looping(ADCM, DAA, r, c)' /\ image' = image
      BY <1>2, <3>1, LoopSteps
    <3> QED
      BY <3>1, <3>2 DEF Summing
  <2>2. CASE image.kind # "decimalSum"
    <3>1. image' = image
      BY <1>2, ImageKept
    <3> QED
      BY <2>2, <3>1 DEF Summing
  <2> QED
    BY <2>1, <2>2
<1>3. Summing => DecimalSum
  <2> DEFINE sum == Decimal(image.x) + Decimal(image.y)
  <2> SUFFICES ASSUME Summing, hlt_, image.kind = "decimalSum"
               PROVE  Word1(X) = Bcd(sum % 10000) /\ (Carried <=> sum > 9999)
    BY DEF DecimalSum, Ended
  <2>1. PICK r, c : /\ r[0] + 256 * r[1] = Bcd(sum % 10000)
                    /\ c[2] <=> sum > 9999
                    /\ Looping(ADCM, DAA, r, c)
    BY DEF Summing
  <2>2. Done(r, c)
    BY <2>1 DEF Looping
  <2> QED
    BY <2>1, <2>2, WordStored DEF Done
<1> QED
  BY <1>1, <1>2, <1>3, SpecSound, PTL DEF Spec

-----------------------------------------------------------------------------
(* The difference of two decimal numbers.                                  *)

\* The bytes of DecimalSubtraction as they are decoded.
LEMMA DecimalCode ==
  ASSUME Cells = SomeCells, Sound, Holding(DecimalSubtraction)
  PROVE  /\ pc_ = Origin => x = 0 /\ y = 2 /\ z = 1 /\ Address = X /\ Wrap(pc_ + 3) = Origin + 3
         /\ pc_ = Origin + 3 =>
              x = 0 /\ y = 4 /\ z = 1 /\ Address = Y /\ Wrap(pc_ + 3) = Origin + 6
         /\ pc_ = Origin + 6 => x = 0 /\ y = 1 /\ z = 6 /\ Data = 2 /\ Wrap(pc_ + 2) = Origin + 8
         /\ pc_ = Origin + 8 => x = 0 /\ y = 6 /\ z = 7 /\ Wrap(pc_ + 1) = Origin + 9
         /\ pc_ = Origin + 9 =>
              x = 0 /\ y = 7 /\ z = 6 /\ Data = 153 /\ Wrap(pc_ + 2) = Origin + 11
         /\ pc_ = Origin + 11 => x = 3 /\ y = 1 /\ z = 6 /\ Data = 0 /\ Wrap(pc_ + 2) = Origin + 13
         /\ pc_ = Origin + 13 => x = 2 /\ y = 2 /\ z = 6 /\ Wrap(pc_ + 1) = Origin + 14
         /\ pc_ = Origin + 14 => x = 3 /\ y = 5 /\ z = 3 /\ Wrap(pc_ + 1) = Origin + 15
         /\ pc_ = Origin + 15 => x = 2 /\ y = 0 /\ z = 6 /\ Wrap(pc_ + 1) = Origin + 16
         /\ pc_ = Origin + 16 => x = 0 /\ y = 4 /\ z = 7 /\ Wrap(pc_ + 1) = Origin + 17
         /\ pc_ = Origin + 17 => x = 1 /\ y = 6 /\ z = 7 /\ Wrap(pc_ + 1) = Origin + 18
         /\ pc_ = Origin + 18 => x = 3 /\ y = 5 /\ z = 3 /\ Wrap(pc_ + 1) = Origin + 19
         /\ pc_ = Origin + 19 => x = 0 /\ y = 2 /\ z = 3 /\ Wrap(pc_ + 1) = Origin + 20
         /\ pc_ = Origin + 20 => x = 0 /\ y = 4 /\ z = 3 /\ Wrap(pc_ + 1) = Origin + 21
         /\ pc_ = Origin + 21 => x = 0 /\ y = 1 /\ z = 5 /\ Wrap(pc_ + 1) = Origin + 22
         /\ pc_ = Origin + 22 =>
              /\ x = 3 /\ y = 0 /\ z = 2
              /\ Address = Origin + 9 /\ Wrap(pc_ + 3) = Origin + 25
         /\ pc_ = Origin + 25 => x = 1 /\ y = 6 /\ z = 6
<1> DEFINE m(i) == memory[Origin + i]
<1>1. /\ m(0) = 17 /\ m(1) = 255 /\ m(2) = 1 /\ m(3) = 33 /\ m(4) = 255 /\ m(5) = 2
      /\ m(6) = 14 /\ m(7) = 2 /\ m(8) = 55 /\ m(9) = 62 /\ m(10) = 153 /\ m(11) = 206
      /\ m(12) = 0 /\ m(13) = 150 /\ m(14) = 235 /\ m(15) = 134 /\ m(16) = 39 /\ m(17) = 119
      /\ m(18) = 235 /\ m(19) = 19 /\ m(20) = 35 /\ m(21) = 13 /\ m(22) = 194
      /\ m(23) = 3 /\ m(24) = 1 /\ m(25) = 118
  <2>1. DOMAIN DecimalSubtraction = 1..26
    BY DEF DecimalSubtraction
  <2>2. \A i \in 1..26 : memory[Origin + i - 1] = DecimalSubtraction[i]
    BY <2>1 DEF Holding
  <2> QED
    BY <2>2 DEF DecimalSubtraction, Origin, X, Y, Lo, Hi, HLT, DAA
<1>2. ASSUME NEW i \in 0..25, pc_ = Origin + i
      PROVE  /\ x = m(i) \div 64 /\ y = (m(i) \div 8) % 8 /\ z = m(i) % 8
             /\ Data = m(i + 1) /\ Address = m(i + 2) * 256 + m(i + 1)
             /\ Wrap(pc_ + 1) = Origin + (i + 1) /\ Wrap(pc_ + 2) = Origin + (i + 2)
             /\ Wrap(pc_ + 3) = Origin + (i + 3)
  BY <1>2, Fetching DEF x, y, z, Origin
<1> HIDE DEF m
<1>3. \A i \in 0..25 : pc_ = 250 + i =>
        /\ x = m(i) \div 64 /\ y = (m(i) \div 8) % 8 /\ z = m(i) % 8
        /\ Data = m(i + 1) /\ Address = m(i + 2) * 256 + m(i + 1)
        /\ Wrap(pc_ + 1) = 250 + (i + 1) /\ Wrap(pc_ + 2) = 250 + (i + 2)
        /\ Wrap(pc_ + 3) = 250 + (i + 3)
  BY <1>2 DEF Origin
<1> QED
  BY <1>1, <1>3 DEF Origin, X, Y

\* The pointers and the counter of DecimalSubtraction at its instruction i.
DecimalAt(i, d, h, n) ==
  pc_ = Origin + i /\ DE = d /\ HL = h /\ reg["c"] = n

\* The results of a round that begins with the status s: v less w.
Nines(s) == Alu(1, s, 153, 0)
Complement(s, w) == Alu(2, Nines(s).status, Nines(s).value, w)
Completed(s, v, w) == Alu(0, Complement(s, w).status, Complement(s, w).value, v)
Left(s, v, w) == Adjust(Completed(s, v, w).status, Completed(s, v, w).value)

\* The byte of the round and its status, as they are in the cpu.
Shows(o) == reg["a"] = o.value /\ status_ = o.status

\* The places of DecimalSubtraction, which puts the bytes r for x, with the carries c.
DecimalStarting(r) ==
  /\ Operands(0, r)
  /\ \/ pc_ = Origin
     \/ pc_ = Origin + 3 /\ DE = X
     \/ pc_ = Origin + 6 /\ DE = X /\ HL = Y
     \/ DecimalAt(8, X, Y, 2)

DecimalComputing(k, r, c) ==
  LET v == ByteOf(image.x, k)
      w == ByteOf(image.y, k)
  IN  /\ Operands(k, r)
      /\ \/ DecimalAt(9, X + k, Y + k, 2 - k) /\ (Carried <=> c[k])
         \/ DecimalAt(11, X + k, Y + k, 2 - k) /\ (Carried <=> c[k]) /\ reg["a"] = 153
         \/ \E s : /\ CarryFlag \in s <=> c[k]
                   /\ \/ DecimalAt(13, X + k, Y + k, 2 - k) /\ Shows(Nines(s))
                      \/ DecimalAt(14, X + k, Y + k, 2 - k) /\ Shows(Complement(s, w))
                      \/ DecimalAt(15, Y + k, X + k, 2 - k) /\ Shows(Complement(s, w))
                      \/ DecimalAt(16, Y + k, X + k, 2 - k) /\ Shows(Completed(s, v, w))
         \/ DecimalAt(17, Y + k, X + k, 2 - k) /\ (Carried <=> c[k + 1]) /\ reg["a"] = r[k]

DecimalStored(k, r, c) ==
  /\ Operands(k + 1, r) /\ (Carried <=> c[k + 1])
  /\ \/ DecimalAt(18, Y + k, X + k, 2 - k)
     \/ DecimalAt(19, X + k, Y + k, 2 - k)
     \/ DecimalAt(20, X + k + 1, Y + k, 2 - k)
     \/ DecimalAt(21, X + k + 1, Y + k + 1, 2 - k)
     \/ DecimalAt(22, X + k + 1, Y + k + 1, 1 - k) /\ (ZeroFlag \in status_ <=> k = 1)

DecimalLooping(r, c) ==
  /\ ~iff_ /\ Holding(DecimalSubtraction)
  /\ \/ ~hlt_ /\ DecimalStarting(r)
     \/ ~hlt_ /\ \E k \in 0..1 : DecimalComputing(k, r, c) \/ DecimalStored(k, r, c)
     \/ Done(r, c) /\ (~hlt_ => pc_ = Origin + 25)

\* The bytes and carries that a round makes of the operands; a carry is no borrow.
IsDecimalRound(r, c, v, w) ==
  /\ c[0]
  /\ \A k \in 0..1 : \A s :
       (CarryFlag \in s <=> c[k]) =>
         LET o == Left(s, ByteOf(v, k), ByteOf(w, k))
         IN  o.value = r[k] /\ (CarryFlag \in o.status <=> c[k + 1])

\* The instructions before the loop.
LEMMA DecimalStarts ==
  ASSUME Cells = SomeCells, Sound, Holding(DecimalSubtraction),
         NEW r, NEW c, c[0], DecimalStarting(r), Instruction
  PROVE  /\ DecimalStarting(r)' \/ DecimalComputing(0, r, c)'
         /\ Holding(DecimalSubtraction)' /\ UNCHANGED <<iff_, hlt_, image>>
<1>1. X \in Word /\ Y \in Word /\ X + 0 = X /\ Y + 0 = Y
  BY DEF X, Y, Word, MaxWord
<1>2. CASE pc_ = Origin
  <2>1. x = 0 /\ y = 2 * 1 /\ z = 1 /\ Address = X /\ Wrap(pc_ + 3) = Origin + 3
    BY <1>2, DecimalCode
  <2>2. Goes(SetPair(1, X), status_, memory, Origin + 3)
    BY <2>1, LxiGoes
  <2>3. DE' = X
    BY <1>1, <2>2, PairAssigned DEF Goes, DE
  <2> QED
    BY <2>2, <2>3, MemoryKept DEF Goes, DecimalStarting
<1>3. CASE pc_ = Origin + 3 /\ DE = X
  <2>1. x = 0 /\ y = 2 * 2 /\ z = 1 /\ Address = Y /\ Wrap(pc_ + 3) = Origin + 6
    BY <1>3, DecimalCode
  <2>2. Goes(SetPair(2, Y), status_, memory, Origin + 6)
    BY <2>1, LxiGoes
  <2>3. HL' = Y /\ DE' = X
    BY <1>1, <1>3, <2>2, PairAssigned DEF Goes, HL, DE
  <2> QED
    BY <2>2, <2>3, MemoryKept DEF Goes, DecimalStarting
<1>4. CASE pc_ = Origin + 6 /\ DE = X /\ HL = Y
  <2>1. x = 0 /\ y = 1 /\ z = 6 /\ Data = 2 /\ Wrap(pc_ + 2) = Origin + 8
    BY <1>4, DecimalCode
  <2>2. Goes(Assigned("c", 2), status_, memory, Origin + 8)
    BY <2>1, MviGoes, Numbered DEF M
  <2>3. reg'["c"] = 2 /\ DE' = X /\ HL' = Y
    BY <1>4, <2>2, RegisterAssigned DEF Goes
  <2> QED
    BY <2>2, <2>3, MemoryKept DEF Goes, DecimalStarting, DecimalAt
<1>5. CASE DecimalAt(8, X, Y, 2)
  <2>1. x = 0 /\ y = 6 /\ z = 7 /\ Wrap(pc_ + 1) = Origin + 9
    BY <1>5, DecimalCode DEF DecimalAt
  <2>2. Goes(reg, With(status_, CarryFlag, TRUE), memory, Origin + 9)
    BY <2>1, StcGoes
  <2>3. DE' = DE /\ HL' = HL
    BY <2>2, RegistersKept DEF Goes
  <2>4. Operands(0, r)' /\ Holding(DecimalSubtraction)'
    BY <2>2, MemoryKept DEF Goes, DecimalStarting
  <2>5. DecimalAt(9, X + 0, Y + 0, 2 - 0)' /\ Carried'
    BY <1>1, <1>5, <2>2, <2>3 DEF Goes, DecimalAt, Carried, With
  <2> QED
    BY <2>2, <2>4, <2>5 DEF Goes, DecimalComputing
<1> QED
  BY <1>2, <1>3, <1>4, <1>5 DEF DecimalStarting

\* MVI A,99H, ACI 0, SUB M, ADD M with the pointers exchanged, and DAA.
LEMMA DecimalComputes ==
  ASSUME Cells = SomeCells, Sound, Holding(DecimalSubtraction), Instruction,
         NEW r, NEW c, NEW k \in 0..1, IsDecimalRound(r, c, image.x, image.y),
         DecimalComputing(k, r, c)
  PROVE  /\ DecimalComputing(k, r, c)' \/ DecimalStored(k, r, c)'
         /\ Holding(DecimalSubtraction)' /\ UNCHANGED <<iff_, hlt_, image>>
<1> DEFINE v == ByteOf(image.x, k)
           w == ByteOf(image.y, k)
           here(i) == DecimalAt(i, X + k, Y + k, 2 - k)
           there(i) == DecimalAt(i, Y + k, X + k, 2 - k)
<1>1. /\ Operands(k, r)
      /\ \/ here(9) /\ (Carried <=> c[k])
         \/ here(11) /\ (Carried <=> c[k]) /\ reg["a"] = 153
         \/ \E s : /\ CarryFlag \in s <=> c[k]
                   /\ \/ here(13) /\ Shows(Nines(s))
                      \/ here(14) /\ Shows(Complement(s, w))
                      \/ there(15) /\ Shows(Complement(s, w))
                      \/ there(16) /\ Shows(Completed(s, v, w))
         \/ there(17) /\ (Carried <=> c[k + 1]) /\ reg["a"] = r[k]
  BY DEF DecimalComputing
<1>2. ASSUME image' = image, memory' = memory,
             \/ here(11)' /\ (Carried' <=> c[k]) /\ reg'["a"] = 153
             \/ \E s : /\ CarryFlag \in s <=> c[k]
                       /\ \/ here(13)' /\ reg'["a"] = Nines(s).value /\ status_' = Nines(s).status
                          \/ /\ here(14)' \/ there(15)'
                             /\ reg'["a"] = Complement(s, w).value
                             /\ status_' = Complement(s, w).status
                          \/ /\ there(16)' /\ reg'["a"] = Completed(s, v, w).value
                             /\ status_' = Completed(s, v, w).status
             \/ there(17)' /\ (Carried' <=> c[k + 1]) /\ reg'["a"] = r[k]
      PROVE  DecimalComputing(k, r, c)' /\ Holding(DecimalSubtraction)'
  <2>1. Operands(k, r)' /\ Holding(DecimalSubtraction)'
    BY <1>1, <1>2, MemoryKept
  <2>2. v' = v /\ w' = w
    BY <1>2
  <2> HIDE DEF here, there, v, w
  <2>3. CASE here(11)' /\ (Carried' <=> c[k]) /\ reg'["a"] = 153
    BY <2>1, <2>3 DEF DecimalComputing, here
  <2>4. CASE there(17)' /\ (Carried' <=> c[k + 1]) /\ reg'["a"] = r[k]
    BY <2>1, <2>4 DEF DecimalComputing, there
  <2>5. ASSUME NEW s, CarryFlag \in s <=> c[k],
               \/ here(13)' /\ reg'["a"] = Nines(s).value /\ status_' = Nines(s).status
               \/ /\ here(14)' \/ there(15)'
                  /\ reg'["a"] = Complement(s, w).value
                  /\ status_' = Complement(s, w).status
               \/ /\ there(16)' /\ reg'["a"] = Completed(s, v, w).value
                  /\ status_' = Completed(s, v, w).status
        PROVE  DecimalComputing(k, r, c)'
    <3>1. \/ here(13)' /\ Shows(Nines(s))'
          \/ here(14)' /\ Shows(Complement(s, w))'
          \/ there(15)' /\ Shows(Complement(s, w))'
          \/ there(16)' /\ Shows(Completed(s, v, w))'
      BY <2>2, <2>5 DEF Shows
    <3> QED
      BY <2>1, <2>5, <3>1 DEF DecimalComputing, here, there, v, w
  <2> QED
    BY <1>2, <2>1, <2>3, <2>4, <2>5
<1>3. /\ X + k \in Cells /\ Y + k \in Cells
      /\ memory[X + k] = v /\ memory[Y + k] = w
  BY <1>1 DEF SomeCells, X, Y, Operands
<1> HIDE DEF v, w
<1>4. CASE here(9) /\ (Carried <=> c[k])
  <2>1. x = 0 /\ y = 7 /\ z = 6 /\ Data = 153 /\ Wrap(pc_ + 2) = Origin + 11
    BY <1>4, DecimalCode DEF DecimalAt
  <2>2. Goes(Assigned("a", 153), status_, memory, Origin + 11)
    BY <2>1, MviGoes, Numbered DEF M
  <2>3. here(11)' /\ Carried' = Carried /\ reg'["a"] = 153
    BY <1>4, <2>2, RegisterAssigned DEF Goes, DecimalAt, Carried
  <2> QED
    BY <1>2, <1>4, <2>2, <2>3 DEF Goes
<1>5. CASE here(11) /\ (Carried <=> c[k]) /\ reg["a"] = 153
  <2>1. x = 3 /\ y = 1 /\ z = 6 /\ Data = 0 /\ Wrap(pc_ + 2) = Origin + 13
    BY <1>5, DecimalCode DEF DecimalAt
  <2>2. Goes(Assigned("a", Nines(status_).value), Nines(status_).status, memory, Origin + 13)
    BY <1>5, <2>1, AluDataGoes DEF Nines
  <2>3. here(13)' /\ reg'["a"] = Nines(status_).value /\ status_' = Nines(status_).status
    BY <1>5, <2>2, RegisterAssigned DEF Goes, DecimalAt
  <2>4. CarryFlag \in status_ <=> c[k]
    BY <1>5 DEF Carried
  <2> HIDE DEF here, there
  <2>5. DecimalComputing(k, r, c)' /\ Holding(DecimalSubtraction)'
    BY <1>2, <2>2, <2>3, <2>4 DEF Goes
  <2> QED
    BY <2>2, <2>5 DEF Goes
<1>6. ASSUME NEW s, CarryFlag \in s <=> c[k], here(13), Shows(Nines(s))
      PROVE  /\ DecimalComputing(k, r, c)' \/ DecimalStored(k, r, c)'
             /\ Holding(DecimalSubtraction)' /\ UNCHANGED <<iff_, hlt_, image>>
  <2>1. x = 2 /\ y = 2 /\ z = 6 /\ Wrap(pc_ + 1) = Origin + 14
    BY <1>6, DecimalCode DEF DecimalAt
  <2>2. Operand(6) = w
    BY <1>3, <1>6 DEF Operand, Peek, M, DecimalAt
  <2>3. Goes(Assigned("a", Complement(s, w).value), Complement(s, w).status, memory, Origin + 14)
    BY <1>6, <2>1, <2>2, AluGoes DEF Complement, Shows
  <2>4. here(14)' /\ reg'["a"] = Complement(s, w).value /\ status_' = Complement(s, w).status
    BY <1>6, <2>3, RegisterAssigned DEF Goes, DecimalAt
  <2> HIDE DEF here, there
  <2>5. DecimalComputing(k, r, c)' /\ Holding(DecimalSubtraction)'
    BY <1>2, <1>6, <2>3, <2>4 DEF Goes
  <2> QED
    BY <2>3, <2>5 DEF Goes
<1>7. ASSUME NEW s, CarryFlag \in s <=> c[k], here(14), Shows(Complement(s, w))
      PROVE  /\ DecimalComputing(k, r, c)' \/ DecimalStored(k, r, c)'
             /\ Holding(DecimalSubtraction)' /\ UNCHANGED <<iff_, hlt_, image>>
  <2>1. x = 3 /\ y = 5 /\ z = 3 /\ Wrap(pc_ + 1) = Origin + 15
    BY <1>7, DecimalCode DEF DecimalAt
  <2>2. /\ DE' = HL /\ HL' = DE /\ reg'["a"] = reg["a"] /\ reg'["c"] = reg["c"]
        /\ status_' = status_ /\ memory' = memory /\ pc_' = Origin + 15
        /\ UNCHANGED <<iff_, hlt_, image>>
    BY <2>1, XchgGoes
  <2>3. there(15)' /\ reg'["a"] = Complement(s, w).value /\ status_' = Complement(s, w).status
    BY <1>7, <2>2 DEF DecimalAt, Shows
  <2> HIDE DEF here, there
  <2>4. DecimalComputing(k, r, c)' /\ Holding(DecimalSubtraction)'
    BY <1>2, <1>7, <2>2, <2>3
  <2> QED
    BY <2>2, <2>4
<1>8. ASSUME NEW s, CarryFlag \in s <=> c[k], there(15), Shows(Complement(s, w))
      PROVE  /\ DecimalComputing(k, r, c)' \/ DecimalStored(k, r, c)'
             /\ Holding(DecimalSubtraction)' /\ UNCHANGED <<iff_, hlt_, image>>
  <2>1. x = 2 /\ y = 0 /\ z = 6 /\ Wrap(pc_ + 1) = Origin + 16
    BY <1>8, DecimalCode DEF DecimalAt
  <2>2. Operand(6) = v
    BY <1>3, <1>8 DEF Operand, Peek, M, DecimalAt
  <2>3. Goes(Assigned("a", Completed(s, v, w).value), Completed(s, v, w).status, memory,
             Origin + 16)
    BY <1>8, <2>1, <2>2, AluGoes DEF Completed, Shows
  <2>4. /\ there(16)' /\ reg'["a"] = Completed(s, v, w).value
        /\ status_' = Completed(s, v, w).status
    BY <1>8, <2>3, RegisterAssigned DEF Goes, DecimalAt
  <2> HIDE DEF here, there
  <2>5. DecimalComputing(k, r, c)' /\ Holding(DecimalSubtraction)'
    BY <1>2, <1>8, <2>3, <2>4 DEF Goes
  <2> QED
    BY <2>3, <2>5 DEF Goes
<1>9. ASSUME NEW s, CarryFlag \in s <=> c[k], there(16), Shows(Completed(s, v, w))
      PROVE  /\ DecimalComputing(k, r, c)' \/ DecimalStored(k, r, c)'
             /\ Holding(DecimalSubtraction)' /\ UNCHANGED <<iff_, hlt_, image>>
  <2>1. x = 0 /\ y = 4 /\ z = 7 /\ Wrap(pc_ + 1) = Origin + 17
    BY <1>9, DecimalCode DEF DecimalAt
  <2>2. Goes(Assigned("a", Left(s, v, w).value), Left(s, v, w).status, memory, Origin + 17)
    BY <1>9, <2>1, DaaGoes DEF Left, Shows
  <2>3. Left(s, v, w).value = r[k] /\ (CarryFlag \in Left(s, v, w).status <=> c[k + 1])
    BY <1>9 DEF IsDecimalRound, v, w
  <2>4. there(17)' /\ reg'["a"] = r[k] /\ (Carried' <=> c[k + 1])
    BY <1>9, <2>2, <2>3, RegisterAssigned DEF Goes, DecimalAt, Carried
  <2> HIDE DEF here, there
  <2>5. DecimalComputing(k, r, c)' /\ Holding(DecimalSubtraction)'
    BY <1>2, <2>2, <2>4 DEF Goes
  <2> QED
    BY <2>2, <2>5 DEF Goes
<1>10. CASE there(17) /\ (Carried <=> c[k + 1]) /\ reg["a"] = r[k]
  <2>1. x = 1 /\ y = 6 /\ z = 7 /\ Wrap(pc_ + 1) = Origin + 18
    BY <1>10, DecimalCode DEF DecimalAt
  <2>2. Goes(reg, status_, Poke(X + k, r[k]), Origin + 18)
    BY <1>10, <2>1, MovMGoes DEF DecimalAt
  <2>3. Holding(DecimalSubtraction)' /\ Operands(k + 1, r)'
    <3>1. DOMAIN DecimalSubtraction \subseteq 1..26
      BY DEF DecimalSubtraction
    <3> QED
      BY <1>1, <2>2, <3>1, ByteStored DEF Goes
  <2>4. there(18)' /\ Carried' = Carried
    BY <1>10, <2>2, RegistersKept DEF Goes, DecimalAt, Carried
  <2> QED
    BY <1>10, <2>2, <2>3, <2>4 DEF Goes, DecimalStored
<1> HIDE DEF here, there
<1> QED
  BY <1>1, <1>4, <1>5, <1>6, <1>7, <1>8, <1>9, <1>10

\* XCHG, the steps of the pointers and the counter, and the jump.
LEMMA DecimalStores ==
  ASSUME Cells = SomeCells, Sound, Holding(DecimalSubtraction), Instruction,
         NEW r, NEW c, NEW k \in 0..1, DecimalStored(k, r, c)
  PROVE  /\ \/ DecimalStored(k, r, c)'
            \/ k = 0 /\ DecimalComputing(1, r, c)'
            \/ k = 1 /\ Done(r, c)' /\ pc_' = Origin + 25
         /\ Holding(DecimalSubtraction)' /\ UNCHANGED <<iff_, hlt_, image>>
<1>1. /\ Operands(k + 1, r) /\ (Carried <=> c[k + 1])
      /\ \/ DecimalAt(18, Y + k, X + k, 2 - k)
         \/ DecimalAt(19, X + k, Y + k, 2 - k)
         \/ DecimalAt(20, X + k + 1, Y + k, 2 - k)
         \/ DecimalAt(21, X + k + 1, Y + k + 1, 2 - k)
         \/ DecimalAt(22, X + k + 1, Y + k + 1, 1 - k) /\ (ZeroFlag \in status_ <=> k = 1)
  BY DEF DecimalStored
<1>2. memory' = memory /\ image' = image => Operands(k + 1, r)' /\ Holding(DecimalSubtraction)'
  BY <1>1, MemoryKept
<1>3. CASE DecimalAt(18, Y + k, X + k, 2 - k)
  <2>1. x = 3 /\ y = 5 /\ z = 3 /\ Wrap(pc_ + 1) = Origin + 19
    BY <1>3, DecimalCode DEF DecimalAt
  <2>2. /\ DE' = HL /\ HL' = DE /\ reg'["c"] = reg["c"]
        /\ status_' = status_ /\ memory' = memory /\ pc_' = Origin + 19
        /\ UNCHANGED <<iff_, hlt_, image>>
    BY <2>1, XchgGoes
  <2> QED
    BY <1>1, <1>2, <1>3, <2>2 DEF DecimalAt, DecimalStored, Carried
<1>4. CASE DecimalAt(19, X + k, Y + k, 2 - k)
  <2>1. x = 0 /\ y = 2 * 1 /\ z = 3 /\ Wrap(pc_ + 1) = Origin + 20
    BY <1>4, DecimalCode DEF DecimalAt
  <2>2. Wrap(DE + 1) = X + k + 1 /\ X + k + 1 \in Word
    BY <1>4, WordRange DEF DecimalAt, Wrap, X
  <2>3. Goes(SetPair(1, X + k + 1), status_, memory, Origin + 20)
    BY <2>1, <2>2, InxGoes DEF DE
  <2>4. DE' = X + k + 1 /\ HL' = HL /\ reg'["c"] = reg["c"]
    BY <2>2, <2>3, PairAssigned DEF Goes, DE, HL
  <2> QED
    BY <1>1, <1>2, <1>4, <2>3, <2>4 DEF Goes, DecimalAt, DecimalStored, Carried
<1>5. CASE DecimalAt(20, X + k + 1, Y + k, 2 - k)
  <2>1. x = 0 /\ y = 2 * 2 /\ z = 3 /\ Wrap(pc_ + 1) = Origin + 21
    BY <1>5, DecimalCode DEF DecimalAt
  <2>2. Wrap(HL + 1) = Y + k + 1 /\ Y + k + 1 \in Word
    BY <1>5, WordRange DEF DecimalAt, Wrap, Y
  <2>3. Goes(SetPair(2, Y + k + 1), status_, memory, Origin + 21)
    BY <2>1, <2>2, InxGoes DEF HL
  <2>4. HL' = Y + k + 1 /\ DE' = DE /\ reg'["c"] = reg["c"]
    BY <2>2, <2>3, PairAssigned DEF Goes, DE, HL
  <2> QED
    BY <1>1, <1>2, <1>5, <2>3, <2>4 DEF Goes, DecimalAt, DecimalStored, Carried
<1>6. CASE DecimalAt(21, X + k + 1, Y + k + 1, 2 - k)
  <2> DEFINE d == Decremented(status_, reg["c"])
  <2>1. x = 0 /\ y = 1 /\ z = 5 /\ Wrap(pc_ + 1) = Origin + 22
    BY <1>6, DecimalCode DEF DecimalAt
  <2>2. Goes(Assigned("c", d.value), d.status, memory, Origin + 22)
    BY <2>1, DcrGoes, Numbered DEF M
  <2>3. reg["c"] = 2 - k /\ 2 - k \in Byte
    BY <1>6, ByteRange DEF DecimalAt
  <2>4. /\ d.value = 1 - k
        /\ CarryFlag \in d.status <=> CarryFlag \in status_
        /\ ZeroFlag \in d.status <=> k = 1
    <3>1. d.value = (2 - k + 255) % 256 /\ (ZeroFlag \in d.status <=> d.value = 0)
      BY <2>3, DecrementFlags
    <3>2. CarryFlag \in d.status <=> CarryFlag \in status_
      BY <2>3, DecrementFlags
    <3> HIDE DEF d
    <3> QED
      BY <3>1, <3>2
  <2> HIDE DEF d
  <2>5. reg'["c"] = 1 - k /\ DE' = DE /\ HL' = HL
    BY <2>2, <2>4, RegisterAssigned DEF Goes
  <2> QED
    BY <1>1, <1>2, <1>6, <2>2, <2>4, <2>5 DEF Goes, DecimalAt, DecimalStored, Carried
<1>7. CASE DecimalAt(22, X + k + 1, Y + k + 1, 1 - k) /\ (ZeroFlag \in status_ <=> k = 1)
  <2>1. /\ x = 3 /\ y = 0 /\ z = 2
        /\ Address = Origin + 9 /\ Wrap(pc_ + 3) = Origin + 25
    BY <1>7, DecimalCode DEF DecimalAt
  <2>2. Holds <=> k = 0
    <3>1. Pair = 0 /\ y \notin Odd
      BY <2>1 DEF Pair, Odd
    <3>2. Holds <=> ZeroFlag \notin status_
      BY <3>1 DEF Holds
    <3> QED
      BY <1>7, <3>2
  <2>3. Goes(reg, status_, memory, IF k = 0 THEN Origin + 9 ELSE Origin + 25)
    BY <2>1, <2>2, JumpGoes
  <2>4. DE' = DE /\ HL' = HL
    BY <2>3, RegistersKept DEF Goes
  <2>5. CASE k = 0
    <3>1. DecimalAt(9, X + 1, Y + 1, 2 - 1)' /\ Operands(1, r)' /\ (Carried' <=> c[1])
      <4>1. X + k + 1 = X + 1 /\ Y + k + 1 = Y + 1 /\ k + 1 = 1
        BY <2>5 DEF X, Y
      <4> QED
        BY <1>1, <1>2, <1>7, <2>3, <2>4, <2>5, <4>1 DEF Goes, DecimalAt, Carried
    <3> QED
      BY <1>2, <2>3, <2>5, <3>1 DEF Goes, DecimalComputing
  <2>6. CASE k = 1
    <3>1. k + 1 = 2
      BY <2>6
    <3> QED
      BY <1>1, <1>2, <2>3, <2>6, <3>1 DEF Goes, Done, Carried
  <2> QED
    BY <2>5, <2>6
<1> QED
  BY <1>1, <1>3, <1>4, <1>5, <1>6, <1>7

\* From instruction to instruction, until it halts.
LEMMA DecimalSteps ==
  ASSUME Cells = SomeCells, Sound, [Next]_vars, NEW r, NEW c,
         IsDecimalRound(r, c, image.x, image.y), DecimalLooping(r, c)
  PROVE  DecimalLooping(r, c)' /\ image' = image
<1>1. Holding(DecimalSubtraction) /\ ~iff_ /\ c[0]
  BY DEF DecimalLooping, IsDecimalRound
<1>2. CASE Rests
  <2>1. /\ Holding(DecimalSubtraction)' = Holding(DecimalSubtraction)
        /\ Done(r, c)' = Done(r, c) /\ DecimalStarting(r)' = DecimalStarting(r)
    BY <1>2 DEF Rests, Holding, Operands, Done, Carried, DecimalStarting, DecimalAt,
                DE, HL, PairValue
  <2>2. ASSUME NEW k
        PROVE  /\ DecimalComputing(k, r, c)' = DecimalComputing(k, r, c)
               /\ DecimalStored(k, r, c)' = DecimalStored(k, r, c)
    BY <1>2 DEF Rests, DecimalComputing, DecimalStored, DecimalAt, Shows, Operands, Carried,
                DE, HL, PairValue
  <2>3. pc_' = pc_ /\ hlt_' = hlt_ /\ iff_' = iff_ /\ image' = image
    BY <1>2 DEF Rests
  <2> QED
    BY <2>1, <2>2, <2>3 DEF DecimalLooping
<1>3. CASE ~hlt_ /\ Instruction
  <2>1. CASE DecimalStarting(r)
    BY <1>1, <1>3, <2>1, DecimalStarts DEF DecimalLooping
  <2>2. ASSUME NEW k \in 0..1, DecimalComputing(k, r, c)
        PROVE  DecimalLooping(r, c)' /\ image' = image
    BY <1>1, <1>3, <2>2, DecimalComputes DEF DecimalLooping
  <2>3. ASSUME NEW k \in 0..1, DecimalStored(k, r, c)
        PROVE  DecimalLooping(r, c)' /\ image' = image
    BY <1>1, <1>3, <2>3, DecimalStores DEF DecimalLooping
  <2>4. CASE Done(r, c) /\ pc_ = Origin + 25
    <3>1. x = 1 /\ y = 6 /\ z = 6
      BY <1>1, <2>4, DecimalCode
    <3>2. hlt_' /\ UNCHANGED <<reg, status_, memory, iff_, image>>
      BY <1>3, <3>1, HltGoes
    <3>3. Done(r, c)'
      BY <2>4, <3>2 DEF Done, Operands, Carried
    <3> QED
      BY <1>1, <3>2, <3>3, MemoryKept DEF DecimalLooping
  <2> QED
    BY <1>3, <2>1, <2>2, <2>3, <2>4 DEF DecimalLooping
<1> QED
  BY <1>1, <1>2, <1>3, QuietSteps

\* The machine that is about to subtract.
LEMMA DecimalBegins ==
  ASSUME Cells = SomeCells, Init, NEW m, NEW n, NEW kind,
         image = Machine(kind, DecimalSubtraction, m, n, <<>>, {}), NEW r, NEW c
  PROVE  DecimalLooping(r, c) /\ image.x = m /\ image.y = n
<1>1. /\ Holding(DecimalSubtraction) /\ image.x = m /\ image.y = n
      /\ memory[X] = Lo(m) /\ memory[X + 1] = Hi(m)
      /\ memory[Y] = Lo(n) /\ memory[Y + 1] = Hi(n)
      /\ pc_ = Origin /\ ~iff_ /\ ~hlt_
  <2>1. 26 \in 0..26 /\ DOMAIN DecimalSubtraction = 1..26
    BY DEF DecimalSubtraction
  <2> QED
    BY <2>1, MachineBegins
<1>2. Operands(0, r)
  BY <1>1, OperandsBegin
<1> QED
  BY <1>1, <1>2 DEF DecimalLooping, DecimalStarting

\* The difference of two bytes of decimal digits, one less unless the status carries.
LEMMA PackedDifference ==
  ASSUME NEW m \in Hundred, NEW n \in Hundred, NEW carry \in {0, 1}, NEW s,
         carry = IF CarryFlag \in s THEN 1 ELSE 0
  PROVE  LET o == Left(s, Packed(m), Packed(n))
         IN  /\ o.value = Packed((m - n - (1 - carry)) % 100)
             /\ CarryFlag \in o.status <=> m - n - (1 - carry) >= 0
<1> DEFINE h1 == m \div 10
           l1 == m % 10
           h2 == n \div 10
           l2 == n % 10
           o == Left(s, Digits(h1, l1), Digits(h2, l2))
           d == (10 * h1 + l1) - (10 * h2 + l2) - (1 - carry)
<1>1. /\ h1 \in 0..9 /\ l1 \in 0..9 /\ h2 \in 0..9 /\ l2 \in 0..9
      /\ d = m - n - (1 - carry) /\ d \in Int /\ -100 <= d /\ d < 100
  BY DEF Hundred
<1>2. Left(s, Packed(m), Packed(n)) = o
  BY DEF Packed
<1> HIDE DEF h1, l1, h2, l2
<1>3. /\ o.value = Digits((d % 100) \div 10, d % 10)
      /\ CarryFlag \in o.status <=> d >= 0
  <2> DEFINE nines == Add(s, 153, 0, carry, TRUE)
             complement == Sub(nines.status, nines.value, Digits(h2, l2), 0)
             sum == Add(complement.status, complement.value, Digits(h1, l1), 0, TRUE)
             adjusted == Adjust(sum.status, sum.value)
  <2>1. Nines(s) = nines
    BY DEF Nines, Alu
  <2>2. Complement(s, Digits(h2, l2)) = complement
    <3> HIDE DEF nines
    <3> QED
      BY <2>1 DEF Complement, Alu
  <2>3. Completed(s, Digits(h1, l1), Digits(h2, l2)) = sum
    <3> HIDE DEF complement
    <3> QED
      BY <2>2 DEF Completed, Alu
  <2>4. o = adjusted
    <3> HIDE DEF sum
    <3> QED
      BY <2>3 DEF Left
  <2>5. /\ adjusted.value = Digits((d % 100) \div 10, d % 10)
        /\ CarryFlag \in adjusted.status <=> d >= 0
    <3>1. PICK t : t = complement.status
      OBVIOUS
    <3> DEFINE other == Add(t, complement.value, Digits(h1, l1), 0, TRUE)
    <3>2. /\ Adjust(other.status, other.value).value = Digits((d % 100) \div 10, d % 10)
          /\ CarryFlag \in Adjust(other.status, other.value).status <=> d >= 0
      <4>1. SubtractsDecimally(s, t, h1, l1, h2, l2, carry)
        BY <1>1, ComplementSubtracts
      <4> QED
        BY <4>1 DEF SubtractsDecimally
    <3>3. other = sum
      BY <3>1
    <3> HIDE DEF other, sum, d
    <3> QED
      BY <3>2, <3>3
  <2> HIDE DEF adjusted, o, d
  <2> QED
    BY <2>4, <2>5
<1> HIDE DEF o, d
<1>4. d % 10 = (d % 100) % 10
  <2>1. CASE d >= 0
    BY <1>1, <2>1
  <2>2. CASE d < 0
    <3>1. d % 100 = d + 100 /\ (d + 100) % 10 = d % 10
      BY <1>1, <2>2
    <3> QED
      BY <3>1
  <2> QED
    BY <1>1, <2>1, <2>2
<1> QED
  BY <1>1, <1>2, <1>3, <1>4 DEF Packed, o

\* Numbers below 100 that are subtracted from the lowest, the borrow handed on.
LEMMA BorrowedNumber ==
  ASSUME NEW a \in Hundred, NEW b \in Hundred, NEW e \in Hundred, NEW f \in Hundred,
         NEW borrowed \in {0, 1}, borrowed = 1 <=> a < b
  PROVE  LET difference == (100 * e + a) - (100 * f + b)
             low == (a - b) % 100
             high == (e - f - borrowed) % 100
         IN  /\ low \in Hundred /\ high \in Hundred
             /\ difference % 10000 = 100 * high + low
             /\ e - f - borrowed >= 0 <=> difference >= 0
<1> DEFINE difference == (100 * e + a) - (100 * f + b)
           low == (a - b) % 100
           high == (e - f - borrowed) % 100
<1>1. /\ a \in Int /\ 0 <= a /\ a <= 99 /\ b \in Int /\ 0 <= b /\ b <= 99
      /\ e \in Int /\ 0 <= e /\ e <= 99 /\ f \in Int /\ 0 <= f /\ f <= 99
      /\ borrowed \in Int /\ 0 <= borrowed /\ borrowed <= 1
  BY DEF Hundred
<1>2. low = a - b + 100 * borrowed
  <2>1. CASE borrowed = 1
    BY <1>1, <2>1
  <2>2. CASE borrowed = 0
    BY <1>1, <2>2
  <2> QED
    BY <2>1, <2>2
<1>3. high = IF e - f - borrowed >= 0 THEN e - f - borrowed ELSE e - f - borrowed + 100
  BY <1>1
<1>4. difference % 10000 = IF difference >= 0 THEN difference ELSE difference + 10000
  <2>1. difference \in Int /\ -10000 < difference /\ difference < 10000
    BY <1>1
  <2> HIDE DEF difference
  <2> QED
    BY <2>1
<1>5. e - f - borrowed >= 0 <=> difference >= 0
  BY <1>1
<1>6. low \in Hundred /\ high \in Hundred
  BY <1>1 DEF Hundred
<1>7. difference % 10000 = 100 * high + low
  <2> HIDE DEF low, high, difference
  <2>1. difference = (100 * e + a) - (100 * f + b)
    BY DEF difference
  <2>2. CASE difference >= 0
    BY <1>1, <1>2, <1>3, <1>4, <1>5, <2>1, <2>2
  <2>3. CASE ~(difference >= 0)
    BY <1>1, <1>2, <1>3, <1>4, <1>5, <2>1, <2>3
  <2> QED
    BY <2>2, <2>3
<1> HIDE DEF low, high, difference
<1> QED
  BY <1>5, <1>6, <1>7 DEF low, high, difference

\* The bytes of the decimal difference and their carries.
LEMMA DecimalDifferenceRounds ==
  ASSUME NEW m \in TenThousand, NEW n \in TenThousand
  PROVE  \E r, c : /\ IsDecimalRound(r, c, Bcd(m), Bcd(n))
                   /\ r[0] + 256 * r[1] = Bcd((m - n) % 10000)
                   /\ c[2] <=> m - n >= 0
<1> DEFINE two(v, k) == IF k = 0 THEN v % 100 ELSE v \div 100
           carry(k) == IF k = 0 THEN TRUE
                       ELSE IF k = 1 THEN two(m, 0) >= two(n, 0) ELSE m - n >= 0
           one(k) == IF carry(k) THEN 1 ELSE 0
           byte(k) == Packed((two(m, k) - two(n, k) - (1 - one(k))) % 100)
           r == [j \in 0..1 |-> byte(j)]
           c == [j \in 0..2 |-> carry(j)]
           a == m % 100
           b == n % 100
           e == m \div 100
           f == n \div 100
<1>1. /\ a \in Hundred /\ e \in Hundred /\ m = 100 * e + a
      /\ b \in Hundred /\ f \in Hundred /\ n = 100 * f + b
  BY TwoByTwo
<1>2. /\ two(m, 0) = a /\ two(n, 0) = b /\ two(m, 1) = e /\ two(n, 1) = f
  OBVIOUS
<1>3. /\ ByteOf(Bcd(m), 0) = Packed(a) /\ ByteOf(Bcd(n), 0) = Packed(b)
      /\ ByteOf(Bcd(m), 1) = Packed(e) /\ ByteOf(Bcd(n), 1) = Packed(f)
  BY PackedBytes DEF ByteOf
<1> HIDE DEF two, a, b, e, f
<1>4. /\ a \in Int /\ 0 <= a /\ a <= 99 /\ b \in Int /\ 0 <= b /\ b <= 99
      /\ e \in Int /\ 0 <= e /\ e <= 99 /\ f \in Int /\ 0 <= f /\ f <= 99
  BY <1>1 DEF Hundred
<1>5. /\ one(0) = 1 /\ 1 - one(1) \in {0, 1} /\ (1 - one(1) = 1 <=> a < b)
      /\ carry(0) = TRUE /\ (carry(1) <=> a - b >= 0) /\ (carry(2) <=> m - n >= 0)
  BY <1>2, <1>4
<1>6. \A k \in 0..1 : one(k) \in {0, 1} /\ (one(k) = IF carry(k) THEN 1 ELSE 0)
  OBVIOUS
<1>7. byte(0) = Packed((a - b) % 100) /\ byte(1) = Packed((e - f - (1 - one(1))) % 100)
  <2>1. a - b - (1 - 1) = a - b
    BY <1>4
  <2> HIDE DEF one
  <2> QED
    BY <1>2, <1>5, <2>1
<1> HIDE DEF carry, one, byte
<1>8. /\ byte(0) + 256 * byte(1) = Bcd((m - n) % 10000)
      /\ e - f - (1 - one(1)) >= 0 <=> carry(2)
  <2> DEFINE borrowed == 1 - one(1)
             low == (a - b) % 100
             high == (e - f - borrowed) % 100
             difference == (100 * e + a) - (100 * f + b)
  <2>1. /\ borrowed \in {0, 1} /\ (borrowed = 1 <=> a < b)
        /\ byte(1) = Packed(high)
    BY <1>5, <1>7
  <2>2. e - f - (1 - one(1)) >= 0 <=> e - f - borrowed >= 0
    OBVIOUS
  <2> HIDE DEF borrowed
  <2>3. /\ low \in Hundred /\ high \in Hundred /\ difference % 10000 = 100 * high + low
        /\ e - f - borrowed >= 0 <=> difference >= 0
    BY <1>1, <2>1, BorrowedNumber
  <2>4. difference = m - n
    BY <1>4, <1>1
  <2> HIDE DEF high, difference
  <2>5. byte(0) = Packed(low)
    BY <1>7
  <2> HIDE DEF low
  <2>6. Bcd(difference % 10000) = Packed(low) + 256 * Packed(high)
    BY <2>3, PackedNumber
  <2> QED
    BY <1>5, <2>1, <2>2, <2>3, <2>4, <2>5, <2>6
<1>9. ASSUME NEW k \in 0..1
      PROVE  /\ two(m, k) \in Hundred /\ two(n, k) \in Hundred
             /\ two(m, k) - two(n, k) - (1 - one(k)) >= 0 <=> carry(k + 1)
             /\ ByteOf(Bcd(m), k) = Packed(two(m, k)) /\ ByteOf(Bcd(n), k) = Packed(two(n, k))
             /\ byte(k) = Packed((two(m, k) - two(n, k) - (1 - one(k))) % 100)
  <2>1. byte(k) = Packed((two(m, k) - two(n, k) - (1 - one(k))) % 100)
    BY DEF byte
  <2>2. CASE k = 0
    <3>1. a - b - (1 - one(0)) >= 0 <=> carry(1)
      BY <1>4, <1>5
    <3> QED
      BY <1>1, <1>2, <1>3, <2>1, <2>2, <3>1
  <2>3. CASE k = 1
    BY <1>1, <1>2, <1>3, <1>8, <2>1, <2>3
  <2> QED
    BY <2>2, <2>3
<1>10. /\ \A k \in 0..1 : r[k] = byte(k) /\ c[k] = carry(k) /\ c[k + 1] = carry(k + 1)
       /\ c[0] = carry(0) /\ c[2] = carry(2) /\ r[0] = byte(0) /\ r[1] = byte(1)
  OBVIOUS
<1> HIDE DEF r, c
<1>11. IsDecimalRound(r, c, Bcd(m), Bcd(n))
  <2>1. ASSUME NEW k \in 0..1, NEW s, CarryFlag \in s <=> c[k]
        PROVE  LET o == Left(s, ByteOf(Bcd(m), k), ByteOf(Bcd(n), k))
               IN  o.value = r[k] /\ (CarryFlag \in o.status <=> c[k + 1])
    <3>1. one(k) = (IF CarryFlag \in s THEN 1 ELSE 0) /\ one(k) \in {0, 1}
      BY <1>6, <1>10, <2>1
    <3>2. LET o == Left(s, Packed(two(m, k)), Packed(two(n, k)))
          IN  /\ o.value = byte(k)
              /\ CarryFlag \in o.status <=> two(m, k) - two(n, k) - (1 - one(k)) >= 0
      BY <1>9, <3>1, PackedDifference
    <3> QED
      BY <1>9, <1>10, <3>2
  <2> QED
    BY <1>5, <1>10, <2>1 DEF IsDecimalRound
<1>12. c[2] <=> m - n >= 0
  BY <1>5, <1>10
<1> QED
  BY <1>8, <1>10, <1>11, <1>12

\* What is true in a machine that executes the decimal subtraction.
DecimalSubtracting ==
  image.kind = "decimalDifference" =>
    LET difference == Decimal(image.x) - Decimal(image.y)
    IN  \E r, c : /\ IsDecimalRound(r, c, image.x, image.y)
                  /\ r[0] + 256 * r[1] = Bcd(difference % 10000)
                  /\ c[2] <=> difference >= 0
                  /\ DecimalLooping(r, c)

\* The sum with the ten's complement, two digits after two from the lowest, is the
\* difference of any two numbers of four decimal digits, and the carry left over tells
\* that nothing was borrowed.
THEOREM DecimalDifferenceOfNumbers ==
  ASSUME Cells = SomeCells,
         AreImages("decimalDifference", DecimalSubtraction, DecimalWords)
  PROVE  Spec => []DecimalDifference
<1>1. ASSUME Init PROVE DecimalSubtracting
  <2> SUFFICES ASSUME image.kind = "decimalDifference" PROVE DecimalSubtracting
    BY DEF DecimalSubtracting
  <2>1. PICK v \in DecimalWords, w \in DecimalWords :
          image = Machine("decimalDifference", DecimalSubtraction, v, w, <<>>, {})
    BY <1>1 DEF Init, AreImages
  <2>2. PICK m \in TenThousand, n \in TenThousand : v = Bcd(m) /\ w = Bcd(n)
    BY DEF DecimalWords
  <2>3. Decimal(v) = m /\ Decimal(w) = n
    BY <2>2, PackedBytes
  <2>4. PICK r, c : /\ IsDecimalRound(r, c, v, w)
                    /\ r[0] + 256 * r[1] = Bcd((m - n) % 10000)
                    /\ c[2] <=> m - n >= 0
    BY <2>2, DecimalDifferenceRounds
  <2>5. DecimalLooping(r, c) /\ image.x = v /\ image.y = w
    BY <1>1, <2>1, DecimalBegins
  <2> QED
    BY <2>3, <2>4, <2>5 DEF DecimalSubtracting
<1>2. ASSUME Sound, DecimalSubtracting, [Next]_vars PROVE DecimalSubtracting'
  <2>1. CASE image.kind = "decimalDifference"
    <3> DEFINE difference == Decimal(image.x) - Decimal(image.y)
    <3>1. PICK r, c : /\ IsDecimalRound(r, c, image.x, image.y)
                      /\ r[0] + 256 * r[1] = Bcd(difference % 10000)
                      /\ c[2] <=> difference >= 0
                      /\ DecimalLooping(r, c)
      BY <1>2, <2>1 DEF DecimalSubtracting
    <3>2. DecimalLooping(r, c)' /\ image' = image
      BY <1>2, <3>1, DecimalSteps
    <3> QED
      BY <3>1, <3>2 DEF DecimalSubtracting
  <2>2. CASE image.kind # "decimalDifference"
    <3>1. image' = image
      BY <1>2, ImageKept
    <3> QED
      BY <2>2, <3>1 DEF DecimalSubtracting
  <2> QED
    BY <2>1, <2>2
<1>3. DecimalSubtracting => DecimalDifference
  <2> DEFINE difference == Decimal(image.x) - Decimal(image.y)
  <2> SUFFICES ASSUME DecimalSubtracting, hlt_, image.kind = "decimalDifference"
               PROVE  Word1(X) = Bcd(difference % 10000) /\ (Carried <=> difference >= 0)
    BY DEF DecimalDifference, Ended
  <2>1. PICK r, c : /\ r[0] + 256 * r[1] = Bcd(difference % 10000)
                    /\ c[2] <=> difference >= 0
                    /\ DecimalLooping(r, c)
    BY DEF DecimalSubtracting
  <2>2. Done(r, c)
    BY <2>1 DEF DecimalLooping
  <2> QED
    BY <2>1, <2>2, WordStored DEF Done
<1> QED
  BY <1>1, <1>2, <1>3, SpecSound, PTL DEF Spec

-----------------------------------------------------------------------------
(* The product of two bytes.                                               *)

\* The bytes of Multiplication as they are decoded.
LEMMA ProductCode ==
  ASSUME Cells = SomeCells, Sound, Holding(Multiplication)
  PROVE  /\ pc_ = Origin => x = 0 /\ y = 0 /\ z = 6 /\ Data = 0 /\ Wrap(pc_ + 2) = Origin + 2
         /\ pc_ = Origin + 2 =>
              x = 0 /\ y = 3 /\ z = 6 /\ Data = 9 /\ Wrap(pc_ + 2) = Origin + 4
         /\ pc_ = Origin + 4 => x = 1 /\ y = 7 /\ z = 1 /\ Wrap(pc_ + 1) = Origin + 5
         /\ pc_ = Origin + 5 => x = 0 /\ y = 3 /\ z = 7 /\ Wrap(pc_ + 1) = Origin + 6
         /\ pc_ = Origin + 6 => x = 1 /\ y = 1 /\ z = 7 /\ Wrap(pc_ + 1) = Origin + 7
         /\ pc_ = Origin + 7 => x = 0 /\ y = 3 /\ z = 5 /\ Wrap(pc_ + 1) = Origin + 8
         /\ pc_ = Origin + 8 =>
              /\ x = 3 /\ y = 1 /\ z = 2
              /\ Address = Origin + 21 /\ Wrap(pc_ + 3) = Origin + 11
         /\ pc_ = Origin + 11 => x = 1 /\ y = 7 /\ z = 0 /\ Wrap(pc_ + 1) = Origin + 12
         /\ pc_ = Origin + 12 =>
              /\ x = 3 /\ y = 2 /\ z = 2
              /\ Address = Origin + 16 /\ Wrap(pc_ + 3) = Origin + 15
         /\ pc_ = Origin + 15 => x = 2 /\ y = 0 /\ z = 2 /\ Wrap(pc_ + 1) = Origin + 16
         /\ pc_ = Origin + 16 => x = 0 /\ y = 3 /\ z = 7 /\ Wrap(pc_ + 1) = Origin + 17
         /\ pc_ = Origin + 17 => x = 1 /\ y = 0 /\ z = 7 /\ Wrap(pc_ + 1) = Origin + 18
         /\ pc_ = Origin + 18 => x = 3 /\ y = 0 /\ z = 3 /\ Address = Origin + 4
         /\ pc_ = Origin + 21 => x = 1 /\ y = 6 /\ z = 6
<1> DEFINE m(i) == memory[Origin + i]
<1>1. /\ m(0) = 6 /\ m(1) = 0 /\ m(2) = 30 /\ m(3) = 9 /\ m(4) = 121 /\ m(5) = 31
      /\ m(6) = 79 /\ m(7) = 29 /\ m(8) = 202 /\ m(9) = 15 /\ m(10) = 1 /\ m(11) = 120
      /\ m(12) = 210 /\ m(13) = 10 /\ m(14) = 1 /\ m(15) = 130 /\ m(16) = 31 /\ m(17) = 71
      /\ m(18) = 195 /\ m(19) = 254 /\ m(20) = 0 /\ m(21) = 118
  <2>1. DOMAIN Multiplication = 1..22
    BY DEF Multiplication
  <2>2. \A i \in 1..22 : memory[Origin + i - 1] = Multiplication[i]
    BY <2>1 DEF Holding
  <2> QED
    BY <2>2 DEF Multiplication, Origin, Lo, Hi, HLT
<1>2. ASSUME NEW i \in 0..21, pc_ = Origin + i
      PROVE  /\ x = m(i) \div 64 /\ y = (m(i) \div 8) % 8 /\ z = m(i) % 8
             /\ Data = m(i + 1) /\ Address = m(i + 2) * 256 + m(i + 1)
             /\ Wrap(pc_ + 1) = Origin + (i + 1) /\ Wrap(pc_ + 2) = Origin + (i + 2)
             /\ Wrap(pc_ + 3) = Origin + (i + 3)
  BY <1>2, Fetching DEF x, y, z, Origin
<1> HIDE DEF m
<1>3. \A i \in 0..21 : pc_ = 250 + i =>
        /\ x = m(i) \div 64 /\ y = (m(i) \div 8) % 8 /\ z = m(i) % 8
        /\ Data = m(i + 1) /\ Address = m(i + 2) * 256 + m(i + 1)
        /\ Wrap(pc_ + 1) = 250 + (i + 1) /\ Wrap(pc_ + 2) = 250 + (i + 2)
        /\ Wrap(pc_ + 3) = 250 + (i + 3)
  BY <1>2 DEF Origin
<1> QED
  BY <1>1, <1>3 DEF Origin

\* The weight of the bit that e rotations are left to bring.
Weight(e) == <<1, 2, 4, 8, 16, 32, 64, 128, 256>>[e]

\* What b, the carry k and c are when e rotations of c are left: the product of n with
\* the bits of m that have left c, those that have not (rest), and between them the
\* bit that was the carry at first.
Partial(m, n, b, k, c, e) ==
  /\ b \in Byte /\ c \in Byte /\ k \in {0, 1} /\ e \in 1..9
  /\ \E rest \in Nat, first \in {0, 1} :
       /\ rest < Weight(e)
       /\ 512 * b + 256 * k + c
            = 2 * (Weight(e) * (m * n)) - 512 * (n * rest) + Weight(e) * first + rest

\* At first, b is 0 and c holds every bit.
LEMMA PartialBegins ==
  ASSUME NEW m \in Byte, NEW n \in Byte, NEW k \in {0, 1}
  PROVE  Partial(m, n, 0, k, m, 9)
<1>1. m \in Nat /\ m < 256 /\ Weight(9) = 256 /\ 0 \in Byte
  BY ByteRange DEF Weight
<1>2. m * n \in Int /\ n * m = m * n
  BY ByteRange
<1> DEFINE t == m * n
<1>3. 512 * 0 + 256 * k + m = 2 * (256 * t) - 512 * t + 256 * k + m
  <2> HIDE DEF t
  <2> QED
    BY <1>1, <1>2 DEF t
<1> QED
  BY <1>1, <1>2, <1>3 DEF Partial

\* A rotation and an addition make the next product of the last.
LEMMA PartialGoesOn ==
  ASSUME NEW m \in Byte, NEW n \in Byte, NEW b, NEW k, NEW c, NEW e \in 2..9,
         Partial(m, n, b, k, c, e)
  PROVE  LET sum == b + (c % 2) * n
         IN  Partial(m, n, sum \div 2, sum % 2, 128 * k + (c \div 2), e - 1)
<1> DEFINE bit == c % 2
           sum == b + bit * n
           w == Weight(e - 1)
           t == m * n
<1>1. /\ b \in Int /\ 0 <= b /\ b <= 255 /\ c \in Int /\ 0 <= c /\ c <= 255
      /\ n \in Int /\ 0 <= n /\ n <= 255 /\ k \in {0, 1} /\ m \in Int
  BY ByteRange DEF Partial
<1>2. Weight(e) = 2 * w /\ w \in Nat
  <2>1. e \in {2, 3, 4, 5, 6, 7, 8, 9}
    OBVIOUS
  <2>2. \A i \in {2, 3, 4, 5, 6, 7, 8, 9} : Weight(i) = 2 * Weight(i - 1) /\ Weight(i - 1) \in Nat
    BY DEF Weight
  <2> QED
    BY <2>1, <2>2
<1>3. PICK rest \in Nat, first \in {0, 1} :
        /\ rest < Weight(e)
        /\ 512 * b + 256 * k + c
             = 2 * (Weight(e) * t) - 512 * (n * rest) + Weight(e) * first + rest
  BY DEF Partial
<1> DEFINE left == rest \div 2
           last == rest % 2
           half == c \div 2
<1>4. bit \in {0, 1} /\ c = 2 * half + bit /\ half \in Int /\ 0 <= half /\ half <= 127
  BY <1>1
<1>5. rest = 2 * left + last /\ left \in Nat /\ last \in {0, 1}
  BY <1>3
<1> HIDE DEF bit, half, left, last, t, w
<1> DEFINE p == w * t
           q == w * first
           u == n * left
           v == bit * n
<1>6. /\ p \in Int /\ q \in Int /\ u \in Int /\ v \in Int /\ 0 <= v /\ v <= 255
      /\ n * bit = v /\ n * last \in Int
  <2>1. t \in Int
    BY <1>1 DEF t
  <2> QED
    BY <1>1, <1>2, <1>4, <1>5, <2>1
<1>7. Weight(e) * t = 2 * p /\ Weight(e) * first = 2 * q /\ n * rest = 2 * u + n * last
  <2>1. t \in Int
    BY <1>1 DEF t
  <2>2. (2 * w) * t = 2 * (w * t)
    BY <1>2, <2>1
  <2>3. (2 * w) * first = 2 * (w * first)
    BY <1>2
  <2>4. n * (2 * left + last) = 2 * (n * left) + n * last
    BY <1>1, <1>5
  <2> QED
    BY <1>2, <1>5, <2>2, <2>3, <2>4
<1> HIDE DEF p, q, u, v
<1>8. 512 * b + 256 * k + 2 * half + bit = 4 * p - 512 * (2 * u + n * last) + 2 * q + 2 * left + last
  <2>1. 512 * b + 256 * k + c = 2 * (2 * p) - 512 * (2 * u + n * last) + 2 * q + rest
    BY <1>3, <1>7
  <2> DEFINE o == n * last
  <2> o \in Int
    BY <1>6
  <2> HIDE DEF o
  <2>2. 512 * b + 256 * k + c = 2 * (2 * p) - 512 * (2 * u + o) + 2 * q + rest
    BY <2>1 DEF o
  <2>3. 512 * b + 256 * k + 2 * half + bit = 4 * p - 512 * (2 * u + o) + 2 * q + 2 * left + last
    BY <1>1, <1>4, <1>5, <1>6, <2>2
  <2> QED
    BY <2>3 DEF o
<1>9. last = bit /\ n * last = v
  <2> DEFINE o == n * last
  <2> o \in Int
    BY <1>6
  <2>1. 512 * b + 256 * k + 2 * half + bit = 4 * p - 512 * (2 * u + o) + 2 * q + 2 * left + last
    BY <1>8
  <2> HIDE DEF o
  <2>2. last = bit
    BY <1>1, <1>4, <1>5, <1>6, <2>1
  <2> QED
    BY <1>6, <2>2
<1>10. /\ sum = b + v /\ sum \in Int /\ 0 <= sum /\ sum <= 510
       /\ sum = 2 * (sum \div 2) + (sum % 2) /\ sum % 2 \in {0, 1}
       /\ sum \div 2 \in Int /\ 0 <= sum \div 2 /\ sum \div 2 <= 255
  <2>1. sum = b + v
    BY DEF v
  <2> HIDE DEF sum
  <2> QED
    BY <1>1, <1>6, <2>1
<1> DEFINE high == sum \div 2
           odd == sum % 2
<1>11. left < w
  BY <1>2, <1>3, <1>5
<1>12. 512 * high + 256 * odd + (128 * k + half) = 2 * p - 512 * u + q + left
  <2>1. 512 * b + 256 * k + 2 * half + bit = 4 * p - 512 * (2 * u + v) + 2 * q + 2 * left + bit
    BY <1>8, <1>9
  <2>2. b + v = 2 * high + odd /\ high \in Int /\ odd \in Int
    BY <1>10
  <2> HIDE DEF high, odd, sum
  <2> QED
    BY <1>1, <1>4, <1>5, <1>6, <2>1, <2>2
<1>13. /\ high \in Byte /\ 128 * k + half \in Byte /\ e - 1 \in 1..9 /\ odd \in {0, 1}
  BY <1>1, <1>4, <1>10, ByteRange
<1> HIDE DEF high, odd
<1>14. Partial(m, n, high, odd, 128 * k + half, e - 1)
  BY <1>3, <1>5, <1>11, <1>12, <1>13 DEF Partial, p, q, u, t, w
<1> QED
  BY <1>14 DEF high, odd, half, bit

\* After the ninth rotation c holds the low byte of the product.
LEMMA PartialEnds ==
  ASSUME NEW m \in Byte, NEW n \in Byte, NEW b, NEW k, NEW c, Partial(m, n, b, k, c, 1)
  PROVE  Uint16(b, 128 * k + (c \div 2)) = m * n
<1> DEFINE t == m * n
<1>1. /\ b \in Int /\ c \in Int /\ 0 <= c /\ k \in {0, 1} /\ n \in Int /\ t \in Int
  BY ByteRange DEF Partial
<1>2. Weight(1) = 1
  BY DEF Weight
<1>3. PICK rest \in Nat, first \in {0, 1} :
        /\ rest < 1
        /\ 512 * b + 256 * k + c = 2 * (1 * t) - 512 * (n * rest) + 1 * first + rest
  BY <1>2 DEF Partial
<1>4. rest = 0 /\ n * rest = 0
  BY <1>1, <1>3
<1> HIDE DEF t
<1>5. c = 2 * (c \div 2) + (c % 2) /\ c % 2 \in {0, 1} /\ c \div 2 \in Int
  BY <1>1
<1>6. 256 * b + 128 * k + (c \div 2) = t
  BY <1>1, <1>3, <1>4, <1>5
<1> QED
  BY <1>1, <1>5, <1>6 DEF Uint16, t

\* The registers of Multiplication at its instruction i.
ProductAt(i, b, c, e) ==
  pc_ = Origin + i /\ reg["b"] = b /\ reg["c"] = c /\ reg["e"] = e

\* The places of one round, from what b, the carry and c were at its head: c is
\* rotated, the second factor is added if the bit that left is set, the sum is rotated.
Rotating(b, k, c, e) ==
  LET half == 128 * k + (c \div 2)
  IN  \/ ProductAt(4, b, c, e) /\ (Carried <=> k = 1)
      \/ ProductAt(5, b, c, e) /\ (Carried <=> k = 1) /\ reg["a"] = c
      \/ ProductAt(6, b, c, e) /\ (Carried <=> c % 2 = 1) /\ reg["a"] = half
      \/ ProductAt(7, b, half, e) /\ (Carried <=> c % 2 = 1)
      \/ ProductAt(8, b, half, e - 1) /\ (Carried <=> c % 2 = 1)
         /\ (ZeroFlag \in status_ <=> e = 1)

Adding(b, k, c, e) ==
  LET half == 128 * k + (c \div 2)
      sum == b + (c % 2) * image.y
  IN  /\ e > 1
      /\ \/ ProductAt(11, b, half, e - 1) /\ (Carried <=> c % 2 = 1)
         \/ ProductAt(12, b, half, e - 1) /\ (Carried <=> c % 2 = 1) /\ reg["a"] = b
         \/ ProductAt(15, b, half, e - 1) /\ c % 2 = 1 /\ reg["a"] = b
         \/ ProductAt(16, b, half, e - 1) /\ reg["a"] \in Byte
            /\ reg["a"] + 256 * (IF Carried THEN 1 ELSE 0) = sum
         \/ ProductAt(17, b, half, e - 1) /\ (Carried <=> sum % 2 = 1)
            /\ reg["a"] = sum \div 2
         \/ ProductAt(18, sum \div 2, half, e - 1) /\ (Carried <=> sum % 2 = 1)

Multiplied == Uint16(reg["b"], reg["c"]) = image.x * image.y

\* What is true in a machine that executes the multiplication.
Multiplying ==
  image.kind = "product" =>
    /\ ~iff_ /\ Holding(Multiplication)
    /\ image.x \in Byte /\ image.y \in Byte /\ reg["d"] = image.y
    /\ \/ ~hlt_ /\ pc_ = Origin /\ reg["c"] = image.x
       \/ ~hlt_ /\ pc_ = Origin + 2 /\ reg["c"] = image.x /\ reg["b"] = 0
       \/ ~hlt_ /\ \E b, k, c, e : /\ Partial(image.x, image.y, b, k, c, e)
                                  /\ \/ Rotating(b, k, c, e)
                                     \/ Adding(b, k, c, e)
       \/ (~hlt_ => pc_ = Origin + 21) /\ Multiplied

\* The first half of a round.
LEMMA ProductRotates ==
  ASSUME Cells = SomeCells, Sound, Holding(Multiplication), Instruction,
         NEW b \in Byte, NEW k \in {0, 1}, NEW c \in Byte, NEW e \in 1..9, Rotating(b, k, c, e)
  PROVE  /\ \/ Rotating(b, k, c, e)'
            \/ Adding(b, k, c, e)'
            \/ /\ e = 1 /\ pc_' = Origin + 21
               /\ reg'["b"] = b /\ reg'["c"] = 128 * k + (c \div 2)
         /\ reg'["d"] = reg["d"] /\ UNCHANGED <<memory, iff_, hlt_, image>>
<1> DEFINE half == 128 * k + (c \div 2)
<1> USE DEF ProductAt
<1>1. {"a", "b", "c", "d", "e"} \subseteq Names
  BY DEF Names
<1>2. CASE ProductAt(4, b, c, e) /\ (Carried <=> k = 1)
  <2>1. x = 1 /\ y = 7 /\ z = 1 /\ Wrap(pc_ + 1) = Origin + 5
    BY <1>2, ProductCode
  <2>2. Goes(Assigned("a", c), status_, memory, Origin + 5)
    BY <1>2, <2>1, MovGoes, Numbered DEF M
  <2> QED
    BY <1>1, <1>2, <2>2, OthersKept DEF Goes, Rotating, Carried
<1>3. CASE ProductAt(5, b, c, e) /\ (Carried <=> k = 1) /\ reg["a"] = c
  <2>1. x = 0 /\ y = 3 /\ z = 7 /\ Wrap(pc_ + 1) = Origin + 6
    BY <1>3, ProductCode
  <2> DEFINE o == Rotate(3, status_, c)
  <2>2. Goes(Assigned("a", o.value), o.status, memory, Origin + 6)
    BY <1>3, <2>1, RotateGoes
  <2>3. o.value = half /\ (CarryFlag \in o.status <=> c % 2 = 1)
    <3>1. o.value = (c \div 2) + (IF CarryFlag \in status_ THEN 128 ELSE 0)
      BY RotatesRight
    <3>2. c \div 2 \in Int
      BY ByteRange
    <3> HIDE DEF o
    <3>3. o.value = half
      BY <1>3, <3>1, <3>2 DEF Carried
    <3> QED
      BY <3>3, RotatesRight DEF o
  <2> HIDE DEF o, half
  <2> QED
    BY <1>1, <1>3, <2>2, <2>3, OthersKept DEF Goes, Rotating, Carried, half
<1>4. CASE ProductAt(6, b, c, e) /\ (Carried <=> c % 2 = 1) /\ reg["a"] = half
  <2>1. x = 1 /\ y = 1 /\ z = 7 /\ Wrap(pc_ + 1) = Origin + 7
    BY <1>4, ProductCode
  <2>2. Goes(Assigned("c", half), status_, memory, Origin + 7)
    BY <1>4, <2>1, MovGoes, Numbered DEF M
  <2> QED
    BY <1>1, <1>4, <2>2, OthersKept DEF Goes, Rotating, Carried
<1>5. CASE ProductAt(7, b, half, e) /\ (Carried <=> c % 2 = 1)
  <2>1. x = 0 /\ y = 3 /\ z = 5 /\ Wrap(pc_ + 1) = Origin + 8
    BY <1>5, ProductCode
  <2> DEFINE o == Decremented(status_, e)
  <2>2. Goes(Assigned("e", o.value), o.status, memory, Origin + 8)
    BY <1>5, <2>1, DcrGoes, Numbered DEF M
  <2>3. /\ o.value = e - 1 /\ (ZeroFlag \in o.status <=> e = 1)
        /\ CarryFlag \in o.status <=> CarryFlag \in status_
    <3>1. e \in Byte /\ (e + 255) % 256 = e - 1 /\ e \in Int
      BY ByteRange
    <3>2. /\ o.value = (e + 255) % 256 /\ (ZeroFlag \in o.status <=> o.value = 0)
          /\ CarryFlag \in o.status <=> CarryFlag \in status_
      BY <3>1, DecrementFlags
    <3> HIDE DEF o
    <3> QED
      BY <3>1, <3>2
  <2> HIDE DEF o
  <2> QED
    BY <1>1, <1>5, <2>2, <2>3, OthersKept DEF Goes, Rotating, Carried
<1>6. CASE ProductAt(8, b, half, e - 1) /\ (Carried <=> c % 2 = 1)
           /\ (ZeroFlag \in status_ <=> e = 1)
  <2>1. /\ x = 3 /\ y = 1 /\ z = 2
        /\ Address = Origin + 21 /\ Wrap(pc_ + 3) = Origin + 11
    BY <1>6, ProductCode
  <2>2. Holds <=> e = 1
    <3>1. Pair = 0 /\ y \in Odd
      BY <2>1 DEF Pair, Odd
    <3>2. Holds <=> ZeroFlag \in status_
      BY <3>1 DEF Holds
    <3> QED
      BY <1>6, <3>2
  <2>3. Goes(reg, status_, memory, IF e = 1 THEN Origin + 21 ELSE Origin + 11)
    BY <2>1, <2>2, JumpGoes
  <2>4. CASE e = 1
    BY <1>6, <2>3, <2>4 DEF Goes
  <2>5. CASE e # 1
    <3>1. e > 1
      BY <2>5
    <3> HIDE DEF half
    <3> QED
      BY <1>6, <2>3, <2>5, <3>1 DEF Goes, Adding, Carried, half
  <2> QED
    BY <2>4, <2>5
<1> QED
  BY <1>2, <1>3, <1>4, <1>5, <1>6 DEF Rotating

\* ADD gives the sum with its carry.
AddsUp(s, a, b) ==
  LET o == Add(s, a, b, 0, TRUE)
  IN  /\ o.value \in Byte
      /\ o.value + 256 * (IF CarryFlag \in o.status THEN 1 ELSE 0) = a + b

\* ADD gives the sum of any two bytes.
LEMMA AddsBytes ==
  ASSUME NEW s, NEW a \in Byte, NEW b \in Byte
  PROVE  AddsUp(s, a, b)
<1> DEFINE o == Add(s, a, b, 0, TRUE)
<1>1. o.value = (a + b + 0) % 256
  BY DEF Add, Outcome
<1>2. CarryFlag \in o.status <=> a + b + 0 > 255
  BY DEF Add, Outcome, With, CarryFlag, AuxCarryFlag
<1>3. a \in Int /\ 0 <= a /\ a <= 255 /\ b \in Int /\ 0 <= b /\ b <= 255
  BY ByteRange
<1> HIDE DEF o
<1>4. o.value \in Int /\ 0 <= o.value /\ o.value <= 255
  BY <1>1, <1>3
<1>5. o.value + 256 * (IF CarryFlag \in o.status THEN 1 ELSE 0) = a + b
  <2>1. CASE a + b > 255
    <3>1. CarryFlag \in o.status
      BY <1>2, <1>3, <2>1
    <3>2. o.value = a + b - 256
      BY <1>1, <1>3, <2>1
    <3> QED
      BY <1>3, <3>1, <3>2
  <2>2. CASE ~(a + b > 255)
    <3>1. CarryFlag \notin o.status
      BY <1>2, <1>3, <2>2
    <3>2. o.value = a + b
      BY <1>1, <1>3, <2>2
    <3> QED
      BY <1>3, <3>1, <3>2
  <2> QED
    BY <2>1, <2>2
<1> QED
  BY <1>4, <1>5, ByteRange DEF AddsUp, o

\* The second half, which ends at the head of the next round.
LEMMA ProductAdds ==
  ASSUME Cells = SomeCells, Sound, Holding(Multiplication), Instruction,
         image.y \in Byte, reg["d"] = image.y,
         NEW b \in Byte, NEW k \in {0, 1}, NEW c \in Byte, NEW e \in 1..9, Adding(b, k, c, e)
  PROVE  /\ \/ Adding(b, k, c, e)'
            \/ LET sum == b + (c % 2) * image.y
               IN  e > 1 /\ Rotating(sum \div 2, sum % 2, 128 * k + (c \div 2), e - 1)'
         /\ reg'["d"] = reg["d"] /\ UNCHANGED <<memory, iff_, hlt_, image>>
<1> DEFINE half == 128 * k + (c \div 2)
           bit == c % 2
           sum == b + bit * image.y
<1> USE DEF ProductAt
<1>1. {"a", "b", "c", "d", "e"} \subseteq Names
  BY DEF Names
<1>2. /\ sum \in Int /\ 0 <= sum /\ sum <= 510 /\ bit \in {0, 1}
      /\ bit = 0 => sum = b
      /\ bit = 1 => sum = b + image.y
  <2>1. /\ b \in Int /\ 0 <= b /\ b <= 255 /\ c \in Int /\ 0 <= c
        /\ image.y \in Int /\ 0 <= image.y /\ image.y <= 255
    BY ByteRange
  <2>2. bit \in {0, 1}
    BY <2>1
  <2> HIDE DEF bit
  <2>3. CASE bit = 0
    BY <2>1, <2>3
  <2>4. CASE bit = 1
    BY <2>1, <2>4
  <2> QED
    BY <2>2, <2>3, <2>4
<1>3. e > 1 /\ UNCHANGED image => sum' = sum
  OBVIOUS
<1> HIDE DEF half, sum, bit
<1>4. Adding(b, k, c, e) <=>
        /\ e > 1
        /\ \/ ProductAt(11, b, half, e - 1) /\ (Carried <=> bit = 1)
           \/ ProductAt(12, b, half, e - 1) /\ (Carried <=> bit = 1) /\ reg["a"] = b
           \/ ProductAt(15, b, half, e - 1) /\ bit = 1 /\ reg["a"] = b
           \/ ProductAt(16, b, half, e - 1) /\ reg["a"] \in Byte
              /\ reg["a"] + 256 * (IF Carried THEN 1 ELSE 0) = sum
           \/ ProductAt(17, b, half, e - 1) /\ (Carried <=> sum % 2 = 1)
              /\ reg["a"] = sum \div 2
           \/ ProductAt(18, sum \div 2, half, e - 1) /\ (Carried <=> sum % 2 = 1)
  BY DEF Adding, half, sum, bit
<1>5. image' = image =>
        (Adding(b, k, c, e)' <=>
          /\ e > 1
          /\ \/ ProductAt(11, b, half, e - 1)' /\ (Carried' <=> bit = 1)
             \/ ProductAt(12, b, half, e - 1)' /\ (Carried' <=> bit = 1) /\ reg'["a"] = b
             \/ ProductAt(15, b, half, e - 1)' /\ bit = 1 /\ reg'["a"] = b
             \/ ProductAt(16, b, half, e - 1)' /\ reg'["a"] \in Byte
                /\ reg'["a"] + 256 * (IF Carried' THEN 1 ELSE 0) = sum
             \/ ProductAt(17, b, half, e - 1)' /\ (Carried' <=> sum % 2 = 1)
                /\ reg'["a"] = sum \div 2
             \/ ProductAt(18, sum \div 2, half, e - 1)' /\ (Carried' <=> sum % 2 = 1))
  BY DEF Adding, half, sum, bit
<1>6. CASE e > 1 /\ ProductAt(11, b, half, e - 1) /\ (Carried <=> bit = 1)
  <2>1. x = 1 /\ y = 7 /\ z = 0 /\ Wrap(pc_ + 1) = Origin + 12
    BY <1>6, ProductCode
  <2>2. Goes(Assigned("a", b), status_, memory, Origin + 12)
    BY <1>6, <2>1, MovGoes, Numbered DEF M
  <2> QED
    BY <1>1, <1>5, <1>6, <2>2, OthersKept DEF Goes, Carried
<1>7. CASE e > 1 /\ ProductAt(12, b, half, e - 1) /\ (Carried <=> bit = 1) /\ reg["a"] = b
  <2>1. /\ x = 3 /\ y = 2 /\ z = 2
        /\ Address = Origin + 16 /\ Wrap(pc_ + 3) = Origin + 15
    BY <1>7, ProductCode
  <2>2. Holds <=> ~Carried
    <3>1. Pair = 1 /\ y \notin Odd
      BY <2>1 DEF Pair, Odd
    <3> QED
      BY <3>1 DEF Holds, Carried
  <2>3. Goes(reg, status_, memory, IF bit = 1 THEN Origin + 15 ELSE Origin + 16)
    BY <1>7, <2>1, <2>2, JumpGoes
  <2>4. CASE bit = 1
    BY <1>5, <1>7, <2>3, <2>4 DEF Goes
  <2>5. CASE bit = 0
    <3>1. b + 256 * (IF Carried THEN 1 ELSE 0) = sum
      BY <1>2, <1>7, <2>5, ByteRange
    <3> QED
      BY <1>5, <1>7, <2>3, <2>5, <3>1 DEF Goes, Carried
  <2> QED
    BY <1>2, <2>4, <2>5
<1>8. CASE e > 1 /\ ProductAt(15, b, half, e - 1) /\ bit = 1 /\ reg["a"] = b
  <2>1. x = 2 /\ y = 0 /\ z = 2 /\ Wrap(pc_ + 1) = Origin + 16
    BY <1>8, ProductCode
  <2> DEFINE o == Add(status_, b, image.y, 0, TRUE)
  <2>2. Operand(2) = image.y /\ Alu(0, status_, b, image.y) = o
    BY Numbered DEF Operand, M, Alu
  <2>3. Goes(Assigned("a", o.value), o.status, memory, Origin + 16)
    BY <1>8, <2>1, <2>2, AluGoes
  <2>4. o.value \in Byte /\ o.value + 256 * (IF CarryFlag \in o.status THEN 1 ELSE 0) = sum
    <3>1. /\ o.value \in Byte
          /\ o.value + 256 * (IF CarryFlag \in o.status THEN 1 ELSE 0) = b + image.y
      <4>1. AddsUp(status_, b, image.y)
        BY AddsBytes
      <4> QED
        BY <4>1 DEF AddsUp
    <3>2. sum = b + image.y
      BY <1>2, <1>8
    <3> HIDE DEF o
    <3> QED
      BY <3>1, <3>2
  <2> HIDE DEF o
  <2> QED
    BY <1>1, <1>5, <1>8, <2>3, <2>4, OthersKept DEF Goes, Carried
<1>9. CASE e > 1 /\ ProductAt(16, b, half, e - 1) /\ reg["a"] \in Byte
           /\ reg["a"] + 256 * (IF Carried THEN 1 ELSE 0) = sum
  <2>1. x = 0 /\ y = 3 /\ z = 7 /\ Wrap(pc_ + 1) = Origin + 17
    BY <1>9, ProductCode
  <2> DEFINE o == Rotate(3, status_, reg["a"])
  <2>2. Goes(Assigned("a", o.value), o.status, memory, Origin + 17)
    BY <2>1, RotateGoes
  <2>3. o.value = sum \div 2 /\ (CarryFlag \in o.status <=> sum % 2 = 1)
    <3>1. /\ o.value = (reg["a"] \div 2) + (IF Carried THEN 128 ELSE 0)
          /\ CarryFlag \in o.status <=> reg["a"] % 2 = 1
      BY <1>9, RotatesRight DEF Carried
    <3>2. PICK a \in Int : a = reg["a"] /\ a + 256 * (IF Carried THEN 1 ELSE 0) = sum
      BY <1>9, ByteRange
    <3> HIDE DEF o
    <3>3. (a \div 2) + (IF Carried THEN 128 ELSE 0) = sum \div 2 /\ a % 2 = sum % 2
      <4>1. CASE Carried
        BY <3>2, <4>1
      <4>2. CASE ~Carried
        BY <3>2, <4>2
      <4> QED
        BY <4>1, <4>2
    <3> QED
      BY <3>1, <3>2, <3>3
  <2> HIDE DEF o
  <2> QED
    BY <1>1, <1>5, <1>9, <2>2, <2>3, OthersKept DEF Goes, Carried
<1>10. CASE e > 1 /\ ProductAt(17, b, half, e - 1) /\ (Carried <=> sum % 2 = 1)
            /\ reg["a"] = sum \div 2
  <2>1. x = 1 /\ y = 0 /\ z = 7 /\ Wrap(pc_ + 1) = Origin + 18
    BY <1>10, ProductCode
  <2>2. Goes(Assigned("b", sum \div 2), status_, memory, Origin + 18)
    BY <1>10, <2>1, MovGoes, Numbered DEF M
  <2> QED
    BY <1>1, <1>3, <1>5, <1>10, <2>2, OthersKept DEF Goes, Carried
<1>11. CASE e > 1 /\ ProductAt(18, sum \div 2, half, e - 1) /\ (Carried <=> sum % 2 = 1)
  <2>1. x = 3 /\ y = 0 /\ z = 3 /\ Address = Origin + 4
    BY <1>11, ProductCode
  <2>2. Goes(reg, status_, memory, Origin + 4)
    BY <2>1, JmpGoes
  <2>3. /\ ProductAt(4, sum \div 2, half, e - 1)' /\ (Carried' <=> sum % 2 = 1) /\ e > 1
        /\ reg'["d"] = reg["d"] /\ UNCHANGED <<memory, iff_, hlt_, image>>
    BY <1>3, <1>11, <2>2 DEF Goes, Carried
  <2> QED
    BY <2>3 DEF Rotating, half, sum, bit
<1> QED
  BY <1>4, <1>6, <1>7, <1>8, <1>9, <1>10, <1>11

\* The machines that multiply bytes.
AreProducts ==
  \A i \in Images : i.kind = "product" =>
    \E m \in Byte, n \in Byte, flags \in SUBSET Flags :
      i = Machine("product", Multiplication, m, n, [c |-> m, d |-> n], flags)

\* The machine that is about to multiply.
LEMMA ProductBegins ==
  ASSUME Cells = SomeCells, AreProducts, Init
  PROVE  Multiplying
<1> SUFFICES ASSUME image.kind = "product" PROVE Multiplying
  BY DEF Multiplying
<1>1. PICK m \in Byte, n \in Byte, flags \in SUBSET Flags :
        image = Machine("product", Multiplication, m, n, [c |-> m, d |-> n], flags)
  BY DEF Init, AreProducts
<1> DEFINE given == [c |-> m, d |-> n]
<1>2. 22 \in 0..26 /\ DOMAIN Multiplication = 1..22
  BY DEF Multiplication
<1>3. /\ "c" \in Names /\ "d" \in Names /\ "c" \in DOMAIN given /\ "d" \in DOMAIN given
      /\ given["c"] = m /\ given["d"] = n
  BY DEF Names
<1> HIDE DEF given
<1>4. /\ Holding(Multiplication) /\ image.x = m /\ image.y = n
      /\ reg = [r \in Names |-> IF r \in DOMAIN given THEN given[r] ELSE 0]
      /\ pc_ = Origin /\ ~iff_ /\ ~hlt_
  <2>1. image = Machine("product", Multiplication, m, n, given, flags)
    BY <1>1 DEF given
  <2> QED
    BY <1>2, <2>1, MachineBegins
<1>5. reg["c"] = m /\ reg["d"] = n
  BY <1>3, <1>4
<1> QED
  BY <1>4, <1>5 DEF Multiplying

\* From instruction to instruction, until it halts.
LEMMA ProductSteps ==
  ASSUME Cells = SomeCells, Sound, Multiplying, [Next]_vars
  PROVE  Multiplying'
<1>1. image' = image
  BY ImageKept
<1> SUFFICES ASSUME image.kind = "product" PROVE Multiplying'
  BY <1>1 DEF Multiplying
<1>2. /\ ~iff_ /\ Holding(Multiplication)
      /\ image.x \in Byte /\ image.y \in Byte /\ reg["d"] = image.y
  BY DEF Multiplying
<1>3. {"a", "b", "c", "d", "e"} \subseteq Names
  BY DEF Names
<1>4. CASE Rests
  <2>1. Holding(Multiplication)' = Holding(Multiplication) /\ Multiplied' = Multiplied
    BY <1>4 DEF Rests, Holding, Multiplied
  <2>2. ASSUME NEW b, NEW k, NEW c, NEW e
        PROVE  Rotating(b, k, c, e)' = Rotating(b, k, c, e) /\ Adding(b, k, c, e)' = Adding(b, k, c, e)
    BY <1>4 DEF Rests, Rotating, Adding, ProductAt, Carried
  <2>3. /\ pc_' = pc_ /\ hlt_' = hlt_ /\ iff_' = iff_ /\ reg' = reg
    BY <1>4 DEF Rests
  <2> QED
    BY <1>1, <2>1, <2>2, <2>3 DEF Multiplying
<1>5. CASE ~hlt_ /\ Instruction
  <2>1. memory' = memory => Holding(Multiplication)'
    BY <1>1, <1>2, MemoryKept
  <2>2. CASE pc_ = Origin /\ reg["c"] = image.x
    <3>1. x = 0 /\ y = 0 /\ z = 6 /\ Data = 0 /\ Wrap(pc_ + 2) = Origin + 2
      BY <1>2, <2>2, ProductCode
    <3>2. Goes(Assigned("b", 0), status_, memory, Origin + 2)
      BY <1>5, <3>1, MviGoes, Numbered DEF M
    <3> QED
      BY <1>2, <1>3, <1>5, <2>1, <2>2, <3>2, OthersKept DEF Goes, Multiplying
  <2>3. CASE pc_ = Origin + 2 /\ reg["c"] = image.x /\ reg["b"] = 0
    <3>1. x = 0 /\ y = 3 /\ z = 6 /\ Data = 9 /\ Wrap(pc_ + 2) = Origin + 4
      BY <1>2, <2>3, ProductCode
    <3>2. Goes(Assigned("e", 9), status_, memory, Origin + 4)
      BY <1>5, <3>1, MviGoes, Numbered DEF M
    <3> DEFINE k == IF Carried THEN 1 ELSE 0
    <3>3. k \in {0, 1} /\ (Carried <=> k = 1)
      OBVIOUS
    <3> HIDE DEF k
    <3>4. Partial(image.x, image.y, 0, k, image.x, 9)
      BY <1>2, <3>3, PartialBegins
    <3>5. /\ pc_' = Origin + 4 /\ reg'["b"] = 0 /\ reg'["c"] = image.x /\ reg'["e"] = 9
          /\ reg'["d"] = image.y /\ Carried' = Carried
          /\ hlt_' = hlt_ /\ iff_' = iff_ /\ memory' = memory
      BY <1>3, <1>2, <2>3, <3>2, OthersKept DEF Goes, Carried
    <3>6. PICK w : w = k
      OBVIOUS
    <3>7. Rotating(0, w, image.x, 9)'
      BY <1>1, <3>3, <3>5, <3>6 DEF Rotating, ProductAt
    <3> QED
      BY <1>1, <1>2, <1>5, <2>1, <3>4, <3>5, <3>6, <3>7 DEF Multiplying
  <2>4. ASSUME NEW b, NEW k, NEW c, NEW e, Partial(image.x, image.y, b, k, c, e),
               Rotating(b, k, c, e)
        PROVE  Multiplying'
    <3>1. b \in Byte /\ k \in {0, 1} /\ c \in Byte /\ e \in 1..9
      BY <2>4 DEF Partial
    <3>2. /\ \/ Rotating(b, k, c, e)'
             \/ Adding(b, k, c, e)'
             \/ /\ e = 1 /\ pc_' = Origin + 21
                /\ reg'["b"] = b /\ reg'["c"] = 128 * k + (c \div 2)
          /\ reg'["d"] = reg["d"] /\ UNCHANGED <<memory, iff_, hlt_, image>>
      BY <1>2, <1>5, <2>4, <3>1, ProductRotates
    <3>3. CASE Rotating(b, k, c, e)' \/ Adding(b, k, c, e)'
      BY <1>2, <1>5, <2>1, <2>4, <3>2, <3>3 DEF Multiplying
    <3>4. CASE e = 1 /\ pc_' = Origin + 21 /\ reg'["b"] = b /\ reg'["c"] = 128 * k + (c \div 2)
      <4>1. Multiplied'
        BY <1>1, <1>2, <2>4, <3>4, PartialEnds DEF Multiplied
      <4> QED
        BY <1>2, <2>1, <3>2, <3>4, <4>1 DEF Multiplying
    <3> QED
      BY <3>2, <3>3, <3>4
  <2>5. ASSUME NEW b, NEW k, NEW c, NEW e, Partial(image.x, image.y, b, k, c, e),
               Adding(b, k, c, e)
        PROVE  Multiplying'
    <3>1. b \in Byte /\ k \in {0, 1} /\ c \in Byte /\ e \in 1..9
      BY <2>5 DEF Partial
    <3> DEFINE sum == b + (c % 2) * image.y
    <3>2. /\ Adding(b, k, c, e)'
             \/ (e > 1 /\ Rotating(sum \div 2, sum % 2, 128 * k + (c \div 2), e - 1)')
          /\ reg'["d"] = reg["d"] /\ UNCHANGED <<memory, iff_, hlt_, image>>
      BY <1>2, <1>5, <2>5, <3>1, ProductAdds
    <3>3. CASE Adding(b, k, c, e)'
      BY <1>2, <1>5, <2>1, <2>5, <3>2, <3>3 DEF Multiplying
    <3>4. CASE e > 1 /\ Rotating(sum \div 2, sum % 2, 128 * k + (c \div 2), e - 1)'
      <4>1. e \in 2..9
        BY <3>1, <3>4
      <4>2. Partial(image.x, image.y, sum \div 2, sum % 2, 128 * k + (c \div 2), e - 1)
        BY <1>2, <2>5, <4>1, PartialGoesOn
      <4>3. PICK b1, k1, c1, e1 :
              /\ b1 = sum \div 2 /\ k1 = sum % 2 /\ c1 = 128 * k + (c \div 2) /\ e1 = e - 1
        OBVIOUS
      <4>4. Partial(image.x, image.y, b1, k1, c1, e1)
        BY <4>2, <4>3
      <4>5. Rotating(b1, k1, c1, e1)'
        BY <1>1, <3>4, <4>3
      <4> HIDE DEF sum
      <4> QED
        BY <1>1, <1>2, <1>5, <2>1, <3>2, <4>4, <4>5 DEF Multiplying
    <3> QED
      BY <3>2, <3>3, <3>4
  <2>6. CASE pc_ = Origin + 21 /\ Multiplied
    <3>1. x = 1 /\ y = 6 /\ z = 6
      BY <1>2, <2>6, ProductCode
    <3>2. hlt_' /\ UNCHANGED <<reg, status_, memory, iff_, image>>
      BY <1>5, <3>1, HltGoes
    <3> QED
      BY <1>2, <2>1, <2>6, <3>2 DEF Multiplying, Multiplied
  <2> QED
    BY <1>5, <2>2, <2>3, <2>4, <2>5, <2>6 DEF Multiplying
<1> QED
  BY <1>2, <1>4, <1>5, QuietSteps

\* Rotating and adding through the carry multiplies any two bytes, whatever the carry
\* and the other flags are at first.
THEOREM ProductOfBytes ==
  ASSUME Cells = SomeCells, AreProducts
  PROVE  Spec => []Product
<1>1. Multiplying => Product
  BY DEF Multiplying, Product, Ended, Multiplied
<1> QED
  BY <1>1, ProductBegins, ProductSteps, SpecSound, PTL DEF Spec

-----------------------------------------------------------------------------
(* The bits of a byte.                                                     *)

\* The number of bits of a byte, as the sum of its binary digits.
Ones(v) ==
  ((v \div 1) % 2) + ((v \div 2) % 2) + ((v \div 4) % 2) + ((v \div 8) % 2)
  + ((v \div 16) % 2) + ((v \div 32) % 2) + ((v \div 64) % 2) + ((v \div 128) % 2)

\* A byte has the bits of its half and its lowest bit.
LEMMA OnesHalved ==
  ASSUME NEW v \in Byte
  PROVE  Ones(v) = Ones(v \div 2) + (v % 2) /\ Ones(v) \in 0..8
<1>1. v \in Int /\ 0 <= v /\ v <= 255
  BY ByteRange
<1>2. /\ (v \div 2) \div 1 = v \div 2 /\ (v \div 2) \div 2 = v \div 4
      /\ (v \div 2) \div 4 = v \div 8 /\ (v \div 2) \div 8 = v \div 16
      /\ (v \div 2) \div 16 = v \div 32 /\ (v \div 2) \div 32 = v \div 64
      /\ (v \div 2) \div 64 = v \div 128 /\ (v \div 2) \div 128 = 0 /\ v \div 1 = v
  BY <1>1
<1>3. Ones(v) = Ones(v \div 2) + (v % 2)
  BY <1>1, <1>2 DEF Ones
<1>4. \A m \in Int : m % 2 \in 0..1
  OBVIOUS
<1>5. /\ v \div 1 \in Int /\ v \div 2 \in Int /\ v \div 4 \in Int /\ v \div 8 \in Int
      /\ v \div 16 \in Int /\ v \div 32 \in Int /\ v \div 64 \in Int /\ v \div 128 \in Int
  BY <1>1
<1>6. /\ (v \div 1) % 2 \in 0..1 /\ (v \div 2) % 2 \in 0..1 /\ (v \div 4) % 2 \in 0..1
      /\ (v \div 8) % 2 \in 0..1 /\ (v \div 16) % 2 \in 0..1 /\ (v \div 32) % 2 \in 0..1
      /\ (v \div 64) % 2 \in 0..1 /\ (v \div 128) % 2 \in 0..1
  BY <1>4, <1>5
<1>7. Ones(v) \in 0..8
  BY <1>6 DEF Ones
<1> QED
  BY <1>3, <1>7

\* A set of bits grows by one of them.
LEMMA OneMore ==
  ASSUME NEW S, NEW i \in Bit, IsFiniteSet({j \in S \cap Bit : j < i})
  PROVE  /\ IsFiniteSet({j \in S \cap Bit : j < i + 1})
         /\ Cardinality({j \in S \cap Bit : j < i + 1})
              = Cardinality({j \in S \cap Bit : j < i}) + BitAt(S, i)
<1> DEFINE below == {j \in S \cap Bit : j < i}
           upTo == {j \in S \cap Bit : j < i + 1}
<1>1. Cardinality(below) \in Nat
  BY FS_CardinalityType
<1>2. CASE i \in S
  <2>1. upTo = below \cup {i} /\ i \notin below
    BY <1>2 DEF Bit
  <2> HIDE DEF below, upTo
  <2>2. IsFiniteSet(below)
    BY DEF below
  <2>3. IsFiniteSet(upTo) /\ Cardinality(upTo) = Cardinality(below) + 1
    BY <2>1, <2>2, FS_AddElement
  <2> QED
    BY <1>2, <2>3 DEF BitAt, below, upTo
<1>3. CASE i \notin S
  <2>1. upTo = below
    BY <1>3 DEF Bit
  <2> HIDE DEF below, upTo
  <2>2. IsFiniteSet(below)
    BY DEF below
  <2>3. IsFiniteSet(upTo) /\ Cardinality(upTo) = Cardinality(below) + BitAt(S, i)
    BY <1>1, <1>3, <2>1, <2>2 DEF BitAt
  <2> QED
    BY <2>3 DEF below, upTo
<1> QED
  BY <1>2, <1>3

\* The bits of a byte are as many as its digits that are one.
LEMMA OnesCounted ==
  ASSUME NEW v \in Byte
  PROVE  Cardinality(Bits(v)) = Ones(v)
<1> DEFINE S == Bits(v)
           below(i) == {j \in S \cap Bit : j < i}
           grown(i) == IsFiniteSet(below(i)) =>
                         /\ IsFiniteSet(below(i + 1))
                         /\ Cardinality(below(i + 1)) = Cardinality(below(i)) + BitAt(S, i)
<1>1. ASSUME NEW i \in Bit PROVE grown(i)
  <2>1. ASSUME IsFiniteSet(below(i))
        PROVE  /\ IsFiniteSet(below(i + 1))
               /\ Cardinality(below(i + 1)) = Cardinality(below(i)) + BitAt(S, i)
    <3> HIDE DEF S
    <3> QED
      BY <2>1, OneMore
  <2> QED
    BY <2>1
<1>2. below(0) = {} /\ below(8) = S
  <2>1. S \subseteq Bit
    BY BitsOne
  <2> HIDE DEF S
  <2>2. \A j \in Bit : ~(j < 0) /\ j < 8
    BY DEF Bit
  <2> QED
    BY <2>1, <2>2
<1>3. IsFiniteSet(below(0)) /\ Cardinality(below(0)) = 0
  BY <1>2, FS_EmptySet
<1>4. \A i \in {0, 1, 2, 3, 4, 5, 6, 7} : grown(i)
  <2>1. {0, 1, 2, 3, 4, 5, 6, 7} \subseteq Bit
    BY DEF Bit
  <2> HIDE DEF grown
  <2> QED
    BY <1>1, <2>1, Zenon
<1>5. /\ 0 + 1 = 1 /\ 1 + 1 = 2 /\ 2 + 1 = 3 /\ 3 + 1 = 4 /\ 4 + 1 = 5 /\ 5 + 1 = 6
      /\ 6 + 1 = 7 /\ 7 + 1 = 8
  OBVIOUS
<1> DEFINE one(i) == BitAt(S, i)
           size(i) == Cardinality(below(i))
           finite(i) == IsFiniteSet(below(i))
<1>6. \A i \in {0, 1, 2, 3, 4, 5, 6, 7} :
        finite(i) => finite(i + 1) /\ size(i + 1) = size(i) + one(i)
  BY <1>4
<1>7. finite(0) /\ size(0) = 0
  BY <1>3
<1> HIDE DEF one, size, finite
<1>8. /\ size(1) = size(0) + one(0) /\ size(2) = size(1) + one(1)
      /\ size(3) = size(2) + one(2) /\ size(4) = size(3) + one(3)
      /\ size(5) = size(4) + one(4) /\ size(6) = size(5) + one(5)
      /\ size(7) = size(6) + one(6) /\ size(8) = size(7) + one(7)
  BY <1>5, <1>6, <1>7
<1>9. /\ one(0) = (v \div 1) % 2 /\ one(1) = (v \div 2) % 2
      /\ one(2) = (v \div 4) % 2 /\ one(3) = (v \div 8) % 2
      /\ one(4) = (v \div 16) % 2 /\ one(5) = (v \div 32) % 2
      /\ one(6) = (v \div 64) % 2 /\ one(7) = (v \div 128) % 2
  <2>1. v \in Int
    BY ByteRange
  <2>2. ASSUME NEW m \in Int, NEW i, i \in Bits(v) <=> m % 2 = 1
        PROVE  one(i) = m % 2
    <3>1. m % 2 \in {0, 1}
      OBVIOUS
    <3> QED
      BY <2>2, <3>1 DEF BitAt, one
  <2>3. /\ v \div 1 \in Int /\ v \div 2 \in Int /\ v \div 4 \in Int /\ v \div 8 \in Int
        /\ v \div 16 \in Int /\ v \div 32 \in Int /\ v \div 64 \in Int /\ v \div 128 \in Int
    BY <2>1
  <2>4. one(0) = (v \div 1) % 2 /\ one(1) = (v \div 2) % 2
    BY <2>2, <2>3, BitsOne
  <2>5. one(2) = (v \div 4) % 2 /\ one(3) = (v \div 8) % 2
    BY <2>2, <2>3, BitsOne
  <2>6. one(4) = (v \div 16) % 2 /\ one(5) = (v \div 32) % 2
    BY <2>2, <2>3, BitsOne
  <2>7. one(6) = (v \div 64) % 2 /\ one(7) = (v \div 128) % 2
    BY <2>2, <2>3, BitsOne
  <2> QED
    BY <2>4, <2>5, <2>6, <2>7
<1>10. one(0) \in Int /\ one(1) \in Int /\ one(2) \in Int /\ one(3) \in Int
       /\ one(4) \in Int /\ one(5) \in Int /\ one(6) \in Int /\ one(7) \in Int
  BY DEF one, BitAt
<1>11. size(8) = one(0) + one(1) + one(2) + one(3) + one(4) + one(5) + one(6) + one(7)
  BY <1>7, <1>8, <1>10
<1>12. size(8) = Ones(v)
  BY <1>9, <1>11 DEF Ones
<1> QED
  BY <1>2, <1>12 DEF size

\* After n rotations the byte v, of which h are the n highest bits and l the others,
\* has changed the places of these.
Rolled(v, n, h, l) ==
  /\ n \in 0..8 /\ h \in Nat /\ l \in Nat
  /\ h < Weight(n + 1) /\ l < Weight(9 - n)
  /\ v = Weight(9 - n) * h + l

RolledByte(n, h, l) == Weight(n + 1) * l + h

\* The weights that come together to 256.
LEMMA Weights ==
  ASSUME NEW n \in 0..8
  PROVE  \/ n = 0 /\ Weight(n + 1) = 1 /\ Weight(9 - n) = 256
         \/ n = 1 /\ Weight(n + 1) = 2 /\ Weight(9 - n) = 128
         \/ n = 2 /\ Weight(n + 1) = 4 /\ Weight(9 - n) = 64
         \/ n = 3 /\ Weight(n + 1) = 8 /\ Weight(9 - n) = 32
         \/ n = 4 /\ Weight(n + 1) = 16 /\ Weight(9 - n) = 16
         \/ n = 5 /\ Weight(n + 1) = 32 /\ Weight(9 - n) = 8
         \/ n = 6 /\ Weight(n + 1) = 64 /\ Weight(9 - n) = 4
         \/ n = 7 /\ Weight(n + 1) = 128 /\ Weight(9 - n) = 2
         \/ n = 8 /\ Weight(n + 1) = 256 /\ Weight(9 - n) = 1
<1>1. /\ Weight(1) = 1 /\ Weight(2) = 2 /\ Weight(3) = 4 /\ Weight(4) = 8 /\ Weight(5) = 16
      /\ Weight(6) = 32 /\ Weight(7) = 64 /\ Weight(8) = 128 /\ Weight(9) = 256
  BY DEF Weight
<1>2. n \in {0, 1, 2, 3, 4, 5, 6, 7, 8}
  OBVIOUS
<1> QED
  BY <1>1, <1>2

\* A turned byte is a byte, and so are its parts.
LEMMA RolledIsByte ==
  ASSUME NEW v \in Byte, NEW n, NEW h, NEW l, Rolled(v, n, h, l)
  PROVE  RolledByte(n, h, l) \in Byte /\ h \in Byte
<1>1. n \in 0..8 /\ h \in Nat /\ l \in Nat
      /\ h < Weight(n + 1) /\ l < Weight(9 - n)
  BY DEF Rolled
<1> DEFINE a == RolledByte(n, h, l)
<1>2. a = Weight(n + 1) * l + h
  BY DEF RolledByte
<1> HIDE DEF a
<1>3. a \in Int /\ 0 <= a /\ a <= 255 /\ h <= 255
  BY <1>1, <1>2, Weights
<1> QED
  BY <1>1, <1>3, ByteRange DEF a

\* One more rotation.
LEMMA RollGoesOn ==
  ASSUME NEW v \in Byte, NEW n \in 0..7, NEW h, NEW l, Rolled(v, n, h, l)
  PROVE  LET a == RolledByte(n, h, l)
             bit == IF a >= 128 THEN 1 ELSE 0
             rest == IF a >= 128 THEN l - Weight(8 - n) ELSE l
         IN  /\ Rolled(v, n + 1, 2 * h + bit, rest)
             /\ RolledByte(n + 1, 2 * h + bit, rest) = ((2 * a) % 256) + bit
<1> DEFINE a == RolledByte(n, h, l)
           p == Weight(n + 1)
           q == Weight(8 - n)
<1>1. /\ n \in Int /\ n + 1 \in 0..8 /\ (n + 1) + 1 = n + 2 /\ 9 - (n + 1) = 8 - n
  OBVIOUS
<1>2. \/ p = 1 /\ q = 128
      \/ p = 2 /\ q = 64
      \/ p = 4 /\ q = 32
      \/ p = 8 /\ q = 16
      \/ p = 16 /\ q = 8
      \/ p = 32 /\ q = 4
      \/ p = 64 /\ q = 2
      \/ p = 128 /\ q = 1
  <2>1. n \in {0, 1, 2, 3, 4, 5, 6, 7}
    OBVIOUS
  <2>2. /\ Weight(1) = 1 /\ Weight(2) = 2 /\ Weight(3) = 4 /\ Weight(4) = 8 /\ Weight(5) = 16
        /\ Weight(6) = 32 /\ Weight(7) = 64 /\ Weight(8) = 128 /\ Weight(9) = 256
    BY DEF Weight
  <2> QED
    BY <2>1, <2>2
<1>3. Weight(n + 2) = 2 * p /\ Weight(9 - n) = 2 * q
  <2>1. n \in {0, 1, 2, 3, 4, 5, 6, 7}
    OBVIOUS
  <2>2. /\ Weight(1) = 1 /\ Weight(2) = 2 /\ Weight(3) = 4 /\ Weight(4) = 8 /\ Weight(5) = 16
        /\ Weight(6) = 32 /\ Weight(7) = 64 /\ Weight(8) = 128 /\ Weight(9) = 256
    BY DEF Weight
  <2> QED
    BY <2>1, <2>2
<1>4. /\ h \in Nat /\ l \in Nat /\ h < p /\ l < 2 * q /\ v = 2 * q * h + l /\ a = p * l + h
  BY <1>3 DEF Rolled, RolledByte
<1>5. Rolled(v, n + 1, 2 * h + 1, l - q) <=>
        /\ 2 * h + 1 \in Nat /\ l - q \in Nat /\ 2 * h + 1 < 2 * p /\ l - q < q
        /\ v = q * (2 * h + 1) + (l - q)
  BY <1>1, <1>3 DEF Rolled
<1>6. Rolled(v, n + 1, 2 * h + 0, l) <=>
        /\ 2 * h + 0 \in Nat /\ l \in Nat /\ 2 * h + 0 < 2 * p /\ l < q
        /\ v = q * (2 * h + 0) + l
  BY <1>1, <1>3 DEF Rolled
<1>7. /\ RolledByte(n + 1, 2 * h + 1, l - q) = 2 * p * (l - q) + (2 * h + 1)
      /\ RolledByte(n + 1, 2 * h + 0, l) = 2 * p * l + (2 * h + 0)
  BY <1>1, <1>3 DEF RolledByte
<1> DEFINE t == p * l
           u == q * h
<1> HIDE DEF a, p, q
<1>8. /\ p \in Nat /\ q \in Nat /\ p > 0 /\ p * q = 128
  BY <1>2
<1>9. /\ t \in Int /\ u \in Int /\ a = t + h /\ v = 2 * u + l
       /\ q * (2 * h + 1) = 2 * u + q /\ q * (2 * h + 0) = 2 * u
       /\ 2 * p * l = 2 * t /\ 2 * p * (l - q) = 2 * t - 256
  <2>1. /\ h \in Int /\ l \in Int /\ p \in Int /\ q \in Int
    BY <1>4, <1>8
  <2>2. t \in Int /\ u \in Int
    BY <2>1
  <2>3. 2 * q * h = 2 * u /\ 2 * p * l = 2 * t
    BY <2>1
  <2>4. q * (2 * h + 1) = 2 * u + q /\ q * (2 * h + 0) = 2 * u
    BY <2>1
  <2>5. 2 * p * (l - q) = 2 * t - 2 * (p * q)
    BY <2>1
  <2> QED
    BY <1>4, <1>8, <2>2, <2>3, <2>4, <2>5
<1>10. a >= 128 <=> l >= q
  <2>1. ASSUME l >= q PROVE t >= 128
    <3>1. PICK e \in Nat : l = q + e
      BY <1>4, <1>8, <2>1
    <3>2. t = p * q + p * e /\ p * e >= 0
      BY <1>8, <3>1
    <3> QED
      BY <1>8, <3>2
  <2>2. ASSUME ~(l >= q) PROVE t <= 128 - p
    <3>1. PICK e \in Nat : q = l + 1 + e
      <4>1. q - l - 1 \in Nat
        BY <1>4, <1>8, <2>2
      <4> QED
        BY <1>4, <1>8, <4>1
    <3>2. p * q = t + p + p * e /\ p * e >= 0 /\ p * e \in Int
      BY <1>4, <1>8, <3>1
    <3> QED
      BY <1>8, <1>9, <3>2
  <2> QED
    BY <1>4, <1>8, <1>9, <2>1, <2>2
<1>11. 0 <= a /\ a <= 255 /\ a \in Int
  <2>1. a \in Byte
    BY RolledIsByte DEF a
  <2> QED
    BY <2>1, ByteRange
<1> HIDE DEF t, u
<1>12. CASE a >= 128
  <2>1. /\ 2 * h + 1 \in Nat /\ l - q \in Nat /\ 2 * h + 1 < 2 * p /\ l - q < q
        /\ v = q * (2 * h + 1) + (l - q)
        /\ 2 * p * (l - q) + (2 * h + 1) = ((2 * a) % 256) + 1
    BY <1>4, <1>12, <1>8, <1>9, <1>10, <1>11
  <2>2. Rolled(v, n + 1, 2 * h + 1, l - q)
    BY <1>5, <2>1
  <2>3. RolledByte(n + 1, 2 * h + 1, l - q) = ((2 * a) % 256) + 1
    BY <1>7, <2>1
  <2> QED
    BY <1>12, <2>2, <2>3 DEF a, q
<1>13. CASE ~(a >= 128)
  <2>1. /\ 2 * h + 0 \in Nat /\ l \in Nat /\ 2 * h + 0 < 2 * p /\ l < q
        /\ v = q * (2 * h + 0) + l
        /\ 2 * p * l + (2 * h + 0) = ((2 * a) % 256) + 0
    BY <1>4, <1>13, <1>8, <1>9, <1>10, <1>11
  <2>2. Rolled(v, n + 1, 2 * h + 0, l)
    BY <1>6, <2>1
  <2>3. RolledByte(n + 1, 2 * h + 0, l) = ((2 * a) % 256) + 0
    BY <1>7, <2>1
  <2> QED
    BY <1>13, <2>2, <2>3 DEF a
<1> QED
  BY <1>12, <1>13

\* Before the first rotation, and after the eighth.
LEMMA RollsRound ==
  ASSUME NEW v \in Byte
  PROVE  /\ Rolled(v, 0, 0, v) /\ RolledByte(0, 0, v) = v
         /\ \A h, l : Rolled(v, 8, h, l) => h = v /\ RolledByte(8, h, l) = v
<1>1. v \in Int /\ 0 <= v /\ v <= 255
  BY ByteRange
<1>2. Weight(0 + 1) = 1 /\ Weight(9 - 0) = 256 /\ Weight(8 + 1) = 256 /\ Weight(9 - 8) = 1
  <2>1. 0 + 1 = 1 /\ 9 - 0 = 9 /\ 8 + 1 = 9 /\ 9 - 8 = 1
    OBVIOUS
  <2>2. Weight(1) = 1 /\ Weight(9) = 256
    BY DEF Weight
  <2> QED
    BY <2>1, <2>2
<1>3. Rolled(v, 0, 0, v) /\ RolledByte(0, 0, v) = v
  BY <1>1, <1>2 DEF Rolled, RolledByte
<1>4. ASSUME NEW h, NEW l, Rolled(v, 8, h, l)
      PROVE  h = v /\ RolledByte(8, h, l) = v
  <2>1. h \in Nat /\ l \in Nat /\ l < 1 /\ v = 1 * h + l
    BY <1>2, <1>4 DEF Rolled
  <2>2. RolledByte(8, h, l) = 256 * l + h
    BY <1>2 DEF RolledByte
  <2> QED
    BY <2>1, <2>2
<1> QED
  BY <1>3, <1>4

\* The bit that leaves a byte on the left enters on the right.
LEMMA RotatesLeft ==
  ASSUME NEW s, NEW a \in Byte
  PROVE  LET o == Rotate(0, s, a)
         IN  /\ o.value = ((2 * a) % 256) + (IF a >= 128 THEN 1 ELSE 0)
             /\ CarryFlag \in o.status <=> a >= 128
<1> DEFINE o == Rotate(0, s, a)
<1>1. 7 \in Bits(a) <=> a >= 128
  <2>1. a \in Int /\ 0 <= a /\ a <= 255
    BY ByteRange
  <2>2. 7 \in Bits(a) <=> (a \div 128) % 2 = 1
    BY BitsOne
  <2> QED
    BY <2>1, <2>2
<1>2. o.value = ((2 * a) % 256) + (IF 7 \in Bits(a) THEN 1 ELSE 0)
  BY DEF Rotate
<1>3. CarryFlag \in o.status <=> 7 \in Bits(a)
  BY DEF Rotate, With
<1> HIDE DEF o
<1> QED
  BY <1>1, <1>2, <1>3 DEF o

\* ANA of a byte with itself leaves the byte and tells the parity of its bits.
LEMMA ParityTold ==
  ASSUME NEW s, NEW a \in Byte
  PROVE  LET o == Alu(4, s, a, a)
         IN  /\ o.value = a
             /\ ParityFlag \in o.status <=> Ones(a) % 2 = 0
<1> DEFINE v == Value(Bits(a))
           o == Ana(s, a, a)
<1>1. Alu(4, s, a, a) = o
  BY DEF Alu
<1>2. v = a
  BY ValueOfBits
<1>3. Bits(a) \cap Bits(a) = Bits(a)
  OBVIOUS
<1>4. o = Outcome(s, a, FALSE, 3 \in Bits(a) \cup Bits(a))
  BY <1>2, <1>3 DEF Ana
<1> HIDE DEF o
<1>5. o.value = a
  BY <1>4 DEF Outcome
<1>6. ParityFlag \in o.status <=> ParityFlag \in Signs(a)
  BY <1>4 DEF Outcome, With, CarryFlag, AuxCarryFlag, ParityFlag, Flags
<1>7. ParityFlag \in Signs(a) <=> Cardinality(Bits(a)) % 2 = 0
  BY DEF Signs, ZeroFlag, SignFlag, ParityFlag
<1> QED
  BY <1>1, <1>5, <1>6, <1>7, OnesCounted

\* The bytes of BitCount as they are decoded.
LEMMA BitCode ==
  ASSUME Cells = SomeCells, Sound, Holding(BitCount)
  PROVE  /\ pc_ = Origin => x = 0 /\ y = 1 /\ z = 6 /\ Data = 0 /\ Wrap(pc_ + 2) = Origin + 2
         /\ pc_ = Origin + 2 =>
              x = 0 /\ y = 0 /\ z = 6 /\ Data = 8 /\ Wrap(pc_ + 2) = Origin + 4
         /\ pc_ = Origin + 4 => x = 0 /\ y = 0 /\ z = 7 /\ Wrap(pc_ + 1) = Origin + 5
         /\ pc_ = Origin + 5 =>
              /\ x = 3 /\ y = 2 /\ z = 2
              /\ Address = Origin + 9 /\ Wrap(pc_ + 3) = Origin + 8
         /\ pc_ = Origin + 8 => x = 0 /\ y = 1 /\ z = 4 /\ Wrap(pc_ + 1) = Origin + 9
         /\ pc_ = Origin + 9 => x = 0 /\ y = 0 /\ z = 5 /\ Wrap(pc_ + 1) = Origin + 10
         /\ pc_ = Origin + 10 =>
              /\ x = 3 /\ y = 0 /\ z = 2
              /\ Address = Origin + 4 /\ Wrap(pc_ + 3) = Origin + 13
         /\ pc_ = Origin + 13 => x = 2 /\ y = 4 /\ z = 7 /\ Wrap(pc_ + 1) = Origin + 14
         /\ pc_ = Origin + 14 => x = 1 /\ y = 6 /\ z = 6
<1> DEFINE m(i) == memory[Origin + i]
<1>1. /\ m(0) = 14 /\ m(1) = 0 /\ m(2) = 6 /\ m(3) = 8 /\ m(4) = 7 /\ m(5) = 210
      /\ m(6) = 3 /\ m(7) = 1 /\ m(8) = 12 /\ m(9) = 5 /\ m(10) = 194 /\ m(11) = 254
      /\ m(12) = 0 /\ m(13) = 167 /\ m(14) = 118
  <2>1. DOMAIN BitCount = 1..15
    BY DEF BitCount
  <2>2. \A i \in 1..15 : memory[Origin + i - 1] = BitCount[i]
    BY <2>1 DEF Holding
  <2> QED
    BY <2>2 DEF BitCount, Origin, Lo, Hi, HLT
<1>2. ASSUME NEW i \in 0..14, pc_ = Origin + i
      PROVE  /\ x = m(i) \div 64 /\ y = (m(i) \div 8) % 8 /\ z = m(i) % 8
             /\ Data = m(i + 1) /\ Address = m(i + 2) * 256 + m(i + 1)
             /\ Wrap(pc_ + 1) = Origin + (i + 1) /\ Wrap(pc_ + 2) = Origin + (i + 2)
             /\ Wrap(pc_ + 3) = Origin + (i + 3)
  BY <1>2, Fetching DEF x, y, z, Origin
<1> HIDE DEF m
<1>3. \A i \in 0..14 : pc_ = 250 + i =>
        /\ x = m(i) \div 64 /\ y = (m(i) \div 8) % 8 /\ z = m(i) % 8
        /\ Data = m(i + 1) /\ Address = m(i + 2) * 256 + m(i + 1)
        /\ Wrap(pc_ + 1) = 250 + (i + 1) /\ Wrap(pc_ + 2) = 250 + (i + 2)
        /\ Wrap(pc_ + 3) = 250 + (i + 3)
  BY <1>2 DEF Origin
<1> QED
  BY <1>1, <1>3 DEF Origin

\* The registers of BitCount at its instruction i.
BitsAt(i, a, b, c) ==
  pc_ = Origin + i /\ reg["a"] = a /\ reg["b"] = b /\ reg["c"] = c

\* The places of one round: after n rotations, of which the last has just been done in
\* all but the first place, c counts the bits that have left, h.
Rolling(n, h, l) ==
  LET a == RolledByte(n, h, l)
  IN  \/ n < 8 /\ BitsAt(4, a, 8 - n, Ones(h))
      \/ n > 0 /\ BitsAt(5, a, 9 - n, Ones(h \div 2)) /\ (Carried <=> h % 2 = 1)
      \/ n > 0 /\ BitsAt(8, a, 9 - n, Ones(h \div 2)) /\ h % 2 = 1
      \/ n > 0 /\ BitsAt(9, a, 9 - n, Ones(h))
      \/ n > 0 /\ BitsAt(10, a, 8 - n, Ones(h)) /\ (ZeroFlag \in status_ <=> n = 8)

\* The byte is back, its bits are counted.
Counted == reg["a"] = image.x /\ reg["c"] = Ones(image.x)

\* What is true in a machine that counts bits.
Counting ==
  image.kind = "bits" =>
    /\ ~iff_ /\ Holding(BitCount) /\ image.x \in Byte
    /\ \/ ~hlt_ /\ pc_ = Origin /\ reg["a"] = image.x
       \/ ~hlt_ /\ pc_ = Origin + 2 /\ reg["a"] = image.x /\ reg["c"] = 0
       \/ ~hlt_ /\ \E n, h, l : Rolled(image.x, n, h, l) /\ Rolling(n, h, l)
       \/ ~hlt_ /\ pc_ = Origin + 13 /\ Counted
       \/ /\ ~hlt_ => pc_ = Origin + 14
          /\ Counted /\ (ParityFlag \in status_ <=> Ones(image.x) % 2 = 0)

\* INR of a small number.
LEMMA IncrementValue ==
  ASSUME NEW s, NEW a \in 0..8
  PROVE  Incremented(s, a).value = a + 1
BY DEF Incremented, Add, Outcome

\* The rotation, which ends a round or does not count.
LEMMA BitsRoll ==
  ASSUME Cells = SomeCells, Sound, Holding(BitCount), Instruction,
         NEW v \in Byte, NEW n, NEW h, NEW l, Rolled(v, n, h, l),
         n < 8, BitsAt(4, RolledByte(n, h, l), 8 - n, Ones(h))
  PROVE  /\ \E n1, h1, l1 : Rolled(v, n1, h1, l1) /\ Rolling(n1, h1, l1)'
         /\ UNCHANGED <<memory, iff_, hlt_, image>>
<1> DEFINE a == RolledByte(n, h, l)
           bit == IF a >= 128 THEN 1 ELSE 0
           rest == IF a >= 128 THEN l - Weight(8 - n) ELSE l
           high == 2 * h + bit
           o == Rotate(0, status_, a)
<1>1. n \in 0..7 /\ h \in Byte /\ a \in Byte
  BY RolledIsByte DEF Rolled
<1>2. Rolled(v, n + 1, high, rest) /\ RolledByte(n + 1, high, rest) = ((2 * a) % 256) + bit
  BY <1>1, RollGoesOn
<1>3. Goes(Assigned("a", o.value), o.status, memory, Origin + 5)
  <2>1. x = 0 /\ y = 0 /\ z = 7 /\ Wrap(pc_ + 1) = Origin + 5
    BY BitCode DEF BitsAt
  <2> QED
    BY <2>1, RotateGoes DEF BitsAt
<1>4. o.value = RolledByte(n + 1, high, rest) /\ (CarryFlag \in o.status <=> bit = 1)
  BY <1>1, <1>2, RotatesLeft
<1>5. high \div 2 = h /\ high % 2 = bit
  <2>1. h \in Int /\ 0 <= h /\ bit \in {0, 1}
    BY <1>1, ByteRange
  <2> HIDE DEF bit
  <2> QED
    BY <2>1
<1> HIDE DEF bit, rest, high, o, a
<1>6. /\ reg'["a"] = RolledByte(n + 1, high, rest) /\ reg'["b"] = 9 - (n + 1)
      /\ reg'["c"] = Ones(high \div 2) /\ (Carried' <=> high % 2 = 1)
      /\ pc_' = Origin + 5 /\ n + 1 > 0 /\ UNCHANGED <<memory, iff_, hlt_, image>>
  <2>1. {"a", "b", "c"} \subseteq Names /\ 9 - (n + 1) = 8 - n /\ n + 1 > 0
    BY <1>1 DEF Names
  <2>2. reg'["a"] = o.value /\ reg'["b"] = reg["b"] /\ reg'["c"] = reg["c"]
    BY <1>3, <2>1, OthersKept DEF Goes
  <2> QED
    BY <1>3, <1>4, <1>5, <2>1, <2>2 DEF Goes, BitsAt, Carried
<1>7. PICK n1, h1, l1 : n1 = n + 1 /\ h1 = high /\ l1 = rest
  OBVIOUS
<1>8. Rolled(v, n1, h1, l1) /\ Rolling(n1, h1, l1)'
  BY <1>2, <1>6, <1>7 DEF Rolling, BitsAt
<1> QED
  BY <1>6, <1>8

\* What follows a rotation: the bit is counted, and so is the round.
LEMMA BitsCount ==
  ASSUME Cells = SomeCells, Sound, Holding(BitCount), Instruction,
         NEW v \in Byte, NEW n, NEW h, NEW l, Rolled(v, n, h, l), Rolling(n, h, l),
         pc_ # Origin + 4
  PROVE  /\ \/ Rolling(n, h, l)'
            \/ n = 8 /\ pc_' = Origin + 13
               /\ reg'["a"] = RolledByte(n, h, l) /\ reg'["c"] = Ones(h)
         /\ UNCHANGED <<memory, iff_, hlt_, image>>
<1> DEFINE a == RolledByte(n, h, l)
<1>1. n \in 0..8 /\ h \in Byte /\ {"a", "b", "c"} \subseteq Names
  BY RolledIsByte DEF Rolled, Names
<1>2. Ones(h) = Ones(h \div 2) + (h % 2) /\ Ones(h) \in 0..8 /\ Ones(h \div 2) \in 0..8
  <2>1. h \div 2 \in Byte
    BY <1>1, ByteRange
  <2> QED
    BY <1>1, <2>1, OnesHalved
<1>3. h % 2 \in {0, 1}
  BY <1>1, ByteRange
<1> HIDE DEF a
<1> USE DEF BitsAt
<1>4. CASE n > 0 /\ BitsAt(5, a, 9 - n, Ones(h \div 2)) /\ (Carried <=> h % 2 = 1)
  <2>1. /\ x = 3 /\ y = 2 /\ z = 2
        /\ Address = Origin + 9 /\ Wrap(pc_ + 3) = Origin + 8
    BY <1>4, BitCode
  <2>2. Holds <=> ~Carried
    <3>1. Pair = 1 /\ y \notin Odd
      BY <2>1 DEF Pair, Odd
    <3> QED
      BY <3>1 DEF Holds, Carried
  <2>3. Goes(reg, status_, memory, IF h % 2 = 1 THEN Origin + 8 ELSE Origin + 9)
    BY <1>4, <2>1, <2>2, JumpGoes
  <2>4. CASE h % 2 = 1
    BY <1>4, <2>3, <2>4 DEF Goes, Rolling, a
  <2>5. CASE h % 2 = 0
    <3>1. Ones(h) = Ones(h \div 2)
      BY <1>2, <2>5
    <3> QED
      BY <1>4, <2>3, <2>5, <3>1 DEF Goes, Rolling, a
  <2> QED
    BY <1>3, <2>4, <2>5
<1>5. CASE n > 0 /\ BitsAt(8, a, 9 - n, Ones(h \div 2)) /\ h % 2 = 1
  <2>1. x = 0 /\ y = 1 /\ z = 4 /\ Wrap(pc_ + 1) = Origin + 9
    BY <1>5, BitCode
  <2> DEFINE o == Incremented(status_, Ones(h \div 2))
  <2>2. Goes(Assigned("c", o.value), o.status, memory, Origin + 9)
    BY <1>5, <2>1, InrGoes, Numbered DEF M
  <2>3. o.value = Ones(h)
    BY <1>2, <1>5, IncrementValue
  <2> HIDE DEF o
  <2>4. reg'["c"] = Ones(h) /\ reg'["a"] = reg["a"] /\ reg'["b"] = reg["b"]
    BY <1>1, <2>2, <2>3, OthersKept DEF Goes
  <2> QED
    BY <1>5, <2>2, <2>4 DEF Goes, Rolling, a
<1>6. CASE n > 0 /\ BitsAt(9, a, 9 - n, Ones(h))
  <2>1. x = 0 /\ y = 0 /\ z = 5 /\ Wrap(pc_ + 1) = Origin + 10
    BY <1>6, BitCode
  <2> DEFINE o == Decremented(status_, 9 - n)
  <2>2. Goes(Assigned("b", o.value), o.status, memory, Origin + 10)
    BY <1>6, <2>1, DcrGoes, Numbered DEF M
  <2>3. o.value = 8 - n /\ (ZeroFlag \in o.status <=> n = 8)
    <3>1. 9 - n \in Byte /\ ((9 - n) + 255) % 256 = 8 - n
      BY <1>1, <1>6, ByteRange
    <3>2. /\ o.value = ((9 - n) + 255) % 256
          /\ ZeroFlag \in o.status <=> o.value = 0
      BY <3>1, DecrementFlags
    <3> HIDE DEF o
    <3> QED
      BY <1>1, <3>1, <3>2
  <2> HIDE DEF o
  <2>4. reg'["b"] = 8 - n /\ reg'["a"] = reg["a"] /\ reg'["c"] = reg["c"]
    BY <1>1, <2>2, <2>3, OthersKept DEF Goes
  <2> QED
    BY <1>6, <2>2, <2>3, <2>4 DEF Goes, Rolling, a
<1>7. CASE n > 0 /\ BitsAt(10, a, 8 - n, Ones(h)) /\ (ZeroFlag \in status_ <=> n = 8)
  <2>1. /\ x = 3 /\ y = 0 /\ z = 2
        /\ Address = Origin + 4 /\ Wrap(pc_ + 3) = Origin + 13
    BY <1>7, BitCode
  <2>2. Holds <=> n # 8
    <3>1. Pair = 0 /\ y \notin Odd
      BY <2>1 DEF Pair, Odd
    <3>2. Holds <=> ZeroFlag \notin status_
      BY <3>1 DEF Holds
    <3> QED
      BY <1>7, <3>2
  <2>3. Goes(reg, status_, memory, IF n = 8 THEN Origin + 13 ELSE Origin + 4)
    BY <2>1, <2>2, JumpGoes
  <2>4. n = 8 \/ n < 8
    BY <1>1
  <2> QED
    BY <1>7, <2>3, <2>4 DEF Goes, Rolling, a
<1> QED
  BY <1>4, <1>5, <1>6, <1>7 DEF Rolling, a

\* The machines that count bits.
AreBits ==
  \A i \in Images : i.kind = "bits" =>
    \E m \in Byte, flags \in SUBSET Flags :
      i = Machine("bits", BitCount, m, 0, [a |-> m], flags)

\* The machine that is about to count.
LEMMA BitsBegin ==
  ASSUME Cells = SomeCells, AreBits, Init
  PROVE  Counting
<1> SUFFICES ASSUME image.kind = "bits" PROVE Counting
  BY DEF Counting
<1>1. PICK m \in Byte, flags \in SUBSET Flags :
        image = Machine("bits", BitCount, m, 0, [a |-> m], flags)
  BY DEF Init, AreBits
<1> DEFINE given == [a |-> m]
<1>2. 15 \in 0..26 /\ DOMAIN BitCount = 1..15
  BY DEF BitCount
<1>3. "a" \in Names /\ "a" \in DOMAIN given /\ given["a"] = m
  BY DEF Names
<1> HIDE DEF given
<1>4. /\ Holding(BitCount) /\ image.x = m
      /\ reg = [r \in Names |-> IF r \in DOMAIN given THEN given[r] ELSE 0]
      /\ pc_ = Origin /\ ~iff_ /\ ~hlt_
  <2>1. image = Machine("bits", BitCount, m, 0, given, flags)
    BY <1>1 DEF given
  <2> QED
    BY <1>2, <2>1, MachineBegins
<1>5. reg["a"] = m
  BY <1>3, <1>4
<1> QED
  BY <1>4, <1>5 DEF Counting

\* From instruction to instruction, until it halts.
LEMMA BitsStep ==
  ASSUME Cells = SomeCells, Sound, Counting, [Next]_vars
  PROVE  Counting'
<1>1. image' = image
  BY ImageKept
<1> SUFFICES ASSUME image.kind = "bits" PROVE Counting'
  BY <1>1 DEF Counting
<1>2. ~iff_ /\ Holding(BitCount) /\ image.x \in Byte
  BY DEF Counting
<1>3. {"a", "b", "c"} \subseteq Names
  BY DEF Names
<1>4. CASE Rests
  <2>1. Holding(BitCount)' = Holding(BitCount) /\ Counted' = Counted
    BY <1>4 DEF Rests, Holding, Counted
  <2>2. ASSUME NEW n, NEW h, NEW l
        PROVE  Rolling(n, h, l)' = Rolling(n, h, l)
    BY <1>4 DEF Rests, Rolling, BitsAt, Carried
  <2>3. pc_' = pc_ /\ hlt_' = hlt_ /\ iff_' = iff_ /\ reg' = reg /\ status_' = status_
    BY <1>4 DEF Rests
  <2> QED
    BY <1>1, <2>1, <2>2, <2>3 DEF Counting
<1>5. CASE ~hlt_ /\ Instruction
  <2>1. memory' = memory => Holding(BitCount)'
    BY <1>1, <1>2, MemoryKept
  <2>2. CASE pc_ = Origin /\ reg["a"] = image.x
    <3>1. x = 0 /\ y = 1 /\ z = 6 /\ Data = 0 /\ Wrap(pc_ + 2) = Origin + 2
      BY <1>2, <2>2, BitCode
    <3>2. Goes(Assigned("c", 0), status_, memory, Origin + 2)
      BY <1>5, <3>1, MviGoes, Numbered DEF M
    <3> QED
      BY <1>2, <1>3, <1>5, <2>1, <2>2, <3>2, OthersKept DEF Goes, Counting
  <2>3. CASE pc_ = Origin + 2 /\ reg["a"] = image.x /\ reg["c"] = 0
    <3>1. x = 0 /\ y = 0 /\ z = 6 /\ Data = 8 /\ Wrap(pc_ + 2) = Origin + 4
      BY <1>2, <2>3, BitCode
    <3>2. Goes(Assigned("b", 8), status_, memory, Origin + 4)
      BY <1>5, <3>1, MviGoes, Numbered DEF M
    <3>3. /\ Rolled(image.x, 0, 0, image.x) /\ RolledByte(0, 0, image.x) = image.x
          /\ Ones(0) = 0 /\ 0 < 8 /\ 8 - 0 = 8
      BY <1>2, RollsRound DEF Ones
    <3>4. /\ pc_' = Origin + 4 /\ reg'["a"] = image.x /\ reg'["b"] = 8 /\ reg'["c"] = 0
          /\ hlt_' = hlt_ /\ iff_' = iff_ /\ memory' = memory
      BY <1>3, <2>3, <3>2, OthersKept DEF Goes
    <3>5. PICK n, h : n = 0 /\ h = 0
      OBVIOUS
    <3>6. Rolling(n, h, image.x)' /\ Rolled(image.x, n, h, image.x)
      BY <1>1, <3>3, <3>4, <3>5 DEF Rolling, BitsAt
    <3> QED
      BY <1>1, <1>2, <1>5, <2>1, <3>4, <3>6 DEF Counting
  <2>4. ASSUME NEW n, NEW h, NEW l, Rolled(image.x, n, h, l), Rolling(n, h, l)
        PROVE  Counting'
    <3>1. CASE pc_ = Origin + 4
      <4>1. n < 8 /\ BitsAt(4, RolledByte(n, h, l), 8 - n, Ones(h))
        BY <2>4, <3>1 DEF Rolling, BitsAt, Origin
      <4>2. /\ \E n1, h1, l1 : Rolled(image.x, n1, h1, l1) /\ Rolling(n1, h1, l1)'
            /\ UNCHANGED <<memory, iff_, hlt_, image>>
        BY <1>2, <1>5, <2>4, <4>1, BitsRoll
      <4> QED
        BY <1>2, <1>5, <2>1, <4>2 DEF Counting
    <3>2. CASE pc_ # Origin + 4
      <4>1. /\ \/ Rolling(n, h, l)'
               \/ n = 8 /\ pc_' = Origin + 13
                  /\ reg'["a"] = RolledByte(n, h, l) /\ reg'["c"] = Ones(h)
            /\ UNCHANGED <<memory, iff_, hlt_, image>>
        BY <1>2, <1>5, <2>4, <3>2, BitsCount
      <4>2. CASE Rolling(n, h, l)'
        BY <1>2, <1>5, <2>1, <2>4, <4>1, <4>2 DEF Counting
      <4>3. CASE n = 8 /\ pc_' = Origin + 13
                 /\ reg'["a"] = RolledByte(n, h, l) /\ reg'["c"] = Ones(h)
        <5>1. h = image.x /\ RolledByte(8, h, l) = image.x
          BY <1>2, <2>4, <4>3, RollsRound
        <5>2. Counted'
          BY <1>1, <4>3, <5>1 DEF Counted
        <5> QED
          BY <1>2, <1>5, <2>1, <4>1, <4>3, <5>2 DEF Counting
      <4> QED
        BY <4>1, <4>2, <4>3
    <3> QED
      BY <3>1, <3>2
  <2>5. CASE pc_ = Origin + 13 /\ Counted
    <3>1. x = 2 /\ y = 4 /\ z = 7 /\ Wrap(pc_ + 1) = Origin + 14
      BY <1>2, <2>5, BitCode
    <3> DEFINE o == Alu(4, status_, image.x, image.x)
    <3>2. Operand(7) = reg["a"]
      BY Numbered DEF Operand, M
    <3>3. Goes(Assigned("a", o.value), o.status, memory, Origin + 14)
      BY <1>5, <2>5, <3>1, <3>2, AluGoes DEF Counted
    <3>4. o.value = image.x /\ (ParityFlag \in o.status <=> Ones(image.x) % 2 = 0)
      BY <1>2, ParityTold
    <3> HIDE DEF o
    <3>5. reg'["a"] = image.x /\ reg'["c"] = reg["c"]
      BY <1>3, <3>3, <3>4, OthersKept DEF Goes
    <3> QED
      BY <1>1, <1>2, <1>5, <2>1, <2>5, <3>3, <3>4, <3>5 DEF Goes, Counting, Counted
  <2>6. CASE pc_ = Origin + 14 /\ Counted /\ (ParityFlag \in status_ <=> Ones(image.x) % 2 = 0)
    <3>1. x = 1 /\ y = 6 /\ z = 6
      BY <1>2, <2>6, BitCode
    <3>2. hlt_' /\ UNCHANGED <<reg, status_, memory, iff_, image>>
      BY <1>5, <3>1, HltGoes
    <3> QED
      BY <1>2, <2>1, <2>6, <3>2 DEF Counting, Counted
  <2> QED
    BY <1>5, <2>2, <2>3, <2>4, <2>5, <2>6 DEF Counting
<1> QED
  BY <1>2, <1>4, <1>5, QuietSteps

\* Eight rotations restore any byte, whatever the flags are at first, having shown
\* each bit once, and the parity flag tells whether the number of bits is even.
THEOREM ParityOfAnyByte ==
  ASSUME Cells = SomeCells, AreBits
  PROVE  Spec => []ParityOfBits
<1>1. Counting => ParityOfBits
  BY DEF Counting, ParityOfBits, Ended, Counted
<1> QED
  BY <1>1, BitsBegin, BitsStep, SpecSound, PTL DEF Spec

\* The number of bits is that of the byte.
THEOREM BitsAreCounted ==
  ASSUME Cells = SomeCells, AreBits
  PROVE  Spec => [](Ended("bits") => reg["c"] = Cardinality(Bits(image.x)))
<1>1. Counting => (Ended("bits") => reg["c"] = Cardinality(Bits(image.x)))
  BY OnesCounted DEF Counting, Ended, Counted
<1> QED
  BY <1>1, BitsBegin, BitsStep, SpecSound, PTL DEF Spec

-----------------------------------------------------------------------------
(* The stack of a recursive procedure.                                     *)

\* An instruction that leaves the memory and the switches alone.
Moves(r, s, sp, to) ==
  /\ reg' = r /\ status_' = s /\ sp_' = sp /\ pc_' = to
  /\ UNCHANGED <<memory, iff_, hlt_, image>>

\* The top of the stack when two more bytes are on it.
NextTop == Wrap(sp_ + 65534)

\* An instruction that pushes w.
Pushes(w, to) ==
  /\ UNCHANGED <<reg, status_, iff_, hlt_, image>> /\ pc_' = to
  /\ sp_' = NextTop /\ memory' = Poke2(NextTop, w)

\* CALL.
LEMMA CallPushes ==
  ASSUME Instruction, x = 3, y = 1, z = 5
  PROVE  Pushes(Wrap(pc_ + 3), Address)
<1>1. CallOnFlag
  BY Decoded DEF Is
<1> QED
  BY <1>1 DEF CallOnFlag, Is, PushOnto, Changes, Jump, Pushes, NextTop

\* PUSH B.
LEMMA PushPushes ==
  ASSUME Instruction, x = 3, y = 0, z = 5
  PROVE  Pushes(Uint16(reg["b"], reg["c"]), Wrap(pc_ + 1))
<1>1. Push
  BY Decoded DEF Is, Even
<1>2. Pair = 0 /\ PairValue(0) = Uint16(reg["b"], reg["c"])
  BY DEF Pair, PairValue, High, Low
<1> QED
  BY <1>1, <1>2 DEF Push, PushOnto, Changes, Advance, Pushes, NextTop

\* RET, and a return that depends on a flag.
LEMMA RetMoves ==
  ASSUME Instruction, x = 3
  PROVE  /\ y = 1 /\ z = 1 => Moves(reg, status_, Wrap(sp_ + 2), Popped)
         /\ y \in 0..7 /\ z = 0 =>
              \/ Holds /\ Moves(reg, status_, Wrap(sp_ + 2), Popped)
              \/ ~Holds /\ Moves(reg, status_, sp_, Wrap(pc_ + 1))
<1>1. ASSUME y = 1 /\ z = 1
      PROVE  Moves(reg, status_, Wrap(sp_ + 2), Popped)
  <2>1. RetOnFlag
    BY <1>1, Decoded DEF Is
  <2> QED
    BY <1>1, <2>1 DEF RetOnFlag, Is, Changes, Jump, Moves
<1>2. ASSUME y \in 0..7 /\ z = 0
      PROVE  \/ Holds /\ Moves(reg, status_, Wrap(sp_ + 2), Popped)
             \/ ~Holds /\ Moves(reg, status_, sp_, Wrap(pc_ + 1))
  <2>1. RetOnFlag
    BY <1>2, Decoded DEF Is
  <2> QED
    BY <1>2, <2>1 DEF RetOnFlag, Is, Changes, Jump, Advance, Moves
<1> QED
  BY <1>1, <1>2

\* POP B.
LEMMA PopMoves ==
  ASSUME Instruction, x = 3, y = 0, z = 1
  PROVE  Moves(SetPair(0, Popped), status_, Wrap(sp_ + 2), Wrap(pc_ + 1))
<1>1. Pop
  BY Decoded DEF Is
<1>2. Pair = 0
  BY DEF Pair
<1> QED
  BY <1>1, <1>2 DEF Pop, Is, Changes, Advance, Moves

\* DAD D.
LEMMA DadGoes ==
  ASSUME Instruction, x = 0, y = 3, z = 1
  PROVE  \E s : Goes(SetPair(2, Wrap(DE + HL)), s, memory, Wrap(pc_ + 1))
<1>1. Dad
  BY Decoded DEF Is, Odd
<1>2. Pair = 1
  BY DEF Pair
<1> QED
  BY <1>1, <1>2 DEF Dad, Changes, Advance, Goes, DE

\* The byte that is k bytes below the stack the machine began with.
Slot(k) == Wrap(image.sp + 65536 - k)

\* Where it is.
LEMMA SlotAt ==
  ASSUME image.sp \in Word, NEW k \in Nat, k <= 1024
  PROVE  /\ Slot(k) \in Word
         /\ Slot(k) = IF k <= image.sp THEN image.sp - k ELSE image.sp + 65536 - k
<1>1. PICK s \in Int : s = image.sp /\ 0 <= s /\ s <= 65535
  BY WordRange
<1>2. /\ k <= s => 65536 <= s + 65536 - k /\ s + 65536 - k < 131072
      /\ ~(k <= s) => 0 <= s + 65536 - k /\ s + 65536 - k < 65536
      /\ s + 65536 - k \in Int
  BY <1>1
<1>3. Slot(k) = IF k <= s THEN s - k ELSE s + 65536 - k
  BY <1>1, <1>2, WrapNear DEF Slot
<1> QED
  BY <1>1, <1>3, WordRange

\* The bytes next to it.
LEMMA SlotsNear ==
  ASSUME image.sp \in Word, NEW k \in Nat, k <= 1022
  PROVE  /\ Wrap(Slot(k) + 65534) = Slot(k + 2) /\ Wrap(Slot(k + 2) + 1) = Slot(k + 1)
         /\ Wrap(Slot(k + 2) + 2) = Slot(k) /\ Slot(0) = image.sp
<1>1. PICK s \in Int : s = image.sp /\ 0 <= s /\ s <= 65535
  BY WordRange
<1>2. /\ Slot(k) = IF k <= s THEN s - k ELSE s + 65536 - k
      /\ Slot(k + 1) = IF k + 1 <= s THEN s - k - 1 ELSE s + 65536 - k - 1
      /\ Slot(k + 2) = IF k + 2 <= s THEN s - k - 2 ELSE s + 65536 - k - 2
      /\ Slot(0) = s
  <2>1. /\ k + 1 \in Nat /\ k + 1 <= 1024 /\ k + 2 \in Nat /\ k + 2 <= 1024
        /\ k <= 1024 /\ 0 \in Nat /\ 0 <= 1024
    OBVIOUS
  <2> QED
    BY <1>1, <2>1, SlotAt
<1>3. Wrap(Slot(k) + 65534) = Slot(k + 2)
  <2>1. CASE k <= s
    BY <1>1, <1>2, <2>1, WrapNear
  <2>2. CASE ~(k <= s)
    BY <1>1, <1>2, <2>2, WrapNear
  <2> QED
    BY <2>1, <2>2
<1>4. Wrap(Slot(k + 2) + 1) = Slot(k + 1)
  <2>1. CASE k + 2 <= s
    BY <1>1, <1>2, <2>1, WrapNear
  <2>2. CASE ~(k + 2 <= s)
    BY <1>1, <1>2, <2>2, WrapNear
  <2> QED
    BY <2>1, <2>2
<1>5. Wrap(Slot(k + 2) + 2) = Slot(k)
  <2>1. CASE k + 2 <= s
    BY <1>1, <1>2, <2>1, WrapNear
  <2>2. CASE ~(k + 2 <= s)
    BY <1>1, <1>2, <2>2, WrapNear
  <2> QED
    BY <2>1, <2>2
<1> QED
  BY <1>1, <1>2, <1>3, <1>4, <1>5

\* No two of them are one.
LEMMA SlotsApart ==
  ASSUME image.sp \in Word, NEW k \in Nat, NEW l \in Nat, k <= 1024, l <= 1024, k # l
  PROVE  Slot(k) # Slot(l)
<1>1. PICK s \in Int : s = image.sp /\ 0 <= s /\ s <= 65535
  BY WordRange
<1>2. /\ Slot(k) = IF k <= s THEN s - k ELSE s + 65536 - k
      /\ Slot(l) = IF l <= s THEN s - l ELSE s + 65536 - l
  BY <1>1, SlotAt
<1> QED
  BY <1>1, <1>2

\* What the procedure leaves at the kth byte of its stack: return addresses, the first
\* to the caller, and between them b and, which does not matter, c.
Content(k) ==
  CASE k % 4 = 1 -> 1
    [] k % 4 = 2 -> (IF k = 2 THEN 0 ELSE 9)
    [] k % 4 = 3 -> image.x - (k \div 4)

Stacked(u) == \A k \in 1..u : k % 4 # 0 => memory[Slot(k)] = Content(k)

\* The bytes of a frame.
LEMMA Contents ==
  ASSUME NEW d \in Nat
  PROVE  /\ Content(4 * d + 1) = 1 /\ Content(4 * d + 2) = IF d = 0 THEN 0 ELSE 9
         /\ Content(4 * d + 3) = image.x - d
         /\ (4 * d + 1) % 4 = 1 /\ (4 * d + 2) % 4 = 2 /\ (4 * d + 3) % 4 = 3
         /\ (4 * d + 4) % 4 = 0
<1>1. /\ (4 * d + 1) % 4 = 1 /\ (4 * d + 2) % 4 = 2 /\ (4 * d + 3) % 4 = 3
      /\ (4 * d + 4) % 4 = 0 /\ (4 * d + 3) \div 4 = d /\ (4 * d + 2 = 2 <=> d = 0)
  OBVIOUS
<1> QED
  BY <1>1 DEF Content

\* A machine that sums by recursion: it has the room that the procedure takes, apart
\* from the code, wherever its stack is.
IsSum(i) ==
  /\ i.x \in Byte /\ i.reg["b"] = i.x /\ i.pc = Origin
  /\ \A k \in 1..21 : Origin + k - 1 \in Cells /\ i.memory[Origin + k - 1] = Recursion[k]
  /\ \A k \in 1..(4 * i.x + 2) :
       /\ Wrap(i.sp + 65536 - k) \in Cells
       /\ \A j \in 1..21 : Wrap(i.sp + 65536 - k) # Origin + j - 1

\* The code of Recursion, and where it is.
Coded == \A k \in 1..21 : Origin + k - 1 \in Cells /\ memory[Origin + k - 1] = Recursion[k]

\* What a word that is stored leaves in the memory.
LEMMA WordPoked ==
  ASSUME memory \in [Cells -> Byte], NEW a \in Cells, NEW b \in Cells, a # b, Wrap(a + 1) = b,
         NEW w \in Word, memory' = Poke2(a, w)
  PROVE  /\ memory'[b] = w \div 256 /\ memory'[a] = w % 256
         /\ \A c \in Cells : c # a /\ c # b => memory'[c] = memory[c]
<1> DEFINE first == Poke(a, w % 256)
<1>1. w % 256 \in Byte /\ w \div 256 \in Byte
  BY Halves
<1>2. /\ first \in [Cells -> Byte] /\ first[a] = w % 256
      /\ \A c \in Cells : c # a => first[c] = memory[c]
  BY <1>1 DEF Poke
<1>3. memory' = [first EXCEPT ![b] = w \div 256]
  BY DEF Poke2
<1> HIDE DEF first
<1> QED
  BY <1>1, <1>2, <1>3

\* A word is pushed onto what is stacked.
LEMMA StackGrows ==
  ASSUME Sound, image.sp \in Word, IsSum(image), Coded,
         NEW u \in Nat, u + 2 <= 4 * image.x + 2, Stacked(u), sp_ = Slot(u),
         NEW hi \in Byte, NEW low \in Byte, NEW to, Pushes(Uint16(hi, low), to),
         (u + 1) % 4 # 0 => hi = Content(u + 1),
         (u + 2) % 4 # 0 => low = Content(u + 2)
  PROVE  Stacked(u + 2)' /\ Coded' /\ sp_' = Slot(u + 2)'
<1> DEFINE w == Uint16(hi, low)
<1>1. u \in Int /\ 0 <= u /\ u <= 1020
  BY ByteRange DEF IsSum
<1>2. w \div 256 = hi /\ w % 256 = low
  BY ByteRange DEF Uint16
<1>3. /\ sp_' = Slot(u + 2) /\ memory' = Poke2(Slot(u + 2), w)
      /\ image' = image /\ Wrap(Slot(u + 2) + 1) = Slot(u + 1)
  <2>1. u \in Nat /\ u <= 1022
    BY <1>1
  <2>2. NextTop = Slot(u + 2) /\ Wrap(Slot(u + 2) + 1) = Slot(u + 1)
    BY <2>1, SlotsNear DEF NextTop
  <2> HIDE DEF w
  <2>3. sp_' = NextTop /\ memory' = Poke2(NextTop, w) /\ image' = image
    BY Zenon DEF Pushes, w
  <2> QED
    BY <2>2, <2>3, Zenon
<1>4. /\ u + 1 \in 1..(4 * image.x + 2) /\ u + 2 \in 1..(4 * image.x + 2)
      /\ 4 * image.x + 2 <= 1022
  BY <1>1, ByteRange DEF IsSum
<1>5. /\ Slot(u + 1) \in Cells /\ Slot(u + 2) \in Cells
      /\ \A j \in 1..21 : Slot(u + 1) # Origin + j - 1 /\ Slot(u + 2) # Origin + j - 1
  BY <1>4 DEF IsSum, Slot
<1>6. memory \in [Cells -> Byte]
  BY SoundFacts
<1>7. /\ \A k : Slot(k)' = Slot(k) /\ Content(k)' = Content(k)
  BY <1>3 DEF Slot, Content
<1>8. Slot(u + 2) # Slot(u + 1)
  <2>1. u + 1 \in Nat /\ u + 2 \in Nat /\ u + 1 <= 1024 /\ u + 2 <= 1024 /\ u + 1 # u + 2
    BY <1>1
  <2> QED
    BY <2>1, SlotsApart
<1>9. /\ memory'[Slot(u + 1)] = hi /\ memory'[Slot(u + 2)] = low
      /\ \A c \in Cells : c # Slot(u + 1) /\ c # Slot(u + 2) => memory'[c] = memory[c]
  <2>1. w \in Word
    BY Uint16Word
  <2> HIDE DEF w
  <2>2. /\ memory'[Slot(u + 1)] = w \div 256 /\ memory'[Slot(u + 2)] = w % 256
        /\ \A c \in Cells : c # Slot(u + 2) /\ c # Slot(u + 1) => memory'[c] = memory[c]
    BY <1>3, <1>5, <1>6, <1>8, <2>1, WordPoked
  <2> QED
    BY <1>2, <2>2, Zenon
<1> HIDE DEF w
<1>10. Coded'
  <2>1. ASSUME NEW j \in 1..21
        PROVE  Origin + j - 1 \in Cells /\ memory'[Origin + j - 1] = Recursion[j]
    <3>1. Origin + j - 1 \in Cells /\ memory[Origin + j - 1] = Recursion[j]
      BY DEF Coded
    <3>2. Origin + j - 1 # Slot(u + 1) /\ Origin + j - 1 # Slot(u + 2)
      BY <1>5
    <3> QED
      BY <1>9, <3>1, <3>2
  <2> QED
    BY <2>1 DEF Coded
<1>11. ASSUME NEW k \in 1..(u + 2), k % 4 # 0
       PROVE  memory'[Slot(k)] = Content(k)
  <2>1. CASE k = u + 1
    BY <1>9, <1>11, <2>1
  <2>2. CASE k = u + 2
    BY <1>9, <1>11, <2>2
  <2>3. CASE k \in 1..u
    <3>1. k \in 1..(4 * image.x + 2)
      BY <1>1, <1>4, <2>3, ByteRange DEF IsSum
    <3>2. Slot(k) \in Cells
      BY <3>1 DEF IsSum, Slot
    <3>3. Slot(k) # Slot(u + 1) /\ Slot(k) # Slot(u + 2)
      <4>1. /\ k \in Nat /\ k <= 1024 /\ u + 1 \in Nat /\ u + 2 \in Nat
            /\ u + 1 <= 1024 /\ u + 2 <= 1024 /\ k # u + 1 /\ k # u + 2
        BY <1>1, <2>3
      <4> QED
        BY <4>1, SlotsApart
    <3>4. memory[Slot(k)] = Content(k)
      BY <1>11, <2>3 DEF Stacked
    <3> QED
      BY <1>9, <3>2, <3>3, <3>4
  <2> QED
    BY <1>1, <2>1, <2>2, <2>3
<1>12. Stacked(u + 2)'
  BY <1>7, <1>11 DEF Stacked
<1> QED
  BY <1>3, <1>7, <1>10, <1>12

\* What is popped off it.
LEMMA StackShrinks ==
  ASSUME Sound, image.sp \in Word, IsSum(image),
         NEW u \in Nat, u + 2 <= 4 * image.x + 2, Stacked(u + 2), sp_ = Slot(u + 2)
  PROVE  /\ Wrap(sp_ + 2) = Slot(u) /\ Stacked(u)
         /\ Popped = Uint16(memory[Slot(u + 1)], memory[Slot(u + 2)])
         /\ memory[Slot(u + 1)] \in Byte /\ memory[Slot(u + 2)] \in Byte
<1>1. u \in Int /\ 0 <= u /\ u <= 1020
  BY ByteRange DEF IsSum
<1>2. Wrap(Slot(u + 2) + 1) = Slot(u + 1) /\ Wrap(Slot(u + 2) + 2) = Slot(u)
  <2>1. u <= 1022
    BY <1>1
  <2> QED
    BY <2>1, SlotsNear
<1>3. Slot(u + 1) \in Cells /\ Slot(u + 2) \in Cells
  <2>1. u + 1 \in 1..(4 * image.x + 2) /\ u + 2 \in 1..(4 * image.x + 2)
    BY <1>1, ByteRange DEF IsSum
  <2> QED
    BY <2>1 DEF IsSum, Slot
<1>4. memory \in [Cells -> Byte]
  BY SoundFacts
<1>5. Stacked(u)
  BY <1>1 DEF Stacked
<1> QED
  BY <1>2, <1>3, <1>4, <1>5 DEF Popped, Peek

\* The bytes of Recursion as they are decoded, whatever the cells are.
LEMMA SumCode ==
  ASSUME Sound, Coded
  PROVE  /\ pc_ = Origin => x = 0 /\ y = 4 /\ z = 1 /\ Address = 0 /\ Wrap(pc_ + 3) = Origin + 3
         /\ pc_ = Origin + 3 =>
              /\ x = 3 /\ y = 1 /\ z = 5
              /\ Address = Origin + 7 /\ Wrap(pc_ + 3) = Uint16(1, 0)
         /\ pc_ = Origin + 6 => x = 1 /\ y = 6 /\ z = 6
         /\ pc_ = Origin + 7 => x = 1 /\ y = 7 /\ z = 0 /\ Wrap(pc_ + 1) = Origin + 8
         /\ pc_ = Origin + 8 => x = 2 /\ y = 6 /\ z = 7 /\ Wrap(pc_ + 1) = Origin + 9
         /\ pc_ = Origin + 9 => x = 3 /\ y = 1 /\ z = 0 /\ Wrap(pc_ + 1) = Origin + 10
         /\ pc_ = Origin + 10 => x = 3 /\ y = 0 /\ z = 5 /\ Wrap(pc_ + 1) = Origin + 11
         /\ pc_ = Origin + 11 => x = 0 /\ y = 0 /\ z = 5 /\ Wrap(pc_ + 1) = Origin + 12
         /\ pc_ = Origin + 12 =>
              /\ x = 3 /\ y = 1 /\ z = 5
              /\ Address = Origin + 7 /\ Wrap(pc_ + 3) = Uint16(1, 9)
         /\ pc_ = Origin + 15 => x = 3 /\ y = 0 /\ z = 1 /\ Wrap(pc_ + 1) = Origin + 16
         /\ pc_ = Origin + 16 =>
              x = 0 /\ y = 2 /\ z = 6 /\ Data = 0 /\ Wrap(pc_ + 2) = Origin + 18
         /\ pc_ = Origin + 18 => x = 1 /\ y = 3 /\ z = 0 /\ Wrap(pc_ + 1) = Origin + 19
         /\ pc_ = Origin + 19 => x = 0 /\ y = 3 /\ z = 1 /\ Wrap(pc_ + 1) = Origin + 20
         /\ pc_ = Origin + 20 => x = 3 /\ y = 1 /\ z = 1
<1> DEFINE m(i) == memory[Origin + i]
<1>1. /\ m(0) = 33 /\ m(1) = 0 /\ m(2) = 0 /\ m(3) = 205 /\ m(4) = 1 /\ m(5) = 1
      /\ m(6) = 118 /\ m(7) = 120 /\ m(8) = 183 /\ m(9) = 200 /\ m(10) = 197 /\ m(11) = 5
      /\ m(12) = 205 /\ m(13) = 1 /\ m(14) = 1 /\ m(15) = 193 /\ m(16) = 22 /\ m(17) = 0
      /\ m(18) = 88 /\ m(19) = 25 /\ m(20) = 201
  <2>1. \A i \in 1..21 : memory[Origin + i - 1] = Recursion[i]
    BY DEF Coded
  <2> QED
    BY <2>1 DEF Recursion, Origin, Lo, Hi, HLT
<1>2. \A i \in 0..20 : Origin + i \in Cells
  <2> SUFFICES ASSUME NEW i \in 0..20 PROVE Origin + i \in Cells
    OBVIOUS
  <2>1. i + 1 \in 1..21 /\ Origin + (i + 1) - 1 = Origin + i
    BY DEF Origin
  <2> QED
    BY <2>1 DEF Coded
<1>3. ASSUME NEW i \in 0..20, pc_ = Origin + i
      PROVE  /\ x = m(i) \div 64 /\ y = (m(i) \div 8) % 8 /\ z = m(i) % 8
             /\ Wrap(pc_ + 1) = Origin + (i + 1) /\ Wrap(pc_ + 2) = Origin + (i + 2)
             /\ Wrap(pc_ + 3) = Origin + (i + 3)
             /\ i <= 18 => Data = m(i + 1) /\ Address = m(i + 2) * 256 + m(i + 1)
  <2>1. /\ Wrap(pc_ + 1) = Origin + (i + 1) /\ Wrap(pc_ + 2) = Origin + (i + 2)
        /\ Wrap(pc_ + 3) = Origin + (i + 3)
    BY <1>3, WrapNear DEF Origin
  <2>2. opcode = m(i)
    BY <1>2, <1>3 DEF opcode, Peek
  <2>3. ASSUME i <= 18
        PROVE  Data = m(i + 1) /\ Address = m(i + 2) * 256 + m(i + 1)
    <3>1. i + 1 \in 0..20 /\ i + 2 \in 0..20
      BY <2>3
    <3> QED
      BY <1>2, <2>1, <3>1 DEF Data, Address, Peek, Uint16
  <2> HIDE DEF m
  <2> QED
    BY <2>1, <2>2, <2>3 DEF x, y, z
<1> HIDE DEF m
<1>4. \A i \in 0..20 : pc_ = 250 + i =>
        /\ x = m(i) \div 64 /\ y = (m(i) \div 8) % 8 /\ z = m(i) % 8
        /\ Wrap(pc_ + 1) = 250 + (i + 1) /\ Wrap(pc_ + 2) = 250 + (i + 2)
        /\ Wrap(pc_ + 3) = 250 + (i + 3)
        /\ i <= 18 => Data = m(i + 1) /\ Address = m(i + 2) * 256 + m(i + 1)
  BY <1>3 DEF Origin
<1> QED
  BY <1>1, <1>4 DEF Origin, Uint16

\* 1 + 2 + ... + n
Triangle(n) == (n * (n + 1)) \div 2

\* How it grows.
LEMMA Triangles ==
  /\ Triangle(0) = 0
  /\ \A n \in Byte : Triangle(n) \in Nat /\ Triangle(n) <= 32640
  /\ \A n \in Byte : n > 0 => Triangle(n) = Triangle(n - 1) + n
<1>1. Triangle(0) = 0
  BY DEF Triangle
<1>2. ASSUME NEW n \in Byte PROVE Triangle(n) \in Nat /\ Triangle(n) <= 32640
  <2>1. n \in Nat /\ n <= 255
    BY ByteRange
  <2> DEFINE t == n * (n + 1)
  <2>2. t \in Nat /\ t <= 65280
    <3>1. PICK e \in Nat : 255 = n + e
      BY <2>1
    <3>2. 255 * 256 = t + n * e + e * 256
      <4>1. (n + e) * 256 = n * (n + 1 + e) + e * 256
        BY <2>1, <3>1
      <4>2. n * (n + 1 + e) = n * (n + 1) + n * e
        BY <2>1
      <4> QED
        BY <3>1, <4>1, <4>2
    <3>3. n * e \in Nat /\ t \in Nat
      BY <2>1
    <3> QED
      BY <3>2, <3>3
  <2> HIDE DEF t
  <2>3. t \div 2 \in Nat /\ t \div 2 <= 32640
    BY <2>2
  <2> QED
    BY <2>3 DEF Triangle, t
<1>3. ASSUME NEW n \in Byte, n > 0 PROVE Triangle(n) = Triangle(n - 1) + n
  <2>1. n \in Int
    BY ByteRange
  <2> DEFINE t == (n - 1) * n
  <2>2. n * (n + 1) = t + 2 * n /\ (n - 1) * ((n - 1) + 1) = t /\ t \in Int
    BY <2>1
  <2> HIDE DEF t
  <2>3. (t + 2 * n) \div 2 = (t \div 2) + n
    BY <2>1, <2>2
  <2> QED
    BY <2>2, <2>3 DEF Triangle
<1> QED
  BY <1>1, <1>2, <1>3

\* The procedure at its instruction i, with u bytes on the stack.
SumAt(i, u, b) == pc_ = Origin + i /\ sp_ = Slot(u) /\ Stacked(u) /\ reg["b"] = b

\* The places of the dth call, on the way down.
Descending(d) ==
  LET b == image.x - d
  IN  /\ d \in 0..image.x /\ HL = 0
      /\ \/ SumAt(7, 4 * d + 2, b)
         \/ SumAt(8, 4 * d + 2, b) /\ reg["a"] = b
         \/ SumAt(9, 4 * d + 2, b) /\ (ZeroFlag \in status_ <=> b = 0)
         \/ SumAt(10, 4 * d + 2, b) /\ b > 0
         \/ SumAt(11, 4 * d + 4, b) /\ b > 0
         \/ SumAt(12, 4 * d + 4, b - 1) /\ b > 0

\* Back from it, in the call before or in the program.
Returned(d) ==
  /\ d \in 0..image.x /\ HL = Triangle(image.x - d) /\ reg["b"] = image.x - d
  /\ sp_ = Slot(4 * d) /\ Stacked(4 * d)
  /\ pc_ = IF d = 0 THEN Origin + 6 ELSE Origin + 15

\* The places of the dth call on the way up.
Ascending(d) ==
  LET b == image.x - d
  IN  /\ d \in 0..image.x /\ b > 0
      /\ \/ SumAt(16, 4 * d + 2, b) /\ HL = Triangle(b - 1)
         \/ SumAt(18, 4 * d + 2, b) /\ HL = Triangle(b - 1) /\ reg["d"] = 0
         \/ SumAt(19, 4 * d + 2, b) /\ HL = Triangle(b - 1) /\ DE = b
         \/ SumAt(20, 4 * d + 2, b) /\ HL = Triangle(b)

Summed == HL = Triangle(image.x) /\ reg["b"] = image.x /\ sp_ = image.sp

\* What is true in a machine that sums by recursion.
Recursing ==
  image.kind = "sumTo" =>
    /\ image.sp \in Word /\ IsSum(image) /\ Coded /\ ~iff_
    /\ \/ ~hlt_ /\ pc_ = Origin /\ reg["b"] = image.x /\ sp_ = image.sp
       \/ ~hlt_ /\ pc_ = Origin + 3 /\ reg["b"] = image.x /\ sp_ = image.sp /\ HL = 0
       \/ ~hlt_ /\ \E d : Descending(d) \/ Returned(d) \/ Ascending(d)
       \/ hlt_ /\ Summed

\* What stays with the memory and the image.
LEMMA StackKept ==
  ASSUME memory' = memory, image' = image
  PROVE  /\ Coded' = Coded
         /\ \A u : Slot(u)' = Slot(u) /\ Stacked(u)' = Stacked(u)
BY DEF Coded, Slot, Stacked, Content

\* The return address of the dth call.
LEMMA ReturnAddress ==
  ASSUME Sound, image.sp \in Word, IsSum(image), NEW d \in 0..image.x,
         Stacked(4 * d + 2), sp_ = Slot(4 * d + 2)
  PROVE  /\ Wrap(sp_ + 2) = Slot(4 * d) /\ Stacked(4 * d)
         /\ Popped = IF d = 0 THEN Origin + 6 ELSE Origin + 15
<1>1. d \in Nat /\ 4 * d \in Nat /\ 4 * d + 2 <= 4 * image.x + 2
  BY ByteRange DEF IsSum
<1>2. /\ Wrap(sp_ + 2) = Slot(4 * d) /\ Stacked(4 * d)
      /\ Popped = Uint16(memory[Slot(4 * d + 1)], memory[Slot(4 * d + 2)])
  BY <1>1, StackShrinks
<1>3. memory[Slot(4 * d + 1)] = 1 /\ memory[Slot(4 * d + 2)] = IF d = 0 THEN 0 ELSE 9
  <2>1. 4 * d + 1 \in 1..(4 * d + 2) /\ 4 * d + 2 \in 1..(4 * d + 2)
    BY <1>1
  <2>2. (4 * d + 1) % 4 # 0 /\ (4 * d + 2) % 4 # 0
    BY <1>1, Contents
  <2>3. /\ memory[Slot(4 * d + 1)] = Content(4 * d + 1)
        /\ memory[Slot(4 * d + 2)] = Content(4 * d + 2)
    BY <2>1, <2>2 DEF Stacked
  <2> QED
    BY <1>1, <2>3, Contents
<1>4. Uint16(1, 0) = Origin + 6 /\ Uint16(1, 9) = Origin + 15
  BY DEF Uint16, Origin
<1> QED
  BY <1>2, <1>3, <1>4

\* What b was when the call before was made.
LEMMA SavedByte ==
  ASSUME Sound, image.sp \in Word, IsSum(image), NEW d \in 0..image.x, d < image.x,
         Stacked(4 * d + 4), sp_ = Slot(4 * d + 4)
  PROVE  /\ Wrap(sp_ + 2) = Slot(4 * d + 2) /\ Stacked(4 * d + 2)
         /\ Popped \div 256 = image.x - d
<1>1. /\ d \in Nat /\ 4 * d + 2 \in Nat /\ (4 * d + 2) + 2 <= 4 * image.x + 2
      /\ (4 * d + 2) + 2 = 4 * d + 4 /\ (4 * d + 2) + 1 = 4 * d + 3
  BY ByteRange DEF IsSum
<1>2. /\ Wrap(sp_ + 2) = Slot(4 * d + 2) /\ Stacked(4 * d + 2)
      /\ Popped = Uint16(memory[Slot(4 * d + 3)], memory[Slot(4 * d + 4)])
      /\ memory[Slot(4 * d + 3)] \in Byte /\ memory[Slot(4 * d + 4)] \in Byte
  BY <1>1, StackShrinks
<1>3. memory[Slot(4 * d + 3)] = image.x - d
  <2>1. 4 * d + 3 \in 1..(4 * d + 4)
    BY <1>1
  <2>2. (4 * d + 3) % 4 # 0
    BY <1>1, Contents
  <2>3. memory[Slot(4 * d + 3)] = Content(4 * d + 3)
    BY <2>1, <2>2 DEF Stacked
  <2> QED
    BY <1>1, <2>3, Contents
<1>4. ASSUME NEW hi \in Byte, NEW low \in Byte PROVE Uint16(hi, low) \div 256 = hi
  <2>1. hi \in Int /\ low \in Int /\ 0 <= low /\ low <= 255
    BY ByteRange
  <2>2. (hi * 256 + low) \div 256 = hi
    BY <2>1
  <2> QED
    BY <2>2 DEF Uint16
<1> QED
  BY <1>2, <1>3, <1>4

\* ORA of a byte with itself tells whether it is zero.
LEMMA ZeroTold ==
  ASSUME NEW s, NEW a \in Byte
  PROVE  ZeroFlag \in Alu(6, s, a, a).status <=> a = 0
<1> DEFINE o == Ora(s, a, a)
<1>1. Alu(6, s, a, a) = o
  BY DEF Alu
<1>2. Bits(a) \cup Bits(a) = Bits(a)
  OBVIOUS
<1>3. o = Outcome(s, a, FALSE, FALSE)
  BY <1>2, ValueOfBits DEF Ora
<1> HIDE DEF o
<1>4. ZeroFlag \in o.status <=> ZeroFlag \in Signs(a)
  BY <1>3 DEF Outcome, With, CarryFlag, AuxCarryFlag, ZeroFlag, Flags
<1>5. ZeroFlag \in Signs(a) <=> a = 0
  BY DEF Signs, ZeroFlag, SignFlag, ParityFlag
<1> QED
  BY <1>1, <1>4, <1>5

\* A call on the way down, and the return from the last one.
LEMMA SumDescends ==
  ASSUME Sound, Instruction, image.sp \in Word, IsSum(image), Coded, NEW d, Descending(d)
  PROVE  /\ Descending(d)' \/ Descending(d + 1)' \/ Returned(d)'
         /\ Coded' /\ UNCHANGED <<iff_, hlt_, image>>
<1> DEFINE b == image.x - d
<1>1. /\ d \in Nat /\ 4 * d \in Nat /\ b \in Nat /\ b \in Byte /\ d \in 0..image.x /\ HL = 0
      /\ image.x \in Nat
  BY ByteRange DEF Descending, IsSum
<1>2. {"a", "b"} \subseteq Names
  BY DEF Names
<1>3. image' = image => b' = b
  OBVIOUS
<1> HIDE DEF b
<1>4. Descending(d) <=>
        /\ d \in 0..image.x /\ HL = 0
        /\ \/ SumAt(7, 4 * d + 2, b)
           \/ SumAt(8, 4 * d + 2, b) /\ reg["a"] = b
           \/ SumAt(9, 4 * d + 2, b) /\ (ZeroFlag \in status_ <=> b = 0)
           \/ SumAt(10, 4 * d + 2, b) /\ b > 0
           \/ SumAt(11, 4 * d + 4, b) /\ b > 0
           \/ SumAt(12, 4 * d + 4, b - 1) /\ b > 0
  BY DEF Descending, b
<1>5. image' = image =>
        (Descending(d)' <=>
          /\ d \in 0..image.x /\ HL' = 0
          /\ \/ SumAt(7, 4 * d + 2, b)'
             \/ SumAt(8, 4 * d + 2, b)' /\ reg'["a"] = b
             \/ SumAt(9, 4 * d + 2, b)' /\ (ZeroFlag \in status_' <=> b = 0)
             \/ SumAt(10, 4 * d + 2, b)' /\ b > 0
             \/ SumAt(11, 4 * d + 4, b)' /\ b > 0
             \/ SumAt(12, 4 * d + 4, b - 1)' /\ b > 0)
  BY DEF Descending, b
<1>6. CASE SumAt(7, 4 * d + 2, b)
  <2>1. x = 1 /\ y = 7 /\ z = 0 /\ Wrap(pc_ + 1) = Origin + 8
    BY <1>6, SumCode DEF SumAt
  <2>2. Goes(Assigned("a", b), status_, memory, Origin + 8)
    BY <1>6, <2>1, MovGoes, Numbered DEF M, SumAt
  <2>3. reg'["a"] = b /\ reg'["b"] = reg["b"] /\ HL' = HL
    BY <1>2, <2>2, RegisterAssigned DEF Goes
  <2>4. Coded' = Coded /\ \A u : Slot(u)' = Slot(u) /\ Stacked(u)' = Stacked(u)
    BY <2>2, StackKept DEF Goes
  <2>5. SumAt(8, 4 * d + 2, b)'
    BY <1>3, <1>6, <2>2, <2>3, <2>4 DEF Goes, SumAt
  <2> QED
    BY <1>1, <1>5, <2>2, <2>3, <2>4, <2>5 DEF Goes
<1>7. CASE SumAt(8, 4 * d + 2, b) /\ reg["a"] = b
  <2>1. x = 2 /\ y = 6 /\ z = 7 /\ Wrap(pc_ + 1) = Origin + 9
    BY <1>7, SumCode DEF SumAt
  <2> DEFINE o == Alu(6, status_, b, b)
  <2>2. Operand(7) = reg["a"]
    BY Numbered DEF Operand, M
  <2>3. Goes(Assigned("a", o.value), o.status, memory, Origin + 9)
    BY <1>7, <2>1, <2>2, AluGoes
  <2>4. ZeroFlag \in o.status <=> b = 0
    BY <1>1, ZeroTold
  <2> HIDE DEF o
  <2>5. reg'["b"] = reg["b"] /\ HL' = HL
    BY <1>2, <2>3, RegisterAssigned DEF Goes
  <2>6. Coded' = Coded /\ \A u : Slot(u)' = Slot(u) /\ Stacked(u)' = Stacked(u)
    BY <2>3, StackKept DEF Goes
  <2>7. SumAt(9, 4 * d + 2, b)' /\ (ZeroFlag \in status_' <=> b = 0)
    BY <1>3, <1>7, <2>3, <2>4, <2>5, <2>6 DEF Goes, SumAt
  <2> QED
    BY <1>1, <1>5, <2>3, <2>5, <2>6, <2>7 DEF Goes
<1>8. CASE SumAt(9, 4 * d + 2, b) /\ (ZeroFlag \in status_ <=> b = 0)
  <2>1. x = 3 /\ y = 1 /\ z = 0 /\ Wrap(pc_ + 1) = Origin + 10
    BY <1>8, SumCode DEF SumAt
  <2>2. Holds <=> b = 0
    <3>1. Pair = 0 /\ y \in Odd
      BY <2>1 DEF Pair, Odd
    <3>2. Holds <=> ZeroFlag \in status_
      BY <3>1 DEF Holds
    <3> QED
      BY <1>8, <3>2
  <2>3. \/ Holds /\ Moves(reg, status_, Wrap(sp_ + 2), Popped)
        \/ ~Holds /\ Moves(reg, status_, sp_, Wrap(pc_ + 1))
    BY <2>1, RetMoves
  <2>4. /\ reg' = reg /\ Coded' = Coded /\ HL' = HL
        /\ UNCHANGED <<memory, iff_, hlt_, image>>
        /\ \A u : Slot(u)' = Slot(u) /\ Stacked(u)' = Stacked(u)
    BY <2>3, StackKept, RegistersKept DEF Moves
  <2>5. CASE b = 0
    <3>1. /\ Wrap(sp_ + 2) = Slot(4 * d) /\ Stacked(4 * d)
          /\ Popped = IF d = 0 THEN Origin + 6 ELSE Origin + 15
      BY <1>1, <1>8, ReturnAddress DEF SumAt
    <3>2. sp_' = Slot(4 * d)' /\ Stacked(4 * d)' /\ pc_' = IF d = 0 THEN Origin + 6 ELSE Origin + 15
      BY <2>2, <2>3, <2>4, <2>5, <3>1 DEF Moves
    <3>3. HL' = Triangle(b) /\ reg'["b"] = b
      BY <1>1, <1>8, <2>4, <2>5, Triangles DEF SumAt
    <3>4. Returned(d)'
      BY <1>1, <2>4, <3>2, <3>3 DEF Returned, b
    <3> QED
      BY <2>4, <3>4
  <2>6. CASE b # 0
    <3>1. SumAt(10, 4 * d + 2, b)' /\ b > 0
      BY <1>1, <1>3, <1>8, <2>1, <2>2, <2>3, <2>4, <2>6 DEF Moves, SumAt
    <3> QED
      BY <1>1, <1>5, <2>4, <3>1
  <2> QED
    BY <2>5, <2>6
<1>9. CASE SumAt(10, 4 * d + 2, b) /\ b > 0
  <2>1. x = 3 /\ y = 0 /\ z = 5 /\ Wrap(pc_ + 1) = Origin + 11
    BY <1>9, SumCode DEF SumAt
  <2>2. Pushes(Uint16(b, reg["c"]), Origin + 11) /\ reg["c"] \in Byte
    BY <1>9, <2>1, PushPushes, SoundFacts DEF SumAt, Names
  <2>3. /\ (4 * d + 2) + 1 = 4 * d + 3 /\ (4 * d + 2) + 2 = 4 * d + 4
        /\ 4 * d + 2 \in Nat /\ (4 * d + 2) + 2 <= 4 * image.x + 2
    BY <1>1, <1>9 DEF b
  <2>4. b = Content(4 * d + 3) /\ (4 * d + 4) % 4 = 0
    BY <1>1, Contents DEF b
  <2>5. Stacked(4 * d + 4)' /\ Coded' /\ sp_' = Slot(4 * d + 4)'
    BY <1>1, <1>9, <2>2, <2>3, <2>4, StackGrows DEF SumAt
  <2>6. /\ reg' = reg /\ HL' = HL /\ pc_' = Origin + 11
        /\ UNCHANGED <<iff_, hlt_, image>>
    BY <2>2, RegistersKept DEF Pushes
  <2>7. SumAt(11, 4 * d + 4, b)'
    BY <1>3, <1>9, <2>5, <2>6 DEF SumAt
  <2> QED
    BY <1>1, <1>5, <1>9, <2>5, <2>6, <2>7
<1>10. CASE SumAt(11, 4 * d + 4, b) /\ b > 0
  <2>1. x = 0 /\ y = 0 /\ z = 5 /\ Wrap(pc_ + 1) = Origin + 12
    BY <1>10, SumCode DEF SumAt
  <2> DEFINE o == Decremented(status_, b)
  <2>2. Goes(Assigned("b", o.value), o.status, memory, Origin + 12)
    BY <1>10, <2>1, DcrGoes, Numbered DEF M, SumAt
  <2>3. o.value = b - 1
    <3>1. o.value = (b + 255) % 256
      BY <1>1, DecrementFlags
    <3> HIDE DEF o
    <3>2. (b + 255) % 256 = b - 1
      BY <1>1, <1>10, ByteRange
    <3> QED
      BY <3>1, <3>2
  <2> HIDE DEF o
  <2>4. reg'["b"] = b - 1 /\ HL' = HL
    BY <1>2, <2>2, <2>3, RegisterAssigned DEF Goes
  <2>5. Coded' = Coded /\ \A u : Slot(u)' = Slot(u) /\ Stacked(u)' = Stacked(u)
    BY <2>2, StackKept DEF Goes
  <2>6. SumAt(12, 4 * d + 4, b - 1)'
    BY <1>3, <1>10, <2>2, <2>4, <2>5 DEF Goes, SumAt
  <2> QED
    BY <1>1, <1>5, <1>10, <2>2, <2>4, <2>5, <2>6 DEF Goes
<1>11. CASE SumAt(12, 4 * d + 4, b - 1) /\ b > 0
  <2>1. /\ x = 3 /\ y = 1 /\ z = 5
        /\ Address = Origin + 7 /\ Wrap(pc_ + 3) = Uint16(1, 9)
    BY <1>11, SumCode DEF SumAt
  <2>2. Pushes(Uint16(1, 9), Origin + 7)
    BY <2>1, CallPushes
  <2>3. /\ (4 * d + 4) + 1 = 4 * (d + 1) + 1 /\ (4 * d + 4) + 2 = 4 * (d + 1) + 2
        /\ 4 * d + 4 \in Nat /\ (4 * d + 4) + 2 <= 4 * image.x + 2
        /\ d + 1 \in Nat /\ d + 1 # 0 /\ d + 1 \in 0..image.x
    BY <1>1, <1>11 DEF b
  <2>4. Content(4 * (d + 1) + 1) = 1 /\ Content(4 * (d + 1) + 2) = 9
    BY <2>3, Contents
  <2>5. 1 \in Byte /\ 9 \in Byte
    BY ByteRange
  <2>6. Stacked(4 * (d + 1) + 2)' /\ Coded' /\ sp_' = Slot(4 * (d + 1) + 2)'
    BY <1>1, <1>11, <2>2, <2>3, <2>4, <2>5, StackGrows DEF SumAt
  <2>7. /\ reg' = reg /\ HL' = HL /\ pc_' = Origin + 7
        /\ UNCHANGED <<iff_, hlt_, image>>
    BY <2>2, RegistersKept DEF Pushes
  <2>8. reg'["b"] = image.x - (d + 1)
    BY <1>1, <1>11, <2>7 DEF SumAt, b
  <2>9. Descending(d + 1)'
    BY <1>1, <2>3, <2>6, <2>7, <2>8 DEF Descending, SumAt
  <2> QED
    BY <2>6, <2>7, <2>9
<1> QED
  BY <1>4, <1>6, <1>7, <1>8, <1>9, <1>10, <1>11

\* The return from a call, and what is done after it.
LEMMA SumAscends ==
  ASSUME Sound, Instruction, image.sp \in Word, IsSum(image), Coded, NEW d, Ascending(d)
  PROVE  /\ Ascending(d)' \/ Returned(d)'
         /\ Coded' /\ UNCHANGED <<iff_, hlt_, image>>
<1> DEFINE b == image.x - d
<1>1. /\ d \in Nat /\ 4 * d \in Nat /\ b \in Nat /\ b \in Byte /\ d \in 0..image.x
      /\ image.x \in Nat /\ b > 0
  BY ByteRange DEF Ascending, IsSum
<1>2. {"b", "d", "e"} \subseteq Names
  BY DEF Names
<1>3. image' = image => b' = b
  OBVIOUS
<1>4. DE = Uint16(reg["d"], reg["e"]) /\ DE' = Uint16(reg'["d"], reg'["e"])
  BY DEF DE, PairValue, High, Low
<1>5. HL = Uint16(reg["h"], reg["l"]) /\ HL' = Uint16(reg'["h"], reg'["l"])
  BY DEF HL, PairValue, High, Low
<1> HIDE DEF b
<1>6. Ascending(d) <=>
        /\ d \in 0..image.x /\ b > 0
        /\ \/ SumAt(16, 4 * d + 2, b) /\ HL = Triangle(b - 1)
           \/ SumAt(18, 4 * d + 2, b) /\ HL = Triangle(b - 1) /\ reg["d"] = 0
           \/ SumAt(19, 4 * d + 2, b) /\ HL = Triangle(b - 1) /\ DE = b
           \/ SumAt(20, 4 * d + 2, b) /\ HL = Triangle(b)
  BY DEF Ascending, b
<1>7. image' = image =>
        (Ascending(d)' <=>
          /\ d \in 0..image.x /\ b > 0
          /\ \/ SumAt(16, 4 * d + 2, b)' /\ HL' = Triangle(b - 1)
             \/ SumAt(18, 4 * d + 2, b)' /\ HL' = Triangle(b - 1) /\ reg'["d"] = 0
             \/ SumAt(19, 4 * d + 2, b)' /\ HL' = Triangle(b - 1) /\ DE' = b
             \/ SumAt(20, 4 * d + 2, b)' /\ HL' = Triangle(b))
  BY DEF Ascending, b
<1>8. CASE SumAt(16, 4 * d + 2, b) /\ HL = Triangle(b - 1)
  <2>1. x = 0 /\ y = 2 /\ z = 6 /\ Data = 0 /\ Wrap(pc_ + 2) = Origin + 18
    BY <1>8, SumCode DEF SumAt
  <2>2. Goes(Assigned("d", 0), status_, memory, Origin + 18)
    BY <2>1, MviGoes, Numbered DEF M
  <2>3. reg'["d"] = 0 /\ reg'["b"] = reg["b"] /\ reg'["h"] = reg["h"] /\ reg'["l"] = reg["l"]
    BY <2>2, OthersKept DEF Goes, Names
  <2>4. Coded' = Coded /\ \A u : Slot(u)' = Slot(u) /\ Stacked(u)' = Stacked(u)
    BY <2>2, StackKept DEF Goes
  <2>5. SumAt(18, 4 * d + 2, b)' /\ HL' = HL
    BY <1>3, <1>5, <1>8, <2>2, <2>3, <2>4 DEF Goes, SumAt
  <2> QED
    BY <1>1, <1>7, <1>8, <2>2, <2>3, <2>4, <2>5 DEF Goes
<1>9. CASE SumAt(18, 4 * d + 2, b) /\ HL = Triangle(b - 1) /\ reg["d"] = 0
  <2>1. x = 1 /\ y = 3 /\ z = 0 /\ Wrap(pc_ + 1) = Origin + 19
    BY <1>9, SumCode DEF SumAt
  <2>2. Goes(Assigned("e", b), status_, memory, Origin + 19)
    BY <1>9, <2>1, MovGoes, Numbered DEF M, SumAt
  <2>3. /\ reg'["e"] = b /\ reg'["d"] = reg["d"] /\ reg'["b"] = reg["b"]
        /\ reg'["h"] = reg["h"] /\ reg'["l"] = reg["l"]
    BY <2>2, OthersKept DEF Goes, Names
  <2>4. Coded' = Coded /\ \A u : Slot(u)' = Slot(u) /\ Stacked(u)' = Stacked(u)
    BY <2>2, StackKept DEF Goes
  <2>5. SumAt(19, 4 * d + 2, b)' /\ HL' = HL
    BY <1>3, <1>5, <1>9, <2>2, <2>3, <2>4 DEF Goes, SumAt
  <2>6. DE' = b
    BY <1>1, <1>4, <1>9, <2>3 DEF Uint16
  <2> QED
    BY <1>1, <1>7, <1>9, <2>2, <2>4, <2>5, <2>6 DEF Goes
<1>10. CASE SumAt(19, 4 * d + 2, b) /\ HL = Triangle(b - 1) /\ DE = b
  <2>1. x = 0 /\ y = 3 /\ z = 1 /\ Wrap(pc_ + 1) = Origin + 20
    BY <1>10, SumCode DEF SumAt
  <2>2. PICK s : Goes(SetPair(2, Wrap(DE + HL)), s, memory, Origin + 20)
    BY <2>1, DadGoes
  <2>3. Wrap(DE + HL) = Triangle(b)
    <3>1. b - 1 \in Byte /\ Triangle(b - 1) \in Nat /\ Triangle(b) = Triangle(b - 1) + b
      BY <1>1, ByteRange, Triangles
    <3>2. Triangle(b) \in Nat /\ Triangle(b) <= 32640
      BY <1>1, Triangles
    <3>3. DE + HL = Triangle(b) /\ Triangle(b) \in Int /\ 0 <= Triangle(b) /\ Triangle(b) < 65536
      BY <1>1, <1>10, <3>1, <3>2
    <3> QED
      BY <3>3, WrapNear
  <2>4. Triangle(b) \in Word
    <3>1. Triangle(b) \in Nat /\ Triangle(b) <= 32640
      BY <1>1, Triangles
    <3> QED
      BY <3>1, WordRange
  <2>5. HL' = Triangle(b) /\ reg'["b"] = reg["b"]
    <3>1. reg' = SetPair(2, Triangle(b)) /\ 2 \in 1..2
      BY <2>2, <2>3 DEF Goes
    <3>2. PairValue(2)' = Triangle(b) /\ reg'["b"] = reg["b"]
      BY <2>4, <3>1, PairAssigned
    <3> QED
      BY <3>2 DEF HL
  <2>6. Coded' = Coded /\ \A u : Slot(u)' = Slot(u) /\ Stacked(u)' = Stacked(u)
    BY <2>2, StackKept DEF Goes
  <2>7. SumAt(20, 4 * d + 2, b)'
    BY <1>3, <1>10, <2>2, <2>5, <2>6 DEF Goes, SumAt
  <2> QED
    BY <1>1, <1>7, <2>2, <2>5, <2>6, <2>7 DEF Goes
<1>11. CASE SumAt(20, 4 * d + 2, b) /\ HL = Triangle(b)
  <2>1. x = 3 /\ y = 1 /\ z = 1
    BY <1>11, SumCode DEF SumAt
  <2>2. Moves(reg, status_, Wrap(sp_ + 2), Popped)
    BY <2>1, RetMoves
  <2>3. /\ Wrap(sp_ + 2) = Slot(4 * d) /\ Stacked(4 * d)
        /\ Popped = IF d = 0 THEN Origin + 6 ELSE Origin + 15
    BY <1>1, <1>11, ReturnAddress DEF SumAt
  <2>4. /\ reg' = reg /\ Coded' = Coded /\ HL' = HL
        /\ UNCHANGED <<memory, iff_, hlt_, image>>
        /\ \A u : Slot(u)' = Slot(u) /\ Stacked(u)' = Stacked(u)
    BY <2>2, StackKept, RegistersKept DEF Moves
  <2>5. sp_' = Slot(4 * d)' /\ Stacked(4 * d)' /\ pc_' = IF d = 0 THEN Origin + 6 ELSE Origin + 15
    BY <2>2, <2>3, <2>4 DEF Moves
  <2>6. Returned(d)'
    BY <1>1, <1>11, <2>4, <2>5 DEF Returned, SumAt, b
  <2> QED
    BY <2>4, <2>6
<1> QED
  BY <1>6, <1>8, <1>9, <1>10, <1>11

\* The instruction after a call.
LEMMA SumGoesOn ==
  ASSUME Sound, Instruction, ~hlt_, image.sp \in Word, IsSum(image), Coded,
         NEW d, Returned(d)
  PROVE  /\ IF d = 0 THEN hlt_' /\ Summed' ELSE ~hlt_' /\ Ascending(d - 1)'
         /\ Coded' /\ UNCHANGED <<iff_, image>>
<1>1. /\ d \in Nat /\ 4 * d \in Nat /\ d \in 0..image.x /\ image.x \in Nat
      /\ HL = Triangle(image.x - d) /\ reg["b"] = image.x - d
      /\ sp_ = Slot(4 * d) /\ Stacked(4 * d)
      /\ pc_ = IF d = 0 THEN Origin + 6 ELSE Origin + 15
  BY ByteRange DEF Returned, IsSum
<1>2. CASE d = 0
  <2>1. x = 1 /\ y = 6 /\ z = 6
    BY <1>1, <1>2, SumCode
  <2>2. Hlt
    BY <2>1, Decoded DEF Is, M
  <2>3. hlt_' /\ UNCHANGED <<reg, sp_, memory, iff_, image>>
    BY <2>2 DEF Hlt
  <2>4. HL' = HL /\ Coded' = Coded
    BY <2>3, RegistersKept, StackKept
  <2>5. sp_ = image.sp
    <3>1. 0 \in Nat /\ 0 <= 1022 /\ 4 * 0 = 0
      OBVIOUS
    <3> QED
      BY <1>1, <1>2, <3>1, SlotsNear
  <2>6. Summed'
    BY <1>1, <1>2, <2>3, <2>4, <2>5 DEF Summed
  <2> QED
    BY <1>2, <2>3, <2>4, <2>6
<1>3. CASE d # 0
  <2> DEFINE e == d - 1
  <2>1. e \in Nat /\ e \in 0..image.x /\ e < image.x /\ 4 * d = 4 * e + 4 /\ image.x - e > 0
        /\ image.x - d = (image.x - e) - 1
    BY <1>1, <1>3
  <2> HIDE DEF e
  <2>2. x = 3 /\ y = 0 /\ z = 1 /\ Wrap(pc_ + 1) = Origin + 16
    BY <1>1, <1>3, SumCode
  <2>3. Moves(SetPair(0, Popped), status_, Wrap(sp_ + 2), Origin + 16)
    BY <2>2, PopMoves
  <2>4. /\ Wrap(sp_ + 2) = Slot(4 * e + 2) /\ Stacked(4 * e + 2)
        /\ Popped \div 256 = image.x - e
    BY <1>1, <2>1, SavedByte
  <2>5. reg'["b"] = image.x - e /\ HL' = HL
    <3>1. reg \in [Names -> Byte] /\ {"b", "c", "h", "l"} \subseteq Names
      BY SoundFacts DEF Names
    <3>2. reg' = [reg EXCEPT !["b"] = Popped \div 256, !["c"] = Popped % 256]
      BY <2>3 DEF Moves, SetPair, High, Low
    <3> DEFINE hi == Popped \div 256
               low == Popped % 256
    <3> HIDE DEF hi, low
    <3>3. reg' = [reg EXCEPT !["b"] = hi, !["c"] = low]
      BY <3>2 DEF hi, low
    <3>4. reg'["b"] = hi /\ reg'["h"] = reg["h"] /\ reg'["l"] = reg["l"]
      BY <3>1, <3>3
    <3> QED
      BY <2>4, <3>4 DEF hi, HL, PairValue, High, Low
  <2>6. /\ Coded' = Coded /\ \A u : Slot(u)' = Slot(u) /\ Stacked(u)' = Stacked(u)
        /\ UNCHANGED <<iff_, hlt_, image>>
    BY <2>3, StackKept DEF Moves
  <2>7. /\ pc_' = Origin + 16 /\ sp_' = Slot(4 * e + 2)' /\ Stacked(4 * e + 2)'
        /\ HL' = Triangle((image.x - e) - 1)
    BY <1>1, <2>1, <2>3, <2>4, <2>5, <2>6 DEF Moves
  <2>8. Ascending(e)'
    BY <2>1, <2>5, <2>6, <2>7 DEF Ascending, SumAt
  <2> QED
    BY <1>3, <2>6, <2>8 DEF e
<1> QED
  BY <1>2, <1>3

\* Every machine that sums by recursion holds the code and has room for its stack.
AreSums == \A i \in Images : i.kind = "sumTo" => IsSum(i)

\* Where it begins.
LEMMA SumBegins ==
  ASSUME AreSums, Init
  PROVE  Recursing
<1>1. /\ image \in Images /\ reg = image.reg /\ pc_ = image.pc /\ sp_ = image.sp
      /\ memory = image.memory /\ ~iff_ /\ ~hlt_
  BY DEF Init
<1>2. image.sp \in Word
  BY <1>1, ImagesAssumption
<1> SUFFICES ASSUME image.kind = "sumTo" PROVE Recursing
  BY DEF Recursing
<1>3. IsSum(image)
  BY <1>1 DEF AreSums
<1>4. Coded /\ pc_ = Origin /\ reg["b"] = image.x
  BY <1>1, <1>3 DEF IsSum, Coded
<1> QED
  BY <1>1, <1>2, <1>3, <1>4 DEF Recursing

\* The two instructions before the first call.
LEMMA SumStarts ==
  ASSUME Sound, Instruction, image.sp \in Word, IsSum(image), Coded,
         reg["b"] = image.x, sp_ = image.sp
  PROVE  /\ pc_ = Origin =>
              /\ pc_' = Origin + 3 /\ reg'["b"] = image.x /\ sp_' = image.sp /\ HL' = 0
              /\ Coded' /\ UNCHANGED <<iff_, hlt_, image>>
         /\ pc_ = Origin + 3 /\ HL = 0 =>
              Descending(0)' /\ Coded' /\ UNCHANGED <<iff_, hlt_, image>>
<1>1. ASSUME pc_ = Origin
      PROVE  /\ pc_' = Origin + 3 /\ reg'["b"] = image.x /\ sp_' = image.sp /\ HL' = 0
             /\ Coded' /\ UNCHANGED <<iff_, hlt_, image>>
  <2>1. x = 0 /\ y = 4 /\ z = 1 /\ Address = 0 /\ Wrap(pc_ + 3) = Origin + 3
    BY <1>1, SumCode
  <2>2. Goes(SetPair(2, 0), status_, memory, Origin + 3)
    <3>1. 2 \in 0..2 /\ y = 2 * 2
      BY <2>1
    <3> QED
      BY <2>1, <3>1, LxiGoes
  <2>3. HL' = 0 /\ reg'["b"] = reg["b"]
    <3>1. reg' = SetPair(2, 0) /\ 2 \in 1..2 /\ 0 \in Word
      BY <2>2, WordRange DEF Goes
    <3>2. PairValue(2)' = 0 /\ reg'["b"] = reg["b"]
      BY <3>1, PairAssigned
    <3> QED
      BY <3>2 DEF HL
  <2>4. Coded' = Coded
    BY <2>2, StackKept DEF Goes
  <2> QED
    BY <2>2, <2>3, <2>4 DEF Goes
<1>2. ASSUME pc_ = Origin + 3, HL = 0
      PROVE  Descending(0)' /\ Coded' /\ UNCHANGED <<iff_, hlt_, image>>
  <2>1. /\ x = 3 /\ y = 1 /\ z = 5
        /\ Address = Origin + 7 /\ Wrap(pc_ + 3) = Uint16(1, 0)
    BY <1>2, SumCode
  <2>2. Pushes(Uint16(1, 0), Origin + 7)
    BY <2>1, CallPushes
  <2>3. /\ 0 \in Nat /\ 0 <= 1022 /\ 4 * 0 + 1 = 0 + 1 /\ 4 * 0 + 2 = 0 + 2
        /\ 0 + 2 <= 4 * image.x + 2 /\ image.x \in Nat /\ 0 \in 0..image.x
        /\ image.x - 0 = image.x
    BY ByteRange DEF IsSum
  <2>4. Content(0 + 1) = 1 /\ Content(0 + 2) = 0
    BY <2>3, Contents
  <2>5. 1 \in Byte /\ 0 \in Byte
    BY ByteRange
  <2>6. Stacked(0)
    BY DEF Stacked
  <2>7. sp_ = Slot(0)
    BY <2>3, SlotsNear
  <2>8. Stacked(0 + 2)' /\ Coded' /\ sp_' = Slot(0 + 2)'
    BY <2>2, <2>3, <2>4, <2>5, <2>6, <2>7, StackGrows
  <2>9. /\ reg' = reg /\ HL' = HL /\ pc_' = Origin + 7
        /\ UNCHANGED <<iff_, hlt_, image>>
    BY <2>2, RegistersKept DEF Pushes
  <2>10. SumAt(7, 4 * 0 + 2, image.x)'
    BY <2>3, <2>8, <2>9 DEF SumAt
  <2>11. Descending(0)'
    BY <1>2, <2>3, <2>9, <2>10 DEF Descending
  <2> QED
    BY <2>8, <2>9, <2>11
<1> QED
  BY <1>1, <1>2

\* From instruction to instruction, until it halts.
LEMMA SumSteps ==
  ASSUME Sound, Recursing, [Next]_vars
  PROVE  Recursing'
<1>1. image' = image
  BY ImageKept
<1> SUFFICES ASSUME image.kind = "sumTo" PROVE Recursing'
  BY <1>1 DEF Recursing
<1>2. image.sp \in Word /\ IsSum(image) /\ Coded /\ ~iff_
  BY DEF Recursing
<1>3. IsSum(image') /\ image'.sp \in Word
  BY <1>1, <1>2
<1>4. CASE Rests
  <2>1. UNCHANGED <<reg, pc_, sp_, status_, iff_, hlt_, memory>>
    BY <1>4 DEF Rests
  <2>2. Coded' = Coded /\ HL' = HL /\ DE' = DE
    BY <1>1, <2>1, StackKept DEF HL, DE, PairValue
  <2>3. \A u : Slot(u)' = Slot(u) /\ Stacked(u)' = Stacked(u)
    BY <1>1, <2>1, StackKept
  <2>4. ASSUME NEW i, NEW u, NEW b PROVE SumAt(i, u, b)' = SumAt(i, u, b)
    BY <2>1, <2>3 DEF SumAt
  <2>5. ASSUME NEW d
        PROVE  /\ Descending(d)' = Descending(d) /\ Returned(d)' = Returned(d)
               /\ Ascending(d)' = Ascending(d)
    BY <1>1, <2>1, <2>2, <2>3, <2>4 DEF Descending, Returned, Ascending, SumAt
  <2>6. Summed' = Summed
    BY <1>1, <2>1, <2>2 DEF Summed
  <2> QED
    BY <1>1, <1>2, <2>1, <2>2, <2>5, <2>6 DEF Recursing
<1>5. CASE ~hlt_ /\ Instruction
  <2>1. CASE pc_ = Origin /\ reg["b"] = image.x /\ sp_ = image.sp
    <3>1. /\ pc_' = Origin + 3 /\ reg'["b"] = image.x /\ sp_' = image.sp /\ HL' = 0
          /\ Coded' /\ UNCHANGED <<iff_, hlt_, image>>
      BY <1>2, <1>5, <2>1, SumStarts
    <3> QED
      BY <1>2, <1>3, <1>5, <3>1 DEF Recursing
  <2>2. CASE pc_ = Origin + 3 /\ reg["b"] = image.x /\ sp_ = image.sp /\ HL = 0
    <3>1. Descending(0)' /\ Coded' /\ UNCHANGED <<iff_, hlt_, image>>
      BY <1>2, <1>5, <2>2, SumStarts
    <3> QED
      BY <1>2, <1>3, <1>5, <3>1 DEF Recursing
  <2>3. ASSUME NEW d, Descending(d) PROVE Recursing'
    <3>1. /\ Descending(d)' \/ Descending(d + 1)' \/ Returned(d)'
          /\ Coded' /\ UNCHANGED <<iff_, hlt_, image>>
      BY <1>2, <1>5, <2>3, SumDescends
    <3> QED
      BY <1>2, <1>3, <1>5, <3>1 DEF Recursing
  <2>4. ASSUME NEW d, Ascending(d) PROVE Recursing'
    <3>1. /\ Ascending(d)' \/ Returned(d)'
          /\ Coded' /\ UNCHANGED <<iff_, hlt_, image>>
      BY <1>2, <1>5, <2>4, SumAscends
    <3> QED
      BY <1>2, <1>3, <1>5, <3>1 DEF Recursing
  <2>5. ASSUME NEW d, Returned(d) PROVE Recursing'
    <3>1. /\ IF d = 0 THEN hlt_' /\ Summed' ELSE ~hlt_' /\ Ascending(d - 1)'
          /\ Coded' /\ UNCHANGED <<iff_, image>>
      BY <1>2, <1>5, <2>5, SumGoesOn
    <3> QED
      BY <1>2, <1>3, <3>1 DEF Recursing
  <2> QED
    BY <1>5, <2>1, <2>2, <2>3, <2>4, <2>5 DEF Recursing
<1> QED
  BY <1>2, <1>4, <1>5, QuietSteps

\* A recursive procedure gets its registers and return addresses back and leaves the
\* stack where it was, whatever number it is given and wherever the stack is, in as
\* much room as it takes.
THEOREM SumOfNumbers ==
  ASSUME AreSums
  PROVE  Spec => []RecursiveSum
<1>1. Recursing => RecursiveSum
  BY DEF Recursing, RecursiveSum, Ended, Summed, Triangle
<1> QED
  BY <1>1, SumBegins, SumSteps, SpecSound, PTL DEF Spec

\* The stack of 20 cells that wraps at address 0 is room enough to sum up to 4.
LEMMA SumsHaveRoom ==
  ASSUME Cells = SomeCells, NEW m \in Byte, m <= 4
  PROVE  IsSum(Machine("sumTo", Recursion, m, 0, [b |-> m], {}))
<1> DEFINE i == Machine("sumTo", Recursion, m, 0, [b |-> m], {})
<1>1. m \in Nat
  BY ByteRange
<1>2. i.x = m /\ i.pc = Origin /\ i.sp = 2
  BY DEF Machine
<1>3. i.reg["b"] = m
  BY DEF Machine, Names
<1>4. ASSUME NEW k \in 1..21
      PROVE  Origin + k - 1 \in Cells /\ i.memory[Origin + k - 1] = Recursion[k]
  <2>1. Origin + k - 1 \in SomeCells /\ (Origin + k - 1) - Origin + 1 = k
    BY DEF SomeCells, Code, Origin
  <2>2. DOMAIN Recursion = 1..21
    BY DEF Recursion
  <2> QED
    BY <2>1, <2>2 DEF Machine
<1>5. ASSUME NEW k \in 1..(4 * m + 2)
      PROVE  /\ Wrap(i.sp + 65536 - k) \in Cells
             /\ \A j \in 1..21 : Wrap(i.sp + 65536 - k) # Origin + j - 1
  <2>1. k \in Nat /\ k <= 18
    BY <1>1
  <2>2. i.sp + 65536 - k = 65538 - k /\ 65538 - k \in Int
    BY <1>2, <2>1
  <2>3. Wrap(65538 - k) = IF k <= 2 THEN 2 - k ELSE 65538 - k
    <3>1. /\ k <= 2 => 65536 <= 65538 - k /\ 65538 - k < 131072
          /\ ~(k <= 2) => 0 <= 65538 - k /\ 65538 - k < 65536
      BY <2>1
    <3> QED
      BY <2>1, <2>2, <3>1, WrapNear
  <2>4. Wrap(65538 - k) \in Stack
    BY <2>1, <2>3 DEF Stack
  <2>5. \A j \in 1..21 : Wrap(65538 - k) # Origin + j - 1
    BY <2>1, <2>3 DEF Origin
  <2> QED
    BY <2>2, <2>4, <2>5 DEF SomeCells
<1> HIDE DEF i
<1>6. IsSum(i)
  BY <1>1, <1>2, <1>3, <1>4, <1>5 DEF IsSum
<1> QED
  BY <1>6 DEF i

\* The machines that TLC runs are among those the theorems are about.
THEOREM RunsAreCovered ==
  ASSUME Cells = SomeCells, Images = SomeImages
  PROVE  /\ AreImages("difference", Loop(SBBM, NOP), Word)
         /\ AreImages("decimalSum", Loop(ADCM, DAA), DecimalWords)
         /\ AreImages("decimalDifference", DecimalSubtraction, DecimalWords)
         /\ AreProducts /\ AreBits /\ AreSums
<1>1. \A kind, code, m, n, r, f : Machine(kind, code, m, n, r, f).kind = kind
  BY DEF Machine
<1> DEFINE sum(m, n) == Machine("decimalSum", Loop(ADCM, DAA), Bcd(m), Bcd(n), <<>>, {})
           difference(m, n) ==
             Machine("decimalDifference", DecimalSubtraction, Bcd(m), Bcd(n), <<>>, {})
           borrow(m, n) == Machine("difference", Loop(SBBM, NOP), m, n, <<>>, {})
           product(m, n, f) ==
             Machine("product", Multiplication, m, n, [c |-> m, d |-> n], f)
           total(m) == Machine("sumTo", Recursion, m, 0, [b |-> m], {})
           count(m) == Machine("bits", BitCount, m, 0, [a |-> m], {})
           opcoded(op, a, f) ==
             Machine("opcode", <<op, Lo(X), Hi(X)>>, 255, 128,
                     [a |-> a, b |-> 1, c |-> 255, d |-> 2, e |-> 255, h |-> 1, l |-> 255], f)
<1>2. /\ \A m, n : sum(m, n).kind = "decimalSum"
      /\ \A m, n : difference(m, n).kind = "decimalDifference"
      /\ \A m, n : borrow(m, n).kind = "difference"
      /\ \A m, n, f : product(m, n, f).kind = "product"
      /\ \A m : total(m).kind = "sumTo"
      /\ \A m : count(m).kind = "bits"
      /\ \A op, a, f : opcoded(op, a, f).kind = "opcode"
  <2>1. \A m, n : sum(m, n).kind = "decimalSum"
    BY <1>1
  <2>2. \A m, n : difference(m, n).kind = "decimalDifference"
    BY <1>1
  <2>3. \A m, n : borrow(m, n).kind = "difference"
    BY <1>1
  <2>4. \A m, n, f : product(m, n, f).kind = "product"
    BY <1>1
  <2>5. \A m : total(m).kind = "sumTo"
    BY <1>1
  <2>6. \A m : count(m).kind = "bits"
    BY <1>1
  <2>7. \A op, a, f : opcoded(op, a, f).kind = "opcode"
    BY <1>1
  <2> QED
    BY <2>1, <2>2, <2>3, <2>4, <2>5, <2>6, <2>7
<1> DEFINE carries == {{}, {CarryFlag}}
           bytes == {0, 153, 255}
           flags == {{}, Flags}
           sums == {sum(m, n) : m \in Decimals, n \in Decimals}
           differences == {difference(m, n) : m \in Decimals, n \in Decimals}
           borrows == {borrow(m, n) : m \in Words, n \in Words}
           products == {product(m, n, f) : m \in Factors, n \in Factors, f \in carries}
           totals == {total(m) : m \in 0..3}
           counts == {count(m) : m \in Byte}
           opcodes == {opcoded(op, a, f) : op \in Byte, a \in bytes, f \in flags}
<1>3. Images = sums \cup differences \cup borrows \cup products \cup totals \cup counts
                \cup opcodes
  BY DEF SomeImages, ProgramImages, OpcodeImages
<1> HIDE DEF sum, difference, borrow, product, total, count, opcoded, carries, bytes, flags
<1>4. ASSUME NEW i \in Images
      PROVE  /\ i.kind = "decimalSum" => \E m \in Decimals, n \in Decimals : i = sum(m, n)
             /\ i.kind = "decimalDifference" =>
                  \E m \in Decimals, n \in Decimals : i = difference(m, n)
             /\ i.kind = "difference" => \E m \in Words, n \in Words : i = borrow(m, n)
             /\ i.kind = "product" =>
                  \E m \in Factors, n \in Factors, f \in carries : i = product(m, n, f)
             /\ i.kind = "sumTo" => \E m \in 0..3 : i = total(m)
             /\ i.kind = "bits" => \E m \in Byte : i = count(m)
  <2>1. i \in sums => \E m \in Decimals, n \in Decimals : i = sum(m, n)
    OBVIOUS
  <2>2. i \in differences => \E m \in Decimals, n \in Decimals : i = difference(m, n)
    OBVIOUS
  <2>3. i \in borrows => \E m \in Words, n \in Words : i = borrow(m, n)
    OBVIOUS
  <2>4. i \in products => \E m \in Factors, n \in Factors, f \in carries : i = product(m, n, f)
    OBVIOUS
  <2>5. i \in totals => \E m \in 0..3 : i = total(m)
    OBVIOUS
  <2>6. i \in counts => \E m \in Byte : i = count(m)
    OBVIOUS
  <2>7. i \in opcodes => \E op \in Byte, a \in bytes, f \in flags : i = opcoded(op, a, f)
    OBVIOUS
  <2> HIDE DEF sums, differences, borrows, products, totals, counts, opcodes
  <2>8. \/ i \in sums
        \/ i \in differences
        \/ i \in borrows
        \/ i \in products
        \/ i \in totals
        \/ i \in counts
        \/ i \in opcodes
    BY <1>3, Zenon
  <2>9. /\ (i \in sums => i.kind = "decimalSum")
        /\ (i \in differences => i.kind = "decimalDifference")
        /\ (i \in borrows => i.kind = "difference")
        /\ (i \in products => i.kind = "product")
        /\ (i \in totals => i.kind = "sumTo")
        /\ (i \in counts => i.kind = "bits")
        /\ (i \in opcodes => i.kind = "opcode")
    <3>1. i \in sums => i.kind = "decimalSum"
      BY <1>2, <2>1, Zenon
    <3>2. i \in differences => i.kind = "decimalDifference"
      BY <1>2, <2>2, Zenon
    <3>3. i \in borrows => i.kind = "difference"
      BY <1>2, <2>3, Zenon
    <3>4. i \in products => i.kind = "product"
      BY <1>2, <2>4, Zenon
    <3>5. i \in totals => i.kind = "sumTo"
      BY <1>2, <2>5, Zenon
    <3>6. i \in counts => i.kind = "bits"
      BY <1>2, <2>6, Zenon
    <3>7. i \in opcodes => i.kind = "opcode"
      BY <1>2, <2>7, Zenon
    <3> QED
      BY <3>1, <3>2, <3>3, <3>4, <3>5, <3>6, <3>7
  <2> QED
    BY <2>1, <2>2, <2>3, <2>4, <2>5, <2>6, <2>7, <2>8, <2>9
<1>5. \A m \in Decimals : Bcd(m) \in DecimalWords
  <2>1. \A m \in Decimals : m \in TenThousand
    BY DEF Decimals, TenThousand
  <2> QED
    BY <2>1 DEF DecimalWords
<1>6. Words \subseteq Word
  BY WordRange DEF Words
<1>7. Factors \subseteq Byte /\ carries \subseteq SUBSET Flags
  BY ByteRange DEF Factors, Flags, carries
<1>8. \A m \in 0..3 : IsSum(Machine("sumTo", Recursion, m, 0, [b |-> m], {}))
  <2> SUFFICES ASSUME NEW m \in 0..3
               PROVE  IsSum(Machine("sumTo", Recursion, m, 0, [b |-> m], {}))
    OBVIOUS
  <2>1. m \in Byte /\ m <= 4
    BY ByteRange
  <2> QED
    BY <2>1, SumsHaveRoom, Zenon
<1>9. AreImages("difference", Loop(SBBM, NOP), Word)
  BY <1>4, <1>6 DEF AreImages, borrow
<1>10. AreImages("decimalSum", Loop(ADCM, DAA), DecimalWords)
  BY <1>4, <1>5 DEF AreImages, sum
<1>11. AreImages("decimalDifference", DecimalSubtraction, DecimalWords)
  BY <1>4, <1>5 DEF AreImages, difference
<1>12. AreProducts
  <2>1. ASSUME NEW i \in Images, i.kind = "product"
        PROVE  \E m \in Byte, n \in Byte, f \in SUBSET Flags : i = product(m, n, f)
    BY <1>4, <1>7, <2>1
  <2> QED
    BY <2>1, Zenon DEF AreProducts, product
<1>13. AreBits
  BY <1>4 DEF AreBits, count
<1>14. AreSums
  BY <1>4, <1>8 DEF AreSums, total
<1> QED
  BY <1>9, <1>10, <1>11, <1>12, <1>13, <1>14
=============================================================================
