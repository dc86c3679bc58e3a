--------------------------- MODULE Intel8080Proofs ---------------------------
(***************************************************************************)
(* Proofs about Intel8080: no instruction, whatever the memory holds,      *)
(* takes a register, an address or the flags out of their range, or        *)
(* changes a flag it should leave alone; and the arithmetic unit adds,     *)
(* subtracts and adjusts as arithmetic says, for all bytes.                *)
(***************************************************************************)
EXTENDS Intel8080, TLAPS

-----------------------------------------------------------------------------
(* Ranges.  MaxByte and MaxWord stay folded: the provers would enumerate   *)
(* the literal ranges.                                                     *)

\* The largest byte and the largest word.
LEMMA MaxOf == MaxByte = 255 /\ MaxWord = 65535
BY DEF MaxByte, MaxWord

\* Membership in Byte as bounds.
LEMMA ByteRange == \A n : n \in Byte <=> n \in Int /\ 0 <= n /\ n <= 255
<1>1. MaxByte \in Int
  BY DEF MaxByte
<1>2. \A n : n \in Byte <=> n \in Int /\ 0 <= n /\ n <= MaxByte
  BY <1>1 DEF Byte
<1>3. QED
  BY <1>2, MaxOf

\* Membership in Word as bounds.
LEMMA WordRange == \A n : n \in Word <=> n \in Int /\ 0 <= n /\ n <= 65535
<1>1. MaxWord \in Int
  BY DEF MaxWord
<1>2. \A n : n \in Word <=> n \in Int /\ 0 <= n /\ n <= MaxWord
  BY <1>1 DEF Word
<1>3. QED
  BY <1>2, MaxOf

\* A word is two bytes.
LEMMA Halves ==
  ASSUME NEW w \in Word
  PROVE  w % 256 \in Byte /\ w \div 256 \in Byte
<1>1. w \in Int /\ 0 <= w /\ w <= 65535
  BY WordRange
<1>2. w % 256 \in Int /\ 0 <= w % 256 /\ w % 256 <= 255
  BY <1>1
<1>3. w \div 256 \in Int /\ 0 <= w \div 256 /\ w \div 256 <= 255
  BY <1>1
<1>4. QED
  BY <1>2, <1>3, ByteRange

\* Two bytes are a word.
LEMMA Uint16Word ==
  ASSUME NEW hi \in Byte, NEW low \in Byte
  PROVE  Uint16(hi, low) \in Word
BY ByteRange, WordRange DEF Uint16

\* uint16_t arithmetic stays in a word.
LEMMA WrapWord == ASSUME NEW n \in Int PROVE Wrap(n) \in Word
BY WordRange DEF Wrap

\* Numbers that wrap at most once.
LEMMA WrapNear ==
  ASSUME NEW n \in Int
  PROVE  /\ 0 <= n /\ n < 65536 => Wrap(n) = n
         /\ 65536 <= n /\ n < 131072 => Wrap(n) = n - 65536
         /\ -65536 <= n /\ n < 0 => Wrap(n) = n + 65536
<1>1. 0 <= n /\ n < 65536 => n % 65536 = n
  OBVIOUS
<1>2. 65536 <= n /\ n < 131072 => n % 65536 = n - 65536
  OBVIOUS
<1>3. -65536 <= n /\ n < 0 => n % 65536 = n + 65536
  OBVIOUS
<1> QED
  BY <1>1, <1>2, <1>3 DEF Wrap

\* A jump goes to an address.
LEMMA JumpType ==
  ASSUME NEW a \in Word, NEW t \in 0..18, Jump(a, t)
  PROVE  pc_' \in Word /\ ticks' \in 0..18
BY DEF Jump

-----------------------------------------------------------------------------
(* What the arithmetic unit yields.                                        *)

\* The bits a status byte may have.
Shape(s) == 1 \in s /\ s \subseteq Flags \cup {1}

\* An outcome of the arithmetic unit that may be assigned.
Proper(outcome) == outcome.value \in Byte /\ Shape(outcome.status)

\* Setting or clearing a carry keeps the shape of a status byte.
LEMMA WithShape ==
  ASSUME NEW s, Shape(s), NEW on
  PROVE  Shape(With(s, CarryFlag, on)) /\ Shape(With(s, AuxCarryFlag, on))
BY DEF Shape, With, CarryFlag, AuxCarryFlag, Flags

\* The flags that follow from a byte.
LEMMA SignsAreFlags ==
  ASSUME NEW r
  PROVE  Signs(r) \subseteq {SignFlag, ZeroFlag, ParityFlag}
BY Zenon DEF Signs

\* An outcome of a byte is proper.
LEMMA OutcomeProper ==
  ASSUME NEW s, Shape(s), NEW r \in Byte, NEW carry, NEW aux
  PROVE  Proper(Outcome(s, r, carry, aux))
<1>1. Shape((s \ Flags) \cup Signs(r))
  <2>1. 1 \notin Flags
    BY DEF Flags, CarryFlag, AuxCarryFlag, ParityFlag, ZeroFlag, SignFlag
  <2>2. Signs(r) \subseteq Flags
    BY SignsAreFlags DEF Flags
  <2>3. QED
    BY <2>1, <2>2 DEF Shape
<1> DEFINE bare == (s \ Flags) \cup Signs(r)
<1>2. Shape(Outcome(s, r, carry, aux).status)
  <2>1. Outcome(s, r, carry, aux).status = With(With(bare, CarryFlag, carry), AuxCarryFlag, aux)
    BY DEF Outcome
  <2> HIDE DEF bare
  <2>2. Shape(With(With(bare, CarryFlag, carry), AuxCarryFlag, aux))
    BY <1>1, WithShape DEF bare
  <2>3. QED
    BY <2>1, <2>2
<1>3. Outcome(s, r, carry, aux).value = r
  BY DEF Outcome
<1>4. QED
  BY <1>2, <1>3 DEF Proper

\* Add yields a byte and flags.
LEMMA AddProper ==
  ASSUME NEW s, Shape(s), NEW a \in Byte, NEW b \in Byte, NEW carry \in {0, 1}, NEW setCarryFlag
  PROVE  Proper(Add(s, a, b, carry, setCarryFlag))
<1>1. PICK v \in Byte : v = (a + b + carry) % 256
  BY ByteRange
<1>2. Add(s, a, b, carry, setCarryFlag)
        = Outcome(s, v, IF setCarryFlag THEN a + b + carry > 255 ELSE CarryFlag \in s,
                  (a % 16) + (b % 16) + carry > 15)
  BY <1>1 DEF Add
<1>3. \A c, h : Proper(Outcome(s, v, c, h))
  BY OutcomeProper
<1>4. QED
  BY <1>2, <1>3

\* Sub yields a byte and flags.
LEMMA SubProper ==
  ASSUME NEW s, Shape(s), NEW a \in Byte, NEW b \in Byte, NEW withCarry \in {0, 1}
  PROVE  Proper(Sub(s, a, b, withCarry))
<1> DEFINE sum == Add(s, a, 255 - b, 1 - withCarry, TRUE)
<1>1. 255 - b \in Byte /\ 1 - withCarry \in {0, 1}
  BY ByteRange
<1>2. Proper(sum)
  <2>1. PICK c \in Byte, carry \in {0, 1} : c = 255 - b /\ carry = 1 - withCarry
    BY <1>1
  <2>2. Proper(Add(s, a, c, carry, TRUE))
    BY AddProper
  <2> QED
    BY <2>1, <2>2
<1>3. /\ Sub(s, a, b, withCarry).value = sum.value
      /\ Sub(s, a, b, withCarry).status
           = With(sum.status, CarryFlag, CarryFlag \notin sum.status)
  BY DEF Sub, Add, Outcome
<1> HIDE DEF sum
<1>4. QED
  BY <1>2, <1>3, WithShape DEF Proper

\* The value of eight bits is a byte.
LEMMA ValueByte == ASSUME NEW bits PROVE Value(bits) \in Byte
<1> DEFINE bit(i, power) == IF i \in bits THEN power ELSE 0
<1>1. /\ bit(0, 1) \in {0, 1} /\ bit(1, 2) \in {0, 2} /\ bit(2, 4) \in {0, 4}
      /\ bit(3, 8) \in {0, 8} /\ bit(4, 16) \in {0, 16} /\ bit(5, 32) \in {0, 32}
      /\ bit(6, 64) \in {0, 64} /\ bit(7, 128) \in {0, 128}
  OBVIOUS
<1>2. Value(bits) = bit(0, 1) + bit(1, 2) + bit(2, 4) + bit(3, 8)
                    + bit(4, 16) + bit(5, 32) + bit(6, 64) + bit(7, 128)
  BY DEF Value
<1> HIDE DEF bit
<1>3. QED
  BY <1>1, <1>2, ByteRange

\* The eight operations of the arithmetic group yield a byte and flags.
LEMMA AluProper ==
  ASSUME NEW s, Shape(s), NEW a \in Byte, NEW b \in Byte, NEW op \in 0..7
  PROVE  Proper(Alu(op, s, a, b))
<1> DEFINE carry == IF CarryFlag \in s THEN 1 ELSE 0
<1>1. carry \in {0, 1} /\ 0 \in {0, 1}
  OBVIOUS
<1> HIDE DEF carry
<1>2. /\ Proper(Add(s, a, b, 0, TRUE)) /\ Proper(Add(s, a, b, carry, TRUE))
      /\ Proper(Sub(s, a, b, 0)) /\ Proper(Sub(s, a, b, carry))
  BY <1>1, AddProper, SubProper
<1>3. Proper(Ana(s, a, b)) /\ Proper(Xra(s, a, b)) /\ Proper(Ora(s, a, b))
  BY ValueByte, OutcomeProper DEF Ana, Xra, Ora
<1>4. Proper([Sub(s, a, b, 0) EXCEPT !.value = a])
  <2>1. /\ [Sub(s, a, b, 0) EXCEPT !.value = a].value = a
        /\ [Sub(s, a, b, 0) EXCEPT !.value = a].status = Sub(s, a, b, 0).status
    BY DEF Sub, Add, Outcome
  <2>2. QED
    BY <2>1, <1>2 DEF Proper
<1>5. Alu(op, s, a, b) \in {Add(s, a, b, 0, TRUE), Add(s, a, b, carry, TRUE), Sub(s, a, b, 0),
                           Sub(s, a, b, carry), Ana(s, a, b), Xra(s, a, b), Ora(s, a, b),
                           [Sub(s, a, b, 0) EXCEPT !.value = a]}
  <2>1. op \in {0, 1, 2, 3, 4, 5, 6, 7}
    OBVIOUS
  <2>2. QED
    BY <2>1 DEF Alu, carry
<1>6. QED
  BY <1>2, <1>3, <1>4, <1>5

\* Daa yields a byte and flags.
LEMMA AdjustProper ==
  ASSUME NEW s, Shape(s), NEW a \in Byte
  PROVE  Proper(Adjust(s, a))
<1> DEFINE k(low, high) == (IF low THEN 6 ELSE 0) + (IF high THEN 96 ELSE 0)
<1>1. \A low, high : k(low, high) \in Byte
  BY ByteRange
<1> HIDE DEF k
<1>2. \A low, high : Proper(Add(With(s, CarryFlag, high), a, k(low, high), 0, FALSE))
  BY <1>1, AddProper, WithShape
<1>3. QED
  BY <1>2 DEF Adjust, k

\* The rotations yield a byte and flags.
LEMMA RotateProper ==
  ASSUME NEW s, Shape(s), NEW a \in Byte, NEW op
  PROVE  Proper(Rotate(op, s, a))
<1>1. Shape(Rotate(op, s, a).status)
  BY WithShape DEF Rotate
<1>2. \A enters : /\ ((2 * a) % 256) + (IF enters THEN 1 ELSE 0) \in Byte
                  /\ (a \div 2) + (IF enters THEN 128 ELSE 0) \in Byte
  BY ByteRange
<1>3. Rotate(op, s, a).value \in Byte
  <2>1. CASE op \in {0, 2}
    BY <1>2, <2>1 DEF Rotate
  <2>2. CASE op \notin {0, 2}
    BY <1>2, <2>2 DEF Rotate
  <2> QED
    BY <2>1, <2>2
<1>4. QED
  BY <1>1, <1>3 DEF Proper

-----------------------------------------------------------------------------
(* Operands.                                                               *)

\* Every address reads a byte.
LEMMA PeekByte ==
  ASSUME TypeOK, NEW a
  PROVE  Peek(a) \in Byte
BY CellsAssumption DEF TypeOK, Peek

\* What is written of bytes and words leaves cells of bytes.
LEMMA PokeCells ==
  ASSUME TypeOK, NEW a
  PROVE  /\ \A v \in Byte : Poke(a, v) \in [Cells -> Byte]
         /\ \A w \in Word : Poke2(a, w) \in [Cells -> Byte]
<1>1. \A v \in Byte : Poke(a, v) \in [Cells -> Byte]
  BY DEF TypeOK, Poke
<1>2. ASSUME NEW w \in Word
      PROVE  Poke2(a, w) \in [Cells -> Byte]
  BY <1>1, Halves DEF Poke2
<1>3. QED
  BY <1>1, <1>2

\* The fields of the opcode and its data.
LEMMA Fields ==
  ASSUME TypeOK
  PROVE  /\ x \in 0..3 /\ y \in 0..7 /\ z \in 0..7 /\ Pair \in 0..3
         /\ Data \in Byte /\ Address \in Word
<1>1. opcode \in Byte /\ Data \in Byte /\ Address \in Word
  BY PeekByte, Uint16Word DEF opcode, Data, Address
<1>2. x \in 0..3 /\ y \in 0..7 /\ z \in 0..7
  BY <1>1, ByteRange DEF x, y, z
<1>3. Pair \in 0..3
  BY <1>2 DEF Pair
<1>4. QED
  BY <1>1, <1>2, <1>3

\* The register numbers but M name registers.
LEMMA NameOfRegister ==
  ASSUME NEW r \in 0..7, r # M
  PROVE  Name(r) \in Names
<1>1. r \in {0, 1, 2, 3, 4, 5, 7}
  BY DEF M
<1>2. QED
  BY <1>1 DEF Name, Names

\* An operand is a byte.
LEMMA OperandByte ==
  ASSUME TypeOK, NEW r \in 0..7
  PROVE  Operand(r) \in Byte
BY NameOfRegister, PeekByte DEF Operand, TypeOK

\* A pair is of two registers.
LEMMA PairNames ==
  ASSUME NEW p \in 0..3, p # 3
  PROVE  High(p) \in Names /\ Low(p) \in Names
<1>1. p \in {0, 1, 2}
  OBVIOUS
<1>2. QED
  BY <1>1 DEF High, Low, Names

\* A pair holds a word.
LEMMA PairWord ==
  ASSUME TypeOK, NEW p \in 0..3
  PROVE  PairValue(p) \in Word
BY PairNames, Uint16Word DEF PairValue, TypeOK

\* Setting a pair leaves registers of bytes.
LEMMA SetPairType ==
  ASSUME TypeOK, NEW p \in 0..3, NEW w \in Word
  PROVE  SetPair(p, w) \in [Names -> Byte]
BY Halves DEF SetPair, TypeOK

\* Setting a register leaves registers of bytes.
LEMMA SetRegister ==
  ASSUME TypeOK, NEW n, NEW v \in Byte
  PROVE  [reg EXCEPT ![n] = v] \in [Names -> Byte]
BY DEF TypeOK

\* The stack and HL hold words.
LEMMA PoppedWord ==
  ASSUME TypeOK
  PROVE  Popped \in Word /\ HL \in Word
BY PeekByte, Uint16Word, PairWord DEF Popped, HL

\* The inductive invariant.
Sound == TypeOK /\ StatusShape

\* What is left to show of an instruction that changes registers, flags, stack
\* pointer or memory.
LEMMA ChangesSound ==
  ASSUME Sound, NEW r \in [Names -> Byte], NEW s, Shape(s), NEW sp \in Word,
         NEW m \in [Cells -> Byte], Changes(r, s, sp, m),
         pc_' \in Word, ticks' \in 0..18
  PROVE  Sound'
<1>1. s \subseteq Bit
  BY DEF Shape, Flags, Bit, CarryFlag, AuxCarryFlag, ParityFlag, ZeroFlag, SignFlag
<1>2. TypeOK'
  BY <1>1 DEF Changes, Sound, TypeOK
<1>3. StatusShape'
  BY DEF Changes, StatusShape, Shape
<1>4. QED
  BY <1>2, <1>3 DEF Sound

\* pc_ wraps when it is advanced.
LEMMA AdvanceType ==
  ASSUME TypeOK, NEW length \in 0..3, NEW t \in 0..18, Advance(length, t)
  PROVE  pc_' \in Word /\ ticks' \in 0..18
BY WrapWord, WordRange DEF Advance, TypeOK

\* Assigning a proper outcome to the accumulator.
LEMMA ChangeASound ==
  ASSUME Sound, NEW result, Proper(result), ChangeA(result),
         pc_' \in Word, ticks' \in 0..18
  PROVE  Sound'
<1>1. [reg EXCEPT !["a"] = result.value] \in [Names -> Byte]
  BY SetRegister DEF Proper, Sound
<1>2. sp_ \in Word /\ memory \in [Cells -> Byte]
  BY DEF Sound, TypeOK
<1>3. QED
  BY <1>1, <1>2, ChangesSound DEF ChangeA, Proper

\* Assigning a byte to a register or to the cell at HL.
LEMMA ChangeOperandSound ==
  ASSUME Sound, NEW r \in 0..7, NEW v \in Byte, NEW s, Shape(s), ChangeOperand(r, v, s),
         pc_' \in Word, ticks' \in 0..18
  PROVE  Sound'
<1>1. [reg EXCEPT ![Name(r)] = v] \in [Names -> Byte] /\ Poke(HL, v) \in [Cells -> Byte]
  BY SetRegister, PokeCells DEF Sound
<1>2. reg \in [Names -> Byte] /\ sp_ \in Word /\ memory \in [Cells -> Byte]
  BY DEF Sound, TypeOK
<1>3. QED
  BY <1>1, <1>2, ChangesSound DEF ChangeOperand

\* Assigning a word to a pair or to sp_.
LEMMA ChangePairSound ==
  ASSUME Sound, NEW p \in 0..3, NEW w \in Word, ChangePair(p, w),
         pc_' \in Word, ticks' \in 0..18
  PROVE  Sound'
<1>1. SetPair(p, w) \in [Names -> Byte]
  BY SetPairType DEF Sound
<1>2. reg \in [Names -> Byte] /\ sp_ \in Word /\ memory \in [Cells -> Byte] /\ Shape(status_)
  BY DEF Sound, TypeOK, StatusShape, Shape
<1>3. QED
  BY <1>1, <1>2, ChangesSound DEF ChangePair

-----------------------------------------------------------------------------
(* The invariant.                                                          *)

\* The invariant, taken apart.
LEMMA SoundFacts ==
  ASSUME Sound
  PROVE  /\ TypeOK /\ Shape(status_)
         /\ reg \in [Names -> Byte] /\ reg["a"] \in Byte /\ pc_ \in Word /\ sp_ \in Word
         /\ memory \in [Cells -> Byte]
BY DEF Sound, TypeOK, StatusShape, Shape, Names

\* One lemma for each group of instructions: NOP and MOV r, r.
LEMMA NopSound == ASSUME Sound, Nop PROVE Sound'
BY SoundFacts, ChangesSound, AdvanceType DEF Nop

\* The undefined opcodes.
LEMMA NotImplementedSound == ASSUME Sound, NotImplemented PROVE Sound'
BY SoundFacts, ChangesSound, AdvanceType DEF NotImplemented

\* LXI, INX, DCX, DAD.
LEMMA PairInstructionsSound ==
  ASSUME Sound, Lxi \/ Inx \/ Dcx \/ Dad
  PROVE  Sound'
<1>1. Pair \in 0..3 /\ Address \in Word /\ PairValue(Pair) \in Word /\ HL \in Word
  BY SoundFacts, Fields, PairWord, PoppedWord
<1>2. /\ Wrap(PairValue(Pair) + 1) \in Word /\ Wrap(PairValue(Pair) + 65535) \in Word
      /\ Wrap(PairValue(Pair) + HL) \in Word
  BY <1>1, WrapWord, WordRange
<1>3. CASE Lxi
  BY <1>1, <1>3, SoundFacts, ChangePairSound, AdvanceType DEF Lxi
<1>4. CASE Inx
  BY <1>1, <1>2, <1>4, SoundFacts, ChangePairSound, AdvanceType DEF Inx
<1>5. CASE Dcx
  BY <1>1, <1>2, <1>5, SoundFacts, ChangePairSound, AdvanceType DEF Dcx
<1>6. CASE Dad
  <2>1. SetPair(2, Wrap(PairValue(Pair) + HL)) \in [Names -> Byte]
    BY <1>2, SoundFacts, SetPairType
  <2>2. PICK on : Shape(With(status_, CarryFlag, on))
          /\ Changes(SetPair(2, Wrap(PairValue(Pair) + HL)), With(status_, CarryFlag, on),
                     sp_, memory)
    BY <1>6, SoundFacts, WithShape DEF Dad
  <2>3. Advance(1, 10)
    BY <1>6 DEF Dad
  <2>4. QED
    BY <2>1, <2>2, <2>3, SoundFacts, ChangesSound, AdvanceType
<1>7. QED
  BY <1>3, <1>4, <1>5, <1>6

\* STAX, SHLD, STA.
LEMMA StoresSound ==
  ASSUME Sound, Stax \/ Shld \/ Sta
  PROVE  Sound'
<1>1. \A a : Poke(a, reg["a"]) \in [Cells -> Byte] /\ Poke2(a, HL) \in [Cells -> Byte]
  BY SoundFacts, PokeCells, PoppedWord
<1>2. CASE Stax
  BY <1>1, <1>2, SoundFacts, ChangesSound, AdvanceType DEF Stax
<1>3. CASE Shld
  BY <1>1, <1>3, SoundFacts, ChangesSound, AdvanceType DEF Shld
<1>4. CASE Sta
  BY <1>1, <1>4, SoundFacts, ChangesSound, AdvanceType DEF Sta
<1>5. QED
  BY <1>2, <1>3, <1>4

\* LDAX, LHLD, LDA, IN.
LEMMA LoadsSound ==
  ASSUME Sound, Ldax \/ Lhld \/ Lda \/ In
  PROVE  Sound'
<1>1. \A v \in Byte : [reg EXCEPT !["a"] = v] \in [Names -> Byte]
  BY SoundFacts, SetRegister
<1>2. \A a : Peek(a) \in Byte
  BY SoundFacts, PeekByte
<1>3. CASE Ldax
  <2>1. /\ Changes([reg EXCEPT !["a"] = Peek(PairValue(Pair))], status_, sp_, memory)
        /\ pc_' \in Word /\ ticks' \in 0..18
    BY <1>3, SoundFacts, AdvanceType DEF Ldax
  <2>2. QED
    BY <2>1, <1>1, <1>2, SoundFacts, ChangesSound
<1>4. CASE Lhld
  <2>1. Uint16(Peek(Wrap(Address + 1)), Peek(Address)) \in Word
    BY <1>2, Uint16Word
  <2>2. QED
    BY <2>1, <1>4, SoundFacts, ChangePairSound, AdvanceType DEF Lhld
<1>5. CASE Lda
  <2>1. /\ Changes([reg EXCEPT !["a"] = Peek(Address)], status_, sp_, memory)
        /\ pc_' \in Word /\ ticks' \in 0..18
    BY <1>5, SoundFacts, AdvanceType DEF Lda
  <2>2. QED
    BY <2>1, <1>1, <1>2, SoundFacts, ChangesSound
<1>6. CASE In
  <2>1. PICK v \in Byte : Changes([reg EXCEPT !["a"] = v], status_, sp_, memory)
    BY <1>6, InputsAssumption DEF In
  <2>2. pc_' \in Word /\ ticks' \in 0..18
    BY <1>6, SoundFacts, AdvanceType DEF In
  <2>3. QED
    BY <2>1, <2>2, <1>1, SoundFacts, ChangesSound
<1>7. QED
  BY <1>3, <1>4, <1>5, <1>6

\* INR, DCR, MVI, MOV.
LEMMA OperandInstructionsSound ==
  ASSUME Sound, Inr \/ Dcr \/ Mvi \/ Mov
  PROVE  Sound'
<1>1. y \in 0..7 /\ z \in 0..7 /\ Data \in Byte /\ Operand(y) \in Byte /\ Operand(z) \in Byte
  BY SoundFacts, Fields, OperandByte
<1>2. Proper(Step(1)) /\ Proper(Step(255))
  <2>1. 1 \in Byte /\ 255 \in Byte
    BY ByteRange
  <2>2. \A by \in Byte : Proper(Add(status_, Operand(y), by, 0, FALSE))
    BY <1>1, SoundFacts, AddProper
  <2>3. QED
    BY <2>1, <2>2 DEF Step
<1>3. CASE Inr
  BY <1>1, <1>2, <1>3, SoundFacts, ChangeOperandSound, AdvanceType DEF Inr, Proper
<1>4. CASE Dcr
  BY <1>1, <1>2, <1>4, SoundFacts, ChangeOperandSound, AdvanceType DEF Dcr, Proper
<1>5. CASE Mvi
  BY <1>1, <1>5, SoundFacts, ChangeOperandSound, AdvanceType DEF Mvi
<1>6. CASE Mov
  BY <1>1, <1>6, SoundFacts, ChangeOperandSound, AdvanceType DEF Mov
<1>7. QED
  BY <1>3, <1>4, <1>5, <1>6

\* The rotations, DAA, CMA, STC, CMC and the arithmetic group.
LEMMA AccumulatorSound ==
  ASSUME Sound, RotateA \/ Daa \/ Cma \/ Stc \/ Cmc \/ Arithmetic
  PROVE  Sound'
<1>1. y \in 0..7 /\ z \in 0..7 /\ Data \in Byte /\ Operand(z) \in Byte
  BY SoundFacts, Fields, OperandByte
<1>2. CASE RotateA
  BY <1>2, SoundFacts, RotateProper, ChangeASound, AdvanceType DEF RotateA
<1>3. CASE Daa
  BY <1>3, SoundFacts, AdjustProper, ChangeASound, AdvanceType DEF Daa
<1>4. CASE Cma
  <2>1. Proper([value |-> 255 - reg["a"], status |-> status_])
    BY SoundFacts, ByteRange DEF Proper
  <2>2. QED
    BY <2>1, <1>4, SoundFacts, ChangeASound, AdvanceType DEF Cma
<1>5. CASE Stc
  <2>1. Shape(With(status_, CarryFlag, TRUE))
    BY SoundFacts, WithShape
  <2>2. QED
    <3>1. Changes(reg, With(status_, CarryFlag, TRUE), sp_, memory)
      BY <1>5 DEF Stc
    <3>2. pc_' \in Word /\ ticks' \in 0..18
      BY <1>5, SoundFacts, AdvanceType DEF Stc
    <3>3. QED
      BY <3>1, <3>2, <2>1, SoundFacts, ChangesSound
<1>6. CASE Cmc
  BY <1>6, SoundFacts, WithShape, ChangesSound, AdvanceType DEF Cmc
<1>7. CASE Arithmetic
  <2>1. /\ Proper(Alu(y, status_, reg["a"], Operand(z)))
        /\ Proper(Alu(y, status_, reg["a"], Data))
    BY <1>1, SoundFacts, AluProper
  <2>2. QED
    BY <2>1, <1>7, SoundFacts, ChangeASound, AdvanceType DEF Arithmetic
<1>8. QED
  BY <1>2, <1>3, <1>4, <1>5, <1>6, <1>7

\* Pushing a word; sp_ wraps.
LEMMA PushOntoSound ==
  ASSUME Sound, NEW w \in Word, PushOnto(w), pc_' \in Word, ticks' \in 0..18
  PROVE  Sound'
<1>1. Wrap(sp_ + 65534) \in Word
  BY SoundFacts, WrapWord, WordRange
<1>2. Poke2(Wrap(sp_ + 65534), w) \in [Cells -> Byte]
  BY SoundFacts, PokeCells
<1>3. QED
  BY <1>1, <1>2, SoundFacts, ChangesSound DEF PushOnto

\* Returns, jumps, calls, RST and PCHL.
LEMMA ControlSound ==
  ASSUME Sound, RetOnFlag \/ JmpOnFlag \/ CallOnFlag \/ Rst \/ Pchl
  PROVE  Sound'
<1>1. Popped \in Word /\ HL \in Word /\ Address \in Word /\ y \in 0..7
  BY SoundFacts, PoppedWord, Fields
<1>2. /\ Wrap(sp_ + 2) \in Word /\ Wrap(pc_ + 3) \in Word /\ Wrap(pc_ + 1) \in Word
      /\ 8 * y \in Word
  BY <1>1, SoundFacts, WrapWord, WordRange
<1>3. CASE RetOnFlag
  BY <1>1, <1>2, <1>3, SoundFacts, ChangesSound, AdvanceType, JumpType DEF RetOnFlag
<1>4. CASE JmpOnFlag
  BY <1>1, <1>4, SoundFacts, ChangesSound, AdvanceType, JumpType DEF JmpOnFlag
<1>5. CASE CallOnFlag
  BY <1>1, <1>2, <1>5, SoundFacts, PushOntoSound, ChangesSound, AdvanceType, JumpType
     DEF CallOnFlag
<1>6. CASE Rst
  BY <1>2, <1>6, PushOntoSound, JumpType DEF Rst
<1>7. CASE Pchl
  BY <1>1, <1>7, SoundFacts, ChangesSound, JumpType DEF Pchl
<1>8. QED
  BY <1>3, <1>4, <1>5, <1>6, <1>7

\* Whatever is popped into the flags has their shape.
LEMMA PopPswShape == ASSUME NEW w PROVE Shape(PopPsw(w))
<1>1. Bits(w % 256) \subseteq {0, 1, 2, 3, 4, 5, 6, 7}
  BY DEF Bits, Bit
<1>2. QED
  BY <1>1 DEF PopPsw, Shape, Flags, CarryFlag, AuxCarryFlag, ParityFlag, ZeroFlag, SignFlag

\* PUSH, POP, XTHL, XCHG, SPHL.
LEMMA StackSound ==
  ASSUME Sound, Push \/ Pop \/ Xthl \/ Xchg \/ Sphl
  PROVE  Sound'
<1>1. Popped \in Word /\ HL \in Word /\ Pair \in 0..3 /\ PairValue(Pair) \in Word
  BY SoundFacts, PoppedWord, Fields, PairWord
<1>2. Wrap(sp_ + 2) \in Word
  BY SoundFacts, WrapWord, WordRange
<1>3. CASE Push
  <2>1. Uint16(reg["a"], Value(status_)) \in Word
    BY SoundFacts, ValueByte, Uint16Word
  <2>2. QED
    BY <2>1, <1>1, <1>3, SoundFacts, PushOntoSound, AdvanceType DEF Push
<1>4. CASE Pop
  <2>1. [reg EXCEPT !["a"] = Popped \div 256] \in [Names -> Byte]
    BY <1>1, Halves, SoundFacts, SetRegister
  <2>2. SetPair(Pair, Popped) \in [Names -> Byte]
    BY <1>1, SoundFacts, SetPairType
  <2>3. pc_' \in Word /\ ticks' \in 0..18
    BY <1>4, SoundFacts, AdvanceType DEF Pop
  <2>4. CASE Changes(SetPair(Pair, Popped), status_, Wrap(sp_ + 2), memory)
    BY <2>2, <2>3, <2>4, <1>2, SoundFacts, ChangesSound
  <2>5. CASE Changes([reg EXCEPT !["a"] = Popped \div 256], PopPsw(Popped), Wrap(sp_ + 2), memory)
    <3>1. Shape(PopPsw(Popped))
      BY PopPswShape
    <3>2. QED
      BY <2>1, <2>3, <2>5, <3>1, <1>2, SoundFacts, ChangesSound
  <2>6. QED
    BY <2>4, <2>5, <1>4 DEF Pop
<1>5. CASE Xthl
  <2>1. SetPair(2, Popped) \in [Names -> Byte] /\ Poke2(sp_, HL) \in [Cells -> Byte]
    BY <1>1, SoundFacts, SetPairType, PokeCells, 2 \in 0..3
  <2>2. QED
    BY <2>1, <1>5, SoundFacts, ChangesSound, AdvanceType DEF Xthl
<1>6. CASE Xchg
  <2>1. PairValue(1) \in Word
    BY SoundFacts, PairWord
  <2>2. SetPair(2, PairValue(1)) \in [Names -> Byte] /\ reg["h"] \in Byte /\ reg["l"] \in Byte
    BY <2>1, SoundFacts, SetPairType DEF Names
  <2>3. [SetPair(2, PairValue(1)) EXCEPT !["d"] = reg["h"], !["e"] = reg["l"]]
          \in [Names -> Byte]
    BY <2>2
  <2>4. QED
    BY <2>3, <1>6, SoundFacts, ChangesSound, AdvanceType DEF Xchg
<1>7. CASE Sphl
  BY <1>1, <1>7, SoundFacts, ChangesSound, AdvanceType DEF Sphl
<1>8. QED
  BY <1>3, <1>4, <1>5, <1>6, <1>7

\* HLT, DI, EI, OUT, and the cpu that is halted.
LEMMA SwitchesSound ==
  ASSUME Sound, Hlt \/ Di \/ Ei \/ Out \/ Stall
  PROVE  Sound'
<1>1. CASE Hlt
  BY <1>1, SoundFacts, AdvanceType DEF Hlt, Sound, TypeOK, StatusShape
<1>2. CASE Di
  <2>1. pc_' \in Word /\ ticks' \in 0..18
    BY <1>2, SoundFacts, AdvanceType DEF Di
  <2>2. QED
    BY <2>1, <1>2 DEF Di, Sound, TypeOK, StatusShape
<1>3. CASE Ei
  <2>1. pc_' \in Word /\ ticks' \in 0..18
    BY <1>3, SoundFacts, AdvanceType DEF Ei
  <2>2. QED
    BY <2>1, <1>3 DEF Ei, Sound, TypeOK, StatusShape
<1>4. CASE Out
  BY <1>4, SoundFacts, ChangesSound, AdvanceType DEF Out
<1>5. CASE Stall
  BY <1>5 DEF Stall, Sound, TypeOK, StatusShape
<1>6. QED
  BY <1>1, <1>2, <1>3, <1>4, <1>5

\* An interrupt pushes pc_ and jumps to its vector.
LEMMA InterruptSound ==
  ASSUME Sound, NEW isr \in Restarts, Interrupt(isr)
  PROVE  Sound'
<1>1. CASE Stall
  BY <1>1, SwitchesSound
<1>2. CASE ~Stall
  <2>1. Wrap(sp_ + 65534) \in Word /\ Return \in Word /\ 8 * isr \in Word
    BY SoundFacts, WrapWord, WordRange, InputsAssumption DEF Return
  <2>2. Poke2(Wrap(sp_ + 65534), Return) \in [Cells -> Byte]
    BY <2>1, SoundFacts, PokeCells
  <2>3. QED
    <3>1. pc_' \in Word /\ ticks' \in 0..18
      <4>1. Jump(8 * isr, 11) /\ 11 \in 0..18
        BY <1>2 DEF Interrupt
      <4>2. QED
        BY <2>1, <4>1, JumpType
    <3>2. sp_' \in Word /\ memory' \in [Cells -> Byte]
      BY <2>1, <2>2, <1>2 DEF Interrupt
    <3>3. iff_' \in BOOLEAN /\ hlt_' \in BOOLEAN
      <4>1. iff_' = FALSE
        BY <1>2, SMT DEF Interrupt
      <4>2. hlt_' = FALSE
        BY <1>2, SMT DEF Interrupt
      <4>3. QED
        BY <4>1, <4>2, Zenon
    <3>4. reg' = reg /\ status_' = status_
      BY <1>2 DEF Interrupt
    <3>5. QED
      BY <3>1, <3>2, <3>3, <3>4 DEF Sound, TypeOK, StatusShape
<1>3. QED
  BY <1>1, <1>2

\* A loaded cpu is sound.
LEMMA InitSound == Init => Sound
<1> SUFFICES ASSUME Init PROVE Sound
  OBVIOUS
<1>1. image.status \subseteq Flags
  BY ImagesAssumption DEF Init
<1>2. StatusShape
  BY <1>1 DEF Init, StatusShape
<1>3. Flags \cup {1} \subseteq Bit
  BY DEF Flags, Bit, CarryFlag, AuxCarryFlag, ParityFlag, ZeroFlag, SignFlag
<1>4. TypeOK
  <2>1. /\ image.memory \in [Cells -> Byte] /\ image.reg \in [Names -> Byte]
        /\ image.pc \in Word /\ image.sp \in Word
    BY ImagesAssumption DEF Init
  <2>2. status_ \subseteq Bit
    BY <1>2, <1>3 DEF StatusShape
  <2>3. iff_ \in BOOLEAN /\ hlt_ \in BOOLEAN /\ ticks \in 0..18
    <3>1. iff_ = FALSE
      BY Zenon DEF Init
    <3>2. hlt_ = FALSE
      BY Zenon DEF Init
    <3>3. ticks = 0
      BY Zenon DEF Init
    <3>4. ticks \in 0..18
      BY <3>3
    <3>5. QED
      BY <3>1, <3>2, <3>4, Zenon
  <2>4. QED
    <3>1. /\ memory \in [Cells -> Byte] /\ reg \in [Names -> Byte]
          /\ pc_ \in Word /\ sp_ \in Word
      BY <2>1 DEF Init
    <3>2. QED
      BY <2>2, <2>3, <3>1 DEF TypeOK
<1>5. QED
  BY <1>2, <1>4 DEF Sound

\* Every step keeps it sound.
LEMMA NextSound == Sound /\ [Next]_vars => Sound'
<1> SUFFICES ASSUME Sound, [Next]_vars PROVE Sound'
  OBVIOUS
<1>1. CASE UNCHANGED vars
  BY <1>1 DEF vars, Sound, TypeOK, StatusShape
<1>2. CASE Instruction
  BY <1>2, NopSound, NotImplementedSound, PairInstructionsSound, StoresSound, LoadsSound,
     OperandInstructionsSound, AccumulatorSound, ControlSound, StackSound, SwitchesSound
  DEF Instruction
<1>3. CASE Stall
  BY <1>3, SwitchesSound
<1>4. ASSUME NEW isr \in Restarts, Interrupt(isr)
      PROVE  Sound'
  BY <1>4, InterruptSound
<1>5. QED
  BY <1>1, <1>2, <1>3, <1>4 DEF Next, Execute

\* The invariant: a byte in every register and cell, a word in pc_ and sp_, and the
\* flags in shape.  Each needs the other: the flags are pushed as a byte.
THEOREM SpecSound == Spec => []Sound
BY InitSound, NextSound, PTL DEF Spec

\* No program takes the cpu out of its types, whatever its memory holds.
THEOREM TypesAreKept == Spec => []TypeOK
<1>1. Sound => TypeOK
  BY DEF Sound
<1>2. QED
  BY <1>1, SpecSound, PTL

\* Bit 1 of the status byte is always set and bits 3 and 5 never are: PUSH PSW writes
\* what POP PSW keeps.
THEOREM StatusIsShaped == Spec => []StatusShape
<1>1. Sound => StatusShape
  BY DEF Sound
<1>2. QED
  BY <1>1, SpecSound, PTL
-----------------------------------------------------------------------------
(* The flags an instruction leaves alone.                                  *)

\* What a step changes of the flags.
Turned == (status_ \ status_') \cup (status_' \ status_)

\* No step turns a bit that is not a flag.
LEMMA TurnedFlags ==
  ASSUME Sound, Sound'
  PROVE  Turned \subseteq Flags
BY DEF Sound, StatusShape, Turned

\* An instruction that keeps the status byte keeps every flag.
LEMMA NoneTurned ==
  ASSUME status_' = status_
  PROVE  Turned \subseteq Affected
BY DEF Turned

\* Setting or clearing the carry turns nothing else.
LEMMA CarryTurned ==
  ASSUME NEW on, status_' = With(status_, CarryFlag, on)
  PROVE  Turned \subseteq {CarryFlag}
BY DEF Turned, With

\* The flags each group of instructions may change.
LEMMA AffectedBy ==
  /\ (x = 2 \/ (x = 3 /\ z = 6) \/ Is(0, {4}, 7) \/ Is(3, {6}, 1)) => Affected = Flags
  /\ (x = 0 /\ z \in {4, 5}) => Affected = Flags \ {CarryFlag}
  /\ (Is(0, {0, 1, 2, 3, 6, 7}, 7) \/ Is(0, Odd, 1)) => Affected = {CarryFlag}
<1>1. (x = 2 \/ (x = 3 /\ z = 6) \/ Is(0, {4}, 7) \/ Is(3, {6}, 1)) => Affected = Flags
  BY DEF Affected
<1>2. (x = 0 /\ z \in {4, 5}) => Affected = Flags \ {CarryFlag}
  BY DEF Affected, Is
<1>3. (Is(0, {0, 1, 2, 3, 6, 7}, 7) \/ Is(0, Odd, 1)) => Affected = {CarryFlag}
  BY DEF Affected, Is, Odd
<1>4. QED
  BY <1>1, <1>2, <1>3

\* The arithmetic group, DAA and POP PSW may change every flag; POP none.
LEMMA ArithmeticKeeps ==
  ASSUME Sound, Sound', Arithmetic \/ Daa \/ Pop
  PROVE  Turned \subseteq Affected
<1>1. CASE Arithmetic \/ Daa
  BY <1>1, TurnedFlags, AffectedBy DEF Arithmetic, Daa, Is
<1>2. CASE Pop /\ Is(3, {6}, 1)
  BY <1>2, TurnedFlags, AffectedBy
<1>3. CASE Pop /\ ~Is(3, {6}, 1)
  BY <1>3, NoneTurned DEF Pop, Changes
<1>4. QED
  BY <1>1, <1>2, <1>3

\* INR and DCR keep the carry.
LEMMA CountingKeeps ==
  ASSUME Sound, Sound', Inr \/ Dcr
  PROVE  Turned \subseteq Affected
<1>1. Affected = Flags \ {CarryFlag}
  BY AffectedBy DEF Inr, Dcr, Is
<1>2. status_' = Step(1).status \/ status_' = Step(255).status
  BY DEF Inr, Dcr, ChangeOperand, Changes
<1>3. CarryFlag \in status_' <=> CarryFlag \in status_
  <2>1. \A by : CarryFlag \in Step(by).status <=> CarryFlag \in status_
    BY DEF Step, Add, Outcome, With, CarryFlag, AuxCarryFlag
  <2>2. QED
    BY <1>2, <2>1
<1>4. QED
  BY <1>1, <1>3, TurnedFlags DEF Turned

\* The rotations, STC, CMC and DAD change the carry only.
LEMMA CarryingKeeps ==
  ASSUME RotateA \/ Stc \/ Cmc \/ Dad
  PROVE  Turned \subseteq Affected
<1>1. Affected = {CarryFlag}
  <2>1. Is(0, {0, 1, 2, 3, 6, 7}, 7) \/ Is(0, Odd, 1)
    <3>1. RotateA \/ Stc \/ Cmc => x = 0 /\ y \in {0, 1, 2, 3, 6, 7} /\ z = 7
      <4>1. RotateA => x = 0 /\ y \in 0..3 /\ z = 7
        BY DEF RotateA, Is
      <4>2. Stc => x = 0 /\ y = 6 /\ z = 7
        BY DEF Stc, Is
      <4>3. Cmc => x = 0 /\ y = 7 /\ z = 7
        BY DEF Cmc, Is
      <4>4. QED
        BY <4>1, <4>2, <4>3
    <3>2. Dad => Is(0, Odd, 1)
      BY DEF Dad
    <3>3. QED
      BY <3>1, <3>2 DEF Is
  <2>2. QED
    BY <2>1, AffectedBy
<1>2. CASE RotateA
  <2>1. status_' = Rotate(y, status_, reg["a"]).status
    BY <1>2 DEF RotateA, ChangeA, Changes
  <2>2. \E on : Rotate(y, status_, reg["a"]).status = With(status_, CarryFlag, on)
    BY DEF Rotate
  <2>3. QED
    BY <1>1, <2>1, <2>2, CarryTurned
<1>3. CASE Stc
  BY <1>1, <1>3 DEF Stc, Changes, With, Turned
<1>4. CASE Cmc
  BY <1>1, <1>4 DEF Cmc, Changes, With, Turned
<1>5. CASE Dad
  BY <1>1, <1>5 DEF Dad, Changes, With, Turned
<1>6. QED
  BY <1>2, <1>3, <1>4, <1>5

\* The other instructions change no flag.
LEMMA OthersKeep ==
  ASSUME \/ Nop \/ NotImplemented \/ Hlt \/ Di \/ Ei \/ Out \/ In
         \/ Lxi \/ Inx \/ Dcx
         \/ Stax \/ Ldax \/ Shld \/ Lhld \/ Sta \/ Lda \/ Mvi \/ Mov \/ Xchg \/ Xthl
         \/ Cma \/ RetOnFlag \/ JmpOnFlag \/ CallOnFlag \/ Rst \/ Pchl \/ Sphl \/ Push
  PROVE  status_' = status_
<1>1. CASE Nop \/ NotImplemented \/ Hlt \/ Di \/ Ei \/ Out \/ In
  BY <1>1 DEF Nop, NotImplemented, Hlt, Di, Ei, Out, In, Changes
<1>2. CASE Lxi \/ Inx \/ Dcx \/ Cma
  BY <1>2 DEF Lxi, Inx, Dcx, Cma, ChangeA, ChangePair, Changes
<1>3. CASE Stax \/ Ldax \/ Shld \/ Lhld \/ Sta \/ Lda
  BY <1>3 DEF Stax, Ldax, Shld, Lhld, Sta, Lda, ChangePair, Changes
<1>4. CASE Mvi \/ Mov \/ Xchg \/ Xthl \/ Sphl \/ Pchl
  BY <1>4 DEF Mvi, Mov, Xchg, Xthl, Sphl, Pchl, ChangeOperand, Changes
<1>5. CASE RetOnFlag \/ JmpOnFlag \/ CallOnFlag \/ Rst \/ Push
  BY <1>5 DEF RetOnFlag, JmpOnFlag, CallOnFlag, Rst, Push, PushOnto, Changes
<1>6. QED
  BY <1>1, <1>2, <1>3, <1>4, <1>5

\* Every step keeps the flags it should leave alone.
LEMMA StepKeeps ==
  ASSUME Sound, Sound', Next
  PROVE  Turned \subseteq Affected
<1>1. CASE Instruction
  BY <1>1, ArithmeticKeeps, CountingKeeps, CarryingKeeps, OthersKeep, NoneTurned
  DEF Instruction
<1>2. CASE Stall
  BY <1>2, NoneTurned DEF Stall
<1>3. ASSUME NEW isr \in Restarts, Interrupt(isr)
      PROVE  Turned \subseteq Affected
  BY <1>3, <1>2, NoneTurned DEF Interrupt
<1>4. QED
  BY <1>1, <1>2, <1>3 DEF Next, Execute

\* No step changes a flag that its instruction is not said to affect.
THEOREM FlagsAreKept == Spec => FlagsKept
<1>1. Sound /\ Sound' /\ [Next]_vars => [Turned \subseteq Affected]_vars
  BY StepKeeps
<1>2. Spec => [][Turned \subseteq Affected]_vars
  BY <1>1, SpecSound, PTL DEF Spec
<1>3. QED
  BY <1>2 DEF FlagsKept, Turned
-----------------------------------------------------------------------------
(* The arithmetic unit computes what arithmetic says.                      *)

\* Add (with setCarryFlag) loses nothing: its byte and its carry are the sum, and
\* its half carry that of the low digits.
THEOREM AddIsSum ==
  ASSUME NEW s, NEW a \in Byte, NEW b \in Byte, NEW carry \in {0, 1}
  PROVE  LET sum == Add(s, a, b, carry, TRUE)
         IN  /\ sum.value \in Byte
             /\ sum.value + 256 * (IF CarryFlag \in sum.status THEN 1 ELSE 0) = a + b + carry
             /\ AuxCarryFlag \in sum.status <=> (a % 16) + (b % 16) + carry > 15
<1> DEFINE sum == Add(s, a, b, carry, TRUE)
<1>1. /\ sum.value = (a + b + carry) % 256
      /\ CarryFlag \in sum.status <=> a + b + carry > 255
      /\ AuxCarryFlag \in sum.status <=> (a % 16) + (b % 16) + carry > 15
  <2>1. sum.value = (a + b + carry) % 256
    BY DEF Add, Outcome
  <2>2. CarryFlag \in sum.status <=> a + b + carry > 255
    BY DEF Add, Outcome, With, CarryFlag, AuxCarryFlag
  <2>3. AuxCarryFlag \in sum.status <=> (a % 16) + (b % 16) + carry > 15
    BY DEF Add, Outcome, With, CarryFlag, AuxCarryFlag
  <2>4. QED
    BY <2>1, <2>2, <2>3
<1>2. /\ (a + b + carry) % 256 \in Byte
      /\ ((a + b + carry) % 256) + 256 * (IF a + b + carry > 255 THEN 1 ELSE 0) = a + b + carry
  BY ByteRange
<1> HIDE DEF sum
<1>3. /\ sum.value \in Byte
      /\ sum.value + 256 * (IF CarryFlag \in sum.status THEN 1 ELSE 0) = a + b + carry
  BY <1>1, <1>2
<1>4. QED
  BY <1>1, <1>3 DEF sum

\* Sub gives a - b - withCarry as a byte, with the borrow as the carry.
Differs(s, a, b, withCarry) ==
  LET difference == Sub(s, a, b, withCarry)
  IN  /\ difference.value = (a - b - withCarry) % 256
      /\ CarryFlag \in difference.status <=> a < b + withCarry

\* Sub subtracts: its byte is the difference, and its carry tells that something
\* was borrowed (SUB, SBB and CMP).
THEOREM SubIsDifference ==
  ASSUME NEW s, NEW a \in Byte, NEW b \in Byte, NEW withCarry \in {0, 1}
  PROVE  Differs(s, a, b, withCarry)
<1> DEFINE sum == Add(s, a, 255 - b, 1 - withCarry, TRUE)
           d == Sub(s, a, b, withCarry)
<1>1. /\ sum.value = (a + (255 - b) + (1 - withCarry)) % 256
      /\ CarryFlag \in sum.status <=> a + (255 - b) + (1 - withCarry) > 255
  <2>1. sum.value = (a + (255 - b) + (1 - withCarry)) % 256
    BY DEF Add, Outcome
  <2>2. CarryFlag \in sum.status <=> a + (255 - b) + (1 - withCarry) > 255
    BY DEF Add, Outcome, With, CarryFlag, AuxCarryFlag
  <2>3. QED
    BY <2>1, <2>2
<1>2. d.value = sum.value /\ d.status = With(sum.status, CarryFlag, CarryFlag \notin sum.status)
  BY DEF Sub, Add, Outcome
<1>3. CarryFlag \in d.status <=> CarryFlag \notin sum.status
  <2> HIDE DEF sum, d
  <2>1. QED
    BY <1>2 DEF With
<1>4. /\ (a + (255 - b) + (1 - withCarry)) % 256 = (a - b - withCarry) % 256
      /\ a + (255 - b) + (1 - withCarry) > 255 <=> ~(a < b + withCarry)
  BY ByteRange
<1> HIDE DEF sum, d
<1>5. QED
  BY <1>1, <1>2, <1>3, <1>4 DEF Differs, d

\* The digits that the decimal adjustment of the sum 16 * u + w yields, u and w being
\* the sums of two high and of two low digits.
LEMMA DecimalDigits ==
  ASSUME NEW u \in 0..18, NEW w \in 0..19
  PROVE  LET v == (16 * u + w) % 256
             n == 10 * u + w
             six == v % 16 > 9 \/ w > 15
             sixty == v \div 16 > 9 \/ 16 * u + w > 255 \/ (v \div 16 >= 9 /\ v % 16 > 9)
         IN  /\ sixty <=> n > 99
             /\ (v + (IF six THEN 6 ELSE 0) + (IF sixty THEN 96 ELSE 0)) % 256
                  = 16 * ((n % 100) \div 10) + (n % 10)
<1> DEFINE half == IF w > 15 THEN 1 ELSE 0
           lo == w - 16 * half
           hi == u + half
           full == IF hi > 15 THEN 1 ELSE 0
           top == hi - 16 * full
           v == (16 * u + w) % 256
           n == 10 * u + w
           six == v % 16 > 9 \/ w > 15
           sixty == v \div 16 > 9 \/ 16 * u + w > 255 \/ (v \div 16 >= 9 /\ v % 16 > 9)
           carry == IF w > 9 THEN 1 ELSE 0
           ones == w - 10 * carry
           tens == u + carry
           hundred == IF tens > 9 THEN 1 ELSE 0
<1>1. lo \in 0..15 /\ hi \in 0..19 /\ half \in {0, 1} /\ w = lo + 16 * half
  OBVIOUS
<1>2. top \in 0..15 /\ full \in {0, 1} /\ 16 * u + w = 256 * full + 16 * top + lo
  BY <1>1
<1>3. ones \in 0..9 /\ tens \in 0..19 /\ carry \in {0, 1} /\ w = ones + 10 * carry
  OBVIOUS
<1>4. v = 16 * top + lo /\ v % 16 = lo /\ v \div 16 = top
  <2> HIDE DEF top, lo, full
  <2>1. v = 16 * top + lo
    BY <1>1, <1>2
  <2> HIDE DEF v
  <2>2. v % 16 = lo /\ v \div 16 = top
    BY <2>1, <1>1, <1>2
  <2>3. QED BY <2>1, <2>2
<1>5. n = 10 * tens + ones /\ n % 10 = ones /\ (n % 100) \div 10 = tens - 10 * hundred
  <2>1. n = 10 * tens + ones
    BY <1>3
  <2>2. hundred \in {0, 1} /\ tens - 10 * hundred \in 0..9
    BY <1>3
  <2> HIDE DEF tens, ones, n, hundred
  <2>3. n % 10 = ones
    BY <2>1, <1>3
  <2>4. n % 100 = 10 * (tens - 10 * hundred) + ones
    BY <2>1, <2>2, <1>3
  <2>5. (n % 100) \div 10 = tens - 10 * hundred
    BY <2>4, <2>2, <1>3
  <2>6. QED BY <2>1, <2>3, <2>5
<1>6. six <=> w > 9
  <2> HIDE DEF v
  <2>1. QED BY <1>4
<1>7. sixty <=> n > 99
  <2> HIDE DEF v
  <2>1. QED BY <1>4
<1>8. v + (IF six THEN 6 ELSE 0) + (IF sixty THEN 96 ELSE 0)
        = 16 * (tens - 10 * hundred) + ones + 256 * (hundred - full)
  <2> HIDE DEF v
  <2>1. (IF six THEN 6 ELSE 0) = 6 * carry
    BY <1>6
  <2>2. n > 99 <=> tens > 9
    BY <1>3
  <2> HIDE DEF six, sixty, n, tens
  <2>3. (IF sixty THEN 96 ELSE 0) = 96 * hundred
    BY <1>7, <2>2
  <2>4. w \in Int /\ u \in Int /\ tens = u + carry
    BY DEF tens
  <2>5. hundred \in {0, 1}
    OBVIOUS
  <2>6. v = 16 * u + w - 256 * full
    BY <1>4, <1>2
  <2> HIDE DEF hundred, carry, full, half, lo, hi, top, ones
  <2>7. v + 6 * carry = 16 * tens + ones - 256 * full
    BY <2>4, <2>6, <1>2, <1>3
  <2>8. QED BY <2>1, <2>3, <2>5, <2>7, <1>2, <1>3, <2>4, <2>6
<1>9. (16 * (tens - 10 * hundred) + ones + 256 * (hundred - full)) % 256
        = 16 * (tens - 10 * hundred) + ones
  <2>1. hundred \in {0, 1} /\ tens - 10 * hundred \in 0..9
    BY <1>3
  <2>2. hundred - full \in {0, 1}
    OBVIOUS
  <2> HIDE DEF tens, ones, hundred, full
  <2>3. QED BY <2>1, <2>2, <1>3
<1>10. (v + (IF six THEN 6 ELSE 0) + (IF sixty THEN 96 ELSE 0)) % 256
          = 16 * ((n % 100) \div 10) + (n % 10)
  <2> DEFINE sum == v + (IF six THEN 6 ELSE 0) + (IF sixty THEN 96 ELSE 0)
             result == 16 * (tens - 10 * hundred) + ones
  <2>1. sum = result + 256 * (hundred - full)
    BY <1>8
  <2>2. (result + 256 * (hundred - full)) % 256 = result
    BY <1>9
  <2>3. result = 16 * ((n % 100) \div 10) + (n % 10)
    BY <1>5
  <2> HIDE DEF sum, result, v, six, sixty, n, tens, ones, hundred, full
  <2>4. sum % 256 = 16 * ((n % 100) \div 10) + (n % 10)
    BY <2>1, <2>2, <2>3
  <2>5. QED BY <2>4 DEF sum
<1>11. QED
  BY <1>7, <1>10

\* The byte that holds two decimal digits.
Digits(high, low) == 16 * high + low

\* DAA after the sum of two such bytes gives the digits of the decimal sum.
AddsDecimally(s, h1, l1, h2, l2, carry) ==
  LET sum == Add(s, Digits(h1, l1), Digits(h2, l2), carry, TRUE)
      adjusted == Adjust(sum.status, sum.value)
      n == 10 * (h1 + h2) + (l1 + l2 + carry)
  IN  /\ adjusted.value = Digits((n % 100) \div 10, n % 10)
      /\ CarryFlag \in adjusted.status <=> n > 99

\* What DAA makes of the sum of two bytes whose halves add up to no more than those
\* of decimal digits do, although one of them may be none.
LEMMA AdjustDigits ==
  ASSUME NEW s, NEW h1 \in 0..15, NEW l1 \in 0..15, NEW h2 \in 0..15, NEW l2 \in 0..15,
         NEW carry \in {0, 1}, h1 + h2 <= 18, l1 + l2 + carry <= 19
  PROVE  AddsDecimally(s, h1, l1, h2, l2, carry)
<1> DEFINE a == Digits(h1, l1)
           b == Digits(h2, l2)
           sum == Add(s, a, b, carry, TRUE)
           u == h1 + h2
           w == l1 + l2 + carry
           n == 10 * u + w
           v == (16 * u + w) % 256
           six == v % 16 > 9 \/ w > 15
           sixty == v \div 16 > 9 \/ 16 * u + w > 255 \/ (v \div 16 >= 9 /\ v % 16 > 9)
           k == (IF six THEN 6 ELSE 0) + (IF sixty THEN 96 ELSE 0)
           t == With(sum.status, CarryFlag, sixty)
           adjusted == Adjust(sum.status, sum.value)
<1>1. u \in 0..18 /\ w \in 0..19
  OBVIOUS
<1>2. a % 16 = l1 /\ b % 16 = l2 /\ a + b + carry = 16 * u + w
  BY DEF Digits
<1>3. /\ sum.value = v
      /\ CarryFlag \in sum.status <=> 16 * u + w > 255
      /\ AuxCarryFlag \in sum.status <=> w > 15
  <2> HIDE DEF a, b
  <2>1. sum.value = (a + b + carry) % 256
    BY DEF Add, Outcome
  <2>2. CarryFlag \in sum.status <=> a + b + carry > 255
    BY DEF Add, Outcome, With, CarryFlag, AuxCarryFlag
  <2>3. AuxCarryFlag \in sum.status <=> (a % 16) + (b % 16) + carry > 15
    BY DEF Add, Outcome, With, CarryFlag, AuxCarryFlag
  <2> HIDE DEF sum
  <2>4. QED
    BY <1>2, <2>1, <2>2, <2>3
<1>4. adjusted = Add(t, v, k, 0, FALSE)
  <2> HIDE DEF a, b, sum, u, w, v
  <2>1. QED
    BY <1>3 DEF Adjust
<1>5. (v + k + 0) % 256 = (v + k) % 256
  BY <1>1
<1>6. /\ adjusted.value = (v + k) % 256
      /\ CarryFlag \in adjusted.status <=> sixty
  <2> HIDE DEF t, v, k, adjusted, sixty
  <2>1. /\ adjusted.value = (v + k + 0) % 256
        /\ CarryFlag \in adjusted.status <=> CarryFlag \in t
    <3>1. Add(t, v, k, 0, FALSE).value = (v + k + 0) % 256
      BY DEF Add, Outcome
    <3>2. CarryFlag \in Add(t, v, k, 0, FALSE).status <=> CarryFlag \in t
      BY DEF Add, Outcome, With, CarryFlag, AuxCarryFlag
    <3>3. QED
      BY <1>4, <3>1, <3>2
  <2>2. CarryFlag \in t <=> sixty
    BY DEF t, With
  <2>3. QED
    BY <2>1, <2>2, <1>5
<1>7. /\ sixty <=> n > 99
      /\ (v + k) % 256 = 16 * ((n % 100) \div 10) + (n % 10)
  <2> HIDE DEF u, w
  <2>1. QED
    BY <1>1, DecimalDigits
<1> HIDE DEF v, k, sixty, adjusted, n
<1>8. QED
  BY <1>6, <1>7 DEF AddsDecimally, adjusted, n, Digits

\* DAA after ADD or ADC of two bytes of decimal digits (and a carry) gives the two
\* digits of their sum, and the carry to the next two.
THEOREM AdjustIsDecimal ==
  ASSUME NEW s, NEW h1 \in 0..9, NEW l1 \in 0..9, NEW h2 \in 0..9, NEW l2 \in 0..9,
         NEW carry \in {0, 1}
  PROVE  AddsDecimally(s, h1, l1, h2, l2, carry)
<1>1. /\ h1 \in 0..15 /\ l1 \in 0..15 /\ h2 \in 0..15 /\ l2 \in 0..15
      /\ h1 + h2 <= 18 /\ l1 + l2 + carry <= 19
  OBVIOUS
<1> QED
  BY <1>1, AdjustDigits

\* The ten's complement of a byte of digits, added to another and adjusted, gives the
\* digits of their difference.
SubtractsDecimally(s, t, h1, l1, h2, l2, carry) ==
  LET nines == Add(s, 153, 0, carry, TRUE)
      complement == Sub(nines.status, nines.value, Digits(h2, l2), 0)
      sum == Add(t, complement.value, Digits(h1, l1), 0, TRUE)
      adjusted == Adjust(sum.status, sum.value)
      n == (10 * h1 + l1) - (10 * h2 + l2) - (1 - carry)
  IN  /\ adjusted.value = Digits((n % 100) \div 10, n % 10)
      /\ CarryFlag \in adjusted.status <=> n >= 0

\* Two bytes of decimal digits are subtracted by adding the ten's complement and
\* adjusting: MVI A,99H  ACI 0  SUB M  ADD M  DAA.  The carry that goes in and comes
\* out tells that nothing is borrowed.  The complement need not be decimal: it is
\* 9AH for the digits 00.
THEOREM ComplementSubtracts ==
  ASSUME NEW s, NEW t, NEW h1 \in 0..9, NEW l1 \in 0..9, NEW h2 \in 0..9, NEW l2 \in 0..9,
         NEW carry \in {0, 1}
  PROVE  SubtractsDecimally(s, t, h1, l1, h2, l2, carry)
<1> DEFINE nines == Add(s, 153, 0, carry, TRUE)
           complement == Sub(nines.status, nines.value, Digits(h2, l2), 0)
           sum == Add(t, complement.value, Digits(h1, l1), 0, TRUE)
           adjusted == Adjust(sum.status, sum.value)
           n == (10 * h1 + l1) - (10 * h2 + l2) - (1 - carry)
           h == 9 - h2
           l == 9 - l2 + carry
           m == 10 * (h + h1) + (l + l1 + 0)
<1>1. nines.value = 153 + carry /\ nines.value \in Byte
  <2>1. nines.value = (153 + 0 + carry) % 256
    BY DEF Add, Outcome
  <2> HIDE DEF nines
  <2> QED
    BY <2>1, ByteRange
<1>2. complement.value = Digits(h, l)
  <2>1. Digits(h2, l2) \in Byte /\ 0 \in {0, 1}
    BY ByteRange DEF Digits
  <2>2. complement.value = (nines.value - Digits(h2, l2) - 0) % 256
    <3>1. Differs(nines.status, nines.value, Digits(h2, l2), 0)
      <4> HIDE DEF nines
      <4> QED
        BY <1>1, <2>1, SubIsDifference
    <3> HIDE DEF nines
    <3> QED
      BY <3>1 DEF Differs
  <2> HIDE DEF nines, complement
  <2> QED
    BY <1>1, <2>2 DEF Digits
<1>3. /\ h \in 0..15 /\ l \in 0..15 /\ h1 \in 0..15 /\ l1 \in 0..15 /\ 0 \in {0, 1}
      /\ h + h1 <= 18 /\ l + l1 + 0 <= 19
  OBVIOUS
<1>4. /\ adjusted.value = Digits((m % 100) \div 10, m % 10)
      /\ CarryFlag \in adjusted.status <=> m > 99
  <2> DEFINE other == Add(t, Digits(h, l), Digits(h1, l1), 0, TRUE)
  <2>1. /\ Adjust(other.status, other.value).value = Digits((m % 100) \div 10, m % 10)
        /\ CarryFlag \in Adjust(other.status, other.value).status <=> m > 99
    <3> HIDE DEF h, l
    <3>1. AddsDecimally(t, h, l, h1, l1, 0)
      BY <1>3, AdjustDigits
    <3> QED
      BY <3>1 DEF AddsDecimally
  <2>2. sum = other
    BY <1>2
  <2> HIDE DEF sum, other
  <2> QED
    BY <2>1, <2>2
<1>5. m = n + 100 /\ n \in Int
  OBVIOUS
<1>6. m % 100 = n % 100 /\ m % 10 = n % 10 /\ (m > 99 <=> n >= 0)
  <2> HIDE DEF m, n
  <2> QED
    BY <1>5
<1> HIDE DEF adjusted, m, n
<1> QED
  BY <1>4, <1>6 DEF SubtractsDecimally, adjusted, n

-----------------------------------------------------------------------------
(* Bytes as sets of bits.                                                  *)

BitAt(bits, i) == IF i \in bits THEN 1 ELSE 0

\* The value of a set of bits is the sum of their weights.
LEMMA ValueSum ==
  ASSUME NEW bits
  PROVE  /\ \A i : BitAt(bits, i) \in {0, 1} /\ (BitAt(bits, i) = 1 <=> i \in bits)
         /\ Value(bits) = BitAt(bits, 0) + 2 * BitAt(bits, 1) + 4 * BitAt(bits, 2)
              + 8 * BitAt(bits, 3) + 16 * BitAt(bits, 4) + 32 * BitAt(bits, 5)
              + 64 * BitAt(bits, 6) + 128 * BitAt(bits, 7)
<1>1. \A i : BitAt(bits, i) \in {0, 1} /\ (BitAt(bits, i) = 1 <=> i \in bits)
  BY DEF BitAt
<1>2. /\ 2 * BitAt(bits, 1) = IF 1 \in bits THEN 2 ELSE 0
      /\ 4 * BitAt(bits, 2) = IF 2 \in bits THEN 4 ELSE 0
      /\ 8 * BitAt(bits, 3) = IF 3 \in bits THEN 8 ELSE 0
      /\ 16 * BitAt(bits, 4) = IF 4 \in bits THEN 16 ELSE 0
      /\ 32 * BitAt(bits, 5) = IF 5 \in bits THEN 32 ELSE 0
      /\ 64 * BitAt(bits, 6) = IF 6 \in bits THEN 64 ELSE 0
      /\ 128 * BitAt(bits, 7) = IF 7 \in bits THEN 128 ELSE 0
  BY DEF BitAt
<1>3. Value(bits) = BitAt(bits, 0) + 2 * BitAt(bits, 1) + 4 * BitAt(bits, 2)
              + 8 * BitAt(bits, 3) + 16 * BitAt(bits, 4) + 32 * BitAt(bits, 5)
              + 64 * BitAt(bits, 6) + 128 * BitAt(bits, 7)
  BY <1>2 DEF Value, BitAt
<1> QED
  BY <1>1, <1>3

\* The bits of a number, one by one.
LEMMA BitsOne ==
  ASSUME NEW n
  PROVE  /\ Bits(n) \subseteq Bit
         /\ 0 \in Bits(n) <=> (n \div 1) % 2 = 1
         /\ 1 \in Bits(n) <=> (n \div 2) % 2 = 1
         /\ 2 \in Bits(n) <=> (n \div 4) % 2 = 1
         /\ 3 \in Bits(n) <=> (n \div 8) % 2 = 1
         /\ 4 \in Bits(n) <=> (n \div 16) % 2 = 1
         /\ 5 \in Bits(n) <=> (n \div 32) % 2 = 1
         /\ 6 \in Bits(n) <=> (n \div 64) % 2 = 1
         /\ 7 \in Bits(n) <=> (n \div 128) % 2 = 1
<1> DEFINE power == <<1, 2, 4, 8, 16, 32, 64, 128>>
<1>1. Bits(n) = {i \in Bit : (n \div power[i + 1]) % 2 = 1}
  BY DEF Bits
<1>2. /\ 0 \in Bit /\ power[0 + 1] = 1
      /\ 1 \in Bit /\ power[1 + 1] = 2
      /\ 2 \in Bit /\ power[2 + 1] = 4
      /\ 3 \in Bit /\ power[3 + 1] = 8
      /\ 4 \in Bit /\ power[4 + 1] = 16
      /\ 5 \in Bit /\ power[5 + 1] = 32
      /\ 6 \in Bit /\ power[6 + 1] = 64
      /\ 7 \in Bit /\ power[7 + 1] = 128
  BY DEF Bit
<1> HIDE DEF power
<1> QED
  BY <1>1, <1>2

\* A byte made of bits has these bits.
LEMMA BitsOfValue ==
  ASSUME NEW bits, bits \subseteq Bit
  PROVE  Bits(Value(bits)) = bits
<1> DEFINE b(i) == BitAt(bits, i)
           n == Value(bits)
<1>1. PICK b0 \in {0, 1}, b1 \in {0, 1}, b2 \in {0, 1}, b3 \in {0, 1}, b4 \in {0, 1},
           b5 \in {0, 1}, b6 \in {0, 1}, b7 \in {0, 1} :
        /\ n = b0 + 2 * b1 + 4 * b2 + 8 * b3 + 16 * b4 + 32 * b5 + 64 * b6 + 128 * b7
        /\ b0 = 1 <=> 0 \in bits
        /\ b1 = 1 <=> 1 \in bits
        /\ b2 = 1 <=> 2 \in bits
        /\ b3 = 1 <=> 3 \in bits
        /\ b4 = 1 <=> 4 \in bits
        /\ b5 = 1 <=> 5 \in bits
        /\ b6 = 1 <=> 6 \in bits
        /\ b7 = 1 <=> 7 \in bits
  BY ValueSum
<1>2. /\ (n \div 1) % 2 = b0 /\ (n \div 2) % 2 = b1 /\ (n \div 4) % 2 = b2
      /\ (n \div 8) % 2 = b3 /\ (n \div 16) % 2 = b4 /\ (n \div 32) % 2 = b5
      /\ (n \div 64) % 2 = b6 /\ (n \div 128) % 2 = b7
  <2> HIDE DEF n
  <2> QED
    BY <1>1
<1>3. \A i \in Bit : i \in Bits(n) <=> i \in bits
  <2> HIDE DEF n
  <2>1. \A i \in Bit : i \in {0, 1, 2, 3, 4, 5, 6, 7}
    BY DEF Bit
  <2>2. /\ 0 \in Bits(n) <=> 0 \in bits
        /\ 1 \in Bits(n) <=> 1 \in bits
        /\ 2 \in Bits(n) <=> 2 \in bits
        /\ 3 \in Bits(n) <=> 3 \in bits
    BY <1>1, <1>2, BitsOne
  <2>3. /\ 4 \in Bits(n) <=> 4 \in bits
        /\ 5 \in Bits(n) <=> 5 \in bits
        /\ 6 \in Bits(n) <=> 6 \in bits
        /\ 7 \in Bits(n) <=> 7 \in bits
    BY <1>1, <1>2, BitsOne
  <2> QED
    BY <2>1, <2>2, <2>3
<1> QED
  BY <1>3, BitsOne

\* The bits of a byte make it up again.
LEMMA ValueOfBits ==
  ASSUME NEW n \in Byte
  PROVE  Value(Bits(n)) = n
<1> DEFINE b(i) == BitAt(Bits(n), i)
<1>1. n \in Int /\ 0 <= n /\ n <= 255
  BY ByteRange
<1>2. /\ b(0) = (n \div 1) % 2 /\ b(1) = (n \div 2) % 2 /\ b(2) = (n \div 4) % 2
      /\ b(3) = (n \div 8) % 2 /\ b(4) = (n \div 16) % 2 /\ b(5) = (n \div 32) % 2
      /\ b(6) = (n \div 64) % 2 /\ b(7) = (n \div 128) % 2
  <2>1. \A m \in Int : m % 2 \in {0, 1}
    OBVIOUS
  <2>2. ASSUME NEW m \in Int, NEW i, i \in Bits(n) <=> m % 2 = 1
        PROVE  b(i) = m % 2
    BY <2>1, <2>2 DEF BitAt
  <2>3. /\ n \div 1 \in Int /\ n \div 2 \in Int /\ n \div 4 \in Int /\ n \div 8 \in Int
        /\ n \div 16 \in Int /\ n \div 32 \in Int /\ n \div 64 \in Int /\ n \div 128 \in Int
    BY <1>1
  <2> HIDE DEF b
  <2>4. b(0) = (n \div 1) % 2 /\ b(1) = (n \div 2) % 2
    BY <2>2, <2>3, BitsOne
  <2>5. b(2) = (n \div 4) % 2 /\ b(3) = (n \div 8) % 2
    BY <2>2, <2>3, BitsOne
  <2>6. b(4) = (n \div 16) % 2 /\ b(5) = (n \div 32) % 2
    BY <2>2, <2>3, BitsOne
  <2>7. b(6) = (n \div 64) % 2 /\ b(7) = (n \div 128) % 2
    BY <2>2, <2>3, BitsOne
  <2> QED
    BY <2>4, <2>5, <2>6, <2>7
<1>3. Value(Bits(n)) = b(0) + 2 * b(1) + 4 * b(2) + 8 * b(3) + 16 * b(4) + 32 * b(5)
                       + 64 * b(6) + 128 * b(7)
  BY ValueSum
<1>4. n = ((n \div 1) % 2) + 2 * ((n \div 2) % 2) + 4 * ((n \div 4) % 2)
          + 8 * ((n \div 8) % 2) + 16 * ((n \div 16) % 2) + 32 * ((n \div 32) % 2)
          + 64 * ((n \div 64) % 2) + 128 * ((n \div 128) % 2)
  BY <1>1
<1> HIDE DEF b
<1> QED
  BY <1>2, <1>3, <1>4

\* Ana, Xra and Ora yield the bits that and, exclusive or and or do.
THEOREM LogicIsBitwise ==
  ASSUME NEW s, NEW a \in Byte, NEW b \in Byte, NEW i \in Bit
  PROVE  /\ i \in Bits(Ana(s, a, b).value) <=> i \in Bits(a) /\ i \in Bits(b)
         /\ i \in Bits(Xra(s, a, b).value) <=> (i \in Bits(a) <=> i \notin Bits(b))
         /\ i \in Bits(Ora(s, a, b).value) <=> i \in Bits(a) \/ i \in Bits(b)
<1> DEFINE both == Bits(a) \cap Bits(b)
           one == (Bits(a) \ Bits(b)) \cup (Bits(b) \ Bits(a))
           any == Bits(a) \cup Bits(b)
<1>1. both \subseteq Bit /\ one \subseteq Bit /\ any \subseteq Bit
  BY BitsOne
<1>2. /\ Ana(s, a, b).value = Value(both) /\ Xra(s, a, b).value = Value(one)
      /\ Ora(s, a, b).value = Value(any)
  BY DEF Ana, Xra, Ora, Outcome
<1>3. Bits(Value(both)) = both /\ Bits(Value(one)) = one /\ Bits(Value(any)) = any
  <2> HIDE DEF both, one, any
  <2> QED
    BY <1>1, BitsOfValue
<1> QED
  BY <1>2, <1>3

-----------------------------------------------------------------------------
(* The stack.                                                              *)

\* A word written below the stack is the one popped off it.
LEMMA PushedIsPopped ==
  ASSUME Sound, NEW w \in Word, {Wrap(sp_ + 65534), Wrap(sp_ + 65535)} \subseteq Cells,
         sp_' = Wrap(sp_ + 65534), memory' = Poke2(Wrap(sp_ + 65534), w)
  PROVE  Returns(w)
<1> DEFINE lo == Wrap(sp_ + 65534)
           hi == Wrap(sp_ + 65535)
<1>1. sp_ \in Int /\ 0 <= sp_ /\ sp_ <= 65535 /\ w \in Int /\ 0 <= w /\ w <= 65535
  BY WordRange DEF Sound, TypeOK
<1>2. lo # hi /\ Wrap(lo + 1) = hi /\ Wrap(lo + 2) = sp_
  <2>1. PICK s \in Int : s = sp_ /\ 0 <= s /\ s <= 65535
    BY <1>1
  <2>2. lo = (s + 65534) % 65536 /\ hi = (s + 65535) % 65536
    BY <2>1 DEF Wrap
  <2>3. \/ s >= 2 /\ lo = s - 2 /\ hi = s - 1
        \/ s = 1 /\ lo = 65535 /\ hi = 0
        \/ s = 0 /\ lo = 65534 /\ hi = 65535
    <3> HIDE DEF lo, hi
    <3> QED
      BY <2>1, <2>2
  <2> HIDE DEF lo, hi
  <2>4. (lo + 1) % 65536 = hi /\ (lo + 2) % 65536 = s
    BY <2>1, <2>3
  <2> QED
    BY <2>1, <2>3, <2>4 DEF Wrap
<1> HIDE DEF lo, hi
<1>3. memory \in [Cells -> Byte] /\ lo \in Cells /\ hi \in Cells
  BY DEF Sound, TypeOK, lo, hi
<1>4. w % 256 \in Byte /\ w \div 256 \in Byte
  BY Halves
<1>5. memory'[lo] = w % 256 /\ memory'[hi] = w \div 256
  <2> DEFINE first == Poke(lo, w % 256)
  <2>1. first \in [Cells -> Byte] /\ first[lo] = w % 256
    BY <1>3, <1>4 DEF Poke
  <2>2. memory' = Poke2(lo, w)
    BY DEF lo
  <2>3. memory' = [first EXCEPT ![Wrap(lo + 1)] = w \div 256]
    BY <2>2 DEF Poke2
  <2>4. Wrap(lo + 1) = hi
    BY <1>2
  <2> HIDE DEF first
  <2> QED
    BY <1>2, <1>3, <1>4, <2>1, <2>3, <2>4
<1>6. Popped' = Uint16(w \div 256, w % 256)
  BY <1>2, <1>3, <1>5 DEF Popped, Peek, lo
<1>7. Uint16(w \div 256, w % 256) = w
  BY <1>1 DEF Uint16
<1> QED
  BY <1>2, <1>6, <1>7 DEF Returns, lo

\* What POP PSW makes of the word that PUSH PSW stores.
LEMMA PswReturns ==
  ASSUME Sound
  PROVE  LET psw == Uint16(reg["a"], Value(status_))
         IN  psw \in Word /\ PopPsw(psw) = status_ /\ psw \div 256 = reg["a"]
<1> DEFINE psw == Uint16(reg["a"], Value(status_))
<1>1. reg["a"] \in Byte /\ Value(status_) \in Byte
  BY SoundFacts, ValueByte
<1>2. psw \in Word
  BY <1>1, Uint16Word
<1>3. psw % 256 = Value(status_) /\ psw \div 256 = reg["a"]
  BY <1>1, ByteRange DEF Uint16
<1> HIDE DEF psw
<1>4. Bits(psw % 256) = status_
  BY <1>3, BitsOfValue DEF Sound, TypeOK
<1>5. (status_ \ {3, 5}) \cup {1} = status_
  BY DEF Sound, StatusShape, Flags, CarryFlag, ParityFlag, AuxCarryFlag, ZeroFlag, SignFlag
<1> QED
  BY <1>2, <1>3, <1>4, <1>5 DEF psw, PopPsw

\* What a call, a restart, an interrupt or a push leaves on the stack is what a
\* return or a pop takes off it, wherever the stack is.
THEOREM StackIsReturned == Spec => StackReturns
<1> DEFINE Mapped == {Wrap(sp_ + 65534), Wrap(sp_ + 65535)} \subseteq Cells
           Kept == Mapped =>
             /\ CallOnFlag /\ (z = 5 \/ Holds) => Returns(Wrap(pc_ + 3))
             /\ Rst => Returns(Wrap(pc_ + 1))
             /\ \A isr \in Restarts : iff_ /\ Interrupt(isr) => Returns(pc_)
             /\ Push /\ y # 6 => Returns(PairValue(Pair))
             /\ Push /\ y = 6 => /\ PopPsw(Popped') = status_ /\ Popped' \div 256 = reg["a"]
                                /\ Wrap(sp_' + 2) = sp_
<1>1. ASSUME Sound, Mapped PROVE Kept
  <2>1. pc_ \in Word /\ Wrap(pc_ + 3) \in Word /\ Wrap(pc_ + 1) \in Word
    BY <1>1, SoundFacts, WrapWord, WordRange
  <2>2. PairValue(Pair) \in Word
    BY <1>1, SoundFacts, Fields, PairWord
  <2>3. ASSUME NEW w \in Word, PushOnto(w) PROVE Returns(w)
    BY <1>1, <2>3, PushedIsPopped DEF PushOnto, Changes
  <2>4. ASSUME CallOnFlag, z = 5 \/ Holds PROVE PushOnto(Wrap(pc_ + 3))
    BY <2>4 DEF CallOnFlag, Is
  <2>5. ASSUME NEW isr, iff_, Interrupt(isr) PROVE Returns(pc_)
    BY <1>1, <2>1, <2>5, PushedIsPopped DEF Interrupt, Return
  <2>6. ASSUME Push, y = 6
        PROVE  /\ PopPsw(Popped') = status_ /\ Popped' \div 256 = reg["a"]
               /\ Wrap(sp_' + 2) = sp_
    <3> DEFINE psw == Uint16(reg["a"], Value(status_))
    <3>1. PushOnto(psw)
      BY <2>6 DEF Push
    <3>2. psw \in Word /\ PopPsw(psw) = status_ /\ psw \div 256 = reg["a"]
      BY <1>1, PswReturns
    <3> HIDE DEF psw
    <3> QED
      BY <2>3, <3>1, <3>2 DEF Returns
  <2>7. ASSUME Push, y # 6 PROVE Returns(PairValue(Pair))
    BY <2>2, <2>3, <2>7 DEF Push
  <2>8. ASSUME Rst PROVE Returns(Wrap(pc_ + 1))
    BY <2>1, <2>3, <2>8 DEF Rst
  <2> QED
    BY <2>1, <2>3, <2>4, <2>5, <2>6, <2>7, <2>8
<1>2. Sound /\ [Next]_vars => [Kept]_vars
  BY <1>1
<1> HIDE DEF Kept
<1>3. Spec => [][Kept]_vars
  BY <1>2, SpecSound, PTL DEF Spec
<1> QED
  BY <1>3 DEF StackReturns, Kept
-----------------------------------------------------------------------------
(* Instructions, one at a time.                                            *)

\* An instruction is told by the digits of its opcode.
LEMMA Guards ==
  /\ Nop => Is(0, {0}, 0) \/ (x = 1 /\ y = z /\ y # M)
  /\ NotImplemented => \/ Is(0, 1..7, 0)
                       \/ Is(3, {1}, 3)
                       \/ Is(3, {3}, 1)
                       \/ Is(3, {3, 5, 7}, 5)
  /\ Hlt => Is(1, {M}, M)
  /\ Di => Is(3, {6}, 3)
  /\ Ei => Is(3, {7}, 3)
  /\ Out => Is(3, {2}, 3)
  /\ In => Is(3, {3}, 3)
  /\ Lxi => Is(0, Even, 1)
  /\ Inx => Is(0, Even, 3)
  /\ Dcx => Is(0, Odd, 3)
  /\ Dad => Is(0, Odd, 1)
  /\ Stax => Is(0, {0, 2}, 2)
  /\ Ldax => Is(0, {1, 3}, 2)
  /\ Shld => Is(0, {4}, 2)
  /\ Lhld => Is(0, {5}, 2)
  /\ Sta => Is(0, {6}, 2)
  /\ Lda => Is(0, {7}, 2)
  /\ Mvi => Is(0, 0..7, 6)
  /\ Mov => x = 1 /\ y # z
  /\ Xchg => Is(3, {5}, 3)
  /\ Xthl => Is(3, {4}, 3)
  /\ Inr => Is(0, 0..7, 4)
  /\ Dcr => Is(0, 0..7, 5)
  /\ RotateA => Is(0, 0..3, 7)
  /\ Daa => Is(0, {4}, 7)
  /\ Cma => Is(0, {5}, 7)
  /\ Stc => Is(0, {6}, 7)
  /\ Cmc => Is(0, {7}, 7)
  /\ Arithmetic => x = 2 \/ Is(3, 0..7, 6)
  /\ RetOnFlag => Is(3, {1}, 1) \/ Is(3, 0..7, 0)
  /\ JmpOnFlag => Is(3, {0}, 3) \/ Is(3, 0..7, 2)
  /\ CallOnFlag => Is(3, {1}, 5) \/ Is(3, 0..7, 4)
  /\ Rst => Is(3, 0..7, 7)
  /\ Pchl => Is(3, {5}, 1)
  /\ Sphl => Is(3, {7}, 1)
  /\ Push => Is(3, Even, 5)
  /\ Pop => Is(3, {0, 2, 4}, 1) \/ Is(3, {6}, 1)
<1>1. /\ Nop => Is(0, {0}, 0) \/ (x = 1 /\ y = z /\ y # M)
      /\ NotImplemented => \/ Is(0, 1..7, 0)
                           \/ Is(3, {1}, 3)
                           \/ Is(3, {3}, 1)
                           \/ Is(3, {3, 5, 7}, 5)
      /\ Hlt => Is(1, {M}, M)
      /\ Di => Is(3, {6}, 3)
      /\ Ei => Is(3, {7}, 3)
  BY DEF Nop, NotImplemented, Hlt, Di, Ei
<1>2. /\ Out => Is(3, {2}, 3)
      /\ In => Is(3, {3}, 3)
      /\ Lxi => Is(0, Even, 1)
      /\ Inx => Is(0, Even, 3)
      /\ Dcx => Is(0, Odd, 3)
  BY DEF Out, In, Lxi, Inx, Dcx
<1>3. /\ Dad => Is(0, Odd, 1)
      /\ Stax => Is(0, {0, 2}, 2)
      /\ Ldax => Is(0, {1, 3}, 2)
      /\ Shld => Is(0, {4}, 2)
      /\ Lhld => Is(0, {5}, 2)
  BY DEF Dad, Stax, Ldax, Shld, Lhld
<1>4. /\ Sta => Is(0, {6}, 2)
      /\ Lda => Is(0, {7}, 2)
      /\ Mvi => Is(0, 0..7, 6)
      /\ Mov => x = 1 /\ y # z
      /\ Xchg => Is(3, {5}, 3)
  BY DEF Sta, Lda, Mvi, Mov, Xchg
<1>5. /\ Xthl => Is(3, {4}, 3)
      /\ Inr => Is(0, 0..7, 4)
      /\ Dcr => Is(0, 0..7, 5)
      /\ RotateA => Is(0, 0..3, 7)
      /\ Daa => Is(0, {4}, 7)
  BY DEF Xthl, Inr, Dcr, RotateA, Daa
<1>6. /\ Cma => Is(0, {5}, 7)
      /\ Stc => Is(0, {6}, 7)
      /\ Cmc => Is(0, {7}, 7)
      /\ Arithmetic => x = 2 \/ Is(3, 0..7, 6)
      /\ RetOnFlag => Is(3, {1}, 1) \/ Is(3, 0..7, 0)
  BY DEF Cma, Stc, Cmc, Arithmetic, RetOnFlag
<1>7. /\ JmpOnFlag => Is(3, {0}, 3) \/ Is(3, 0..7, 2)
      /\ CallOnFlag => Is(3, {1}, 5) \/ Is(3, 0..7, 4)
      /\ Rst => Is(3, 0..7, 7)
      /\ Pchl => Is(3, {5}, 1)
      /\ Sphl => Is(3, {7}, 1)
  BY DEF JmpOnFlag, CallOnFlag, Rst, Pchl, Sphl
<1>8. /\ Push => Is(3, Even, 5)
      /\ Pop => Is(3, {0, 2, 4}, 1) \/ Is(3, {6}, 1)
  BY DEF Push, Pop
<1> QED
  BY <1>1, <1>2, <1>3, <1>4, <1>5, <1>6, <1>7, <1>8

\* An opcode is the instruction that its digits tell, and no other.
LEMMA Decoded ==
  ASSUME Instruction
  PROVE
  /\ (Is(0, {0}, 0) \/ (x = 1 /\ y = z /\ y # M)) => Nop
  /\ (Is(0, 1..7, 0) \/ Is(3, {1}, 3) \/ Is(3, {3}, 1) \/ Is(3, {3, 5, 7}, 5)) => NotImplemented
  /\ Is(1, {M}, M) => Hlt
  /\ Is(3, {6}, 3) => Di
  /\ Is(3, {7}, 3) => Ei
  /\ Is(3, {2}, 3) => Out
  /\ Is(3, {3}, 3) => In
  /\ Is(0, Even, 1) => Lxi
  /\ Is(0, Even, 3) => Inx
  /\ Is(0, Odd, 3) => Dcx
  /\ Is(0, Odd, 1) => Dad
  /\ Is(0, {0, 2}, 2) => Stax
  /\ Is(0, {1, 3}, 2) => Ldax
  /\ Is(0, {4}, 2) => Shld
  /\ Is(0, {5}, 2) => Lhld
  /\ Is(0, {6}, 2) => Sta
  /\ Is(0, {7}, 2) => Lda
  /\ Is(0, 0..7, 6) => Mvi
  /\ (x = 1 /\ y # z) => Mov
  /\ Is(3, {5}, 3) => Xchg
  /\ Is(3, {4}, 3) => Xthl
  /\ Is(0, 0..7, 4) => Inr
  /\ Is(0, 0..7, 5) => Dcr
  /\ Is(0, 0..3, 7) => RotateA
  /\ Is(0, {4}, 7) => Daa
  /\ Is(0, {5}, 7) => Cma
  /\ Is(0, {6}, 7) => Stc
  /\ Is(0, {7}, 7) => Cmc
  /\ (x = 2 \/ Is(3, 0..7, 6)) => Arithmetic
  /\ (Is(3, {1}, 1) \/ Is(3, 0..7, 0)) => RetOnFlag
  /\ (Is(3, {0}, 3) \/ Is(3, 0..7, 2)) => JmpOnFlag
  /\ (Is(3, {1}, 5) \/ Is(3, 0..7, 4)) => CallOnFlag
  /\ Is(3, 0..7, 7) => Rst
  /\ Is(3, {5}, 1) => Pchl
  /\ Is(3, {7}, 1) => Sphl
  /\ Is(3, Even, 5) => Push
  /\ (Is(3, {0, 2, 4}, 1) \/ Is(3, {6}, 1)) => Pop
BY Guards DEF Instruction, Is, Even, Odd, M

\* The pair that points with HL.
DE == PairValue(1)

\* The digits of the registers.
LEMMA Numbered ==
  Name(0) = "b" /\ Name(1) = "c" /\ Name(2) = "d" /\ Name(3) = "e" /\ Name(7) = "a"
BY DEF Name

\* A byte register is assigned.
Assigned(n, v) == [reg EXCEPT ![n] = v]

\* An instruction that leaves the stack and the switches alone.
Goes(r, s, m, to) ==
  /\ reg' = r /\ status_' = s /\ memory' = m /\ pc_' = to
  /\ UNCHANGED <<sp_, iff_, hlt_, image>>

\* What comes of an instruction with an octal digit for a register or a pair.
LEMMA LxiGoes ==
  ASSUME Instruction, NEW p \in 0..2, x = 0, y = 2 * p, z = 1
  PROVE  Goes(SetPair(p, Address), status_, memory, Wrap(pc_ + 3))
<1>1. Lxi
  BY Decoded DEF Is, Even
<1>2. Pair = p
  BY DEF Pair
<1> QED
  BY <1>1, <1>2 DEF Lxi, ChangePair, Changes, Advance, Goes

\* INX.
LEMMA InxGoes ==
  ASSUME Instruction, NEW p \in 0..2, x = 0, y = 2 * p, z = 3
  PROVE  Goes(SetPair(p, Wrap(PairValue(p) + 1)), status_, memory, Wrap(pc_ + 1))
<1>1. Inx
  BY Decoded DEF Is, Even
<1>2. Pair = p
  BY DEF Pair
<1> QED
  BY <1>1, <1>2 DEF Inx, ChangePair, Changes, Advance, Goes

\* LDAX.
LEMMA LdaxGoes ==
  ASSUME Instruction, NEW p \in 0..1, x = 0, y = 2 * p + 1, z = 2
  PROVE  Goes(Assigned("a", Peek(PairValue(p))), status_, memory, Wrap(pc_ + 1))
<1>1. Ldax
  BY Decoded DEF Is
<1>2. Pair = p
  BY DEF Pair
<1> QED
  BY <1>1, <1>2 DEF Assigned, Ldax, Changes, Advance, Goes

\* STAX.
LEMMA StaxGoes ==
  ASSUME Instruction, NEW p \in 0..1, x = 0, y = 2 * p, z = 2
  PROVE  Goes(reg, status_, Poke(PairValue(p), reg["a"]), Wrap(pc_ + 1))
<1>1. Stax
  BY Decoded DEF Is
<1>2. Pair = p
  BY DEF Pair
<1> QED
  BY <1>1, <1>2 DEF Stax, Changes, Advance, Goes

\* MVI to a register.
LEMMA MviGoes ==
  ASSUME Instruction, x = 0, y \in 0..7 \ {M}, z = 6
  PROVE  Goes(Assigned(Name(y), Data), status_, memory, Wrap(pc_ + 2))
<1>1. Mvi
  BY Decoded DEF Is
<1> QED
  BY <1>1 DEF Assigned, Mvi, ChangeOperand, Changes, Advance, Goes

\* A byte less one.
Decremented(s, a) == Add(s, a, 255, 0, FALSE)

\* DCR of a register.
LEMMA DcrGoes ==
  ASSUME Instruction, x = 0, y \in 0..7 \ {M}, z = 5
  PROVE  LET difference == Decremented(status_, reg[Name(y)])
         IN  Goes(Assigned(Name(y), difference.value), difference.status, memory,
                  Wrap(pc_ + 1))
<1>1. Dcr
  BY Decoded DEF Is
<1> QED
  BY <1>1 DEF Assigned, Decremented, Dcr, Step, Operand, ChangeOperand, Changes, Advance, Goes

\* A byte and one more.
Incremented(s, a) == Add(s, a, 1, 0, FALSE)

\* INR of a register.
LEMMA InrGoes ==
  ASSUME Instruction, x = 0, y \in 0..7 \ {M}, z = 4
  PROVE  LET sum == Incremented(status_, reg[Name(y)])
         IN  Goes(Assigned(Name(y), sum.value), sum.status, memory, Wrap(pc_ + 1))
<1>1. Inr
  BY Decoded DEF Is
<1> QED
  BY <1>1 DEF Assigned, Incremented, Inr, Step, Operand, ChangeOperand, Changes, Advance, Goes

\* ADD to CMP, with a register or a byte of memory.
LEMMA AluGoes ==
  ASSUME Instruction, x = 2
  PROVE  LET result == Alu(y, status_, reg["a"], Operand(z))
         IN  Goes(Assigned("a", result.value), result.status, memory, Wrap(pc_ + 1))
<1>1. Arithmetic
  BY Decoded
<1> QED
  BY <1>1 DEF Assigned, Arithmetic, Is, ChangeA, Changes, Advance, Goes

\* DAA.
LEMMA DaaGoes ==
  ASSUME Instruction, x = 0, y = 4, z = 7
  PROVE  LET result == Adjust(status_, reg["a"])
         IN  Goes(Assigned("a", result.value), result.status, memory, Wrap(pc_ + 1))
<1>1. Daa
  BY Decoded DEF Is
<1> QED
  BY <1>1 DEF Assigned, Daa, ChangeA, Changes, Advance, Goes

\* NOP.
LEMMA NopGoes ==
  ASSUME Instruction, x = 0, y = 0, z = 0
  PROVE  Goes(reg, status_, memory, Wrap(pc_ + 1))
<1>1. Nop
  BY Decoded DEF Is
<1> QED
  BY <1>1 DEF Nop, Changes, Advance, Goes

\* A conditional jump.
LEMMA JumpGoes ==
  ASSUME Instruction, x = 3, y \in 0..7, z = 2
  PROVE  Goes(reg, status_, memory, IF Holds THEN Address ELSE Wrap(pc_ + 3))
<1>1. JmpOnFlag
  BY Decoded DEF Is
<1> QED
  BY <1>1 DEF JmpOnFlag, Is, Changes, Advance, Jump, Goes

\* MOV between registers.
LEMMA MovGoes ==
  ASSUME Instruction, x = 1, y # z, y \in 0..7 \ {M}, z \in 0..7 \ {M}
  PROVE  Goes(Assigned(Name(y), reg[Name(z)]), status_, memory, Wrap(pc_ + 1))
<1>1. Mov
  BY Decoded
<1> QED
  BY <1>1 DEF Assigned, Mov, Operand, ChangeOperand, Changes, Advance, Goes

\* RLC, RRC, RAL, RAR.
LEMMA RotateGoes ==
  ASSUME Instruction, x = 0, y \in 0..3, z = 7
  PROVE  LET result == Rotate(y, status_, reg["a"])
         IN  Goes(Assigned("a", result.value), result.status, memory, Wrap(pc_ + 1))
<1>1. RotateA
  BY Decoded DEF Is
<1> QED
  BY <1>1 DEF Assigned, RotateA, ChangeA, Changes, Advance, Goes

\* JMP.
LEMMA JmpGoes ==
  ASSUME Instruction, x = 3, y = 0, z = 3
  PROVE  Goes(reg, status_, memory, Address)
<1>1. JmpOnFlag
  BY Decoded DEF Is
<1> QED
  BY <1>1 DEF JmpOnFlag, Is, Changes, Advance, Jump, Goes

\* MOV M,A.
LEMMA MovMGoes ==
  ASSUME Instruction, x = 1, y = 6, z = 7
  PROVE  Goes(reg, status_, Poke(HL, reg["a"]), Wrap(pc_ + 1))
<1>1. Mov
  BY Decoded
<1> QED
  BY <1>1, Numbered DEF Mov, Operand, ChangeOperand, Changes, Advance, Goes, M

\* STC.
LEMMA StcGoes ==
  ASSUME Instruction, x = 0, y = 6, z = 7
  PROVE  Goes(reg, With(status_, CarryFlag, TRUE), memory, Wrap(pc_ + 1))
<1>1. Stc
  BY Decoded DEF Is
<1> QED
  BY <1>1 DEF Stc, Changes, Advance, Goes

\* ADI to CPI.
LEMMA AluDataGoes ==
  ASSUME Instruction, x = 3, y \in 0..7, z = 6
  PROVE  LET result == Alu(y, status_, reg["a"], Data)
         IN  Goes(Assigned("a", result.value), result.status, memory, Wrap(pc_ + 2))
<1>1. Arithmetic
  BY Decoded DEF Is
<1> QED
  BY <1>1 DEF Assigned, Arithmetic, Is, ChangeA, Changes, Advance, Goes

\* XCHG.
LEMMA XchgGoes ==
  ASSUME Sound, Instruction, x = 3, y = 5, z = 3
  PROVE  /\ DE' = HL /\ HL' = DE /\ \A n \in {"a", "b", "c"} : reg'[n] = reg[n]
         /\ status_' = status_ /\ memory' = memory /\ pc_' = Wrap(pc_ + 1)
         /\ UNCHANGED <<iff_, hlt_, image>>
<1>1. Xchg
  BY Decoded DEF Is
<1>2. /\ reg' = [SetPair(2, PairValue(1)) EXCEPT !["d"] = reg["h"], !["e"] = reg["l"]]
      /\ status_' = status_ /\ memory' = memory /\ pc_' = Wrap(pc_ + 1)
      /\ UNCHANGED <<iff_, hlt_, image>>
  BY <1>1 DEF Xchg, Changes, Advance
<1> DEFINE w == DE
<1>3. reg \in [Names -> Byte] /\ w = Uint16(reg["d"], reg["e"])
  BY SoundFacts DEF PairValue, High, Low, DE
<1>4. /\ reg["d"] \in Int /\ reg["e"] \in Int /\ 0 <= reg["e"] /\ reg["e"] <= 255
  BY <1>3, ByteRange DEF Names
<1>5. w \div 256 = reg["d"] /\ w % 256 = reg["e"]
  BY <1>3, <1>4 DEF Uint16
<1>6. reg' = [reg EXCEPT !["h"] = w \div 256, !["l"] = w % 256, !["d"] = reg["h"], !["e"] = reg["l"]]
  BY <1>2 DEF SetPair, High, Low, DE
<1> HIDE DEF w
<1>7. /\ reg'["h"] = reg["d"] /\ reg'["l"] = reg["e"]
      /\ reg'["d"] = reg["h"] /\ reg'["e"] = reg["l"]
      /\ \A n \in {"a", "b", "c"} : reg'[n] = reg[n]
  BY <1>3, <1>5, <1>6 DEF Names
<1>8. DE' = HL /\ HL' = DE
  BY <1>7 DEF DE, HL, PairValue, High, Low
<1> QED
  BY <1>2, <1>7, <1>8

\* HLT, of which the cycles do not matter here.
LEMMA HltGoes ==
  ASSUME Instruction, x = 1, y = 6, z = 6
  PROVE  hlt_' /\ UNCHANGED <<reg, status_, memory, iff_, image>>
<1>1. Hlt
  BY Decoded DEF Is, M
<1> QED
  BY <1>1 DEF Hlt

\* What an assignment does to the registers that point and count.
LEMMA PairAssigned ==
  ASSUME Sound, NEW p \in 1..2, NEW w \in Word, reg' = SetPair(p, w)
  PROVE  /\ PairValue(p)' = w /\ PairValue(3 - p)' = PairValue(3 - p)
         /\ \A n \in {"a", "b", "c"} : reg'[n] = reg[n]
<1>1. reg \in [Names -> Byte]
  BY SoundFacts
<1>2. CASE p = 1
  <2>1. reg' = [reg EXCEPT !["d"] = w \div 256, !["e"] = w % 256]
    BY <1>2 DEF SetPair, High, Low
  <2>2. /\ reg'["d"] = w \div 256 /\ reg'["e"] = w % 256
        /\ \A n \in {"a", "b", "c"} : reg'[n] = reg[n]
        /\ reg'["h"] = reg["h"] /\ reg'["l"] = reg["l"]
    BY <1>1, <2>1 DEF Names
  <2>3. (w \div 256) * 256 + (w % 256) = w
    BY WordRange
  <2> QED
    BY <1>2, <2>2, <2>3 DEF PairValue, High, Low, Uint16
<1>3. CASE p = 2
  <2>1. reg' = [reg EXCEPT !["h"] = w \div 256, !["l"] = w % 256]
    BY <1>3 DEF SetPair, High, Low
  <2>2. /\ reg'["h"] = w \div 256 /\ reg'["l"] = w % 256
        /\ \A n \in {"a", "b", "c"} : reg'[n] = reg[n]
        /\ reg'["d"] = reg["d"] /\ reg'["e"] = reg["e"]
    BY <1>1, <2>1 DEF Names
  <2>3. (w \div 256) * 256 + (w % 256) = w
    BY WordRange
  <2> QED
    BY <1>3, <2>2, <2>3 DEF PairValue, High, Low, Uint16
<1> QED
  BY <1>2, <1>3

\* A register other than the pointers is assigned.
LEMMA RegisterAssigned ==
  ASSUME Sound, NEW n \in {"a", "b", "c"}, NEW v, reg' = Assigned(n, v)
  PROVE  /\ reg'[n] = v /\ DE' = DE /\ HL' = HL
         /\ \A o \in {"a", "b", "c"} \ {n} : reg'[o] = reg[o]
<1>1. reg \in [Names -> Byte]
  BY SoundFacts
<1> QED
  BY <1>1 DEF Assigned, DE, HL, PairValue, High, Low, Names

\* The pointers stay with the registers.
LEMMA RegistersKept ==
  ASSUME reg' = reg
  PROVE  DE' = DE /\ HL' = HL
BY DEF DE, HL, PairValue

\* A register is assigned and the others stay.
LEMMA OthersKept ==
  ASSUME Sound, NEW n \in Names, NEW v, reg' = Assigned(n, v)
  PROVE  reg'[n] = v /\ \A o \in Names : o # n => reg'[o] = reg[o]
<1>1. reg \in [Names -> Byte]
  BY SoundFacts
<1> QED
  BY <1>1 DEF Assigned

\* The flags of a decrement.
LEMMA DecrementFlags ==
  ASSUME NEW s, NEW a \in Byte
  PROVE  LET d == Decremented(s, a)
         IN  /\ d.value = (a + 255) % 256
             /\ CarryFlag \in d.status <=> CarryFlag \in s
             /\ ZeroFlag \in d.status <=> d.value = 0
<1> DEFINE v == (a + 255 + 0) % 256
           d == Decremented(s, a)
<1>1. d.value = v
  BY DEF Decremented, Add, Outcome
<1>2. CarryFlag \in d.status <=> CarryFlag \in s
  BY DEF Decremented, Add, Outcome, With, CarryFlag, AuxCarryFlag
<1>3. ZeroFlag \in d.status <=> ZeroFlag \in Signs(v)
  <2> HIDE DEF v
  <2> QED
    BY DEF Decremented, Add, Outcome, With, CarryFlag, AuxCarryFlag, ZeroFlag, Flags, v
<1>4. ZeroFlag \in Signs(v) <=> v = 0
  <2> HIDE DEF v
  <2> QED
    BY DEF Signs, ZeroFlag, SignFlag, ParityFlag
<1>5. v = (a + 255) % 256
  BY ByteRange
<1> HIDE DEF v, d
<1> QED
  BY <1>1, <1>2, <1>3, <1>4, <1>5 DEF d
=============================================================================
