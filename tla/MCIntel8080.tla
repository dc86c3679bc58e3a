---------------------------- MODULE MCIntel8080 -----------------------------
(***************************************************************************)
(* Instances of Intel8080 for TLC: programs whose results are known, and   *)
(* every opcode.  A program crosses an address where the low byte of pc_   *)
(* wraps, its operands do the same, and the stack wraps at address 0.  An  *)
(* address that is not mapped reads HLT.                                   *)
(***************************************************************************)
EXTENDS Intel8080

Origin == 250                   \* 0x00FA
X == 511                        \* 0x01FF and 0x0200
Y == 767                        \* 0x02FF and 0x0300
Stack == (65520..65535) \cup (0..3)
Code == Origin..(Origin + 31)
SomeCells == Code \cup Stack \cup {X, X + 1, Y, Y + 1}

HLT == 118

\* Little-endian bytes of a word.
Lo(n) == n % 256
Hi(n) == n \div 256

\* A machine that is about to execute code, with operands in memory.
Machine(kind, code, x1, y1, registers, flags) ==
  [kind |-> kind, x |-> x1, y |-> y1,
   memory |-> [a \in SomeCells |->
                 IF a - Origin + 1 \in DOMAIN code THEN code[a - Origin + 1]
                 ELSE CASE a = X -> Lo(x1) [] a = X + 1 -> Hi(x1)
                        [] a = Y -> Lo(y1) [] a = Y + 1 -> Hi(y1)
                        [] a \in Code -> HLT [] OTHER -> 255],
   reg |-> [n \in Names |-> IF n \in DOMAIN registers THEN registers[n] ELSE 0],
   pc |-> Origin, sp |-> 2, status |-> flags]

-----------------------------------------------------------------------------
(* The programs.                                                           *)

\* x := x op y, byte by byte from the lowest, with DAA or NOP after each.
\*   LXI D,X  LXI H,Y  MVI B,2  XRA A
\*   loop: LDAX D  op M  adjust  STAX D  INX D  INX H  DCR B  JNZ loop  HLT
Loop(op, adjust) ==
  <<17, Lo(X), Hi(X), 33, Lo(Y), Hi(Y), 6, 2, 175,
    26, op, adjust, 18, 19, 35, 5, 194, Lo(Origin + 9), Hi(Origin + 9), HLT>>
ADCM == 142
SBBM == 158
DAA == 39
NOP == 0

\* x := x - y in decimal, as the sum with the ten's complement.
\*   LXI D,X  LXI H,Y  MVI C,2  STC
\*   loop: MVI A,99H  ACI 0  SUB M  XCHG  ADD M  DAA  MOV M,A  XCHG
\*   INX D  INX H  DCR C  JNZ loop  HLT
DecimalSubtraction ==
  <<17, Lo(X), Hi(X), 33, Lo(Y), Hi(Y), 14, 2, 55,
    62, 153, 206, 0, 150, 235, 134, DAA, 119, 235,
    19, 35, 13, 194, Lo(Origin + 9), Hi(Origin + 9), HLT>>

\* bc := c * d, shifting the product into b and c.
\*   MVI B,0  MVI E,9
\*   next: MOV A,C  RAR  MOV C,A  DCR E  JZ done  MOV A,B  JNC skip  ADD D
\*   skip: RAR  MOV B,A  JMP next   done: HLT
Multiplication ==
  <<6, 0, 30, 9,
    121, 31, 79, 29, 202, Lo(Origin + 21), Hi(Origin + 21), 120,
    210, Lo(Origin + 16), Hi(Origin + 16), 130,
    31, 71, 195, Lo(Origin + 4), Hi(Origin + 4), HLT>>

\* hl := b + (b - 1) + ... + 1, by recursion.
\*   LXI H,0  CALL sum  HLT
\*   sum: MOV A,B  ORA A  RZ  PUSH B  DCR B  CALL sum  POP B
\*   MVI D,0  MOV E,B  DAD D  RET
Recursion ==
  <<33, 0, 0, 205, Lo(Origin + 7), Hi(Origin + 7), HLT,
    120, 183, 200, 197, 5, 205, Lo(Origin + 7), Hi(Origin + 7), 193,
    22, 0, 88, 25, 201>>

\* c := the number of bits of a, which goes once round.
\*   MVI C,0  MVI B,8  loop: RLC  JNC skip  INR C  skip: DCR B  JNZ loop
\*   ANA A  HLT
BitCount ==
  <<14, 0, 6, 8, 7, 210, Lo(Origin + 9), Hi(Origin + 9), 12,
    5, 194, Lo(Origin + 4), Hi(Origin + 4), 167, HLT>>

\* The decimal digits of n < 10000, two to a byte.
Bcd(n) ==
  ((n % 10) + ((n \div 10) % 10) * 16) + (((n \div 100) % 10) + (n \div 1000) * 16) * 256

Decimals == {0, 1, 9, 10, 90, 99, 100, 109, 199, 549, 900, 990, 999, 1000, 4567, 5433, 8888,
             9000, 9099, 9909, 9990, 9999} \cup (45..55)
Words == {0, 1, 127, 128, 255, 256, 257, 4095, 32767, 32768, 65280, 65534, 65535}
Factors == {0, 1, 2, 3, 15, 16, 85, 127, 128, 170, 254, 255}

ProgramImages ==
  {Machine("decimalSum", Loop(ADCM, DAA), Bcd(m), Bcd(n), <<>>, {}) :
     m \in Decimals, n \in Decimals}
  \cup {Machine("decimalDifference", DecimalSubtraction, Bcd(m), Bcd(n), <<>>, {}) :
          m \in Decimals, n \in Decimals}
  \cup {Machine("difference", Loop(SBBM, NOP), m, n, <<>>, {}) : m \in Words, n \in Words}
  \cup {Machine("product", Multiplication, m, n, [c |-> m, d |-> n], f) :
          m \in Factors, n \in Factors, f \in {{}, {CarryFlag}}}
  \cup {Machine("sumTo", Recursion, m, 0, [b |-> m], {}) : m \in 0..3}
  \cup {Machine("bits", BitCount, m, 0, [a |-> m], {}) : m \in Byte}

\* Every opcode, from states in which a result is zero, negative, carried.
OpcodeImages ==
  {Machine("opcode", <<op, Lo(X), Hi(X)>>, 255, 128,
           [a |-> a, b |-> 1, c |-> 255, d |-> 2, e |-> 255, h |-> 1, l |-> 255], f) :
     op \in Byte, a \in {0, 153, 255}, f \in {{}, Flags}}

SomeImages == ProgramImages \cup OpcodeImages

-----------------------------------------------------------------------------
(* Properties.                                                             *)

Ended(kind) == hlt_ /\ image.kind = kind
Word1(a) == memory[a] + 256 * memory[a + 1]
Decimal(w) == (w % 16) + 10 * ((w \div 16) % 16) + 100 * ((w \div 256) % 16) + 1000 * (w \div 4096)
Carried == CarryFlag \in status_

\* Adding two numbers digit pair by digit pair with ADC and DAA gives their sum
\* in decimal, whatever carries between the digits and the bytes.
DecimalSum ==
  Ended("decimalSum") =>
    LET sum == Decimal(image.x) + Decimal(image.y)
    IN  Word1(X) = Bcd(sum % 10000) /\ (Carried <=> sum > 9999)

\* Subtracting in decimal, by way of the ten's complement, gives the difference;
\* the carry tells that nothing was borrowed.
DecimalDifference ==
  Ended("decimalDifference") =>
    LET difference == Decimal(image.x) - Decimal(image.y)
    IN  Word1(X) = Bcd(difference % 10000) /\ (Carried <=> difference >= 0)

\* Subtracting byte by byte with SBB gives the difference, the carry the borrow.
Difference ==
  Ended("difference") =>
    Word1(X) = (image.x - image.y) % 65536 /\ (Carried <=> image.x < image.y)

\* Shifting and adding through the carry multiplies, whatever it was before.
Product ==
  Ended("product") => Uint16(reg["b"], reg["c"]) = image.x * image.y

\* A recursive procedure gets its registers and return addresses back, below
\* address 0 as above it, and leaves the stack where it was.
RecursiveSum ==
  Ended("sumTo") =>
    HL = (image.x * (image.x + 1)) \div 2 /\ reg["b"] = image.x /\ sp_ = image.sp

\* Eight rotations restore a byte, having shown each bit once, and the parity
\* flag tells whether the number of bits is even.
ParityOfBits ==
  Ended("bits") =>
    /\ reg["a"] = image.x
    /\ (ParityFlag \in status_) <=> (reg["c"] % 2 = 0)
=============================================================================
