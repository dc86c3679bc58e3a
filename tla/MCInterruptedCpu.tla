-------------------------- MODULE MCInterruptedCpu --------------------------
(***************************************************************************)
(* An instance of InterruptedCpu for TLC: a subtraction of two words that  *)
(* waits for an interrupt in between, and two handlers.                    *)
(***************************************************************************)
EXTENDS InterruptedCpu

Origin == 250
X == 511
Y == 767
Stack == (65516..65535) \cup (0..3)
SomeCells == (8..23) \cup (Origin..(Origin + 23)) \cup Stack \cup {X, X + 1, Y, Y + 1}

\*   LXI D,X  LXI H,Y  MVI B,2  XRA A  EI
\*   loop: LDAX D  SBB M  STAX D  HLT  INX D  INX H  DCR B  JNZ loop  DI  HLT
Program ==
  <<17, X % 256, X \div 256, 33, Y % 256, Y \div 256, 6, 2, 175, 251,
    26, 158, 18, 118, 19, 35, 5, 194, (Origin + 10) % 256, (Origin + 10) \div 256, 243, 118>>

\* Restart 1: PUSH PSW  PUSH B  XRA A  MOV B,A  POP B  POP PSW  EI  RET
\* Restart 2: PUSH PSW  STC  RAL  CMA  NOP  POP PSW  EI  RET
Handlers == <<245, 197, 175, 71, 193, 241, 251, 201, 245, 55, 23, 47, 0, 241, 251, 201>>

Load(x1, y1) ==
  [memory |-> [a \in SomeCells |->
     IF a - 7 \in DOMAIN Handlers THEN Handlers[a - 7]
     ELSE IF a - Origin + 1 \in DOMAIN Program THEN Program[a - Origin + 1]
     ELSE CASE a = X -> x1 % 256 [] a = X + 1 -> x1 \div 256
            [] a = Y -> y1 % 256 [] a = Y + 1 -> y1 \div 256
            [] OTHER -> 255],
   reg |-> [n \in Names |-> 85], pc |-> Origin, sp |-> 2, status |-> {}]

\* With and without a borrow from the low byte, and from the high one.
SomeImages == {Load(256, 1), Load(0, 65535), Load(65535, 256)}
=============================================================================
