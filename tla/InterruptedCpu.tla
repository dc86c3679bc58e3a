--------------------------- MODULE InterruptedCpu ---------------------------
(***************************************************************************)
(* A cpu that is interrupted between any two instructions, next to one     *)
(* that executes the same program and is not.  serviceInterrupts calls     *)
(* cpu_->Interrupt between two calls of cpu_->Execute; the handlers, at    *)
(* the restart addresses, keep what they use on the stack.                 *)
(***************************************************************************)
EXTENDS Intel8080

CONSTANT MaxFrames    \* bound of the model: handlers that interrupt one another

ASSUME MaxFramesAssumption == MaxFrames \in Nat

VARIABLES
  frames,     \* the values of sp_ at the interruptions that are not over
  \* the cpu that is not interrupted
  quietReg, quietPc, quietSp, quietStatus, quietIff, quietHlt, quietMemory, quietTicks

Quiet == INSTANCE Intel8080 WITH
  reg <- quietReg, pc_ <- quietPc, sp_ <- quietSp, status_ <- quietStatus,
  iff_ <- quietIff, hlt_ <- quietHlt, memory <- quietMemory, ticks <- quietTicks

quiet == <<quietReg, quietPc, quietSp, quietStatus, quietIff, quietMemory, quietTicks>>

InterruptedInit == Init /\ Quiet!Init /\ frames = <<>>

\* The program itself: both cpus execute it.
ExecuteProgram ==
  /\ frames = <<>>
  /\ Execute
  /\ Quiet!Execute
  /\ UNCHANGED frames

\* A handler, until its RET takes the last thing pushed for it.
ExecuteHandler ==
  /\ frames # <<>>
  /\ Execute
  /\ frames' = IF sp_' = Head(frames) THEN Tail(frames) ELSE frames
  /\ UNCHANGED <<quiet, quietHlt>>

\* Both cpus wake up, and only one of them notices why.
Interrupted(isr) ==
  /\ Interrupt(isr)
  /\ iff_ => Len(frames) < MaxFrames
  /\ frames' = IF iff_ THEN <<sp_>> \o frames ELSE frames
  /\ quietHlt' = (quietHlt /\ ~(iff_ /\ frames = <<>>))
  /\ UNCHANGED quiet

InterruptedNext ==
  \/ ExecuteProgram
  \/ ExecuteHandler
  \/ \E isr \in Restarts : Interrupted(isr)

InterruptedSpec == InterruptedInit /\ [][InterruptedNext]_<<vars, frames, quiet, quietHlt>>

-----------------------------------------------------------------------------
(* Properties.                                                             *)

\* The cells that the stack of the program occupies or has left alone.
Kept == {a \in Cells : (a - sp_) % 65536 < 32768}

\* A program does not notice that it was interrupted, at any instruction, again
\* and again, by handlers that interrupt one another: its registers, flags, stack,
\* memory and place are what they are without an interrupt.
InterruptsUnnoticed ==
  frames = <<>> =>
    /\ <<reg, pc_, sp_, status_, iff_, hlt_>>
         = <<quietReg, quietPc, quietSp, quietStatus, quietIff, quietHlt>>
    /\ \A a \in Kept : memory[a] = quietMemory[a]
=============================================================================
