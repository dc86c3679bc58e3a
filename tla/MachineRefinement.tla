-------------------------- MODULE MachineRefinement --------------------------
(***************************************************************************)
(* Machine implements MachineSession: a stopped machine maps to a stopped  *)
(* session, and every step of a reachable machine maps to a step of the    *)
(* session or leaves it unchanged.                                         *)
(***************************************************************************)
EXTENDS MachineProofs

\* The outstanding transfers are read off the two futures.
LEMMA OutstandingIs ==
  /\ onLoad = "none" /\ onSave = "none" <=> Outstanding = {}
  /\ onLoad # "none" /\ onSave = "none" => Outstanding = {"load"}
  /\ onLoad = "none" /\ onSave # "none" => Outstanding = {"save"}
BY DEF Outstanding

\* The session is left alone by a step that changes neither its configuration
\* nor whether a Run, a load or a save is in progress.
LEMMA SessionStutters ==
  ASSUME UNCHANGED <<config, running_>>,
         onLoad' = "none" <=> onLoad = "none",
         onSave' = "none" <=> onSave = "none"
  PROVE  UNCHANGED Session!vars
BY DEF config, Session!vars, Outstanding

\* A future that appears is a transfer that begins ...
LEMMA SessionBegins ==
  ASSUME UNCHANGED <<config, running_>>, running_,
         onLoad = "none", onSave = "none",
         \/ onLoad' # "none" /\ onSave' = "none"
         \/ onLoad' = "none" /\ onSave' # "none"
  PROVE  Session!Next
<1>1. Outstanding = {} /\ (Outstanding' = {"load"} \/ Outstanding' = {"save"})
  BY DEF Outstanding
<1>2. QED
  BY <1>1 DEF config, Session!Next, Session!Begin, Session!Kinds

\* ... and one that is collected or dropped a transfer that ends.
LEMMA SessionEnds ==
  ASSUME UNCHANGED <<config, running_>>, running_, MutualExclusion,
         onLoad # "none" \/ onSave # "none",
         onLoad' = "none", onSave' = "none"
  PROVE  Session!Next
<1>1. Outstanding' = {} /\ (Outstanding = {"load"} \/ Outstanding = {"save"})
  BY DEF Outstanding, MutualExclusion
<1>2. \E kind \in {"load", "save"} : kind \in Outstanding /\ Outstanding' = Outstanding \ {kind}
  BY <1>1
<1>3. QED
  BY <1>2 DEF config, Session!Next, Session!End, Session!Kinds

\* A new machine is a stopped session.
LEMMA InitSession == Init => Session!Init
BY ConstantFacts DEF Init, Session!Init, Outstanding

\* An accepted call of the interface configures the session, a rejected one
\* is a stutter.
LEMMA InterfaceSession ==
  ASSUME IInv, IInv', Interface PROVE Session!Next \/ UNCHANGED Session!vars
<1>1. CASE Rejected
  BY <1>1, SessionStutters DEF Rejected, locals
<1>2. CASE ~running_ /\ Configured
  <2>1. <<memoryController_, ioController_, handlers, opts>>'
          \in (Controllers \cup {NoController}) \X (Controllers \cup {NoController})
                \X (SUBSET Slots) \X Options
    BY DEF IInv, TypeOK
  <2>2. Outstanding' = Outstanding /\ running_' = running_
    BY <1>2 DEF Configured, locals, Outstanding
  <2>3. QED
    BY <1>2, <2>1, <2>2 DEF Session!Next, Session!Configure
<1>3. QED
  BY <1>1, <1>2 DEF Interface, AttachMemoryController, AttachIoController,
     DetachMemoryController, DetachIoController, OnSave, OnLoad, OnIdle, OnInit, OnError,
     Register, SetOptions

\* The steps of Run's caller start and stop the session, or stutter.
LEMMA CallerSession ==
  ASSUME IInv, \/ \E clocked \in BOOLEAN : Run(clocked)
               \/ IdleLoop \/ WaitForCompletion
  PROVE  Session!Next \/ UNCHANGED Session!vars
<1>1. ASSUME NEW clocked \in BOOLEAN, Run(clocked)
      PROVE  Session!Next \/ UNCHANGED Session!vars
  <2>1. CASE Rejected
    BY <2>1, SessionStutters DEF Rejected, locals
  <2>2. CASE CanRun(clocked)
    <3>1. ~running_ /\ running_' = TRUE /\ UNCHANGED config
      BY <1>1, <2>2 DEF Run, MarkRunning, CanRun
    <3>2. Outstanding' = Outstanding
      BY <1>1, <2>2 DEF Run, MarkRunning, CanRun, IInv, RunPhases, Outstanding
    <3>3. QED
      BY <3>1, <3>2 DEF config, Session!Next, Session!Start
  <2>3. QED BY <1>1, <2>1, <2>2 DEF Run, MarkRunning
<1>2. CASE IdleLoop
  BY <1>2, SessionStutters DEF IdleLoop, IdleTest, IdleCall, locals
<1>3. CASE WaitForCompletion
  <2>1. running_ /\ running_' = FALSE /\ UNCHANGED config
    BY <1>3 DEF WaitForCompletion, IInv, RunPhases
  <2>2. Outstanding = {} /\ Outstanding' = {}
    BY <1>3 DEF WaitForCompletion, IInv, RunPhases, locals, Outstanding
  <2>3. QED
    BY <2>1, <2>2 DEF config, Session!Next, Session!Stop
<1>4. QED BY <1>1, <1>2, <1>3

\* The steps of RunMachine begin and end transfers, or stutter.
LEMMA RunMachineSession ==
  ASSUME IInv, RunMachine PROVE Session!Next \/ UNCHANGED Session!vars
<1>0. UNCHANGED <<config, running_>>
  <2>1. ASSUME NEW i \in ISR, Service(i) PROVE running_' = running_
    BY <2>1 DEF Service, ServiceRst, ServiceOther, ServiceLoad, LoadPolicy, ServiceSave, ServiceQuit,
       ServiceNoInterrupt
  <2>2. running_' = running_
    BY <2>1 DEF RunMachine, OnInitOnce, PollLoad, Collectable, WaitLoad, PollSave, WaitSave, Execute, IsrDue,
       DropSave, DropLoad
  <2>3. QED BY <2>2, ThreadsKeepConfig
<1>1. running_
  <2>1. pc # "off"
    BY DEF RunMachine, OnInitOnce, Service, PollLoad, Collectable, WaitLoad, PollSave, WaitSave, Execute, IsrDue,
       DropSave, DropLoad
  <2>2. QED BY <2>1 DEF IInv, RunPhases
<1>2. MutualExclusion
  BY DEF IInv
<1>3. ASSUME NEW i \in ISR, Service(i)
      PROVE  Session!Next \/ UNCHANGED Session!vars
  <2>1. CASE ServiceLoad
    BY <1>0, <1>1, <2>1, SessionStutters, SessionBegins DEF ServiceLoad, LoadPolicy, CanLoad
  <2>2. CASE ServiceSave
    BY <1>0, <1>1, <2>2, SessionStutters, SessionBegins DEF ServiceSave, CanSave
  <2>3. CASE ServiceRst \/ ServiceOther \/ ServiceQuit \/ ServiceNoInterrupt
    BY <1>0, <2>3, SessionStutters
       DEF ServiceRst, ServiceOther, ServiceQuit, ServiceNoInterrupt, AskIdle
  <2>4. QED BY <1>3, <2>1, <2>2, <2>3 DEF Service
<1>4. CASE WaitLoad \/ DropLoad
  BY <1>0, <1>1, <1>2, <1>4, SessionStutters, SessionEnds
     DEF WaitLoad, DropLoad, MutualExclusion
<1>5. CASE WaitSave \/ DropSave
  BY <1>0, <1>1, <1>2, <1>5, SessionStutters, SessionEnds
     DEF WaitSave, DropSave, MutualExclusion
<1>6. CASE OnInitOnce \/ PollLoad \/ PollSave \/ Execute
  BY <1>0, <1>6, SessionStutters DEF OnInitOnce, PollLoad, Collectable, PollSave, Execute, IsrDue, locals
<1>7. QED
  BY <1>3, <1>4, <1>5, <1>6 DEF RunMachine

\* What happens inside a transfer is invisible to the session.
LEMMA TaskSession ==
  ASSUME IInv, LoadTask \/ SaveTask PROVE UNCHANGED Session!vars
<1>0. UNCHANGED config
  BY ThreadsKeepConfig
<1>1. CASE LoadTask
  BY <1>0, <1>1, SessionStutters DEF LoadTask
<1>2. CASE SaveTask
  BY <1>0, <1>2, SessionStutters DEF SaveTask, SaveBegin, SaveComplete
<1>3. QED BY <1>1, <1>2

\* Every step of a machine is a step of the session, or a stutter.
LEMMA NextSession ==
  ASSUME IInv, IInv', [Next]_vars PROVE Session!Next \/ UNCHANGED Session!vars
<1>1. CASE UNCHANGED vars
  BY <1>1, SessionStutters DEF vars, locals
<1>2. CASE Next
  BY <1>2, InterfaceSession, CallerSession, RunMachineSession, TaskSession DEF Next
<1>3. QED BY <1>1, <1>2

\* The threads of a machine implement the session its interface promises.
THEOREM MachineImplementsSession == Spec => ImplementsSession
<1>1. Init => Session!Init
  BY InitSession
<1>2. IInv /\ IInv' /\ [Next]_vars => [Session!Next]_(Session!vars)
  BY NextSession
<1>3. QED
  BY <1>1, <1>2, Invariance, PTL DEF Spec, ImplementsSession, Session!Spec
=============================================================================
