--------------------------- MODULE MachineProofs ----------------------------
(***************************************************************************)
(* Safety of Machine for any number of controllers, any handlers and       *)
(* options, and any pacing of the interrupts.  IInv is inductive: the      *)
(* steps of the interface, of the caller's thread, of RunMachine and of    *)
(* the two tasks each get a lemma, and the theorems follow from IInv.      *)
(***************************************************************************)
EXTENDS Machine, TLAPS

-----------------------------------------------------------------------------
(* What SetOptions makes of a document, for every document and every text. *)

\* The documents of the operators are documents.
LEMMA DocumentTypes ==
  /\ NoMembers \in [Names -> Values]
  /\ DefaultOpts \in Options
  /\ Null \in Options /\ Scalar \in Options
<1>1. NoMembers \in [Names -> Values]
  BY DEF NoMembers, Values
<1>2. DefaultOpts.members \in [Names -> Values]
  BY DEF DefaultOpts, Object, Names, Values
<1>3. DefaultOpts \in Options
  BY <1>2 DEF DefaultOpts, Object, Options, Document, WellFormed, Legal
<1>4. Null \in Options /\ Scalar \in Options
  BY <1>1 DEF Null, Scalar, NoMembers, Options, Document, WellFormed, Legal, Names
<1>5. QED BY <1>1, <1>3, <1>4

\* No sequence of accepted texts gives a machine an interrupt frequency that
\* SetOptions would have refused: the check of one text suffices, although it
\* never looks at the document the text is merged into.
THEOREM MergeKeepsLegal ==
  ASSUME NEW json \in Options, NEW text \in Text, Accepted(text)
  PROVE  Merge(json, text.json) \in Options
<1> DEFINE src == text.json
           both == [name \in Names |-> IF src.members[name] = "absent"
                                       THEN json.members[name] ELSE src.members[name]]
<1>1. src \in Options /\ src \in Document /\ json \in Document
  BY DEF Text, Accepted, Options
<1>2. both \in [Names -> Values]
  BY <1>1 DEF Document
<1>3. both["isrFreq"] # "negative"
  BY <1>1 DEF Options, Legal, Names
<1>4. Object(both) \in Options
  BY <1>2, <1>3 DEF Object, Options, Document, WellFormed, Legal
<1>5. QED BY <1>1, <1>4 DEF Merge

\* In a machine whose document is an object the last text wins: an option it
\* names has its value, and every other option keeps the value it had.
THEOREM LastTextWins ==
  ASSUME NEW json \in Options, json.kind = "object",
         NEW src \in Options, src.kind = "object", NEW name \in Names
  PROVE  /\ Merge(json, src).kind = "object"
         /\ Merge(json, src).members[name] =
              IF src.members[name] = "absent" THEN json.members[name]
                                              ELSE src.members[name]
BY DEF Merge, Object, NoMembers

\* SetOptions(nullptr) sets all options to their defaults, whatever was set
\* before, as Opt.h says - unless a text that is not an object was set before:
\* then no object ever has an effect again, that of the defaults included.
THEOREM ResetRestores ==
  ASSUME NEW json \in Options
  PROVE  Merge(json, DefaultOpts) = IF json.kind = "scalar" THEN json ELSE DefaultOpts
<1>1. \A name \in Names : DefaultOpts.members[name] # "absent"
  BY DEF DefaultOpts, Object, Names
<1>2. DefaultOpts.members # NoMembers
  BY <1>1 DEF NoMembers, Names
<1>3. DefaultOpts.kind = "object"
  BY DEF DefaultOpts, Object
<1>4. [name \in Names |-> IF DefaultOpts.members[name] = "absent"
                           THEN json.members[name] ELSE DefaultOpts.members[name]]
        = DefaultOpts.members
  BY <1>1 DEF DefaultOpts, Object, Names
<1>5. Object(DefaultOpts.members) = DefaultOpts
  BY DEF DefaultOpts, Object
<1>6. QED BY <1>2, <1>3, <1>4, <1>5 DEF Merge

\* Two texts set one after the other are one text that names the options of
\* both: nothing depends on how a user splits the options over calls.
THEOREM TextsCompose ==
  ASSUME NEW json \in Options, NEW first \in Options, NEW second \in Options,
         json.kind = "object", first.kind = "object", second.kind = "object"
  PROVE  Merge(Merge(json, first), second) = Merge(json, Merge(first, second))
<1> DEFINE Over(a, b) == [name \in Names |-> IF b[name] = "absent" THEN a[name] ELSE b[name]]
<1>1. /\ json.members \in [Names -> Values] /\ first.members \in [Names -> Values]
      /\ second.members \in [Names -> Values]
      /\ json = Object(json.members) /\ first = Object(first.members)
      /\ second = Object(second.members)
  BY DEF Options, Document, Object
<1>2. \A a, b \in [Names -> Values] : Merge(Object(a), Object(b)) = Object(Over(a, b))
  <2> SUFFICES ASSUME NEW a \in [Names -> Values], NEW b \in [Names -> Values]
               PROVE  Merge(Object(a), Object(b)) = Object(Over(a, b))
    OBVIOUS
  <2>1. CASE b = NoMembers
    <3>1. Over(a, b) = a
      BY <2>1 DEF NoMembers
    <3>2. QED BY <2>1, <3>1 DEF Merge, Object
  <2>2. CASE b # NoMembers
    BY <2>2 DEF Merge, Object
  <2>3. QED BY <2>1, <2>2
<1>3. \A a, b \in [Names -> Values] : Over(a, b) \in [Names -> Values]
  OBVIOUS
<1>4. Over(Over(json.members, first.members), second.members)
        = Over(json.members, Over(first.members, second.members))
  <2>1. \A name \in Names :
          Over(Over(json.members, first.members), second.members)[name]
            = Over(json.members, Over(first.members, second.members))[name]
    OBVIOUS
  <2>2. QED BY <2>1
<1> HIDE DEF Over
<1>5. Merge(Merge(json, first), second)
        = Object(Over(Over(json.members, first.members), second.members))
  BY <1>1, <1>2, <1>3
<1>6. Merge(json, Merge(first, second))
        = Object(Over(json.members, Over(first.members, second.members)))
  BY <1>1, <1>2, <1>3
<1>7. QED BY <1>4, <1>5, <1>6

-----------------------------------------------------------------------------
(* The machine.                                                            *)

\* The assumptions on the constants, and what every leaf looks at.
LEMMA ConstantFacts ==
  /\ NoController \notin Controllers
  /\ Slots \subseteq HandlerSlots
  /\ Texts \subseteq Text
  /\ DefaultOpts \in Options
  /\ TicksPerIsr \in Nat
  /\ Ticks \subseteq Nat
BY ControllersAssumption, SlotsAssumption, TextsAssumption, TicksAssumption,
   DocumentTypes

\* The invariant holds of a machine that was just made.
LEMMA InitIInv == Init => IInv
<1> SUFFICES ASSUME Init PROVE IInv
  OBVIOUS
<1>1. TypeOK
  BY ConstantFacts
     DEF Init, TypeOK, ISR, LoadStages, SaveStages, States, Idle, Exit, Polling
<1>2. RunPhases /\ MutualExclusion /\ NoDanglingController
  BY DEF Init, RunPhases, MutualExclusion, NoDanglingController
<1>3. Stopping
  BY DEF Init, Stopping, StopsForAReason, QuitDrains, Exit
<1>4. Deferred /\ IsrLatency
  BY DEF Init, Deferred, IsrLatency
<1>5. QED BY <1>1, <1>2, <1>3, <1>4 DEF IInv

\* A rejected call changes nothing the invariant speaks of but the fault.
LEMMA RejectedIInv == ASSUME IInv, Rejected PROVE IInv'
BY DEF Rejected, HandleError, config, locals, threads, IInv, TypeOK, RunPhases,
   MutualExclusion, NoDanglingController, Stopping, StopsForAReason, QuitDrains,
   Deferred, IsrLatency

\* So do the calls that configure a stopped machine: no thread looks.
LEMMA ConfiguredIInv ==
  ASSUME IInv, ~running_, Configured,
         cpuMemory' = memoryController_', cpuIo' = ioController_',
         {memoryController_', ioController_'} \subseteq Controllers \cup {NoController},
         handlers' \in SUBSET Slots, opts' \in Options
  PROVE  IInv'
BY DEF Configured, NoError, locals, threads, IInv, TypeOK, RunPhases,
   MutualExclusion, NoDanglingController, Stopping, StopsForAReason, QuitDrains,
   Deferred, IsrLatency

\* Attaching, detaching, registering and setting options preserve the invariant.
LEMMA InterfaceIInv == ASSUME IInv, Interface PROVE IInv'
<1>0. /\ cpuMemory = memoryController_ /\ cpuIo = ioController_
      /\ {memoryController_, ioController_} \subseteq Controllers \cup {NoController}
      /\ handlers \in SUBSET Slots /\ opts \in Options
  BY DEF IInv, TypeOK, NoDanglingController
<1>1. ASSUME NEW c \in Controllers \cup {NoController}, AttachMemoryController(c)
      PROVE  IInv'
  BY <1>0, <1>1, RejectedIInv, ConfiguredIInv DEF AttachMemoryController
<1>2. ASSUME NEW c \in Controllers \cup {NoController}, AttachIoController(c)
      PROVE  IInv'
  BY <1>0, <1>2, RejectedIInv, ConfiguredIInv DEF AttachIoController
<1>3. ASSUME DetachMemoryController PROVE IInv'
  BY <1>0, <1>3, RejectedIInv, ConfiguredIInv DEF DetachMemoryController
<1>4. ASSUME DetachIoController PROVE IInv'
  BY <1>0, <1>4, RejectedIInv, ConfiguredIInv DEF DetachIoController
<1>5. ASSUME NEW own, NEW filled \in SUBSET Slots, Register(own, filled) PROVE IInv'
  BY <1>0, <1>5, RejectedIInv, ConfiguredIInv DEF Register
<1>6. ASSUME NEW text \in Texts, SetOptions(text) PROVE IInv'
  <2>1. Accepted(text) => Merge(opts, text.json) \in Options
    BY <1>0, ConstantFacts, MergeKeepsLegal
  <2>2. QED BY <1>0, <1>6, <2>1, RejectedIInv, ConfiguredIInv DEF SetOptions
<1>7. QED
  BY <1>1, <1>2, <1>3, <1>4, <1>5, <1>6
     DEF Interface, OnSave, OnLoad, OnIdle, OnInit, OnError

\* Starting a Run, or being refused one, preserves the invariant.
LEMMA RunIInv == ASSUME IInv, NEW clocked \in BOOLEAN, Run(clocked) PROVE IInv'
<1>1. CASE CanRun(clocked)
  <2>0. {running_', quit_', quit', looping'} \subseteq BOOLEAN
    BY <1>1 DEF Run, MarkRunning
  <2>1. TypeOK'
    BY <1>1, <2>0
       DEF Run, MarkRunning, CanRun, NoError, config, IInv, TypeOK, ISR, LoadStages, SaveStages,
           States, Idle, Exit, Polling
  <2>2. RunPhases' /\ NoDanglingController'
    BY <1>1
       DEF Run, MarkRunning, CanRun, NoError, config, IInv, RunPhases, NoDanglingController, TypeOK,
           Exit, Polling
  <2>3. Stopping'
    BY <1>1
       DEF Run, MarkRunning, CanRun, NoError, config, IInv, Stopping, StopsForAReason, QuitDrains,
           TypeOK, RunPhases, Exit, Polling
  <2>4. MutualExclusion' /\ Deferred' /\ IsrLatency'
    BY <1>1
       DEF Run, MarkRunning, CanRun, NoError, config, IInv, MutualExclusion, Deferred, IsrLatency,
           RunPhases, TypeOK, Exit, Polling
  <2>5. QED BY <2>1, <2>2, <2>3, <2>4 DEF IInv
<1>2. CASE ~CanRun(clocked)
  BY <1>2, RejectedIInv DEF Run, MarkRunning
<1>3. QED BY <1>1, <1>2

\* The caller's idle loop, and Run's return, preserve the invariant.
LEMMA CallerIInv == ASSUME IInv, IdleLoop \/ WaitForCompletion PROVE IInv'
<1> USE DEF NoError, config, locals, IInv, TypeOK, RunPhases, MutualExclusion,
     NoDanglingController, Stopping, StopsForAReason, QuitDrains, Deferred, IsrLatency,
     Idle, Exit, Polling
<1>1. CASE IdleTest
  BY <1>1 DEF IdleTest
<1>2. ASSUME NEW result \in BOOLEAN, IdleCall(result) PROVE IInv'
  BY <1>2 DEF IdleCall, First
<1>3. CASE WaitForCompletion
  BY <1>3 DEF WaitForCompletion
<1>4. QED BY <1>1, <1>2, <1>3 DEF IdleLoop

\* The load and save tasks preserve the invariant on whatever thread they run.
LEMMA TaskIInv == ASSUME IInv, LoadTask \/ SaveTask PROVE IInv'
<1> USE DEF NoError, HandleError, config, threads, IInv, TypeOK, RunPhases,
     MutualExclusion, NoDanglingController, Stopping, StopsForAReason, QuitDrains,
     Deferred, IsrLatency, LoadStages, SaveStages, States, Exit
<1>1. CASE LoadTask
  BY <1>1 DEF LoadTask
<1>2. CASE SaveBegin
  BY <1>2 DEF SaveBegin
<1>3. CASE SaveComplete
  BY <1>3 DEF SaveComplete, Swallow
<1>4. QED BY <1>1, <1>2, <1>3 DEF SaveTask

\* Taking any interrupt from the io controller preserves the invariant.
LEMMA ServiceIInv == ASSUME IInv, NEW i \in ISR, Service(i) PROVE IInv'
<1>0. pc = "service" /\ isr' = i
  BY DEF Service
<1>1. CASE ServiceRst
  <2>0. quit' \in BOOLEAN
    BY <1>1 DEF ServiceRst, IInv, TypeOK
  <2>1. TypeOK'
    BY <1>0, <1>1, <2>0, ConstantFacts
       DEF ServiceRst, NoError, config, IInv, TypeOK, ISR, LoadStages, SaveStages,
           States, Idle, Exit, Polling
  <2>2. RunPhases' /\ NoDanglingController'
    BY <1>0, <1>1, <2>0, ConstantFacts
       DEF ServiceRst, NoError, config, IInv, RunPhases, NoDanglingController, TypeOK,
           Exit, Polling
  <2>3. Stopping'
    BY <1>0, <1>1, <2>0, ConstantFacts
       DEF ServiceRst, NoError, config, IInv, Stopping, StopsForAReason, QuitDrains,
           TypeOK, RunPhases, Exit, Polling
  <2>4. MutualExclusion' /\ Deferred' /\ IsrLatency'
    BY <1>0, <1>1, <2>0, ConstantFacts
       DEF ServiceRst, NoError, config, IInv, MutualExclusion, Deferred, IsrLatency,
           RunPhases, TypeOK, Exit, Polling
  <2>5. QED BY <2>1, <2>2, <2>3, <2>4 DEF IInv
<1>2. CASE ServiceOther
  <2>0. quit' \in BOOLEAN
    BY <1>2 DEF ServiceOther, Return, IInv, TypeOK
  <2>1. TypeOK'
    BY <1>0, <1>2, <2>0
       DEF ServiceOther, Return, NoError, config, IInv, TypeOK, ISR, LoadStages,
           SaveStages, States, Idle, Exit, Polling
  <2>2. RunPhases' /\ NoDanglingController'
    BY <1>0, <1>2, <2>0
       DEF ServiceOther, Return, NoError, config, IInv, RunPhases,
           NoDanglingController, TypeOK, Exit, Polling
  <2>3. Stopping'
    BY <1>0, <1>2, <2>0
       DEF ServiceOther, Return, NoError, config, IInv, Stopping, StopsForAReason,
           QuitDrains, TypeOK, RunPhases, Exit, Polling
  <2>4. MutualExclusion' /\ Deferred' /\ IsrLatency'
    BY <1>0, <1>2, <2>0
       DEF ServiceOther, Return, NoError, config, IInv, MutualExclusion, Deferred,
           IsrLatency, RunPhases, TypeOK, Exit, Polling
  <2>5. QED BY <2>1, <2>2, <2>3, <2>4 DEF IInv
<1>3. CASE i = "Load" /\ ServiceLoad
  <2>0. quit' \in BOOLEAN
    BY <1>3 DEF ServiceLoad, LoadPolicy, Return, IInv, TypeOK
  <2>1. TypeOK'
    BY <1>0, <1>3, <2>0
       DEF ServiceLoad, LoadPolicy, CanLoad, Return, NoError, config, IInv, TypeOK, ISR,
           LoadStages, SaveStages, States, Idle, Exit, Polling
  <2>2. RunPhases' /\ NoDanglingController'
    BY <1>0, <1>3, <2>0
       DEF ServiceLoad, LoadPolicy, CanLoad, Return, NoError, config, IInv, RunPhases,
           NoDanglingController, TypeOK, Exit, Polling
  <2>3. Stopping'
    BY <1>0, <1>3, <2>0
       DEF ServiceLoad, LoadPolicy, CanLoad, Return, NoError, config, IInv, Stopping, StopsForAReason,
           QuitDrains, TypeOK, RunPhases, Exit, Polling
  <2>4. MutualExclusion' /\ Deferred' /\ IsrLatency'
    BY <1>0, <1>3, <2>0
       DEF ServiceLoad, LoadPolicy, CanLoad, Return, NoError, config, IInv, MutualExclusion,
           Deferred, IsrLatency, RunPhases, TypeOK, Exit, Polling
  <2>5. QED BY <2>1, <2>2, <2>3, <2>4 DEF IInv
<1>4. CASE i = "Save" /\ ServiceSave
  <2>0. quit' \in BOOLEAN
    BY <1>4 DEF ServiceSave, Return, IInv, TypeOK
  <2>1. TypeOK'
    BY <1>0, <1>4, <2>0
       DEF ServiceSave, CanSave, Return, HandleError, NoError, config, IInv, TypeOK,
           ISR, LoadStages, SaveStages, States, Idle, Exit, Polling
  <2>2. RunPhases' /\ NoDanglingController'
    BY <1>0, <1>4, <2>0
       DEF ServiceSave, CanSave, Return, HandleError, NoError, config, IInv, RunPhases,
           NoDanglingController, TypeOK, Exit, Polling
  <2>3. Stopping'
    BY <1>0, <1>4, <2>0
       DEF ServiceSave, CanSave, Return, HandleError, NoError, config, IInv, Stopping, StopsForAReason,
           QuitDrains, TypeOK, RunPhases, Exit, Polling
  <2>4. MutualExclusion' /\ Deferred' /\ IsrLatency'
    BY <1>0, <1>4, <2>0
       DEF ServiceSave, CanSave, Return, HandleError, NoError, config, IInv,
           MutualExclusion, Deferred, IsrLatency, RunPhases, TypeOK, Exit, Polling
  <2>5. QED BY <2>1, <2>2, <2>3, <2>4 DEF IInv
<1>5. CASE ServiceQuit
  <2>1. TypeOK'
    BY <1>0, <1>5
       DEF ServiceQuit, NoError, config, IInv, TypeOK, ISR, LoadStages, SaveStages,
           States, Idle, Exit, Polling
  <2>2. RunPhases' /\ NoDanglingController'
    BY <1>0, <1>5
       DEF ServiceQuit, NoError, config, IInv, RunPhases, NoDanglingController, TypeOK,
           Exit, Polling
  <2>3. Stopping'
    BY <1>0, <1>5
       DEF ServiceQuit, NoError, config, IInv, Stopping, StopsForAReason, QuitDrains,
           TypeOK, RunPhases, Exit, Polling
  <2>4. MutualExclusion' /\ Deferred' /\ IsrLatency'
    BY <1>0, <1>5
       DEF ServiceQuit, NoError, config, IInv, MutualExclusion, Deferred, IsrLatency,
           RunPhases, TypeOK, Exit, Polling
  <2>5. QED BY <2>1, <2>2, <2>3, <2>4 DEF IInv
<1>6. CASE i = "NoInterrupt" /\ ServiceNoInterrupt
  <2>0. quit' \in BOOLEAN
    BY <1>6 DEF ServiceNoInterrupt, AskIdle, IInv, TypeOK
  <2>1. TypeOK'
    BY <1>0, <1>6, <2>0
       DEF ServiceNoInterrupt, AskIdle, First, NoError, config, IInv, TypeOK, ISR, LoadStages,
           SaveStages, States, Idle, Exit, Polling
  <2>2. RunPhases' /\ NoDanglingController'
    BY <1>0, <1>6, <2>0
       DEF ServiceNoInterrupt, AskIdle, First, NoError, config, IInv, RunPhases,
           NoDanglingController, TypeOK, Exit, Polling
  <2>3. Stopping'
    BY <1>0, <1>6, <2>0
       DEF ServiceNoInterrupt, AskIdle, First, NoError, config, IInv, Stopping, StopsForAReason,
           QuitDrains, TypeOK, RunPhases, Exit, Polling
  <2>4. MutualExclusion' /\ Deferred' /\ IsrLatency'
    BY <1>0, <1>6, <2>0
       DEF ServiceNoInterrupt, AskIdle, First, NoError, config, IInv, MutualExclusion, Deferred,
           IsrLatency, RunPhases, TypeOK, Exit, Polling
  <2>5. QED BY <2>1, <2>2, <2>3, <2>4 DEF IInv
<1>7. QED
  BY <1>1, <1>2, <1>3, <1>4, <1>5, <1>6 DEF Service

\* Every step of the thread of RunMachine preserves the invariant.
LEMMA RunMachineIInv == ASSUME IInv, RunMachine PROVE IInv'
<1> USE DEF NoError, HandleError, Swallow, config, locals, Return, AfterLoad, AfterSave,
     IInv, TypeOK, RunPhases, MutualExclusion, NoDanglingController, Stopping,
     StopsForAReason, QuitDrains, Deferred, IsrLatency, LoadStages, SaveStages, States,
     Exit, Polling
<1>1. CASE OnInitOnce
  <2>1. CASE Has("onInit") /\ ~initOnceFlag_
    BY <1>1, <2>1 DEF OnInitOnce, First
  <2>2. CASE ~(Has("onInit") /\ ~initOnceFlag_)
    BY <1>1, <2>2 DEF OnInitOnce, First
  <2> QED
    BY <2>1, <2>2
<1>2. ASSUME NEW i \in ISR, Service(i) PROVE IInv'
  BY <1>2, ServiceIInv
<1>3. CASE PollLoad
  BY <1>3 DEF PollLoad, Collectable
<1>4. CASE WaitLoad
  BY <1>4 DEF WaitLoad, LoadMachineState
<1>5. CASE PollSave
  BY <1>5 DEF PollSave, Collectable
<1>6. CASE WaitSave
  <2>0. quit' \in BOOLEAN /\ quit_' \in BOOLEAN
    BY <1>6 DEF WaitSave
  <2>1. TypeOK'
    BY <1>6, <2>0 DEF WaitSave, First
  <2>2. Stopping'
    BY <1>6, <2>0 DEF WaitSave, First
  <2>3. QED BY <1>6, <2>1, <2>2 DEF WaitSave
<1>7. CASE Execute
  BY <1>7, ConstantFacts DEF Execute, IsrDue
<1>8. CASE DropSave
  BY <1>8 DEF DropSave
<1>9. CASE DropLoad
  BY <1>9 DEF DropLoad
<1>10. QED
  BY <1>1, <1>2, <1>3, <1>4, <1>5, <1>6, <1>7, <1>8, <1>9 DEF RunMachine

\* Every step of every thread preserves the invariant.
LEMMA NextIInv == IInv /\ [Next]_vars => IInv'
<1> SUFFICES ASSUME IInv, [Next]_vars PROVE IInv'
  OBVIOUS
<1>1. CASE UNCHANGED vars
  BY <1>1 DEF vars, config, locals, threads, IInv, TypeOK, RunPhases, MutualExclusion,
     NoDanglingController, Stopping, StopsForAReason, QuitDrains, Deferred, IsrLatency
<1>2. CASE Next
  BY <1>2, InterfaceIInv, RunIInv, CallerIInv, RunMachineIInv, TaskIInv DEF Next
<1>3. QED BY <1>1, <1>2

\* The invariant holds in every state a machine reaches.
THEOREM Invariance == Spec => []IInv
BY InitIInv, NextIInv, PTL DEF Spec

\* Every variable keeps its type.
THEOREM TypeCorrect == Spec => []TypeOK
BY Invariance, PTL DEF IInv

\* Load and save handlers are mutually exclusive (IMachine::OnLoad, OnSave).
THEOREM TransfersExclusive == Spec => []MutualExclusion
BY Invariance, PTL DEF IInv

\* A Run that has returned leaves no thread behind.
THEOREM NothingOutlivesRun == Spec => []Quiescent
<1>1. IInv => Quiescent
  BY DEF IInv, RunPhases, Quiescent
<1>2. QED BY <1>1, Invariance, PTL

\* The cpu's controller pointers are always those of owned controllers.
THEOREM PointersOwned == Spec => []NoDanglingController
BY Invariance, PTL DEF IInv

\* RunMachine never stops on the strength of an earlier Run's quit_.
THEOREM NoSpuriousStop == Spec => []StopsForAReason
<1>1. IInv => StopsForAReason
  BY DEF IInv, Stopping
<1>2. QED BY <1>1, Invariance, PTL

\* ISR::Quit leaves neither a load nor a save unfinished.
THEOREM QuitCompletesTransfers == Spec => []QuitDrains
<1>1. IInv => QuitDrains
  BY DEF IInv, Stopping
<1>2. QED BY <1>1, Invariance, PTL

\* Only the async options let the cpu run during a transfer.
THEOREM TransfersInline == Spec => []InlineTransfers
<1>1. IInv => InlineTransfers
  BY DEF IInv, Deferred, InlineTransfers
<1>2. QED BY <1>1, Invariance, PTL

\* Interrupts are serviced at least every ticksPerIsr ticks and an instruction.
THEOREM LatencyBounded == Spec => []IsrLatency
BY Invariance, PTL DEF IInv

-----------------------------------------------------------------------------
(* Steps: what the threads of a Run leave alone, and what they do to the   *)
(* load future.                                                            *)

\* A call made while the machine runs is rejected.
LEMMA InterfaceRejected == ASSUME running_, Interface PROVE Rejected
BY DEF Interface, AttachMemoryController, AttachIoController, DetachMemoryController,
   DetachIoController, OnSave, OnLoad, OnIdle, OnInit, OnError, Register, SetOptions

\* The steps of the threads do not touch the configuration.
LEMMA ThreadsKeepConfig ==
  ASSUME IdleLoop \/ WaitForCompletion \/ RunMachine \/ LoadTask \/ SaveTask
  PROVE  UNCHANGED config
<1>1. CASE IdleLoop
  BY <1>1 DEF IdleLoop, IdleTest, IdleCall
<1>2. CASE WaitForCompletion
  BY <1>2 DEF WaitForCompletion
<1>3. CASE RunMachine
  <2>1. ASSUME NEW i \in ISR, Service(i) PROVE UNCHANGED config
    BY <2>1 DEF Service, ServiceRst, ServiceOther, ServiceLoad, LoadPolicy, ServiceSave, ServiceQuit,
       ServiceNoInterrupt
  <2>2. QED
    BY <1>3, <2>1 DEF RunMachine, OnInitOnce, PollLoad, Collectable, WaitLoad, PollSave, WaitSave,
       Execute, DropSave, DropLoad
<1>4. CASE LoadTask
  BY <1>4 DEF LoadTask
<1>5. CASE SaveTask
  BY <1>5 DEF SaveTask, SaveBegin, SaveComplete
<1>6. QED BY <1>1, <1>2, <1>3, <1>4, <1>5

\* No handler, controller or option changes while a thread may be using it.
THEOREM ConfigurationFrozen == Spec => ConfigFrozen
<1>1. ASSUME IInv, [Next]_vars,
             pc # "off" \/ api # "outside" \/ onLoad # "none" \/ onSave # "none"
      PROVE  UNCHANGED config
  <2>1. running_
    BY <1>1 DEF IInv, RunPhases
  <2>2. CASE Interface
    BY <2>1, <2>2, InterfaceRejected DEF Rejected
  <2>3. ASSUME NEW clocked \in BOOLEAN, Run(clocked) PROVE UNCHANGED config
    BY <2>3 DEF Run, MarkRunning, Rejected
  <2>4. CASE UNCHANGED vars
    BY <2>4 DEF vars
  <2>5. QED
    BY <1>1, <2>2, <2>3, <2>4, ThreadsKeepConfig DEF Next
<1>2. QED BY <1>1, Invariance, PTL DEF ConfigFrozen, Spec

\* An outstanding load is never replaced by another one, nor dropped before its
\* handler returned.
THEOREM LoadsNotReplaced == Spec => LoadNeverReplaced
<1> DEFINE Allowed ==
      onLoad' # onLoad =>
        <<onLoad, onLoad'>> \in {<<"none", "running">>, <<"none", "deferred">>,
          <<"running", "ready">>, <<"deferred", "ready">>, <<"ready", "none">>}
<1>1. ASSUME IInv, [Next]_vars PROVE Allowed
  <2>1. CASE Rejected \/ Configured \/ UNCHANGED vars
    BY <2>1 DEF Rejected, Configured, vars, locals
  <2>2. CASE Interface
    BY <2>1, <2>2 DEF Interface, AttachMemoryController, AttachIoController,
       DetachMemoryController, DetachIoController, OnSave, OnLoad, OnIdle, OnInit,
       OnError, Register, SetOptions
  <2>3. ASSUME NEW clocked \in BOOLEAN, Run(clocked) PROVE Allowed
    BY <1>1, <2>1, <2>3 DEF Run, MarkRunning, CanRun, IInv, RunPhases
  <2>4. CASE IdleLoop \/ WaitForCompletion
    BY <2>4 DEF IdleLoop, IdleTest, IdleCall, WaitForCompletion, locals
  <2>5. CASE RunMachine
    <3>1. ASSUME NEW i \in ISR, Service(i) PROVE Allowed
      BY <3>1 DEF Service, ServiceRst, ServiceOther, ServiceLoad, LoadPolicy, CanLoad, ServiceSave,
         ServiceQuit, ServiceNoInterrupt
    <3>2. CASE WaitLoad
      BY <3>2 DEF WaitLoad
    <3>3. CASE DropLoad
      BY <1>1, <3>3 DEF DropLoad, IInv, Deferred
    <3>4. QED
      BY <2>5, <3>1, <3>2, <3>3 DEF RunMachine, OnInitOnce, PollLoad, Collectable, PollSave, WaitSave,
         Execute, DropSave, locals
  <2>6. CASE LoadTask
    BY <2>6 DEF LoadTask
  <2>7. CASE SaveTask
    BY <2>7 DEF SaveTask, SaveBegin, SaveComplete
  <2>8. QED
    BY <1>1, <2>1, <2>2, <2>3, <2>4, <2>5, <2>6, <2>7 DEF Next
<1>2. QED BY <1>1, Invariance, PTL DEF LoadNeverReplaced, Spec
=============================================================================
