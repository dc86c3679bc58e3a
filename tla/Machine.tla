------------------------------ MODULE Machine -------------------------------
(***************************************************************************)
(* The threads of one meen::Machine: the thread that configures it and     *)
(* calls Run, the thread that executes RunMachine, and the threads of the  *)
(* load and save futures (default build: std::async, ArduinoJson,          *)
(* ENABLE_MEEN_SAVE).  What a load does to the cpu and the memory is in    *)
(* MachineState; here it only succeeds, fails and reports, or fails        *)
(* silently.                                                               *)
(*                                                                         *)
(* A definition named D_Something is D with a plausible bug.  Nothing uses *)
(* it: a property that cannot tell it from D says nothing about D.         *)
(***************************************************************************)
EXTENDS Integers, Opt

CONSTANTS
  Controllers,    \* the controllers a user may attach
  NoController,   \* nullptr
  Slots,          \* the handler slots the user ever fills
  Texts,          \* what the user ever passes to SetOptions
  TicksPerIsr,    \* clock ticks between two services of the interrupts
  Ticks           \* ticks Execute and Interrupt return; 0: halted or not taken

HandlerSlots == {"onError", "onIdle", "onInit", "onLoad", "onLoadComplete",
                 "onSaveBegin", "onSave"}

ASSUME ControllersAssumption == NoController \notin Controllers
ASSUME SlotsAssumption == Slots \subseteq HandlerSlots
ASSUME TextsAssumption == Texts \subseteq Text
ASSUME TicksAssumption == TicksPerIsr \in Nat /\ Ticks \subseteq Nat

VARIABLES
  \* members of Machine that make its configuration
  memoryController_, ioController_,
  cpuMemory, cpuIo,   \* the raw pointers the cpu keeps to the two controllers
  handlers,           \* the slots that hold a non-empty std::function
  opts,               \* the document of opt_
  \* the other members
  running_, quit_, initOnceFlag_,
  \* the locals of RunMachine
  isr,                \* the interrupt being serviced, or serviced last
  quit,               \* what serviceInterrupts is about to return
  onLoad, onSave,     \* the two futures
  state,              \* the string the load handler left in the load future
  looping,            \* has the execution loop been entered?
  since,              \* totalTicks - lastTicks
  \* where each thread is
  api,                \* the thread that calls Run
  pc,                 \* the thread that executes RunMachine
  \* history, never read by the program
  fault,              \* what became of the error the last step generated
  cause               \* why this Run stops: the first reason given to it

config == <<memoryController_, ioController_, cpuMemory, cpuIo, handlers, opts>>
locals == <<isr, quit, onLoad, onSave, state, looping, since>>
threads == <<api, pc>>
vars == <<config, running_, quit_, initOnceFlag_, locals, threads, fault, cause>>

\* Zero..Seven behave alike ("Rst"); the other enumerators, and any value
\* outside the enumeration, do nothing ("Other").
ISR == {"Rst", "Load", "Save", "Quit", "NoInterrupt", "Other"}
LoadStages == {"none", "deferred", "running", "ready"}
\* begin: inside onSaveBegin_; accepted, refused: about to call onSave_ after
\* the file was written, or when it could not be
SaveStages == {"none", "deferred", "begin", "accepted", "refused", "ready"}
\* A load handler leaves no text, a state to load, or (it failed) NUL bytes.
States == {"empty", "json", "nul"}
Idle == {"idleTest", "idleCall"}
Exit == {"dropSave", "dropLoad", "done"}
Polling == {"pollLoad", "waitLoad", "pollSave", "waitSave"}

Has(slot) == slot \in handlers
First(reason) == IF cause = "none" THEN reason ELSE cause

Init ==
  /\ memoryController_ = NoController /\ ioController_ = NoController
  /\ cpuMemory = NoController /\ cpuIo = NoController
  /\ handlers = {}
  /\ opts = DefaultOpts
  /\ running_ = FALSE /\ quit_ = FALSE /\ initOnceFlag_ = FALSE
  /\ isr = "NoInterrupt" /\ quit = FALSE
  /\ onLoad = "none" /\ onSave = "none" /\ state = "empty"
  /\ looping = FALSE /\ since = 0
  /\ api = "outside" /\ pc = "off"
  /\ fault = "none" /\ cause = "none"

-----------------------------------------------------------------------------
(* Errors.  HandleError calls the onError_ handler, if there is one, on    *)
(* the thread that met the error.                                          *)

HandleError == fault' = IF Has("onError") THEN "delivered" ELSE "unheard"
Swallow == fault' = "swallowed"    \* an error that never gets to HandleError
NoError == fault' = "none"

Rejected ==
  /\ HandleError
  /\ UNCHANGED <<config, running_, quit_, initOnceFlag_, locals, threads, cause>>

-----------------------------------------------------------------------------
(* The interface.  Every call may come from the thread that owns the       *)
(* machine or, during a Run, from one of its handlers or controllers.      *)

Configured ==
  /\ NoError
  /\ UNCHANGED <<running_, quit_, initOnceFlag_, locals, threads, cause>>

AttachMemoryController(c) ==
  \/ /\ ~running_ /\ c # NoController
     /\ cpuMemory' = c
     /\ memoryController_' = c
     /\ UNCHANGED <<ioController_, cpuIo, handlers, opts>>
     /\ Configured
  \/ (running_ \/ c = NoController) /\ Rejected

DetachMemoryController_Cached ==
  /\ ~running_ /\ memoryController_ # NoController
  /\ memoryController_' = NoController
  /\ UNCHANGED <<ioController_, cpuMemory, cpuIo, handlers, opts>>
  /\ Configured

DetachMemoryController ==
  \/ /\ ~running_ /\ memoryController_ # NoController
     /\ cpuMemory' = NoController
     /\ memoryController_' = NoController
     /\ UNCHANGED <<ioController_, cpuIo, handlers, opts>>
     /\ Configured
  \/ (running_ \/ memoryController_ = NoController) /\ Rejected

AttachIoController(c) ==
  \/ /\ ~running_ /\ c # NoController
     /\ cpuIo' = c
     /\ ioController_' = c
     /\ UNCHANGED <<memoryController_, cpuMemory, handlers, opts>>
     /\ Configured
  \/ (running_ \/ c = NoController) /\ Rejected

DetachIoController ==
  \/ /\ ~running_ /\ ioController_ # NoController
     /\ cpuIo' = NoController
     /\ ioController_' = NoController
     /\ UNCHANGED <<memoryController_, cpuMemory, handlers, opts>>
     /\ Configured
  \/ (running_ \/ ioController_ = NoController) /\ Rejected

\* An argument of OnX may be an empty std::function, which clears the slot.
Register_Anytime(own, filled) ==
  /\ handlers' = (handlers \ own) \cup filled
  /\ UNCHANGED <<memoryController_, ioController_, cpuMemory, cpuIo, opts>>
  /\ Configured

Register(own, filled) ==
  \/ /\ ~running_
     /\ handlers' = (handlers \ own) \cup filled
     /\ UNCHANGED <<memoryController_, ioController_, cpuMemory, cpuIo, opts>>
     /\ Configured
  \/ running_ /\ Rejected

OnSave(filled) == Register({"onSaveBegin", "onSave"}, filled)
OnLoad(filled) == Register({"onLoad", "onLoadComplete"}, filled)
OnIdle(filled) == Register({"onIdle"}, filled)
OnInit(filled) == Register({"onInit"}, filled)
OnError(filled) == Register({"onError"}, filled)

SetOptions(text) ==
  \/ /\ ~running_ /\ Accepted(text)
     /\ opts' = Merge(opts, text.json)
     /\ UNCHANGED <<memoryController_, ioController_, cpuMemory, cpuIo, handlers>>
     /\ Configured
  \/ (running_ \/ ~Accepted(text)) /\ Rejected

\* clocked: SetSamplingFrequency accepts the configured frequency
CanRun(clocked) ==
  ~running_ /\ memoryController_ # NoController /\ ioController_ # NoController /\ clocked

MarkRunning_KeepingQuit == running_' = TRUE /\ UNCHANGED quit_

MarkRunning == running_' = TRUE /\ quit_' = FALSE

Run(clocked) ==
  \/ /\ CanRun(clocked)
     /\ MarkRunning
     /\ api' = IF ~RunAsync(opts) THEN "inline"
               ELSE IF Has("onIdle") THEN "idleTest" ELSE "join"
     /\ pc' = "init"
     /\ isr' = "NoInterrupt" /\ quit' = FALSE
     /\ onLoad' = "none" /\ onSave' = "none" /\ state' = "empty"
     /\ looping' = FALSE /\ since' = 0
     /\ cause' = "none"
     /\ NoError
     /\ UNCHANGED <<config, initOnceFlag_>>
  \/ ~CanRun(clocked) /\ Rejected

\* idleLoop: the caller of an asynchronous Run tests quit_ and calls onIdle_.
IdleTest ==
  /\ api = "idleTest"
  /\ api' = IF quit_ THEN "join" ELSE "idleCall"
  /\ NoError
  /\ UNCHANGED <<config, running_, quit_, initOnceFlag_, locals, pc, cause>>

IdleCall(result) ==
  /\ api = "idleCall"
  /\ quit_' = (quit_ \/ result)
  /\ cause' = IF result THEN First("idle") ELSE cause
  /\ api' = "idleTest"
  /\ NoError
  /\ UNCHANGED <<config, running_, initOnceFlag_, locals, pc>>

\* fut_.get(): RunMachine has returned and its locals are destroyed.
WaitForCompletion ==
  /\ api \in {"inline", "join"}
  /\ pc = "done"
  /\ running_' = FALSE
  /\ api' = "outside"
  /\ pc' = "off"
  /\ NoError
  /\ UNCHANGED <<config, quit_, initOnceFlag_, locals, cause>>

-----------------------------------------------------------------------------
(* RunMachine.                                                             *)

\* std::call_once: the handler runs at most once in the life of a machine.
\* Its error skips the loop and is neither reported nor returned.
OnInitOnce ==
  /\ pc = "init"
  /\ IF Has("onInit") /\ ~initOnceFlag_
     THEN /\ initOnceFlag_' = TRUE
          /\ \/ NoError /\ pc' = "service" /\ UNCHANGED cause
             \/ Swallow /\ pc' = "dropSave" /\ cause' = First("init")
     ELSE NoError /\ pc' = "service" /\ UNCHANGED <<initOnceFlag_, cause>>
  /\ UNCHANGED <<config, running_, quit_, locals, api>>

\* serviceInterrupts returns q to the loop, which then sets lastTicks; the
\* service before the loop leaves lastTicks alone.
Return_CarryingOver(q) ==
  /\ quit' = q
  /\ pc' = IF q THEN "dropSave" ELSE "exec"
  /\ since' = IF looping THEN since - TicksPerIsr ELSE since

Return(q) ==
  /\ quit' = q
  /\ pc' = IF q THEN "dropSave" ELSE "exec"
  /\ since' = IF looping THEN 0 ELSE since

\* cpu_->Interrupt and clock_->Tick
ServiceRst ==
  /\ \E t \in Ticks : since' = IF looping THEN 0 ELSE since + t
  /\ pc' = "exec"
  /\ quit' = FALSE
  /\ NoError
  /\ UNCHANGED <<config, running_, quit_, initOnceFlag_, onLoad, onSave, state,
                 looping, api, cause>>

ServiceOther ==
  /\ Return(FALSE)
  /\ NoError
  /\ UNCHANGED <<config, running_, quit_, initOnceFlag_, onLoad, onSave, state,
                 looping, api, cause>>

\* A request is ignored while a load or a save is outstanding.
CanLoad_DuringSave == Has("onLoad") /\ onLoad = "none"
CanLoad_DuringLoad == Has("onLoad") /\ onSave = "none"

CanLoad == Has("onLoad") /\ onLoad = "none" /\ onSave = "none"

LoadPolicy_OfSave == IF SaveAsync(opts) THEN "running" ELSE "deferred"

LoadPolicy == IF LoadAsync(opts) THEN "running" ELSE "deferred"

ServiceLoad ==
  /\ \/ /\ CanLoad
        /\ onLoad' = LoadPolicy
        /\ pc' = "pollLoad"
        /\ UNCHANGED <<quit, since>>
     \/ ~CanLoad /\ Return(FALSE) /\ UNCHANGED onLoad
  /\ NoError
  /\ UNCHANGED <<config, running_, quit_, initOnceFlag_, onSave, state, looping,
                 api, cause>>

CanSave_DuringLoad == Has("onSaveBegin") /\ onSave = "none"

CanSave == Has("onSaveBegin") /\ onSave = "none" /\ onLoad = "none"

\* The machine state is copied and encoded on this thread; a failure to
\* encode a part of it ends the request.
ServiceSave ==
  /\ \/ /\ CanSave
        /\ onSave' = IF SaveAsync(opts) THEN "begin" ELSE "deferred"
        /\ pc' = "pollSave"
        /\ NoError
        /\ UNCHANGED <<quit, since>>
     \/ CanSave /\ Return(FALSE) /\ HandleError /\ UNCHANGED onSave
     \/ ~CanSave /\ Return(FALSE) /\ NoError /\ UNCHANGED onSave
  /\ UNCHANGED <<config, running_, quit_, initOnceFlag_, onLoad, state, looping,
                 api, cause>>

\* onLoad.get(), onSave.get(), then quit.
ServiceQuit_Polling ==
  /\ pc' = "pollLoad"
  /\ NoError
  /\ UNCHANGED <<config, running_, quit_, initOnceFlag_, quit, onLoad, onSave,
                 state, looping, since, api, cause>>

ServiceQuit ==
  /\ pc' = "waitLoad"
  /\ NoError
  /\ UNCHANGED <<config, running_, quit_, initOnceFlag_, quit, onLoad, onSave,
                 state, looping, since, api, cause>>

\* The wish to quit is the caller's, who runs onIdle_, or that of onIdle_ itself.
AskIdle_HereOnly ==
  \/ (RunAsync(opts) \/ ~Has("onIdle")) /\ quit' = FALSE /\ UNCHANGED cause
  \/ /\ ~RunAsync(opts) /\ Has("onIdle")
     /\ \E result \in BOOLEAN :
          quit' = result /\ cause' = IF result THEN First("idle") ELSE cause

AskIdle ==
  \/ RunAsync(opts) /\ quit' = quit_ /\ UNCHANGED cause
  \/ ~RunAsync(opts) /\ ~Has("onIdle") /\ quit' = FALSE /\ UNCHANGED cause
  \/ /\ ~RunAsync(opts) /\ Has("onIdle")
     /\ \E result \in BOOLEAN :
          quit' = result /\ cause' = IF result THEN First("idle") ELSE cause

ServiceNoInterrupt ==
  /\ AskIdle
  /\ pc' = "pollLoad"
  /\ NoError
  /\ UNCHANGED <<config, running_, quit_, initOnceFlag_, onLoad, onSave, state,
                 looping, since, api>>

\* serviceInterrupts: the io controller's GenerateInterrupt returns i.
Service(i) ==
  /\ pc = "service"
  /\ isr' = i
  /\ \/ i = "Rst" /\ ServiceRst
     \/ i = "Load" /\ ServiceLoad
     \/ i = "Save" /\ ServiceSave
     \/ i = "Quit" /\ ServiceQuit
     \/ i = "NoInterrupt" /\ ServiceNoInterrupt
     \/ i = "Other" /\ ServiceOther

\* What follows loadMachineState in the service of isr.
AfterLoad_SaveUnpolled ==
  \/ isr \in {"Load", "NoInterrupt"} /\ Return(quit)
  \/ isr = "Quit" /\ pc' = "waitSave" /\ UNCHANGED <<quit, since>>

AfterLoad ==
  \/ isr = "Load" /\ Return(quit)
  \/ isr = "Quit" /\ pc' = "waitSave" /\ UNCHANGED <<quit, since>>
  \/ isr = "NoInterrupt" /\ pc' = "pollSave" /\ UNCHANGED <<quit, since>>

\* checkHandler(onLoad): a future still running yields the empty string,
\* a deferred or a ready one is waited for.
Collectable_ReadyOnly(future) == future = "ready"

Collectable(future) == future \in {"deferred", "ready"}

PollLoad ==
  /\ pc = "pollLoad"
  /\ IF Collectable(onLoad)
     THEN pc' = "waitLoad" /\ UNCHANGED <<quit, since>>
     ELSE AfterLoad
  /\ NoError
  /\ UNCHANGED <<config, running_, quit_, initOnceFlag_, isr, onLoad, onSave, state,
                 looping, api, cause>>

\* loadMachineState: the empty string is no request; text that is not json,
\* or a memory that cannot be loaded, is reported; the error of cpu_->Load and
\* that of onLoadComplete_ are returned to a caller that ignores them.
LoadMachineState ==
  \/ state \in {"empty", "json"} /\ NoError
  \/ state \in {"nul", "json"} /\ HandleError
  \/ state = "json" /\ Swallow

\* onLoad.get() and the load of what it returns.
WaitLoad ==
  /\ pc = "waitLoad"
  /\ \/ onLoad = "none" /\ NoError /\ UNCHANGED <<onLoad, state>>
     \/ onLoad = "ready" /\ LoadMachineState /\ onLoad' = "none" /\ state' = "empty"
  /\ AfterLoad
  /\ UNCHANGED <<config, running_, quit_, initOnceFlag_, isr, onSave, looping, api,
                 cause>>

AfterSave_CallerUntold ==
  IF isr = "Quit"
  THEN Return(TRUE) /\ cause' = First("isr") /\ UNCHANGED quit_
  ELSE Return(quit) /\ UNCHANGED <<quit_, cause>>

AfterSave ==
  IF isr = "Quit"
  THEN /\ Return(TRUE)
       /\ quit_' = (quit_ \/ RunAsync(opts))
       /\ cause' = First("isr")
  ELSE Return(quit) /\ UNCHANGED <<quit_, cause>>

PollSave ==
  /\ pc = "pollSave"
  /\ IF Collectable(onSave)
     THEN pc' = "waitSave" /\ UNCHANGED <<quit, since, quit_, cause>>
     ELSE AfterSave
  /\ NoError
  /\ UNCHANGED <<config, running_, initOnceFlag_, isr, onLoad, onSave, state, looping,
                 api>>

WaitSave ==
  /\ pc = "waitSave"
  /\ onSave \in {"none", "ready"}
  /\ onSave' = "none"
  /\ AfterSave
  /\ NoError
  /\ UNCHANGED <<config, running_, initOnceFlag_, isr, onLoad, state, looping, api>>

\* A cpu that is halted returns no ticks: it waits for an interrupt.
IsrDue_Late(t) == since + t > TicksPerIsr \/ t = 0
IsrDue_HaltedSleeps(t) == since + t >= TicksPerIsr

IsrDue(t) == since + t >= TicksPerIsr \/ t = 0

\* cpu_->Execute, clock_->Tick and the test whether to service interrupts.
Execute ==
  /\ pc = "exec"
  /\ \E t \in Ticks :
       /\ since' = since + t
       /\ pc' = IF IsrDue(t) THEN "service" ELSE "exec"
  /\ looping' = TRUE
  /\ NoError
  /\ UNCHANGED <<config, running_, quit_, initOnceFlag_, isr, quit, onLoad, onSave,
                 state, api, cause>>

\* The futures are destroyed when RunMachine returns, onSave first; that of a
\* std::async thread waits for the thread, and what it returned is lost.
DropSave_Detached ==
  /\ pc = "dropSave"
  /\ pc' = "dropLoad"
  /\ NoError
  /\ UNCHANGED <<config, running_, quit_, initOnceFlag_, isr, quit, onLoad, onSave,
                 state, looping, since, api, cause>>

DropSave ==
  /\ pc = "dropSave"
  /\ onSave \in {"none", "deferred", "ready"}
  /\ onSave' = "none"
  /\ pc' = "dropLoad"
  /\ NoError
  /\ UNCHANGED <<config, running_, quit_, initOnceFlag_, isr, quit, onLoad, state,
                 looping, since, api, cause>>

DropLoad ==
  /\ pc = "dropLoad"
  /\ onLoad \in {"none", "deferred", "ready"}
  /\ onLoad' = "none"
  /\ state' = "empty"
  /\ pc' = "done"
  /\ NoError
  /\ UNCHANGED <<config, running_, quit_, initOnceFlag_, isr, quit, onSave, looping,
                 since, api, cause>>

-----------------------------------------------------------------------------
(* The tasks behind the futures, on a thread of their own or, when they    *)
(* are deferred, on the thread that waits for them.                        *)

\* onLoad_ returns.  On an error the string is cleared, then resized again.
LoadTask ==
  /\ onLoad = "running" \/ (onLoad = "deferred" /\ pc = "waitLoad")
  /\ onLoad' = "ready"
  /\ \/ NoError /\ state' \in {"empty", "json"}
     \/ HandleError /\ state' \in {"empty", "nul"}
  /\ UNCHANGED <<config, running_, quit_, initOnceFlag_, isr, quit, onSave, looping,
                 since, threads, cause>>

\* onSaveBegin_ returns: an error, a file that can be written, a file that
\* cannot, or a uri with another protocol.
SaveBegin ==
  /\ onSave = "begin" \/ (onSave = "deferred" /\ pc = "waitSave")
  /\ \/ onSave' = "ready" /\ HandleError
     \/ onSave' \in {"accepted", "refused"} /\ NoError
  /\ UNCHANGED <<config, running_, quit_, initOnceFlag_, isr, quit, onLoad, state,
                 looping, since, threads, cause>>

\* onSave_ is told of the written file, and what it returns is discarded, or it
\* is given the state to keep; without it, or when it fails, a state that was not
\* written is an error.
SaveComplete ==
  /\ onSave \in {"accepted", "refused"}
  /\ \/ onSave = "accepted" /\ NoError
     \/ onSave = "accepted" /\ Has("onSave") /\ Swallow
     \/ onSave = "refused" /\ Has("onSave") /\ NoError
     \/ onSave = "refused" /\ HandleError
  /\ onSave' = "ready"
  /\ UNCHANGED <<config, running_, quit_, initOnceFlag_, isr, quit, onLoad, state,
                 looping, since, threads, cause>>

-----------------------------------------------------------------------------
Interface ==
  \/ \E c \in Controllers \cup {NoController} :
       AttachMemoryController(c) \/ AttachIoController(c)
  \/ DetachMemoryController
  \/ DetachIoController
  \/ \E filled \in SUBSET Slots :
       \/ filled \subseteq {"onSaveBegin", "onSave"} /\ OnSave(filled)
       \/ filled \subseteq {"onLoad", "onLoadComplete"} /\ OnLoad(filled)
       \/ filled \subseteq {"onIdle"} /\ OnIdle(filled)
       \/ filled \subseteq {"onInit"} /\ OnInit(filled)
       \/ filled \subseteq {"onError"} /\ OnError(filled)
  \/ \E text \in Texts : SetOptions(text)

RunMachine ==
  \/ OnInitOnce
  \/ \E i \in ISR : Service(i)
  \/ PollLoad \/ WaitLoad \/ PollSave \/ WaitSave
  \/ Execute
  \/ DropSave \/ DropLoad

IdleLoop == IdleTest \/ \E result \in BOOLEAN : IdleCall(result)
SaveTask == SaveBegin \/ SaveComplete

Next ==
  \/ Interface
  \/ \E clocked \in BOOLEAN : Run(clocked)
  \/ IdleLoop
  \/ WaitForCompletion
  \/ RunMachine
  \/ LoadTask
  \/ SaveTask

Spec == Init /\ [][Next]_vars

\* Every thread of a Run is scheduled and every handler returns.  The user is
\* free never to call anything.
Fairness ==
  /\ WF_vars(RunMachine)
  /\ WF_vars(LoadTask)
  /\ WF_vars(SaveTask)
  /\ WF_vars(IdleLoop)
  /\ WF_vars(WaitForCompletion)

\* The io controller does not have an interrupt pending for ever.
Lull == SF_vars(Service("NoInterrupt"))

FairSpec == Spec /\ Fairness

-----------------------------------------------------------------------------
(* Properties.                                                             *)

\* Every variable stays within its type.
TypeOK ==
  /\ {memoryController_, ioController_, cpuMemory, cpuIo}
       \subseteq Controllers \cup {NoController}
  /\ handlers \in SUBSET Slots
  /\ opts \in Options
  /\ running_ \in BOOLEAN /\ quit_ \in BOOLEAN /\ initOnceFlag_ \in BOOLEAN
  /\ quit \in BOOLEAN /\ looping \in BOOLEAN
  /\ isr \in ISR
  /\ onLoad \in LoadStages /\ onSave \in SaveStages /\ state \in States
  /\ since \in Nat
  /\ api \in {"outside", "inline", "join"} \cup Idle
  /\ pc \in {"off", "init", "service", "exec"} \cup Polling \cup Exit
  /\ fault \in {"none", "delivered", "unheard", "swallowed"}
  /\ cause \in {"none", "isr", "idle", "init"}

\* No handler of a load runs while a save is outstanding, nor the reverse:
\* the two are documented as mutually exclusive (IMachine::OnLoad, OnSave).
MutualExclusion == onLoad = "none" \/ onSave = "none"

\* When Run has returned, none of the threads it started is left: neither
\* RunMachine nor a load or save task, so no handler is called any more.
Quiescent ==
  ~running_ => api = "outside" /\ pc = "off" /\ onLoad = "none" /\ onSave = "none"

\* The cpu's raw pointers are those of the controllers the machine owns, and a
\* running machine has both: the cpu never reads a destroyed controller.
NoDanglingController ==
  /\ cpuMemory = memoryController_ /\ cpuIo = ioController_
  /\ running_ => NoController \notin {memoryController_, ioController_}

\* RunMachine leaves its loop only for a reason given during this Run: a quit_
\* left over by an earlier asynchronous Run must not stop a later one.
StopsForAReason == pc \in Exit => cause # "none"

\* After ISR::Quit the requests that were outstanding are complete: the load
\* was applied, not dropped, and the save was waited for.
QuitDrains ==
  pc \in Exit /\ cause = "isr" => onLoad = "none" /\ onSave = "none"

\* A transfer without its own thread is over before the next instruction, so
\* the caller's options decide whether the cpu runs during a transfer.
InlineTransfers ==
  pc \in {"exec", "service"} =>
    /\ onLoad # "none" => LoadAsync(opts)
    /\ onSave # "none" => SaveAsync(opts)

\* Once in the loop, the cpu is given another instruction only if fewer than
\* ticksPerIsr ticks passed since interrupts were last serviced.
IsrLatency ==
  pc = "exec" /\ looping => since = 0 \/ since < TicksPerIsr

\* Controllers, handlers and options do not change under the feet of any
\* thread of a Run.
ConfigFrozen ==
  [][pc # "off" \/ api # "outside" \/ onLoad # "none" \/ onSave # "none"
       => UNCHANGED config]_vars

\* Load requests are not queued, and none replaces another: an outstanding
\* load only moves towards its result, and ends only when that is collected or,
\* at the end of the Run, dropped by the future's destructor.
LoadNeverReplaced ==
  [][onLoad' # onLoad =>
       <<onLoad, onLoad'>> \in {<<"none", "running">>, <<"none", "deferred">>,
         <<"running", "ready">>, <<"deferred", "ready">>, <<"ready", "none">>}]_vars

\* Whatever was delivered to the program must have reached onError, "the only
\* mechanism available to obtain all generated errors" (README).
AllErrorsReported == fault = "swallowed" => ~Has("onError")

\* Once ISR::Quit is delivered, Run returns, whatever is outstanding.
QuitReturns == (running_ /\ isr = "Quit") ~> ~running_

\* Once onIdle asked an asynchronous machine to quit, Run returns: as long as
\* the io controller lets RunMachine see NoInterrupt again and again.
IdleReturns == Lull => ((running_ /\ quit_) ~> ~running_)

\* A load that was begun is over at some time: it is collected by a service that
\* finds no interrupt or by the end of the Run.
LoadCollected == Lull => ((onLoad # "none") ~> (onLoad = "none"))

\* The same of a save, which nothing waits for: a future that stayed would keep
\* out every later load and save of the Run.
SaveCollected == Lull => ((onSave # "none") ~> (onSave = "none"))

\* When RunMachine is over, Run returns to its caller.
RunReturns == (pc = "done") ~> ~running_

-----------------------------------------------------------------------------
(* The inductive invariant behind the safety properties.                   *)

\* A Run is in progress exactly while its two threads are somewhere in it,
\* and before and after the loop no transfer is outstanding.
RunPhases ==
  /\ running_ <=> pc # "off"
  /\ running_ <=> api # "outside"
  /\ pc \in {"off", "init", "done"} => onLoad = "none" /\ onSave = "none"
  /\ pc = "dropLoad" => onSave = "none"

\* Every wish to stop has a cause, and ISR::Quit is one only at the end of its
\* service, when both futures have been waited for.
Stopping ==
  /\ quit => cause # "none"
  /\ running_ /\ quit_ => cause # "none"
  /\ StopsForAReason
  /\ running_ /\ pc \notin Exit => cause # "isr"
  /\ pc \in {"pollLoad", "pollSave"} => isr # "Quit"
  /\ pc = "waitSave" /\ isr = "Quit" => onLoad = "none"
  /\ QuitDrains

\* A transfer without its own thread is found only where it is waited for.
Deferred ==
  /\ onLoad = "deferred" => ~LoadAsync(opts)
  /\ onSave = "deferred" => ~SaveAsync(opts)
  /\ onLoad # "none" /\ ~LoadAsync(opts) =>
       \/ pc = "pollLoad" /\ onLoad = "deferred"
       \/ pc = "waitLoad" /\ onLoad \in {"deferred", "ready"}
  /\ onSave # "none" /\ ~SaveAsync(opts) =>
       \/ pc = "pollSave" /\ onSave = "deferred"
       \/ pc = "waitSave"

\* What every reachable state satisfies and every step preserves.
IInv ==
  /\ TypeOK
  /\ RunPhases
  /\ MutualExclusion
  /\ NoDanglingController
  /\ Stopping
  /\ Deferred
  /\ IsrLatency

-----------------------------------------------------------------------------
(* The abstract session this module implements.                            *)

Outstanding ==
  {kind \in {"load", "save"} : IF kind = "load" THEN onLoad # "none"
                                                ELSE onSave # "none"}

Session == INSTANCE MachineSession WITH
  Configs <- (Controllers \cup {NoController}) \X (Controllers \cup {NoController})
               \X (SUBSET Slots) \X Options,
  phase <- IF running_ THEN "running" ELSE "stopped",
  config <- <<memoryController_, ioController_, handlers, opts>>,
  transfers <- Outstanding

\* A machine is an IMachine session: configured while stopped, one transfer at
\* a time, stopped only when none is left.
ImplementsSession == Session!Spec
=============================================================================
