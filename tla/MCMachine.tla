----------------------------- MODULE MCMachine ------------------------------
(***************************************************************************)
(* Instances of Machine for TLC.                                           *)
(***************************************************************************)
EXTENDS Machine

Setting(name, value) ==
  [parses |-> TRUE, json |-> Object([NoMembers EXCEPT ![name] = value])]
Replacing(json) == [parses |-> TRUE, json |-> json]

Async ==
  Replacing(Object([NoMembers EXCEPT !["runAsync"] = "true", !["loadAsync"] = "true",
                                     !["saveAsync"] = "true"]))
Malformed == [parses |-> FALSE, json |-> Null]
Illegal ==
  Replacing(Object([NoMembers EXCEPT !["runAsync"] = "true", !["isrFreq"] = "negative"]))

\* Every combination of the asynchronous options, set one by one.
FlagTexts ==
  {Nullptr, Malformed, Illegal}
  \cup {Setting(name, "true") : name \in {"runAsync", "loadAsync", "saveAsync"}}

\* Everything asynchronous, and texts that leave no object behind.
AsyncTexts == {Nullptr, Async, Malformed, Replacing(Null), Replacing(Scalar)}

\* Without onLoadComplete, which is one more way for a load to fail silently.
ThreadSlots == HandlerSlots \ {"onLoadComplete"}

\* The handlers a quitting machine meets, and those of one that never starts.
QuitSlots == {"onIdle", "onLoad", "onSaveBegin"}
InitSlots == {"onIdle", "onInit"}

\* The handlers of the error paths.
ErrorSlots == {"onError", "onLoad", "onLoadComplete"}
=============================================================================
