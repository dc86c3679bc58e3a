-------------------------------- MODULE Opt ---------------------------------
(***************************************************************************)
(* The options of a machine: the json document json_ of class Opt, what    *)
(* SetOptions does to it and what the accessors read from it (ArduinoJson, *)
(* ENABLE_ZLIB).  Machine.tla keeps the document in a variable.            *)
(*                                                                         *)
(* A document is an object, null, or anything else that json allows at the *)
(* top, a "scalar".  A member that an object lacks is "absent".            *)
(***************************************************************************)

Names == {"clockSamplingFreq", "compressor", "encoder", "isrFreq", "loadAsync",
          "maxLoadStateLen", "runAsync", "saveAsync"}

\* What the code tells apart; "other" is another string or an array.  No option
\* is an object.
Values == {"absent", "null", "true", "false", "negative", "zero", "positive", "zlib",
           "none", "base64", "other"}

NoMembers == [name \in Names |-> "absent"]
Document == [kind : {"object", "null", "scalar"}, members : [Names -> Values]]

Object(members) == [kind |-> "object", members |-> members]
Null == [kind |-> "null", members |-> NoMembers]
Scalar == [kind |-> "scalar", members |-> NoMembers]

DefaultOpts ==
  Object([clockSamplingFreq |-> "negative", compressor |-> "zlib", encoder |-> "base64",
          isrFreq |-> "zero", loadAsync |-> "false", maxLoadStateLen |-> "positive",
          runAsync |-> "false", saveAsync |-> "false"])

\* Only an object has members.
WellFormed(json) == json.kind # "object" => json.members = NoMembers

(* SetOptions.  A text parses to a document, or does not parse.  nullptr   *)
(* stands for the text of the defaults.                                    *)

Text == [parses : BOOLEAN, json : {json \in Document : WellFormed(json)}]
Nullptr == [parses |-> TRUE, json |-> DefaultOpts]

Legal(json) == json.members["isrFreq"] # "negative"
Accepted(text) == text.parses /\ Legal(text.json)

\* The members of an object are assigned one by one, which makes an object of
\* null and does nothing to a scalar; any other document replaces dst.
Merge(dst, src) ==
  IF src.kind # "object" THEN src
  ELSE IF dst.kind = "scalar" \/ src.members = NoMembers THEN dst
  ELSE Object([name \in Names |-> IF src.members[name] = "absent"
                                  THEN dst.members[name] ELSE src.members[name]])

(* The accessors.  ArduinoJson reads any value as a boolean.               *)

IsTrue(value) == value \notin {"absent", "null", "false", "zero"}

RunAsync(json) == IsTrue(json.members["runAsync"])
LoadAsync(json) == IsTrue(json.members["loadAsync"])
SaveAsync(json) == IsTrue(json.members["saveAsync"])

\* What Merge can make of the documents of legal texts.
Options == {json \in Document : WellFormed(json) /\ Legal(json)}
=============================================================================
