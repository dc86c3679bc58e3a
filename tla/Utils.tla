------------------------------- MODULE Utils --------------------------------
(***************************************************************************)
(* BinToTxt and TxtToBin of meen::Utils (ENABLE_BASE64, ENABLE_ZLIB).      *)
(* base64 and zlib are pure functions of other libraries: a text is what   *)
(* they were given, with what was done to it.                              *)
(***************************************************************************)
EXTENDS Integers, Sequences

CONSTANT NoneDecoded  \* what base64 makes of "none://": 158, 137, 222

Failure == [ok |-> FALSE]
Success(value) == [ok |-> TRUE, value |-> value]

Plain(bin) == [zipped |-> FALSE, bin |-> bin]
Zipped(bin) == [zipped |-> TRUE, bin |-> bin]

BinToTxt(encoder, compressor, bin) ==
  IF encoder # "base64" THEN Failure
  ELSE IF compressor = "none" THEN Success(Plain(bin))
  ELSE IF compressor = "zlib" THEN Success(Zipped(bin))
  ELSE Failure

\* zlib refuses bytes that are not its own, and fewer cells than it needs.
TxtToBin(decoder, decompressor, dstSize, txt) ==
  IF decoder # "base64" THEN Failure
  ELSE IF decompressor = "none" THEN Success(txt.bin)
  ELSE IF decompressor = "zlib" /\ txt.zipped /\ Len(txt.bin) <= dstSize
       THEN Success(txt.bin)
  ELSE Failure

(* A uri of a saved state, encoder://compressor://txt, and what is left of *)
(* it once a reader has taken the protocols it knows off its front.        *)

Uri(encoder, compressor, txt) ==
  [encoder |-> encoder, compressor |-> compressor, txt |-> txt]

Decompressor(uri) == IF uri.compressor = "zlib" THEN "zlib" ELSE "none"

\* "none://" is not one of them: base64 decodes its letters up to the colon.
Rest(uri) == IF uri.compressor = "none" THEN Plain(NoneDecoded) ELSE uri.txt
=============================================================================
