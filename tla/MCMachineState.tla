--------------------------- MODULE MCMachineState ---------------------------
(***************************************************************************)
(* Instances of MachineState for TLC.  Rom holds ones, so that a cleared   *)
(* or misplaced cell shows.                                                *)
(***************************************************************************)
EXTENDS MachineState

Block(offset, size, bytes, error) ==
  [kind |-> "data", offset |-> offset, size |-> size, bytes |-> bytes, error |-> error]

Good(offset, bytes) == Block(offset, Len(bytes), bytes, "none")

NoRam == [kind |-> "none"]
NoCpu == [kind |-> "none"]
StartAt(values) == [kind |-> "registers", values |-> values]
AlienAt(values) == [kind |-> "alien", values |-> values]

Program(rom, processor) ==
  [valid |-> TRUE, rom |-> rom, ram |-> NoRam, cpu |-> processor]

\* A state that another machine saved comes with a ram.
WithRam(program, bytes) ==
  [program EXCEPT !.ram = [kind |-> "uri", uri |-> Uri("base64", "zlib", Zipped(bytes))]]

Malformed == [valid |-> FALSE]

\* One block; one elsewhere, with ram on both sides; two that touch and leave no
\* ram, the lower from a file shorter than its size, for another cpu, which is not
\* compared as no ram is given.
LowRom == Program(<<Good(0, <<1>>)>>, NoCpu)
MovedRom == Program(<<Good(1, <<1>>)>>, StartAt([pc |-> 0]))
SplitRom ==
  Program(<<Good(2, <<1>>), Block(0, 2, <<1>>, "none")>>, AlienAt([pc |-> 1]))

\* Two blocks at one offset inside another block; the map keeps the size of the
\* first of the two.
NestedRom == Program(<<Good(0, <<1, 1, 1>>), Good(1, <<1>>), Good(1, <<1, 1>>)>>, NoCpu)

\* Loads that fail: above the last address after a block was loaded, after a
\* file was read, and because of the cpu, when rom and ram have been written.
HalfLoaded == Program(<<Good(1, <<1>>), Good(Top, <<1>>)>>, NoCpu)
Torn == Program(<<Block(0, 1, <<1>>, "torn")>>, NoCpu)
AlienState == WithRam(Program(<<Good(1, <<1>>)>>, AlienAt([pc |-> 1])), <<1, 0>>)

RoundTripPrograms ==
  {SplitRom, MovedRom, NestedRom, HalfLoaded, AlienState, Malformed, Torn}
MovingPrograms == {LowRom, MovedRom}

\* More bytes than the memory of the instance has, as the three bytes of the
\* program are fewer than any ram but one of three bytes.
Garbage == [i \in 1..(Top + 1) |-> 1]

Codec(encoder, compressor) == [encoder |-> encoder, compressor |-> compressor]
Compressed == {Codec("base64", "zlib")}

\* With no compressor, and with a compressor and an encoder that do not exist.
AllCodecs ==
  Compressed \cup {Codec("base64", "none"), Codec("base64", "other"), Codec("none", "zlib")}
=============================================================================
