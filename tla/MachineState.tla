---------------------------- MODULE MachineState ----------------------------
(***************************************************************************)
(* What a load and a save do to the memory and the cpu of a machine: the   *)
(* lambda loadMachineState and the snapshot that ISR::Save takes.  Both    *)
(* run on the thread of RunMachine between two instructions, so each is    *)
(* one action here; Machine.tla has the threads around them.  Addresses    *)
(* are 0..Top, Top standing for 0xFFFF.                                    *)
(*                                                                         *)
(* A definition named D_Something is D with a plausible bug.  Nothing uses *)
(* it: a property that cannot tell it from D says nothing about D.         *)
(***************************************************************************)
EXTENDS Integers, Sequences, FiniteSetsExt, Utils

CONSTANTS
  Top,          \* the highest address, 0xFFFF
  Bytes,        \* what a memory cell or a register can hold
  Registers,    \* the registers of the cpu that a state can set
  Written,      \* the cells that the program running on the cpu writes
  Codecs,       \* the encoder and compressor options the user selects
  Programs      \* the states the user may load, apart from saved ones

ASSUME TopAssumption == Top \in Nat \ {0}
ASSUME BytesAssumption == Bytes \subseteq Nat /\ 0 \in Bytes
ASSUME WrittenAssumption == Written \subseteq 0..Top

\* A block of rom in a program names where it goes and what its source holds;
\* a source may hold fewer bytes than the size given for it.
IsBlock(b) ==
  \/ b.kind = "md5"
  \/ /\ b.kind = "data"
     /\ b.offset \in Nat /\ b.size \in Nat
     /\ b.bytes \in Seq(Bytes) /\ Len(b.bytes) <= b.size
     /\ b.error \in {"none", "refused", "torn"}

Loadable(j) ==
  j.valid =>
    /\ Len(j.rom) \in Nat /\ DOMAIN j.rom = 1..Len(j.rom)
    /\ \A k \in DOMAIN j.rom : IsBlock(j.rom[k])
    /\ \/ j.ram.kind = "none"
       \/ j.ram.kind = "uri" /\ j.ram.uri.txt.bin \in Seq(Bytes)
    /\ \/ j.cpu.kind = "none"
       \/ /\ j.cpu.kind \in {"registers", "alien"}
          /\ \A r \in DOMAIN j.cpu.values : j.cpu.values[r] \in Bytes

ASSUME ProgramsAssumption == \A j \in Programs : Loadable(j)
ASSUME NoneDecodedAssumption == NoneDecoded \in Seq(Bytes)

VARIABLES
  memory,         \* the memory controller's cells
  romMetadata_,   \* offset |-> size of the blocks of rom, as a function
  ramMetadata_,   \* the same for ram
  cpu,            \* the value of each register
  hlt_,           \* is the cpu halted?
  saved,          \* the last saved state, with what it was saved from
  loaded,         \* history: the kind of the load just made, or "none"
  outcome,        \* history: how the load just made ended
  sound           \* history: has a load succeeded, and none changed the maps and
                  \* failed since?

vars == <<memory, romMetadata_, ramMetadata_, cpu, hlt_, saved, loaded, outcome, sound>>

Address == 0..Top
NoMap == [offset \in {} |-> 0]
NoSave == [kind |-> "unsaved"]

(* The metadata maps, which are std::maps from offset to size.             *)

Covered(map) == UNION {o..(o + map[o] - 1) : o \in DOMAIN map}

Size(map) == MapThenSumSet(LAMBDA o : map[o], DOMAIN map)

\* How many bytes the blocks below o have.
Before(map, o) == MapThenSumSet(LAMBDA p : map[p], {p \in DOMAIN map : p < o})

\* The cells of the blocks of map, in ascending order of their offsets.
BlockOf(map, i) == CHOOSE o \in DOMAIN map : i - Before(map, o) \in 1..map[o]

Read(mem, map) ==
  [i \in 1..Size(map) |-> mem[BlockOf(map, i) + i - Before(map, BlockOf(map, i)) - 1]]

\* ramMetadata_: the gaps between consecutive rom blocks, and that from the
\* last one to, but not including, Top.  Start is where the ram before a would
\* start: behind the block that comes before a in the map.
Below(rom, a) == {o \in DOMAIN rom : o < a}

Start_AtBlock(rom, a) == IF Below(rom, a) = {} THEN 0 ELSE Max(Below(rom, a))

Start(rom, a) ==
  IF Below(rom, a) = {} THEN 0 ELSE Max(Below(rom, a)) + rom[Max(Below(rom, a))]

Stops_NoLast(rom) == {a \in DOMAIN rom : Start(rom, a) < a}

Stops(rom) == {a \in DOMAIN rom \cup {Top} : Start(rom, a) < a}

Gaps(rom) ==
  [s \in {Start(rom, a) : a \in Stops(rom)} |->
     (CHOOSE a \in Stops(rom) : Start(rom, a) = s) - s]

-----------------------------------------------------------------------------
(* loadMachineState.  A load works on a record of the state it changes;    *)
(* every stage is skipped once result is not "ok".                         *)

Now == [memory |-> memory, rom |-> romMetadata_, ram |-> ramMetadata_, cpu |-> cpu,
        hlt |-> hlt_, result |-> "ok"]

Failed(s) == [s EXCEPT !.result = "reported"]

\* A block ends below Top.
Fits_Inclusive(b) == b.offset + b.size <= Top + 1

Fits(b) == b.offset + b.size <= Top

\* loadRom, for blocks[1..n] one after the other.  A block is data of any
\* scheme, or the md5 of the rom there is.  "refused" is an error found before
\* the first byte is written, "torn" an error of the file found after the last.
Data(blocks, n) == {k \in 1..n : blocks[k].kind = "data"}

\* The first block loaded drops the old metadata; std::map::emplace leaves an
\* entry that exists.
RomAfter(s, blocks, n) ==
  IF Data(blocks, n) = {} THEN s.rom
  ELSE [o \in {blocks[k].offset : k \in Data(blocks, n)} |->
          blocks[Min({k \in Data(blocks, n) : blocks[k].offset = o})].size]

\* The blocks that write a cell; the last of them stays.
Writers(blocks, n, a) ==
  {k \in Data(blocks, n) : a - blocks[k].offset + 1 \in DOMAIN blocks[k].bytes}

MemoryAfter(s, blocks, n) ==
  [a \in Address |->
     IF Writers(blocks, n, a) = {} THEN s.memory[a]
     ELSE LET b == blocks[Max(Writers(blocks, n, a))]
          IN  b.bytes[a - b.offset + 1]]

Fails(s, blocks, k) ==
  LET b == blocks[k]
  IN  IF b.kind = "md5"
      THEN b.bytes # Read(MemoryAfter(s, blocks, k - 1), RomAfter(s, blocks, k - 1))
      ELSE b.error # "none" \/ ~Fits(b)

LoadBlocks(s, blocks) ==
  LET failing == {k \in DOMAIN blocks : Fails(s, blocks, k)}
      stop == Min(failing)
      torn == blocks[stop].kind = "data" /\ Fits(blocks[stop]) /\ blocks[stop].error = "torn"
      after(n, m) == [s EXCEPT !.memory = MemoryAfter(s, blocks, m),
                               !.rom = RomAfter(s, blocks, n)]
  IN  IF failing = {} THEN after(Len(blocks), Len(blocks))
      ELSE Failed(after(stop - 1, IF torn THEN stop ELSE stop - 1))

\* The bytes are cut into the blocks of map.
BlockAround(map, a) == CHOOSE o \in DOMAIN map : a \in o..(o + map[o] - 1)

Fill_Unadvanced(mem, map, bytes) ==
  [a \in Address |->
     IF a \in Covered(map) THEN bytes[a - BlockAround(map, a) + 1] ELSE mem[a]]

Fill(mem, map, bytes) ==
  [a \in Address |->
     IF a \in Covered(map)
     THEN bytes[Before(map, BlockAround(map, a)) + a - BlockAround(map, a) + 1]
     ELSE mem[a]]

\* The gaps replace what was known of the ram.
Ram_Accumulated(s) ==
  LET gaps == Gaps(s.rom)
  IN  [o \in DOMAIN s.ram \cup DOMAIN gaps |->
         IF o \in DOMAIN s.ram THEN s.ram[o] ELSE gaps[o]]

Ram(s) == Gaps(s.rom)

\* The bytes of the ram in a state, which must be as many as there is ram.
RamBytes_WholeMemory(s, uri) ==
  LET bin == TxtToBin(uri.encoder, Decompressor(uri), Top + 1 - Size(s.rom), Rest(uri))
  IN  IF bin.ok /\ Len(bin.value) = Top + 1 - Size(s.rom) THEN bin ELSE Failure

RamBytes(s, uri) ==
  LET bin == TxtToBin(uri.encoder, Decompressor(uri), Size(Ram(s)), Rest(uri))
  IN  IF bin.ok /\ Len(bin.value) = Size(Ram(s)) THEN bin ELSE Failure

\* The ram is what the state gives for it, or it is cleared.
LoadRam_ClearedFirst(s, j) ==
  LET ram == Ram(s)
      zeros == [i \in 1..Size(ram) |-> 0]
      cleared == [s EXCEPT !.ram = ram, !.memory = Fill(s.memory, ram, zeros)]
  IN  IF s.result # "ok" THEN s
      ELSE IF j.ram.kind = "none" THEN cleared
      ELSE LET bin == RamBytes(s, j.ram.uri)
           IN  IF ~bin.ok THEN Failed(cleared)
               ELSE [cleared EXCEPT !.memory = Fill(s.memory, ram, bin.value)]

LoadRam(s, j) ==
  LET ram == Ram(s)
      zeros == [i \in 1..Size(ram) |-> 0]
  IN  IF s.result # "ok" THEN s
      ELSE IF j.ram.kind = "none"
           THEN [s EXCEPT !.ram = ram, !.memory = Fill(s.memory, ram, zeros)]
      ELSE LET bin == RamBytes(s, j.ram.uri)
           IN  IF ~bin.ok THEN Failed([s EXCEPT !.ram = ram])
               ELSE [s EXCEPT !.ram = ram, !.memory = Fill(s.memory, ram, bin.value)]

\* Intel8080::Load keeps a register whose value is missing or zero, and
\* Reset clears them all.  The uuid of the cpu is compared only when the state
\* has a ram; the error is returned and not reported.
LoadCpu(s, j) ==
  IF s.result # "ok" THEN s
  ELSE IF j.cpu.kind = "none"
       THEN [s EXCEPT !.cpu = [r \in Registers |-> 0], !.hlt = FALSE]
  ELSE IF j.cpu.kind = "alien" /\ j.ram.kind # "none"
       THEN [s EXCEPT !.result = "swallowed"]
  ELSE [s EXCEPT !.cpu = [r \in Registers |->
          IF r \in DOMAIN j.cpu.values /\ j.cpu.values[r] # 0
          THEN j.cpu.values[r] ELSE s.cpu[r]]]

\* valid: the text is json, with a memory, a rom and the right uuid
LoadMachineState(j) ==
  IF ~j.valid THEN Failed(Now)
  ELSE LoadCpu(LoadRam(LoadBlocks(Now, j.rom), j), j)

Apply(j) ==
  LET s == LoadMachineState(j)
  IN  /\ memory' = s.memory
      /\ romMetadata_' = s.rom
      /\ ramMetadata_' = s.ram
      /\ cpu' = s.cpu
      /\ hlt_' = s.hlt
      /\ outcome' = s.result
      /\ sound' = \/ s.result = "ok"
                  \/ sound /\ s.rom = romMetadata_ /\ s.ram = ramMetadata_

-----------------------------------------------------------------------------
Init ==
  /\ memory = [a \in Address |-> 0]
  /\ romMetadata_ = NoMap
  /\ ramMetadata_ = NoMap
  /\ cpu = [r \in Registers |-> 0]
  /\ hlt_ = FALSE
  /\ saved = NoSave
  /\ loaded = "none" /\ outcome = "none"
  /\ sound = FALSE

LoadProgram(j) ==
  /\ Apply(j)
  /\ loaded' = "program"
  /\ UNCHANGED saved

LoadSaved ==
  /\ saved # NoSave
  /\ Apply(saved.json)
  /\ loaded' = "saved"
  /\ UNCHANGED saved

\* The state written by ISR::Save: the md5 of the rom, the ram, the registers.
State(codec, txt) ==
  [valid |-> TRUE,
   rom |-> <<[kind |-> "md5", bytes |-> Read(memory, romMetadata_)]>>,
   ram |-> [kind |-> "uri", uri |-> Uri(codec.encoder, codec.compressor, txt)],
   cpu |-> [kind |-> "registers", values |-> cpu]]

\* The uuid of the memory, the md5 and the ram are encoded; an error of one of
\* them is reported and leaves the last saved state what it was.
Save(codec) ==
  LET txt == BinToTxt(codec.encoder, codec.compressor, Read(memory, ramMetadata_))
  IN  /\ IF txt.ok
         THEN saved' = [kind |-> "saved", json |-> State(codec, txt.value),
                        memory |-> [a \in 0..(Top - 1) |-> memory[a]],
                        rom |-> romMetadata_, sound |-> sound]
         ELSE UNCHANGED saved
      /\ loaded' = "none" /\ outcome' = "none"
      /\ UNCHANGED <<memory, romMetadata_, ramMetadata_, cpu, hlt_, sound>>

\* RunMachine resets the cpu at the start of a Run, and nothing else.
Restart ==
  /\ cpu' = [r \in Registers |-> 0]
  /\ hlt_' = FALSE
  /\ loaded' = "none" /\ outcome' = "none"
  /\ UNCHANGED <<memory, romMetadata_, ramMetadata_, saved, sound>>

\* The program writes a cell (nothing keeps it out of the rom), changes a
\* register, or halts until it is interrupted.
Execute ==
  /\ ~hlt_
  /\ \/ \E a \in Written, v \in Bytes :
          memory' = [memory EXCEPT ![a] = v] /\ UNCHANGED <<cpu, hlt_>>
     \/ \E r \in Registers, v \in Bytes :
          cpu' = [cpu EXCEPT ![r] = v] /\ UNCHANGED <<memory, hlt_>>
     \/ hlt_' = TRUE /\ UNCHANGED <<memory, cpu>>
  /\ loaded' = "none" /\ outcome' = "none"
  /\ UNCHANGED <<romMetadata_, ramMetadata_, saved, sound>>

Interrupt ==
  /\ hlt_
  /\ hlt_' = FALSE
  /\ loaded' = "none" /\ outcome' = "none"
  /\ UNCHANGED <<memory, romMetadata_, ramMetadata_, cpu, saved, sound>>

Next ==
  \/ \E j \in Programs : LoadProgram(j)
  \/ LoadSaved
  \/ \E codec \in Codecs : Save(codec)
  \/ Restart
  \/ Execute
  \/ Interrupt

Spec == Init /\ [][Next]_vars

-----------------------------------------------------------------------------
(* Properties.                                                             *)

\* No block of a map reaches beyond the last address.
IsMetadata(map) ==
  DOMAIN map \subseteq Address /\ \A o \in DOMAIN map : map[o] \in 0..(Top - o)

\* Every variable stays within its type, and no block reaches beyond the last
\* address.
TypeOK ==
  /\ memory \in [Address -> Bytes]
  /\ IsMetadata(romMetadata_) /\ IsMetadata(ramMetadata_)
  /\ cpu \in [Registers -> Bytes]
  /\ hlt_ \in BOOLEAN /\ sound \in BOOLEAN
  /\ loaded \in {"none", "program", "saved"}
  /\ outcome \in {"none", "ok", "reported", "swallowed"}

\* After a load that succeeded every address below Top is in a block of rom or
\* of ram, however the blocks of rom overlap, and in one block of ram at most:
\* a save keeps or checks the whole memory, and writes no cell twice.
EveryCellKnown ==
  sound =>
    /\ Covered(romMetadata_) \cup Covered(ramMetadata_) = 0..(Top - 1)
    /\ \A o, p \in DOMAIN ramMetadata_ :
         o < p => o + ramMetadata_[o] <= p

\* No block of rom ends before one that starts below it: none lies in another.
NotNested(rom) == \A o, p \in DOMAIN rom : o < p => o + rom[o] <= p + rom[p]

\* Then no cell is both rom and ram: none is checked as rom and overwritten as
\* ram by the same load.
RomAndRamPartition ==
  sound /\ NotNested(romMetadata_) =>
    Covered(romMetadata_) \cap Covered(ramMetadata_) = {}

\* The blocks of a program lie apart, empty ones too.
Apart(blocks) ==
  \A k, l \in Data(blocks, Len(blocks)) :
    k # l => /\ blocks[k].offset # blocks[l].offset
             /\ \/ blocks[k].offset + blocks[k].size <= blocks[l].offset
                \/ blocks[l].offset + blocks[l].size <= blocks[k].offset

\* When a program whose blocks lie apart has been loaded, the rom holds every
\* byte it gives: neither a later block nor the clearing of the ram, which is
\* computed from the metadata alone, spoils an earlier block.
RomAsGiven ==
  [][loaded' = "program" /\ outcome' = "ok" =>
       \A j \in {p \in Programs : p.valid /\ Apart(p.rom)} :
         LoadProgram(j) =>
           \A k \in Data(j.rom, Len(j.rom)) : \A i \in DOMAIN j.rom[k].bytes :
             memory'[j.rom[k].offset + i - 1] = j.rom[k].bytes[i]]_vars

\* A state saved without a compressor, of a machine with as many bytes of ram as
\* base64 makes of the letters of "none://", is loaded, with these for its ram.
Misread ==
  saved.json.ram.uri.compressor = "none" /\ Len(NoneDecoded) = Size(ramMetadata_)

\* A state that is loaded into the rom it was saved from is the state that was
\* saved: every cell below Top, and every register that was not zero.  The rom is
\* that with the same blocks: overlapping blocks of other offsets may cover the same
\* cells and have the same checksum with other bytes in them.
RoundTrip ==
  loaded = "saved" /\ outcome = "ok" /\ saved.sound /\ romMetadata_ = saved.rom
      /\ ~Misread =>
    /\ \A a \in DOMAIN saved.memory : memory[a] = saved.memory[a]
    /\ \A r \in Registers :
         saved.json.cpu.values[r] # 0 => cpu[r] = saved.json.cpu.values[r]

\* A state saved by a soundly loaded machine is one that the rom it was saved
\* from loads again.  OnSave is documented to provide json that OnLoad loads.
SavedStateLoads ==
  loaded = "saved" /\ outcome # "ok" /\ saved.sound =>
    Read(memory, romMetadata_) # saved.json.rom[1].bytes \/ romMetadata_ # saved.rom

\* The same of a state that was compressed.
OnlyAlienRomRefused ==
  saved # NoSave /\ saved.json.ram.uri.compressor = "zlib" => SavedStateLoads

\* A saved state that is refused, for its rom or for its ram, leaves the memory
\* and the cpu alone, and the maps of a soundly loaded machine: everything is
\* checked before anything is written.
RefusedHarmless ==
  [][loaded' = "saved" /\ outcome' # "ok" =>
       /\ UNCHANGED <<memory, romMetadata_, cpu, hlt_>>
       /\ sound => UNCHANGED ramMetadata_]_vars

\* A load without ram leaves the whole ram clear, as the code's comment says.
RamCleared ==
  loaded = "program" /\ outcome = "ok" =>
    \A a \in Address \ Covered(romMetadata_) : memory[a] = 0

\* Loading a state sets the registers it names to the values it gives.
RegistersRestored ==
  loaded = "saved" /\ outcome = "ok" => cpu = saved.json.cpu.values
=============================================================================
