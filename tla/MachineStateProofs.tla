------------------------- MODULE MachineStateProofs -------------------------
(***************************************************************************)
(* What the metadata maps of MachineState say of the memory, proved for    *)
(* memories, programs and codecs of any size.                              *)
(***************************************************************************)
EXTENDS MetadataProofs

-----------------------------------------------------------------------------
(* The gaps between the blocks of a map of the rom.                        *)

\* The ram before a starts behind the block below a, or at the first address.
LEMMA StartOf ==
  ASSUME NEW rom, IsMetadata(rom), NEW a \in 0..Top
  PROVE  /\ Start(rom, a) \in 0..Top
         /\ \/ /\ \A o \in DOMAIN rom : a <= o
               /\ Start(rom, a) = 0
            \/ \E p \in DOMAIN rom :
                 /\ p < a
                 /\ \A o \in DOMAIN rom : o < a => o <= p
                 /\ Start(rom, a) = p + rom[p]
<1>1. DOMAIN rom \subseteq 0..Top /\ \A o \in DOMAIN rom : rom[o] \in 0..(Top - o)
  BY DEF IsMetadata, Address
<1>2. CASE Below(rom, a) = {}
  BY <1>1, <1>2, TopAssumption DEF Below, Start
<1>3. CASE Below(rom, a) # {}
  <2> DEFINE p == Max(Below(rom, a))
  <2>1. p \in Below(rom, a) /\ \A x \in Below(rom, a) : x <= p
    <3>1. Below(rom, a) \subseteq 0..Top
      BY <1>1 DEF Below
    <3> HIDE DEF p
    <3> QED
      BY <1>3, <3>1, MaxOf DEF p
  <2>2. Start(rom, a) = p + rom[p]
    BY <1>3 DEF Start
  <2> HIDE DEF p
  <2>3. p \in DOMAIN rom /\ p < a /\ \A o \in DOMAIN rom : o < a => o <= p
    BY <2>1 DEF Below
  <2>4. p + rom[p] \in 0..Top
    BY <1>1, <2>3, TopAssumption
  <2> QED
    BY <2>2, <2>3, <2>4
<1> QED
  BY <1>2, <1>3

\* Of two gaps the one that ends first ends before the other starts.
LEMMA GapsInOrder ==
  ASSUME NEW rom, IsMetadata(rom), NEW a \in Stops(rom), NEW b \in Stops(rom), a < b
  PROVE  a <= Start(rom, b)
<1>1. /\ DOMAIN rom \subseteq 0..Top /\ \A o \in DOMAIN rom : rom[o] \in 0..(Top - o)
      /\ a \in 0..Top /\ b \in 0..Top
      /\ a \in DOMAIN rom \cup {Top}
  BY TopAssumption DEF IsMetadata, Address, Stops
<1>2. a \in DOMAIN rom
  BY <1>1, TopAssumption
<1>3. PICK p \in DOMAIN rom : /\ \A o \in DOMAIN rom : o < b => o <= p
                              /\ Start(rom, b) = p + rom[p]
  <2>1. ~ \A o \in DOMAIN rom : b <= o
    BY <1>1, <1>2, TopAssumption
  <2> QED
    BY <1>1, <2>1, StartOf
<1> QED
  BY <1>1, <1>2, <1>3, TopAssumption

\* The map of the gaps gives every gap its length.
LEMMA GapOf ==
  ASSUME NEW rom, IsMetadata(rom)
  PROVE  /\ DOMAIN Gaps(rom) = {Start(rom, a) : a \in Stops(rom)}
         /\ \A a \in Stops(rom) : /\ Gaps(rom)[Start(rom, a)] = a - Start(rom, a)
                                  /\ a \in 0..Top /\ Start(rom, a) \in 0..Top
                                  /\ Start(rom, a) < a
<1>1. DOMAIN Gaps(rom) = {Start(rom, a) : a \in Stops(rom)}
  BY DEF Gaps
<1>2. ASSUME NEW a \in Stops(rom)
      PROVE  a \in 0..Top /\ Start(rom, a) \in 0..Top /\ Start(rom, a) < a
  <2>1. a \in 0..Top /\ Start(rom, a) < a
    BY TopAssumption DEF Stops, IsMetadata, Address
  <2> QED
    BY <2>1, StartOf
<1>3. ASSUME NEW a \in Stops(rom)
      PROVE  Gaps(rom)[Start(rom, a)] = a - Start(rom, a)
  <2> DEFINE c == CHOOSE x \in Stops(rom) : Start(rom, x) = Start(rom, a)
  <2>1. c \in Stops(rom) /\ Start(rom, c) = Start(rom, a)
    OBVIOUS
  <2>2. Gaps(rom)[Start(rom, a)] = c - Start(rom, a)
    BY DEF Gaps
  <2> HIDE DEF c
  <2>3. ~(c < a) /\ ~(a < c)
    BY <1>2, <2>1, GapsInOrder
  <2>4. c = a
    BY <1>2, <2>1, <2>3
  <2> QED
    BY <2>2, <2>4
<1> QED
  BY <1>1, <1>2, <1>3

\* The gaps between the blocks of a rom are blocks of the address space.
LEMMA GapsAreMetadata ==
  ASSUME NEW rom, IsMetadata(rom)
  PROVE  IsMetadata(Gaps(rom))
<1>1. ASSUME NEW o \in DOMAIN Gaps(rom)
      PROVE  o \in 0..Top /\ Gaps(rom)[o] \in 0..(Top - o)
  <2>1. PICK a \in Stops(rom) : o = Start(rom, a)
    BY GapOf
  <2>2. Gaps(rom)[o] = a - o /\ a \in 0..Top /\ o \in 0..Top /\ o < a
    BY <2>1, GapOf
  <2> QED
    BY <2>2, TopAssumption
<1> QED
  BY <1>1 DEF IsMetadata, Address

\* No block reaches the last address.
LEMMA CoveredInRange ==
  ASSUME NEW map, IsMetadata(map), NEW c \in Covered(map)
  PROVE  c \in 0..(Top - 1)
<1>1. PICK o \in DOMAIN map : c \in o..(o + map[o] - 1)
  BY InBlock
<1>2. o \in 0..Top /\ map[o] \in 0..(Top - o)
  BY DEF IsMetadata, Address
<1> QED
  BY <1>1, <1>2, TopAssumption

\* The blocks of a map of the rom and the gaps between them leave no cell out.
LEMMA GapsFill ==
  ASSUME NEW rom, IsMetadata(rom)
  PROVE  Covered(rom) \cup Covered(Gaps(rom)) = 0..(Top - 1)
<1>2. ASSUME NEW c \in 0..(Top - 1), c \notin Covered(rom)
      PROVE  c \in Covered(Gaps(rom))
  <2> DEFINE S == {x \in DOMAIN rom \cup {Top} : c < x}
  <2>1. DOMAIN rom \subseteq 0..Top /\ \A o \in DOMAIN rom : rom[o] \in 0..(Top - o)
    BY DEF IsMetadata, Address
  <2>2. S \subseteq Nat /\ Top \in S
    BY <2>1, TopAssumption
  <2>3. PICK a \in S : \A x \in S : a <= x
    <3> HIDE DEF S
    <3>1. Min(S) \in S /\ \A x \in S : Min(S) <= x
      BY <2>2, MinOf
    <3> QED
      BY <3>1
  <2>4. a \in 0..Top /\ a \in DOMAIN rom \cup {Top} /\ c < a
    BY <2>1, TopAssumption
  <2>5. Start(rom, a) <= c
    <3>1. CASE Start(rom, a) = 0
      BY <3>1
    <3>2. CASE Start(rom, a) # 0
      <4>1. PICK p \in DOMAIN rom : p < a /\ Start(rom, a) = p + rom[p]
        BY <2>4, <3>2, StartOf
      <4>2. p <= c
        BY <2>1, <2>3, <2>4, <4>1
      <4>3. c \notin p..(p + rom[p] - 1)
        BY <1>2, InBlock
      <4> QED
        BY <2>1, <4>1, <4>2, <4>3
    <3> QED
      BY <3>1, <3>2
  <2>6. a \in Stops(rom)
    BY <2>4, <2>5, StartOf DEF Stops
  <2>7. /\ Start(rom, a) \in DOMAIN Gaps(rom)
        /\ Gaps(rom)[Start(rom, a)] = a - Start(rom, a)
        /\ Start(rom, a) \in 0..Top
    <3>1. DOMAIN Gaps(rom) = {Start(rom, x) : x \in Stops(rom)}
      BY GapOf
    <3>2. /\ Gaps(rom)[Start(rom, a)] = a - Start(rom, a)
          /\ Start(rom, a) \in 0..Top
      BY <2>6, GapOf
    <3> QED
      BY <2>6, <3>1, <3>2
  <2>8. c \in Start(rom, a)..(Start(rom, a) + Gaps(rom)[Start(rom, a)] - 1)
    BY <2>4, <2>5, <2>7
  <2> QED
    BY <2>7, <2>8, InBlock
<1> QED
  BY <1>2, CoveredInRange, GapsAreMetadata

\* The gaps are disjoint.
LEMMA GapsApart ==
  ASSUME NEW rom, IsMetadata(rom),
         NEW o \in DOMAIN Gaps(rom), NEW p \in DOMAIN Gaps(rom), o < p
  PROVE  o + Gaps(rom)[o] <= p
<1>1. PICK a \in Stops(rom), b \in Stops(rom) : o = Start(rom, a) /\ p = Start(rom, b)
  <2>1. DOMAIN Gaps(rom) = {Start(rom, x) : x \in Stops(rom)}
    BY GapOf
  <2> QED
    BY <2>1
<1>2. /\ a \in 0..Top /\ b \in 0..Top /\ o \in 0..Top /\ p \in 0..Top
      /\ o < a /\ p < b /\ Gaps(rom)[o] = a - o
  BY <1>1, GapOf
<1>3. ~(b < a)
  BY <1>1, <1>2, GapsInOrder
<1>4. a < b
  BY <1>1, <1>2, <1>3
<1>5. a <= p
  BY <1>1, <1>4, GapsInOrder
<1> QED
  BY <1>2, <1>5

\* No gap meets a block when no block lies in another.
LEMMA GapsMissBlocks ==
  ASSUME NEW rom, IsMetadata(rom), NotNested(rom)
  PROVE  Covered(rom) \cap Covered(Gaps(rom)) = {}
<1> SUFFICES ASSUME NEW c \in Covered(rom), c \in Covered(Gaps(rom))
             PROVE  FALSE
  OBVIOUS
<1>1. DOMAIN rom \subseteq 0..Top /\ \A x \in DOMAIN rom : rom[x] \in 0..(Top - x)
  BY DEF IsMetadata, Address
<1>2. PICK o \in DOMAIN rom : c \in o..(o + rom[o] - 1)
  BY InBlock
<1>3. PICK a \in Stops(rom) : c \in Start(rom, a)..(a - 1)
  <2>1. PICK s \in DOMAIN Gaps(rom) : c \in s..(s + Gaps(rom)[s] - 1)
    BY InBlock
  <2>2. PICK a \in Stops(rom) : s = Start(rom, a)
    BY GapOf
  <2>3. Gaps(rom)[s] = a - s /\ a \in 0..Top /\ s \in 0..Top
    BY <2>2, GapOf
  <2> QED
    BY <2>1, <2>2, <2>3
<1>4. a \in 0..Top /\ Start(rom, a) \in 0..Top
  BY GapOf
<1>5. o < a
  BY <1>1, <1>2, <1>3, <1>4
<1>6. PICK p \in DOMAIN rom : /\ \A x \in DOMAIN rom : x < a => x <= p
                              /\ Start(rom, a) = p + rom[p]
  <2>1. ~ \A x \in DOMAIN rom : a <= x
    BY <1>1, <1>4, <1>5
  <2> QED
    BY <1>4, <2>1, StartOf
<1>7. o <= p
  BY <1>5, <1>6
<1>8. o + rom[o] <= p + rom[p]
  BY <1>1, <1>7 DEF NotNested
<1> QED
  BY <1>1, <1>2, <1>3, <1>4, <1>6, <1>8

-----------------------------------------------------------------------------
(* What a load makes of the maps.                                          *)

\* A load works on a record with these fields.
IsLoad(s) ==
  s = [memory |-> s.memory, rom |-> s.rom, ram |-> s.ram, cpu |-> s.cpu,
       hlt |-> s.hlt, result |-> s.result]

IsMemory(mem) == mem \in [Address -> Bytes]

IsCpu(values) == values \in [Registers -> Bytes]

\* Blocks that fit make a map of the rom.
LEMMA RomIsMetadata ==
  ASSUME NEW s, IsMetadata(s.rom), NEW blocks, NEW n \in Nat,
         \A k \in Data(blocks, n) : IsBlock(blocks[k]) /\ Fits(blocks[k])
  PROVE  IsMetadata(RomAfter(s, blocks, n))
<1>1. CASE Data(blocks, n) = {}
  BY <1>1 DEF RomAfter
<1>2. CASE Data(blocks, n) # {}
  <2> DEFINE rom == RomAfter(s, blocks, n)
             At(o) == {k \in Data(blocks, n) : blocks[k].offset = o}
  <2>1. /\ DOMAIN rom = {blocks[k].offset : k \in Data(blocks, n)}
        /\ \A o \in DOMAIN rom : rom[o] = blocks[Min(At(o))].size
    BY <1>2 DEF RomAfter
  <2>2. ASSUME NEW o \in DOMAIN rom
        PROVE  o \in 0..Top /\ rom[o] \in 0..(Top - o)
    <3>1. PICK k \in Data(blocks, n) : blocks[k].offset = o
      BY <2>1
    <3>2. At(o) \subseteq Nat /\ At(o) # {}
      BY <3>1 DEF Data
    <3>3. Min(At(o)) \in At(o)
      <4> HIDE DEF At
      <4> QED
        BY <3>2, MinOf
    <3>4. PICK l \in Data(blocks, n) : blocks[l].offset = o /\ rom[o] = blocks[l].size
      BY <2>1, <3>3
    <3>5. blocks[l].kind = "data"
      BY DEF Data
    <3>6. o \in Nat /\ rom[o] \in Nat /\ o + rom[o] <= Top
      BY <3>4, <3>5 DEF IsBlock, Fits
    <3> QED
      BY <3>6, TopAssumption
  <2> QED
    BY <2>2 DEF IsMetadata, Address
<1> QED
  BY <1>1, <1>2

\* The blocks before the first that fails fit.
LEMMA BlocksBefore ==
  ASSUME NEW s, NEW blocks, NEW n \in Nat, n <= Len(blocks),
         Len(blocks) \in Nat, DOMAIN blocks = 1..Len(blocks),
         \A k \in DOMAIN blocks : IsBlock(blocks[k]),
         \A k \in 1..n : ~Fails(s, blocks, k)
  PROVE  \A k \in Data(blocks, n) : IsBlock(blocks[k]) /\ Fits(blocks[k])
<1> SUFFICES ASSUME NEW k \in Data(blocks, n)
             PROVE  IsBlock(blocks[k]) /\ Fits(blocks[k])
  OBVIOUS
<1>1. k \in 1..n /\ k \in DOMAIN blocks /\ blocks[k].kind = "data"
  BY DEF Data
<1> QED
  BY <1>1 DEF Fails

\* The bytes of a block are bytes.
LEMMA MemoryAfterBlocks ==
  ASSUME NEW s, IsMemory(s.memory), NEW blocks, NEW n \in Nat, n <= Len(blocks),
         Len(blocks) \in Nat, DOMAIN blocks = 1..Len(blocks),
         \A k \in DOMAIN blocks : IsBlock(blocks[k])
  PROVE  IsMemory(MemoryAfter(s, blocks, n))
<1>1. ASSUME NEW a \in Address, Writers(blocks, n, a) # {}
      PROVE  LET b == blocks[Max(Writers(blocks, n, a))]
             IN  b.bytes[a - b.offset + 1] \in Bytes
  <2> DEFINE W == Writers(blocks, n, a)
  <2>1. W \subseteq Nat /\ \A k \in W : k <= n
    BY DEF Writers, Data
  <2>2. PICK k \in W : k = Max(W)
    <3>1. PICK m \in W : \A l \in W : l <= m
      <4> DEFINE T == {n - k : k \in W}
      <4>1. T \subseteq Nat /\ T # {}
        BY <1>1, <2>1
      <4>2. PICK d \in T : \A e \in T : d <= e
        <5> HIDE DEF T
        <5> QED
          BY <4>1, MinOf
      <4>3. PICK m \in W : d = n - m
        OBVIOUS
      <4>4. \A l \in W : n - m <= n - l
        BY <4>2, <4>3
      <4> QED
        BY <2>1, <4>4
    <3> HIDE DEF W
    <3> QED
      BY <3>1 DEF Max
  <2>3. /\ k \in DOMAIN blocks /\ blocks[k].kind = "data"
        /\ a - blocks[k].offset + 1 \in DOMAIN blocks[k].bytes
    <3>1. k \in Data(blocks, n) /\ a - blocks[k].offset + 1 \in DOMAIN blocks[k].bytes
      BY DEF Writers
    <3>2. k \in 1..n /\ blocks[k].kind = "data"
      BY <3>1 DEF Data
    <3> QED
      BY <3>1, <3>2
  <2>4. blocks[k].bytes \in Seq(Bytes)
    BY <2>3 DEF IsBlock
  <2>5. blocks[k].bytes[a - blocks[k].offset + 1] \in Bytes
    BY <2>3, <2>4
  <2> QED
    BY <2>2, <2>5
<1> QED
  BY <1>1 DEF MemoryAfter, IsMemory

\* Loading blocks one after another keeps a map a map, and a memory a memory.
LEMMA LoadBlocksMaps ==
  ASSUME NEW s, IsLoad(s), IsMetadata(s.rom), IsMemory(s.memory), NEW blocks,
         Len(blocks) \in Nat, DOMAIN blocks = 1..Len(blocks),
         \A k \in DOMAIN blocks : IsBlock(blocks[k])
  PROVE  /\ IsLoad(LoadBlocks(s, blocks))
         /\ IsMemory(LoadBlocks(s, blocks).memory)
         /\ IsMetadata(LoadBlocks(s, blocks).rom)
         /\ LoadBlocks(s, blocks).ram = s.ram
         /\ LoadBlocks(s, blocks).cpu = s.cpu
         /\ LoadBlocks(s, blocks).hlt = s.hlt
         /\ LoadBlocks(s, blocks).result \in {s.result, "reported"}
<1> DEFINE failing == {k \in DOMAIN blocks : Fails(s, blocks, k)}
           stop == Min(failing)
           torn == blocks[stop].kind = "data" /\ Fits(blocks[stop])
                     /\ blocks[stop].error = "torn"
           after(n, m) == [s EXCEPT !.memory = MemoryAfter(s, blocks, m),
                                    !.rom = RomAfter(s, blocks, n)]
           tail == IF torn THEN stop ELSE stop - 1
<1>0. ASSUME NEW m \in Nat, m <= Len(blocks) PROVE IsMemory(MemoryAfter(s, blocks, m))
  BY <1>0, MemoryAfterBlocks
<1>1. CASE failing = {}
  <2>1. LoadBlocks(s, blocks) = after(Len(blocks), Len(blocks))
    BY <1>1 DEF LoadBlocks
  <2>2. \A k \in 1..Len(blocks) : ~Fails(s, blocks, k)
    BY <1>1
  <2>3. \A k \in Data(blocks, Len(blocks)) : IsBlock(blocks[k]) /\ Fits(blocks[k])
    <3>1. Len(blocks) <= Len(blocks)
      OBVIOUS
    <3> QED
      BY <2>2, <3>1, BlocksBefore
  <2>4. IsMetadata(RomAfter(s, blocks, Len(blocks)))
    BY <2>3, RomIsMetadata
  <2>5. IsMemory(MemoryAfter(s, blocks, Len(blocks)))
    BY <1>0
  <2> QED
    BY <2>1, <2>4, <2>5 DEF IsLoad
<1>2. CASE failing # {}
  <2>1. LoadBlocks(s, blocks) = Failed(after(stop - 1, tail))
    BY <1>2 DEF LoadBlocks
  <2>2. stop \in failing /\ \A k \in failing : stop <= k
    <3>1. failing \subseteq Nat
      OBVIOUS
    <3> HIDE DEF failing
    <3> QED
      BY <1>2, <3>1, MinOf
  <2>3. stop \in 1..Len(blocks) /\ \A k \in 1..(stop - 1) : ~Fails(s, blocks, k)
    <3>1. stop \in 1..Len(blocks)
      BY <2>2
    <3> HIDE DEF stop
    <3> QED
      BY <2>2, <3>1
  <2>9. tail \in Nat /\ tail <= Len(blocks)
    <3> HIDE DEF stop, torn
    <3> QED
      BY <2>3
  <2> HIDE DEF stop, tail
  <2>4. stop - 1 \in Nat /\ stop - 1 <= Len(blocks)
    BY <2>3
  <2>5. IsMetadata(RomAfter(s, blocks, stop - 1))
    BY <2>3, <2>4, BlocksBefore, RomIsMetadata
  <2>6. IsMemory(MemoryAfter(s, blocks, tail))
    BY <1>0, <2>9
  <2> DEFINE rom == RomAfter(s, blocks, stop - 1)
             mem == MemoryAfter(s, blocks, tail)
  <2>7. LoadBlocks(s, blocks) = Failed([s EXCEPT !.memory = mem, !.rom = rom])
    BY <2>1
  <2>8. IsMetadata(rom) /\ IsMemory(mem)
    BY <2>5, <2>6
  <2> HIDE DEF rom, mem
  <2> QED
    BY <2>7, <2>8 DEF IsLoad, Failed
<1> QED
  BY <1>1, <1>2

\* The bytes of a ram are bytes, as many as there is ram.
LEMMA RamBytesType ==
  ASSUME NEW s, IsMetadata(s.rom), NEW uri, uri.txt.bin \in Seq(Bytes), RamBytes(s, uri).ok
  PROVE  RamBytes(s, uri).value \in [1..Size(Ram(s)) -> Bytes]
<1> DEFINE bin == TxtToBin(uri.encoder, Decompressor(uri), Size(Ram(s)), Rest(uri))
<1>1. RamBytes(s, uri) = bin /\ bin.ok /\ Len(bin.value) = Size(Ram(s))
  BY DEF RamBytes, Failure
<1>2. Rest(uri).bin \in Seq(Bytes)
  BY NoneDecodedAssumption DEF Rest, Plain
<1>3. bin.value = Rest(uri).bin
  BY <1>1 DEF TxtToBin, Failure, Success
<1> HIDE DEF bin
<1> QED
  BY <1>1, <1>2, <1>3

\* Whatever becomes of a load, both maps stay in range and cells and registers
\* hold bytes; when it succeeds the ram is the gaps of the rom.
LEMMA LoadMaps ==
  ASSUME IsMemory(memory), IsMetadata(romMetadata_), IsMetadata(ramMetadata_),
         IsCpu(cpu), hlt_ \in BOOLEAN, NEW j, Loadable(j)
  PROVE  /\ IsMemory(LoadMachineState(j).memory)
         /\ IsCpu(LoadMachineState(j).cpu)
         /\ LoadMachineState(j).hlt \in BOOLEAN
         /\ LoadMachineState(j).result \in {"ok", "reported", "swallowed"}
         /\ IsMetadata(LoadMachineState(j).rom)
         /\ IsMetadata(LoadMachineState(j).ram)
         /\ LoadMachineState(j).result = "ok" =>
              LoadMachineState(j).ram = Gaps(LoadMachineState(j).rom)
<1>1. /\ IsLoad(Now) /\ Now.rom = romMetadata_ /\ Now.ram = ramMetadata_
      /\ Now.memory = memory /\ Now.cpu = cpu /\ Now.hlt = hlt_ /\ Now.result = "ok"
  BY DEF IsLoad, Now
<1>2. CASE ~j.valid
  BY <1>2 DEF LoadMachineState, Failed, Now
<1>3. CASE j.valid
  <2> DEFINE b == LoadBlocks(Now, j.rom)
             r == LoadRam(b, j)
             c == LoadCpu(r, j)
  <2>1. LoadMachineState(j) = c
    BY <1>3 DEF LoadMachineState
  <2>2. /\ IsLoad(b) /\ IsMemory(b.memory) /\ IsMetadata(b.rom) /\ b.ram = ramMetadata_
        /\ b.cpu = cpu /\ b.hlt = hlt_ /\ b.result \in {"ok", "reported"}
    BY <1>1, <1>3, LoadBlocksMaps DEF Loadable
  <2> HIDE DEF b
  <2>3. IsMetadata(Gaps(b.rom))
    BY <2>2, GapsAreMetadata
  <2>4. /\ IsLoad(r) /\ r.rom = b.rom
        /\ r.cpu = b.cpu /\ r.hlt = b.hlt /\ r.result \in {"ok", "reported"}
        /\ r.ram = b.ram \/ r.ram = Gaps(b.rom)
        /\ r.result = "ok" => r.ram = Gaps(b.rom)
    BY <2>2 DEF LoadRam, IsLoad, Failed, Ram
  <2>6. IsMemory(r.memory)
    <3> DEFINE ram == Ram(b)
               zeros == [i \in 1..Size(ram) |-> 0]
    <3>1. ASSUME NEW bytes \in [1..Size(ram) -> Bytes]
          PROVE  IsMemory(Fill(b.memory, ram, bytes))
      <4>1. /\ \A a \in Address : b.memory[a] \in Bytes
            /\ \A n \in 1..Size(ram) : bytes[n] \in Bytes
        BY <2>2 DEF IsMemory
      <4> HIDE DEF ram
      <4>2. IsMetadata(ram)
        BY <2>3 DEF ram, Ram
      <4> QED
        BY <4>1, <4>2, FillBytes DEF IsMemory
    <3>2. zeros \in [1..Size(ram) -> Bytes]
      BY BytesAssumption
    <3>3. \/ j.ram.kind = "none"
          \/ j.ram.kind = "uri" /\ j.ram.uri.txt.bin \in Seq(Bytes)
      BY <1>3 DEF Loadable
    <3>4. CASE b.result # "ok"
      BY <2>2, <3>4 DEF LoadRam
    <3>5. CASE b.result = "ok" /\ j.ram.kind = "none"
      <4>1. r.memory = Fill(b.memory, ram, zeros)
        BY <2>2, <3>5 DEF LoadRam, IsLoad
      <4> HIDE DEF r, ram, zeros
      <4> QED
        BY <3>1, <3>2, <4>1
    <3>6. CASE b.result = "ok" /\ j.ram.kind = "uri"
      <4>1. \/ r.memory = b.memory
            \/ RamBytes(b, j.ram.uri).ok
                 /\ r.memory = Fill(b.memory, ram, RamBytes(b, j.ram.uri).value)
        BY <2>2, <3>6 DEF LoadRam, IsLoad, Failed
      <4>2. RamBytes(b, j.ram.uri).ok =>
              RamBytes(b, j.ram.uri).value \in [1..Size(ram) -> Bytes]
        BY <2>2, <3>3, <3>6, RamBytesType
      <4> HIDE DEF r, ram, zeros
      <4> QED
        BY <2>2, <3>1, <4>1, <4>2
    <3> QED
      BY <3>3, <3>4, <3>5, <3>6
  <2> HIDE DEF r
  <2>5. /\ c.memory = r.memory /\ c.rom = r.rom /\ c.ram = r.ram
        /\ c.hlt \in {r.hlt, FALSE} /\ c.result \in {r.result, "swallowed"}
    BY <2>4 DEF LoadCpu, IsLoad
  <2>7. IsCpu(c.cpu)
    <3>1. IsCpu(r.cpu) /\ IsCpu([n \in Registers |-> 0])
      BY <2>2, <2>4, BytesAssumption DEF IsCpu
    <3>2. ASSUME j.cpu.kind \in {"registers", "alien"}
          PROVE  IsCpu([n \in Registers |->
                          IF n \in DOMAIN j.cpu.values /\ j.cpu.values[n] # 0
                          THEN j.cpu.values[n] ELSE r.cpu[n]])
      <4>1. \A n \in DOMAIN j.cpu.values : j.cpu.values[n] \in Bytes
        BY <1>3, <3>2 DEF Loadable
      <4> QED
        BY <3>1, <4>1 DEF IsCpu
    <3>3. j.cpu.kind \in {"none", "alien", "registers"}
      BY <1>3 DEF Loadable
    <3> QED
      BY <2>4, <3>1, <3>2, <3>3 DEF LoadCpu, IsLoad
  <2> HIDE DEF c
  <2> QED
    BY <2>1, <2>2, <2>3, <2>4, <2>5, <2>6, <2>7
<1> QED
  BY <1>2, <1>3

\* A list of checksums changes nothing, matching or not.
LEMMA ChecksumsChangeNothing ==
  ASSUME NEW s, IsLoad(s), IsMemory(s.memory), NEW blocks,
         Len(blocks) \in Nat, DOMAIN blocks = 1..Len(blocks),
         \A k \in DOMAIN blocks : blocks[k].kind = "md5"
  PROVE  LoadBlocks(s, blocks) \in {s, Failed(s)}
<1> DEFINE failing == {k \in DOMAIN blocks : Fails(s, blocks, k)}
           stop == Min(failing)
           after(n, m) == [s EXCEPT !.memory = MemoryAfter(s, blocks, m),
                                    !.rom = RomAfter(s, blocks, n)]
<1>1. ASSUME NEW n \in Nat, n <= Len(blocks) PROVE after(n, n) = s
  <2>1. Data(blocks, n) = {}
    BY <1>1 DEF Data
  <2>2. RomAfter(s, blocks, n) = s.rom
    BY <2>1 DEF RomAfter
  <2>3. MemoryAfter(s, blocks, n) = s.memory
    <3>1. \A a : Writers(blocks, n, a) = {}
      BY <2>1 DEF Writers
    <3>2. MemoryAfter(s, blocks, n) = [a \in Address |-> s.memory[a]]
      BY <3>1 DEF MemoryAfter
    <3> QED
      BY <3>2 DEF IsMemory
  <2> QED
    BY <2>2, <2>3 DEF IsLoad
<1>2. CASE failing = {}
  <2>1. LoadBlocks(s, blocks) = after(Len(blocks), Len(blocks))
    BY <1>2 DEF LoadBlocks
  <2>2. after(Len(blocks), Len(blocks)) = s
    <3>1. Len(blocks) <= Len(blocks)
      OBVIOUS
    <3> QED
      BY <1>1, <3>1
  <2> QED
    BY <2>1, <2>2
<1>3. CASE failing # {}
  <2>1. stop \in failing
    <3>1. failing \subseteq Nat
      OBVIOUS
    <3> HIDE DEF failing
    <3> QED
      BY <1>3, <3>1, MinOf
  <2>2. stop \in 1..Len(blocks) /\ blocks[stop].kind = "md5"
    BY <2>1
  <2>3. LoadBlocks(s, blocks) = Failed(after(stop - 1, stop - 1))
    BY <1>3, <2>2 DEF LoadBlocks
  <2> HIDE DEF stop
  <2>4. after(stop - 1, stop - 1) = s
    <3>1. stop - 1 \in Nat /\ stop - 1 <= Len(blocks)
      BY <2>2
    <3> HIDE DEF after
    <3> QED
      BY <1>1, <3>1
  <2> QED
    BY <2>3, <2>4
<1> QED
  BY <1>2, <1>3

-----------------------------------------------------------------------------
(* The invariants.                                                         *)

\* A saved state has the checksum of the rom, all registers and, by some codec,
\* the bytes of the ram: those of the gaps of the rom if the machine was sound.
IsSaved(s) ==
  LET j == s.json
      txt == j.ram.uri.txt
  IN  /\ j.valid /\ IsMetadata(s.rom) /\ DOMAIN s.memory = 0..(Top - 1)
      /\ j.rom = <<[kind |-> "md5", bytes |-> Read(s.memory, s.rom)]>>
      /\ j.ram.kind = "uri" /\ j.ram.uri.encoder = "base64"
      /\ j.ram.uri.compressor \in {"none", "zlib"}
      /\ j.ram.uri.compressor = "zlib" => txt.zipped = TRUE
      /\ txt.bin \in Seq(Bytes)
      /\ s.sound => txt.bin = Read(s.memory, Gaps(s.rom))
      /\ j.cpu.kind = "registers" /\ IsCpu(j.cpu.values)

\* After a sound load the ram is the gaps of the rom.
MapsInv ==
  /\ TypeOK
  /\ sound => ramMetadata_ = Gaps(romMetadata_)
  /\ saved # NoSave => IsSaved(saved)

\* MapsInv holds at first.
LEMMA InitMaps == Init => MapsInv
<1> SUFFICES ASSUME Init PROVE MapsInv
  OBVIOUS
<1>1. IsMetadata(NoMap)
  BY DEF IsMetadata, NoMap
<1> QED
  BY <1>1, BytesAssumption DEF Init, MapsInv, TypeOK

\* A saved state is one that may be loaded.
LEMMA SavedIsLoadable ==
  ASSUME NEW s, IsSaved(s)
  PROVE  Loadable(s.json)
BY DEF IsSaved, Loadable, IsBlock, IsCpu

\* Loading keeps the maps.
LEMMA ApplyMaps ==
  ASSUME MapsInv, NEW j, Loadable(j), Apply(j), UNCHANGED saved,
         loaded' \in {"program", "saved"}
  PROVE  MapsInv'
<1>1. /\ memory' = LoadMachineState(j).memory
      /\ romMetadata_' = LoadMachineState(j).rom
      /\ ramMetadata_' = LoadMachineState(j).ram
      /\ cpu' = LoadMachineState(j).cpu
      /\ hlt_' = LoadMachineState(j).hlt
      /\ outcome' = LoadMachineState(j).result
      /\ sound' => \/ LoadMachineState(j).result = "ok"
                   \/ /\ sound /\ romMetadata_' = romMetadata_
                      /\ ramMetadata_' = ramMetadata_
      /\ sound' \in BOOLEAN
  BY DEF Apply
<1>2. /\ IsMemory(LoadMachineState(j).memory)
      /\ IsMetadata(LoadMachineState(j).rom) /\ IsMetadata(LoadMachineState(j).ram)
      /\ IsCpu(LoadMachineState(j).cpu)
      /\ LoadMachineState(j).hlt \in BOOLEAN
      /\ LoadMachineState(j).result \in {"ok", "reported", "swallowed"}
      /\ LoadMachineState(j).result = "ok" =>
           LoadMachineState(j).ram = Gaps(LoadMachineState(j).rom)
  BY LoadMaps DEF MapsInv, TypeOK, IsMemory, IsCpu
<1>3. TypeOK'
  BY <1>1, <1>2 DEF TypeOK, IsMemory, IsCpu, IsMetadata
<1>4. sound' => ramMetadata_' = Gaps(romMetadata_')
  BY <1>1, <1>2 DEF MapsInv
<1>5. saved' # NoSave => IsSaved(saved')
  BY DEF MapsInv
<1> QED
  BY <1>3, <1>4, <1>5 DEF MapsInv

\* What is saved is a saved state.
LEMMA SaveMaps ==
  ASSUME MapsInv, NEW codec \in Codecs, Save(codec)
  PROVE  saved' # NoSave => IsSaved(saved')
<1> DEFINE bin == Read(memory, ramMetadata_)
           txt == BinToTxt(codec.encoder, codec.compressor, bin)
           kept == [a \in 0..(Top - 1) |-> memory[a]]
<1>1. CASE ~txt.ok
  BY <1>1 DEF Save, MapsInv
<1>2. CASE txt.ok
  <2>1. /\ saved'.json = State(codec, txt.value) /\ saved'.memory = kept
        /\ saved'.rom = romMetadata_ /\ saved'.sound = sound
    BY <1>2 DEF Save
  <2>2. /\ codec.encoder = "base64" /\ codec.compressor \in {"none", "zlib"}
        /\ txt.value.bin = bin /\ (codec.compressor = "zlib" => txt.value.zipped = TRUE)
    BY <1>2 DEF BinToTxt, Failure, Success, Plain, Zipped
  <2>3. IsMetadata(romMetadata_) /\ IsMetadata(ramMetadata_) /\ IsMemory(memory) /\ IsCpu(cpu)
    BY DEF MapsInv, TypeOK, IsMemory, IsCpu
  <2>4. bin \in Seq(Bytes)
    BY <2>3, ReadBytes DEF IsMemory
  <2>5. ASSUME NEW map, IsMetadata(map) PROVE Read(memory, map) = Read(kept, map)
    <3>1. \A a \in Covered(map) : a \in 0..(Top - 1)
      BY <2>5, CoveredInRange
    <3>2. \A a \in Covered(map) : memory[a] = kept[a]
      BY <3>1
    <3> HIDE DEF kept
    <3> QED
      BY <2>5, <3>2, ReadSame
  <2>6. Read(memory, romMetadata_) = Read(kept, romMetadata_)
    BY <2>3, <2>5
  <2>7. sound => bin = Read(kept, Gaps(romMetadata_))
    <3>1. sound => ramMetadata_ = Gaps(romMetadata_)
      BY DEF MapsInv
    <3>2. bin = Read(kept, ramMetadata_)
      BY <2>3, <2>5
    <3> QED
      BY <3>1, <3>2
  <2>9. DOMAIN kept = 0..(Top - 1)
    OBVIOUS
  <2> HIDE DEF bin, txt, kept
  <2>8. IsSaved(saved')
    BY <2>1, <2>2, <2>3, <2>4, <2>6, <2>7, <2>9 DEF IsSaved, State, Uri
  <2> QED
    BY <2>8
<1> QED
  BY <1>1, <1>2

\* Every step keeps MapsInv.
LEMMA NextMaps == MapsInv /\ [Next]_vars => MapsInv'
<1> SUFFICES ASSUME MapsInv, [Next]_vars PROVE MapsInv'
  OBVIOUS
<1>1. ASSUME NEW j \in Programs, LoadProgram(j) PROVE MapsInv'
  BY <1>1, ApplyMaps, ProgramsAssumption DEF LoadProgram
<1>2. ASSUME LoadSaved PROVE MapsInv'
  <2>1. Loadable(saved.json)
    BY <1>2, SavedIsLoadable DEF LoadSaved, MapsInv
  <2> QED
    BY <1>2, <2>1, ApplyMaps DEF LoadSaved
<1>3. ASSUME NEW codec \in Codecs, Save(codec) PROVE MapsInv'
  <2>1. /\ UNCHANGED <<memory, romMetadata_, ramMetadata_, cpu, hlt_, sound>>
        /\ loaded' = "none" /\ outcome' = "none"
    BY <1>3 DEF Save
  <2>2. TypeOK' /\ (sound' => ramMetadata_' = Gaps(romMetadata_'))
    BY <2>1 DEF MapsInv, TypeOK, IsMetadata
  <2>3. saved' # NoSave => IsSaved(saved')
    BY <1>3, SaveMaps
  <2> QED
    BY <2>2, <2>3 DEF MapsInv
<1>4. ASSUME UNCHANGED <<romMetadata_, ramMetadata_, saved, sound>>, TypeOK'
      PROVE  MapsInv'
  BY <1>4 DEF MapsInv
<1>5. CASE Restart \/ Interrupt \/ UNCHANGED vars
  <2>1. TypeOK'
    BY <1>5, BytesAssumption DEF Restart, Interrupt, vars, MapsInv, TypeOK, IsMetadata
  <2> QED
    BY <1>4, <1>5, <2>1 DEF Restart, Interrupt, vars
<1>6. CASE Execute
  <2>1. /\ UNCHANGED <<romMetadata_, ramMetadata_, saved, sound>>
        /\ loaded' = "none" /\ outcome' = "none"
    BY <1>6 DEF Execute
  <2>2. memory' \in [Address -> Bytes] /\ cpu' \in [Registers -> Bytes] /\ hlt_' \in BOOLEAN
    BY <1>6 DEF Execute, MapsInv, TypeOK
  <2>3. TypeOK'
    BY <2>1, <2>2 DEF MapsInv, TypeOK, IsMetadata
  <2> QED
    BY <1>4, <2>1, <2>3
<1> QED
  BY <1>1, <1>2, <1>3, <1>5, <1>6 DEF Next

\* The maps stay in range, so that no load reads or clears beyond the memory.
THEOREM MapsInRange == Spec => []MapsInv
BY InitMaps, NextMaps, PTL DEF Spec

\* Every variable stays within its type: in particular cells hold bytes, although
\* what they are filled with is indexed by how many bytes precede their block.
THEOREM TypesHold == Spec => []TypeOK
BY MapsInRange, PTL DEF MapsInv

\* After a sound load every cell below the last address is in a block of rom or
\* in exactly one gap, however the blocks of rom overlap.
THEOREM EveryCellIsKnown == Spec => []EveryCellKnown
<1>1. MapsInv => EveryCellKnown
  <2> SUFFICES ASSUME MapsInv, sound PROVE EveryCellKnown
    BY DEF EveryCellKnown
  <2>1. IsMetadata(romMetadata_) /\ ramMetadata_ = Gaps(romMetadata_)
    BY DEF MapsInv, TypeOK
  <2> QED
    BY <2>1, GapsFill, GapsApart DEF EveryCellKnown
<1> QED
  BY <1>1, MapsInRange, PTL

\* No cell is both rom and ram unless a block of rom lies inside another.
THEOREM RomAndRamApart == Spec => []RomAndRamPartition
<1>1. MapsInv => RomAndRamPartition
  BY GapsMissBlocks DEF MapsInv, TypeOK, RomAndRamPartition
<1> QED
  BY <1>1, MapsInRange, PTL

-----------------------------------------------------------------------------
(* The rom that a program gives.                                           *)

\* The cells that no block of a map covers are left alone when it is filled.
LEMMA FillMisses ==
  ASSUME NEW mem, NEW map, NEW bytes, NEW a \in Address, a \notin Covered(map)
  PROVE  Fill(mem, map, bytes)[a] = mem[a]
BY DEF Fill

\* Blocks that lie apart make a map of which no block lies in another, and one
\* that covers each byte they give.
LEMMA ApartMaps ==
  ASSUME NEW s, NEW blocks, Len(blocks) \in Nat, DOMAIN blocks = 1..Len(blocks),
         \A k \in DOMAIN blocks : IsBlock(blocks[k]),
         Apart(blocks), Data(blocks, Len(blocks)) # {}
  PROVE  /\ DOMAIN RomAfter(s, blocks, Len(blocks))
              = {blocks[k].offset : k \in Data(blocks, Len(blocks))}
         /\ \A k \in Data(blocks, Len(blocks)) :
              RomAfter(s, blocks, Len(blocks))[blocks[k].offset] = blocks[k].size
         /\ NotNested(RomAfter(s, blocks, Len(blocks)))
<1> DEFINE D == Data(blocks, Len(blocks))
           rom == RomAfter(s, blocks, Len(blocks))
           At(o) == {k \in D : blocks[k].offset = o}
<1>1. /\ DOMAIN rom = {blocks[k].offset : k \in D}
      /\ \A o \in DOMAIN rom : rom[o] = blocks[Min(At(o))].size
  BY DEF RomAfter
<1>2. ASSUME NEW k \in D PROVE rom[blocks[k].offset] = blocks[k].size
  <2>1. k \in At(blocks[k].offset) /\ \A l \in At(blocks[k].offset) : l = k
    BY DEF Apart
  <2>2. Min(At(blocks[k].offset)) = k
    <3>1. At(blocks[k].offset) \subseteq Nat
      BY DEF Data
    <3> HIDE DEF At, D
    <3> QED
      BY <2>1, <3>1, MinOf
  <2> QED
    BY <1>1, <2>2
<1>3. ASSUME NEW k \in D PROVE blocks[k].offset \in Nat /\ blocks[k].size \in Nat
  BY DEF Data, IsBlock
<1>4. NotNested(rom)
  <2> SUFFICES ASSUME NEW k \in D, NEW l \in D, blocks[k].offset < blocks[l].offset
               PROVE  blocks[k].offset + rom[blocks[k].offset]
                        <= blocks[l].offset + rom[blocks[l].offset]
    <3> HIDE DEF rom, D
    <3> QED
      BY <1>1 DEF NotNested
  <2>1. blocks[k].offset + blocks[k].size <= blocks[l].offset
    <3>1. /\ blocks[k].offset \in Nat /\ blocks[k].size \in Nat
          /\ blocks[l].offset \in Nat /\ blocks[l].size \in Nat
      BY <1>3
    <3>2. \/ blocks[k].offset + blocks[k].size <= blocks[l].offset
          \/ blocks[l].offset + blocks[l].size <= blocks[k].offset
      BY <3>1 DEF Apart
    <3> QED
      BY <3>1, <3>2
  <2> QED
    BY <1>2, <1>3, <2>1
<1> QED
  BY <1>1, <1>2, <1>4

\* The bytes of a block that fits are as many as it spans, or fewer.
LEMMA BlockSpan ==
  ASSUME NEW block, IsBlock(block), Fits(block), block.kind = "data"
  PROVE  /\ block.offset \in Nat /\ block.size \in Nat
         /\ block.offset + block.size <= Top
         /\ DOMAIN block.bytes \subseteq 1..block.size
<1>1. /\ block.offset \in Nat /\ block.size \in Nat
      /\ block.bytes \in Seq(Bytes) /\ Len(block.bytes) <= block.size
  BY DEF IsBlock
<1> QED
  BY <1>1 DEF Fits

\* The cells that a block which fits spans are addresses.
LEMMA SpanInAddress ==
  ASSUME NEW o \in Nat, NEW m \in Nat, o + m <= Top, NEW i \in 1..m
  PROVE  o + i - 1 \in Address /\ o + i - 1 \in o..(o + m - 1)
BY TopAssumption DEF Address

\* A load that succeeds leaves in the rom what blocks that lie apart put there.
LEMMA RomStays ==
  ASSUME IsMetadata(romMetadata_), IsMemory(memory), NEW j, Loadable(j), j.valid, Apart(j.rom),
         LoadMachineState(j).result = "ok",
         NEW k \in Data(j.rom, Len(j.rom)), NEW i \in DOMAIN j.rom[k].bytes
  PROVE  LoadMachineState(j).memory[j.rom[k].offset + i - 1] = j.rom[k].bytes[i]
<1> DEFINE b == LoadBlocks(Now, j.rom)
           r == LoadRam(b, j)
           c == LoadCpu(r, j)
           N == Len(j.rom)
           a == j.rom[k].offset + i - 1
           rom == RomAfter(Now, j.rom, N)
<1>1. LoadMachineState(j) = c
  BY DEF LoadMachineState
<1>2. /\ N \in Nat /\ DOMAIN j.rom = 1..N
      /\ \A l \in DOMAIN j.rom : IsBlock(j.rom[l])
  BY DEF Loadable
<1>3. IsLoad(Now) /\ Now.rom = romMetadata_ /\ Now.memory = memory
  BY DEF IsLoad, Now
<1>4. IsLoad(b)
  BY <1>2, <1>3, LoadBlocksMaps
<1>5. c.memory = r.memory /\ r.result = "ok" /\ b.result = "ok"
  <2> HIDE DEF b
  <2>1. IsLoad(r) /\ (r.result = "ok" => b.result = "ok")
    BY <1>4 DEF LoadRam, IsLoad, Failed
  <2> HIDE DEF r
  <2>2. c.memory = r.memory /\ (c.result = "ok" => r.result = "ok")
    BY <2>1 DEF LoadCpu, IsLoad
  <2> HIDE DEF c
  <2> QED
    BY <1>1, <2>1, <2>2
<1>6. /\ b.memory = MemoryAfter(Now, j.rom, N) /\ b.rom = rom
      /\ \A l \in 1..N : ~Fails(Now, j.rom, l)
  <2> DEFINE failing == {l \in DOMAIN j.rom : Fails(Now, j.rom, l)}
  <2>1. failing = {}
    BY <1>3, <1>5 DEF LoadBlocks, Failed, IsLoad
  <2> QED
    BY <1>2, <1>3, <2>1 DEF LoadBlocks, IsLoad
<1>7. \A l \in Data(j.rom, N) : IsBlock(j.rom[l]) /\ Fits(j.rom[l])
  <2>1. N <= N
    BY <1>2
  <2> QED
    BY <1>2, <1>6, <2>1, BlocksBefore
<1>8. IsMetadata(rom)
  BY <1>2, <1>3, <1>7, RomIsMetadata
<1>9. \A l \in Data(j.rom, N) :
        /\ j.rom[l].offset \in Nat /\ j.rom[l].size \in Nat
        /\ j.rom[l].offset + j.rom[l].size <= Top
        /\ DOMAIN j.rom[l].bytes \subseteq 1..j.rom[l].size
  <2> SUFFICES ASSUME NEW l \in Data(j.rom, N)
               PROVE  /\ j.rom[l].offset \in Nat /\ j.rom[l].size \in Nat
                      /\ j.rom[l].offset + j.rom[l].size <= Top
                      /\ DOMAIN j.rom[l].bytes \subseteq 1..j.rom[l].size
    OBVIOUS
  <2>1. j.rom[l].kind = "data"
    BY DEF Data
  <2>2. IsBlock(j.rom[l]) /\ Fits(j.rom[l])
    BY <1>7
  <2> QED
    BY <2>1, <2>2, BlockSpan
<1>10. i \in 1..j.rom[k].size /\ a \in Address
  <2>1. i \in 1..j.rom[k].size
    BY <1>9
  <2>2. /\ j.rom[k].offset \in Nat /\ j.rom[k].size \in Nat
        /\ j.rom[k].offset + j.rom[k].size <= Top
    BY <1>9
  <2> QED
    BY <2>1, <2>2, SpanInAddress
<1>11. Writers(j.rom, N, a) = {k}
  <2>1. k \in Writers(j.rom, N, a)
    <3>1. a - j.rom[k].offset + 1 = i
      BY <1>9, <1>10
    <3> QED
      BY <3>1 DEF Writers
  <2>2. ASSUME NEW l \in Writers(j.rom, N, a), l # k PROVE FALSE
    <3>1. l \in Data(j.rom, N) /\ a - j.rom[l].offset + 1 \in 1..j.rom[l].size
      BY <1>9 DEF Writers
    <3>2. \/ j.rom[k].offset + j.rom[k].size <= j.rom[l].offset
          \/ j.rom[l].offset + j.rom[l].size <= j.rom[k].offset
      BY <2>2, <3>1 DEF Apart
    <3>3. /\ j.rom[k].offset \in Nat /\ j.rom[k].size \in Nat
          /\ j.rom[l].offset \in Nat /\ j.rom[l].size \in Nat
      BY <1>9, <3>1
    <3>4. PICK o \in Nat, m \in Nat, p \in Nat, n \in Nat :
            /\ o = j.rom[k].offset /\ m = j.rom[k].size
            /\ p = j.rom[l].offset /\ n = j.rom[l].size
      BY <3>3
    <3>5. i \in 1..m /\ o + i - 1 - p + 1 \in 1..n
      <4>1. a = o + i - 1
        BY <3>4
      <4>2. i \in 1..m
        BY <1>10, <3>4
      <4> HIDE DEF a
      <4>3. a - p + 1 \in 1..n
        BY <3>1, <3>4
      <4> QED
        BY <4>1, <4>2, <4>3
    <3>6. o + m <= p \/ p + n <= o
      BY <3>2, <3>4
    <3> QED
      BY <3>5, <3>6
  <2> QED
    BY <2>1, <2>2
<1>12. b.memory[a] = j.rom[k].bytes[i]
  <2>1. Max({k}) = k
    BY <1>2 DEF Max, Data
  <2>2. MemoryAfter(Now, j.rom, N)[a] = j.rom[k].bytes[a - j.rom[k].offset + 1]
    BY <1>10, <1>11, <2>1 DEF MemoryAfter
  <2>3. a - j.rom[k].offset + 1 = i
    BY <1>9, <1>10
  <2> QED
    BY <1>6, <2>2, <2>3
<1>13. a \notin Covered(Gaps(rom))
  <2>1. /\ DOMAIN rom = {j.rom[l].offset : l \in Data(j.rom, N)}
        /\ rom[j.rom[k].offset] = j.rom[k].size
        /\ NotNested(rom)
    <3>1. Data(j.rom, Len(j.rom)) # {}
      OBVIOUS
    <3>2. /\ Len(j.rom) \in Nat /\ DOMAIN j.rom = 1..Len(j.rom)
          /\ \A l \in DOMAIN j.rom : IsBlock(j.rom[l])
      BY <1>2
    <3>3. /\ DOMAIN RomAfter(Now, j.rom, Len(j.rom))
               = {j.rom[l].offset : l \in Data(j.rom, Len(j.rom))}
          /\ \A l \in Data(j.rom, Len(j.rom)) :
               RomAfter(Now, j.rom, Len(j.rom))[j.rom[l].offset] = j.rom[l].size
          /\ NotNested(RomAfter(Now, j.rom, Len(j.rom)))
      BY <3>1, <3>2, ApartMaps
    <3> QED
      BY <3>3
  <2>2. j.rom[k].offset \in DOMAIN rom
    BY <2>1
  <2>3. a \in j.rom[k].offset..(j.rom[k].offset + rom[j.rom[k].offset] - 1)
    <3>1. /\ j.rom[k].offset \in Nat /\ j.rom[k].size \in Nat /\ i \in 1..j.rom[k].size
          /\ j.rom[k].offset + j.rom[k].size <= Top
      BY <1>9, <1>10
    <3>2. a \in j.rom[k].offset..(j.rom[k].offset + j.rom[k].size - 1)
      BY <3>1, SpanInAddress
    <3>3. rom[j.rom[k].offset] = j.rom[k].size
      BY <2>1
    <3> HIDE DEF a, rom
    <3> QED
      BY <3>2, <3>3
  <2>4. a \in Covered(rom)
    <3> HIDE DEF a, rom
    <3> QED
      BY <2>2, <2>3, InBlock
  <2> QED
    BY <1>8, <2>1, <2>4, GapsMissBlocks
<1>14. r.memory[a] = b.memory[a]
  <2> HIDE DEF b, a, rom
  <2>1. ASSUME NEW bytes PROVE Fill(b.memory, Gaps(rom), bytes)[a] = b.memory[a]
    BY <1>10, <1>13, FillMisses
  <2>2. Ram(b) = Gaps(rom)
    BY <1>6 DEF Ram
  <2> QED
    BY <1>4, <1>5, <2>1, <2>2 DEF LoadRam, IsLoad, Failed
<1> QED
  BY <1>1, <1>5, <1>12, <1>14

\* When a program whose blocks lie apart has been loaded, the rom holds every
\* byte it gives.
THEOREM RomIsAsGiven == Spec => RomAsGiven
<1>1. ASSUME MapsInv, NEW j \in Programs, j.valid, Apart(j.rom), LoadProgram(j),
             outcome' = "ok",
             NEW k \in Data(j.rom, Len(j.rom)), NEW i \in DOMAIN j.rom[k].bytes
      PROVE  memory'[j.rom[k].offset + i - 1] = j.rom[k].bytes[i]
  <2>1. LoadMachineState(j).result = "ok" /\ memory' = LoadMachineState(j).memory
    BY <1>1 DEF LoadProgram, Apply
  <2> QED
    BY <1>1, <2>1, RomStays, ProgramsAssumption DEF MapsInv, TypeOK, IsMemory
<1> DEFINE AsGiven ==
      loaded' = "program" /\ outcome' = "ok" =>
        \A j \in {p \in Programs : p.valid /\ Apart(p.rom)} :
          LoadProgram(j) =>
            \A k \in Data(j.rom, Len(j.rom)) : \A i \in DOMAIN j.rom[k].bytes :
              memory'[j.rom[k].offset + i - 1] = j.rom[k].bytes[i]
<1>2. MapsInv => AsGiven
  BY <1>1
<1> QED
  BY <1>2, MapsInRange, PTL DEF RomAsGiven

-----------------------------------------------------------------------------
(* The saved states that are refused.                                      *)

\* A saved state that is refused leaves the memory and the cpu alone, and the maps
\* of a soundly loaded machine.
THEOREM RefusalIsHarmless == Spec => RefusedHarmless
<1>1. ASSUME MapsInv, LoadSaved, outcome' # "ok"
      PROVE  /\ UNCHANGED <<memory, romMetadata_, cpu, hlt_>>
             /\ sound => UNCHANGED ramMetadata_
  <2> DEFINE j == saved.json
             b == LoadBlocks(Now, j.rom)
             r == LoadRam(b, j)
             c == LoadCpu(r, j)
  <2>2. IsSaved(saved)
    BY <1>1 DEF LoadSaved, MapsInv
  <2>1. /\ memory' = c.memory /\ romMetadata_' = c.rom /\ ramMetadata_' = c.ram
        /\ cpu' = c.cpu /\ hlt_' = c.hlt /\ outcome' = c.result
    BY <1>1, <2>2 DEF LoadSaved, Apply, LoadMachineState, IsSaved
  <2>3. IsLoad(Now) /\ IsMemory(Now.memory)
    BY <1>1 DEF IsLoad, Now, MapsInv, TypeOK, IsMemory
  <2>4. b \in {Now, Failed(Now)}
    BY <2>2, <2>3, ChecksumsChangeNothing DEF IsSaved
  <2>8. j.ram.kind = "uri" /\ j.cpu.kind = "registers"
    BY <2>2 DEF IsSaved
  <2> HIDE DEF b, j
  <2>5. /\ IsLoad(b) /\ b.memory = memory /\ b.rom = romMetadata_ /\ b.ram = ramMetadata_
        /\ b.cpu = cpu /\ b.hlt = hlt_
    BY <2>4 DEF IsLoad, Now, Failed
  <2>6. /\ IsLoad(r) /\ r.rom = b.rom /\ r.cpu = b.cpu /\ r.hlt = b.hlt
        /\ r.result # "ok" => /\ r.memory = b.memory
                              /\ r.ram \in {b.ram, Gaps(b.rom)}
    BY <2>5, <2>8 DEF LoadRam, IsLoad, Failed, Ram
  <2> HIDE DEF r
  <2>7. r.result # "ok" /\ c = r
    BY <1>1, <2>1, <2>6, <2>8 DEF LoadCpu, IsLoad
  <2> HIDE DEF c
  <2> QED
    BY <1>1, <2>1, <2>5, <2>6, <2>7 DEF MapsInv
<1>2. ASSUME MapsInv, [Next]_vars, loaded' = "saved", outcome' # "ok", ~UNCHANGED vars
      PROVE  LoadSaved
  BY <1>2 DEF Next, LoadProgram, Save, Restart, Execute, Interrupt
<1> DEFINE Harmless ==
      loaded' = "saved" /\ outcome' # "ok" =>
        /\ UNCHANGED <<memory, romMetadata_, cpu, hlt_>>
        /\ sound => UNCHANGED ramMetadata_
<1>3. MapsInv /\ [Next]_vars => [Harmless]_vars
  BY <1>1, <1>2
<1> QED
  BY <1>3, MapsInRange, PTL DEF RefusedHarmless, Spec

-----------------------------------------------------------------------------
(* The saved states that are loaded.                                       *)

\* What the load of a saved state comes to: the checksum is compared before the
\* ram is decoded, and the ram is decoded before anything is changed.
LEMMA LoadOfSaved ==
  ASSUME MapsInv, LoadSaved
  PROVE  LET bin == RamBytes(Now, saved.json.ram.uri)
             accepted == saved.json.rom[1].bytes = Read(memory, romMetadata_) /\ bin.ok
         IN  /\ UNCHANGED <<romMetadata_, saved>>
             /\ accepted =>
                  /\ outcome' = "ok"
                  /\ ramMetadata_' = Gaps(romMetadata_)
                  /\ memory' = Fill(memory, Gaps(romMetadata_), bin.value)
                  /\ \A r \in Registers :
                       saved.json.cpu.values[r] # 0 => cpu'[r] = saved.json.cpu.values[r]
             /\ ~accepted => outcome' # "ok" /\ UNCHANGED memory
<1> DEFINE j == saved.json
           bin == RamBytes(Now, j.ram.uri)
           same == j.rom[1].bytes = Read(memory, romMetadata_)
           b == LoadBlocks(Now, j.rom)
           r == LoadRam(b, j)
           c == LoadCpu(r, j)
<1>1. IsSaved(saved)
  BY DEF LoadSaved, MapsInv
<1>2. /\ memory' = c.memory /\ romMetadata_' = c.rom /\ ramMetadata_' = c.ram
      /\ cpu' = c.cpu /\ outcome' = c.result /\ UNCHANGED saved
  BY <1>1 DEF LoadSaved, Apply, LoadMachineState, IsSaved
<1>3. IsLoad(Now) /\ IsMemory(Now.memory)
  BY DEF IsLoad, Now, MapsInv, TypeOK, IsMemory
<1>4. b = IF same THEN Now ELSE Failed(Now)
  <2>1. j.rom = <<[kind |-> "md5", bytes |-> j.rom[1].bytes]>>
    BY <1>1 DEF IsSaved
  <2>2. b \in {Now, Failed(Now)}
    BY <1>3, <2>1, ChecksumsChangeNothing
  <2>3. Fails(Now, j.rom, 1) <=> ~same
    <3>1. Data(j.rom, 0) = {}
      BY DEF Data
    <3>2. RomAfter(Now, j.rom, 0) = romMetadata_
      BY <3>1 DEF RomAfter, Now
    <3>3. MemoryAfter(Now, j.rom, 0) = memory
      <4>1. \A a : Writers(j.rom, 0, a) = {}
        BY <3>1 DEF Writers
      <4>2. MemoryAfter(Now, j.rom, 0) = [a \in Address |-> memory[a]]
        BY <4>1 DEF MemoryAfter, Now
      <4> QED
        BY <1>3, <4>2 DEF IsMemory, Now
    <3>4. j.rom[1].kind = "md5" /\ 1 - 1 = 0
      BY <2>1
    <3> QED
      BY <3>2, <3>3, <3>4 DEF Fails
  <2>4. {k \in DOMAIN j.rom : Fails(Now, j.rom, k)} = {} <=> same
    <3>1. DOMAIN j.rom = {1}
      BY <2>1
    <3> QED
      BY <2>3, <3>1
  <2>5. b.result = "ok" <=> same
    BY <2>4 DEF LoadBlocks, Failed, Now
  <2> HIDE DEF b, j
  <2> QED
    BY <2>2, <2>5 DEF Failed, Now
<1>5. /\ j.ram.kind = "uri" /\ j.cpu.kind = "registers"
      /\ DOMAIN j.cpu.values = Registers
  BY <1>1 DEF IsSaved, IsCpu
<1> HIDE DEF b, j
<1>6. CASE same /\ bin.ok
  <2>1. b = Now
    BY <1>4, <1>6
  <2>2. r = [Now EXCEPT !.ram = Gaps(romMetadata_),
                        !.memory = Fill(memory, Gaps(romMetadata_), bin.value)]
    BY <1>5, <1>6, <2>1 DEF LoadRam, Ram, Now
  <2> HIDE DEF r, bin
  <2>3. /\ r.result = "ok" /\ r.ram = Gaps(romMetadata_) /\ r.rom = romMetadata_
        /\ r.memory = Fill(memory, Gaps(romMetadata_), bin.value)
        /\ IsLoad(r)
    BY <2>2 DEF Now, IsLoad
  <2>4. /\ c.result = "ok" /\ c.ram = r.ram /\ c.rom = r.rom /\ c.memory = r.memory
        /\ \A n \in Registers : j.cpu.values[n] # 0 => c.cpu[n] = j.cpu.values[n]
    BY <1>5, <2>3 DEF LoadCpu, IsLoad
  <2> HIDE DEF c
  <2> QED
    BY <1>2, <1>6, <2>3, <2>4 DEF bin, j
<1>7. CASE ~(same /\ bin.ok)
  <2>1. r.result # "ok" /\ r.memory = memory /\ r.rom = romMetadata_
    BY <1>4, <1>5, <1>7 DEF LoadRam, Ram, Now, Failed
  <2> HIDE DEF r
  <2>2. c = r
    BY <2>1 DEF LoadCpu
  <2> HIDE DEF c
  <2> QED
    BY <1>2, <1>7, <2>1, <2>2 DEF bin, j
<1> QED
  BY <1>6, <1>7

\* No other step leaves the load of a saved state behind it.
LEMMA OnlyLoadSaved ==
  ASSUME [Next]_vars, loaded' = "saved", ~UNCHANGED vars
  PROVE  LoadSaved
BY DEF Next, LoadProgram, Save, Restart, Execute, Interrupt

\* A state that is loaded again restores what was saved.
LEMMA RoundTripStep ==
  ASSUME MapsInv, LoadSaved, outcome' = "ok"
  PROVE  RoundTrip'
<1> DEFINE gaps == Gaps(romMetadata_)
           bin == RamBytes(Now, saved.json.ram.uri)
<1> SUFFICES ASSUME saved.sound, romMetadata_ = saved.rom, ~Misread'
             PROVE  /\ \A a \in DOMAIN saved.memory : memory'[a] = saved.memory[a]
                    /\ \A r \in Registers :
                         saved.json.cpu.values[r] # 0 => cpu'[r] = saved.json.cpu.values[r]
  BY LoadOfSaved DEF RoundTrip
<1>1. IsSaved(saved) /\ IsMetadata(romMetadata_)
  BY DEF LoadSaved, MapsInv, TypeOK
<1>2. /\ saved' = saved
      /\ saved.json.rom[1].bytes = Read(memory, romMetadata_) /\ bin.ok
      /\ ramMetadata_' = gaps /\ memory' = Fill(memory, gaps, bin.value)
      /\ \A r \in Registers :
           saved.json.cpu.values[r] # 0 => cpu'[r] = saved.json.cpu.values[r]
  BY LoadOfSaved
<1>3. Read(memory, romMetadata_) = Read(saved.memory, romMetadata_)
  BY <1>1, <1>2 DEF IsSaved
<1>4. bin.value = Read(saved.memory, gaps)
  <2>1. bin.value = Rest(saved.json.ram.uri).bin /\ Len(bin.value) = Size(gaps)
    BY <1>2 DEF RamBytes, TxtToBin, Failure, Success, Ram, Now
  <2>2. saved.json.ram.uri.compressor # "none"
    BY <1>2, <2>1 DEF Misread, Rest, Plain
  <2> QED
    BY <1>1, <2>1, <2>2 DEF Rest, IsSaved
<1>5. IsMetadata(gaps) /\ Covered(romMetadata_) \cup Covered(gaps) = 0..(Top - 1)
  BY <1>1, GapsAreMetadata, GapsFill
<1>6. ASSUME NEW a \in DOMAIN saved.memory
      PROVE  memory'[a] = saved.memory[a]
  <2>1. a \in 0..(Top - 1) /\ a \in Address
    BY <1>1, TopAssumption DEF IsSaved, Address
  <2>2. CASE a \in Covered(gaps)
    <3>1. Fill(memory, gaps, Read(saved.memory, gaps))[a] = saved.memory[a]
      <4> HIDE DEF gaps
      <4> QED
        BY <1>5, <2>2, FillRestores
    <3> QED
      BY <1>2, <1>4, <3>1
  <2>3. CASE a \notin Covered(gaps)
    <3>1. a \in Covered(romMetadata_)
      BY <1>5, <2>1, <2>3
    <3>2. memory[a] = saved.memory[a]
      BY <1>1, <1>3, <3>1, SameRead
    <3>3. Fill(memory, gaps, bin.value)[a] = memory[a]
      BY <2>1, <2>3, FillMisses
    <3> QED
      BY <1>2, <3>2, <3>3
  <2> QED
    BY <2>2, <2>3
<1> QED
  BY <1>2, <1>6

\* A state that is loaded into the rom it was saved from is the state that was
\* saved, in every cell below the last address: the checksum vouches for the cells
\* of the rom, the bytes of the state restore those of the gaps, and there are no
\* others.
THEOREM RoundTripHolds == Spec => []RoundTrip
<1>1. Init => RoundTrip
  BY DEF Init, RoundTrip
<1>2. MapsInv /\ RoundTrip /\ [Next]_vars => RoundTrip'
  <2> SUFFICES ASSUME MapsInv, RoundTrip, [Next]_vars PROVE RoundTrip'
    OBVIOUS
  <2>1. CASE UNCHANGED vars
    BY <2>1 DEF RoundTrip, Misread, vars
  <2>2. CASE loaded' = "saved" /\ outcome' = "ok" /\ ~UNCHANGED vars
    BY <2>2, OnlyLoadSaved, RoundTripStep
  <2>3. CASE ~(loaded' = "saved" /\ outcome' = "ok")
    BY <2>3 DEF RoundTrip
  <2> QED
    BY <2>1, <2>2, <2>3
<1> QED
  BY <1>1, <1>2, MapsInRange, PTL DEF Spec

\* A sound state that was compressed is refused only in a machine of another rom.
LEMMA RefusalStep ==
  ASSUME MapsInv, LoadSaved
  PROVE  OnlyAlienRomRefused'
<1> DEFINE gaps == Gaps(romMetadata_)
           uri == saved.json.ram.uri
<1>1. IsSaved(saved) /\ IsMetadata(romMetadata_) /\ UNCHANGED <<romMetadata_, saved>>
  BY LoadOfSaved DEF LoadSaved, MapsInv, TypeOK
<1> SUFFICES ASSUME uri.compressor = "zlib", saved.sound, outcome' # "ok",
                    romMetadata_ = saved.rom,
                    Read(memory', romMetadata_) = saved.json.rom[1].bytes
             PROVE  FALSE
  BY <1>1 DEF OnlyAlienRomRefused, SavedStateLoads
<1>2. UNCHANGED memory
  BY LoadOfSaved
<1>3. IsMetadata(gaps)
  BY <1>1, GapsAreMetadata
<1>4. Rest(uri) = uri.txt /\ Decompressor(uri) = "zlib" /\ uri.encoder = "base64"
  BY <1>1 DEF Rest, Decompressor, IsSaved
<1>5. /\ uri.txt.zipped = TRUE
      /\ uri.txt.bin = Read(saved.memory, gaps) /\ uri.txt.bin \in Seq(Bytes)
  BY <1>1 DEF IsSaved
<1>6. Len(uri.txt.bin) = Size(gaps) /\ Size(gaps) \in Nat
  <2>1. DOMAIN uri.txt.bin = 1..Size(gaps) /\ Size(gaps) \in Nat
    BY <1>3, <1>5, SizeIsNat DEF Read
  <2>2. Len(uri.txt.bin) \in Nat /\ DOMAIN uri.txt.bin = 1..Len(uri.txt.bin)
    BY <1>5
  <2> HIDE DEF gaps, uri
  <2> QED
    BY <2>1, <2>2
<1>7. RamBytes(Now, uri).ok
  <2>1. Ram(Now) = gaps
    BY DEF Ram, Now
  <2> HIDE DEF gaps, uri
  <2>2. TxtToBin(uri.encoder, Decompressor(uri), Size(gaps), Rest(uri)) = Success(uri.txt.bin)
    BY <1>4, <1>5, <1>6 DEF TxtToBin
  <2> QED
    BY <1>6, <2>1, <2>2 DEF RamBytes, Success
<1> QED
  BY <1>2, <1>7, LoadOfSaved

\* A compressed state of a soundly loaded machine is refused only by another rom:
\* the bytes it has for the ram are those the gaps of the same rom take.
THEOREM OnlyAlienRomIsRefused == Spec => []OnlyAlienRomRefused
<1>1. Init => OnlyAlienRomRefused
  BY DEF Init, OnlyAlienRomRefused
<1>2. MapsInv /\ OnlyAlienRomRefused /\ [Next]_vars => OnlyAlienRomRefused'
  <2> SUFFICES ASSUME MapsInv, OnlyAlienRomRefused, [Next]_vars PROVE OnlyAlienRomRefused'
    OBVIOUS
  <2>1. CASE UNCHANGED vars
    BY <2>1 DEF OnlyAlienRomRefused, SavedStateLoads, vars
  <2>2. CASE loaded' = "saved" /\ ~UNCHANGED vars
    BY <2>2, OnlyLoadSaved, RefusalStep
  <2>3. CASE loaded' # "saved"
    BY <2>3 DEF OnlyAlienRomRefused, SavedStateLoads
  <2> QED
    BY <2>1, <2>2, <2>3
<1> QED
  BY <1>1, <1>2, MapsInRange, PTL DEF Spec
=============================================================================
