------------------------------ MODULE PartsMC --------------------------------
(***************************************************************************)
(* Parts of the system that share no state, checked one at a time: a       *)
(* behaviour picks a part of Foci and the others rest.                     *)
(***************************************************************************)
EXTENDS Telemetry, TraceRing, CommandRing, IvcRing, SmmuQueue, Watchdog, Stage2, Trap, VGicRegs, Console, DmaPolicy, Distributor, Boot

CONSTANT Foci

\* Telemetry: four spans, of which the third is refused by the payload area
\* and the fourth is the last the table has room for.
SpansOffered == <<2, 1, 3, 1>>

\* CommandRing: two declarations of opcode 1, one of no opcode, and one
\* beyond the table.
OpsDeclared == <<1, 0, 1, 2, 3>>

\* Stage2: guests, device regions and their owners.
Img(load, size, image) == [load |-> load, size |-> size, image |-> image, corrupt |-> FALSE]
Region(dev, ipa, pa, size) == [device |-> dev, ipa |-> ipa, pa |-> pa, size |-> size]
Assign(dev, vm) == [device |-> dev, vm |-> vm]
Board(guests, regions, assignments) == [guests |-> guests, regions |-> regions, assignments |-> assignments, cpuFits |-> TRUE]
Machines ==
  {Board(<<Img(4, 3, 2), Img(8, 1, 0)>>, <<Region("a", 0, 2, 2)>>, {Assign("a", 2)}),
   Board(<<Img(4, 2, 1), Img(6, 2, 1)>>, <<Region("a", 0, 1, 2), Region("b", 7, 3, 1)>>, {Assign("a", 1), Assign("b", 1), Assign("b", 2)}),
   Board(<<Img(4, 4, 0)>>, <<>>, {}),
   Board(<<Img(4, 1, 0), Img(6, 1, 0)>>, <<Region("a", 0, 1, 1), Region("b", 4, 3, 1)>>, {Assign("a", 1), Assign("b", 1)}),  \* a fourth L3 table
   Board(<<Img(4, 2, 1), Img(6, 1, 0)>>, <<Region("a", 2, 2, 1)>>, {Assign("a", 1)}),                     \* over a block
   Board(<<Img(4, 1, 0), Img(6, 1, 0)>>, <<Region("a", 6, 1, 1)>>, {Assign("a", 1)}),                     \* over the IVC page
   Board(<<Img(4, 1, 0)>>, <<Region("a", 7, 1, 2)>>, {Assign("a", 1)}),                                 \* past the address space
   Board(<<Img(4, 3, 1), Img(8, 2, 1)>>, <<>>, {}),                     \* snapshots outgrow their reservation
   Board(<<Img(4, 3, 1), Img(7, 1, 0)>>, <<>>, {}),                     \* not packed
   Board(<<Img(4, 3, 3)>>, <<>>, {}),                                 \* the image reaches the DTB
   [Board(<<Img(4, 1, 0)>>, <<>>, {}) EXCEPT !.cpuFits = FALSE]}

\* Trap: loads and stores, and what the ID registers may disclose.
Access(isv,size,sse,srt,sf,s1,w,d,ipa,va) == [isv|->isv,size|->size,sse|->sse,srt|->srt,sf|->sf,s1ptw|->s1,write|->w,dfsc|->d,ipa|->ipa,va|->va]
Decoded == {Access(TRUE, size, sse, srt, sf, FALSE, FALSE, "translation", 9, 21) : size \in {1,2,4,8}, sse \in BOOLEAN, srt \in {0, 31}, sf \in BOOLEAN}
   \cup {Access(TRUE, size, FALSE, srt, size = 8, FALSE, TRUE, "translation", 9, 21) : size \in {1,2,4,8}, srt \in {0, 31}}
GuestAccesses == Decoded \cup {Access(FALSE,1,FALSE,0,FALSE,FALSE,FALSE,"translation",9,21),
   Access(TRUE,4,FALSE,0,FALSE,TRUE,FALSE,"translation",9,21), Access(TRUE,4,FALSE,0,FALSE,FALSE,TRUE,"permission",9,21), Access(TRUE,4,FALSE,0,TRUE,FALSE,TRUE,"translation",13,1)}
Exposed == {[csv2 |-> 0, csv2_frac |-> 0, ssbs |-> 1]}

\* VGicRegs
GicWidths == [vm \in GicVms |-> IF vm = 1 THEN 2 ELSE 1]

\* DmaPolicy: a good image and what may be wrong with one.
Ram(pa, size, vmid) == [ipa |-> 4, pa |-> pa, size |-> size, vmid |-> vmid]
Own(dev, sid, vm) == [dev |-> dev, sid |-> sid, vm |-> vm]
Has(dev, sid) == [dev |-> dev, sid |-> sid]
Smmu0 == [stage2 |-> TRUE, aarch64 |-> TRUE, coherent |-> TRUE, preset |-> FALSE, granule4k |-> TRUE, output |-> 2,
          sid_bits |-> 1, queue_log2 |-> 1, vmid16 |-> FALSE]
Back(dev, reset) == [dev |-> dev, reset |-> reset, canReset |-> FALSE, calls |-> TRUE]
Cap(dev, reset) == [dev |-> dev, reset |-> reset]
Image == [smmu |-> Smmu0, guests |-> <<Ram(4, 2, 1), Ram(6, 2, 2)>>, protected |-> <<[base |-> 0, size |-> 4]>>,
          assignments |-> <<Own("a", 0, 1)>>, streams |-> <<Has("a", 0), Has("b", 1)>>,
          backends |-> <<Back("a", "quiesce")>>, capabilities |-> <<Cap("a", "quiesce")>>]
Rams == {Ram(pa, size, vmid) : pa \in {0, 3, 4, 6, 8, 14}, size \in {0, 2, 3, 4}, vmid \in {1}} 
Images ==
  {Image}
  \cup {[Image EXCEPT !.guests = <<g>> \o tail, !.protected = <<p>>] :
          g \in Rams, tail \in {<<>>, <<Ram(8, 2, 2)>>, <<Ram(2, 2, 2), Ram(4, 4, 3)>>},
          p \in {[base |-> 10, size |-> 2], [base |-> 14, size |-> 4], [base |-> 2, size |-> 2]}}
  \cup {[Image EXCEPT !.guests[2].vmid = v, !.smmu.vmid16 = w] : v \in {0, 1, 2, 5}, w \in BOOLEAN}
  \cup {[Image EXCEPT !.guests = <<>>]}
  \cup {[Image EXCEPT !.smmu = s] : s \in {[Smmu0 EXCEPT !.stage2 = FALSE], [Smmu0 EXCEPT !.preset = TRUE], [Smmu0 EXCEPT !.sid_bits = 0],
                                           [Smmu0 EXCEPT !.queue_log2 = 0], [Smmu0 EXCEPT !.output = 1]}}
  \cup {[Image EXCEPT !.assignments = as, !.streams = ds] :
          as \in UNION {[1..n -> {Own(dev, sid, vm) : dev \in {"a", "b"}, sid \in {0, 1, 2}, vm \in {1, 3}}] : n \in 0..2},
          ds \in {<<Has("a", 0), Has("b", 1)>>, <<Has("a", 0), Has("a", 1)>>, <<Has("a", 0), Has("b", 0)>>, <<Has("a", 2)>>}}
  \cup {[Image EXCEPT !.assignments = <<Own("a", 0, 1), Own("b", 1, 2)>>, !.backends = bs, !.capabilities = cs] :
          bs \in {<<Back("a", "quiesce")>>, <<Back("a", "quiesce"), Back("b", "quiesce")>>, <<Back("a", "quiesce"), Back("b", "function")>>,
                  <<Back("a", "quiesce"), Back("a", "quiesce")>>},
          cs \in {<<Cap("a", "quiesce")>>, <<Cap("a", "quiesce"), Cap("b", "quiesce")>>, <<Cap("a", "none"), Cap("b", "quiesce")>>,
                  <<Cap("a", "quiesce"), Cap("b", "quiesce"), Cap("c", "none")>>}}

\* El2Map: text, constants and the guards of two stacks behind two pages of
\* RAM; and images with more boundaries, none, or none that can be mapped.
GoodLayout == [ram_lo |-> 18, text_start |-> 20, text_end |-> 22, rodata_end |-> 24, stack_top |-> 34, ram_hi |-> 36, stack |-> 2, cores |-> 2]
Layouts ==
  {l \in [ram_lo : {0, 12, 18}, text_start : {18, 20}, text_end : {22, 24}, rodata_end : {24, 25}, stack_top : {32, 34}, ram_hi : {34, 36, 38},
           stack : {2}, cores : {1, 2}] : l.text_start < l.text_end}

\* DeviceTree: four guests, and what may be wrong with an image of one.
Cfg(autostart, cores, size, vcpus, uart, devices) ==
  [name |-> 50, autostart |-> autostart, cores |-> cores, memory |-> size, vcpus |-> vcpus, uart |-> uart, devices |-> devices]
Load(guest, pa) == [guest |-> guest, dtb |-> build_guest_dtb(guest), load_pa |-> pa, memory_size |-> guest.memory, entry |-> GuestIpaBase]
Single == Load(Cfg(FALSE, <<>>, 40, 2, TRUE, 1), 4)
FourGuests == <<Load(Cfg(FALSE, <<>>, 40, 2, TRUE, 0), 4), Load(Cfg(TRUE, <<1>>, 3, 1, FALSE, 0), 44),
                Load(Cfg(FALSE, <<2>>, 4, 1, FALSE, 1), 48), Load(Cfg(TRUE, <<0>>, 1, 1, FALSE, 0), 52)>>
Linked ==
  {<<Single>>, <<Single, Load(Cfg(FALSE, <<2, 1>>, 5, 2, TRUE, 0), 44)>>, <<>>, <<Single, Single, Single, Single, Single>>,
   <<[Single EXCEPT !.load_pa = 8]>>, <<Single, Load(Cfg(FALSE, <<>>, 5, 1, TRUE, 0), 40)>>,
   <<[Single EXCEPT !.memory_size = 41]>>, <<[Single EXCEPT !.entry = GuestIpaBase + 40]>>, <<[Single EXCEPT !.entry = GuestIpaBase - 1]>>,
   <<Load(Cfg(FALSE, <<>>, 40, 3, FALSE, 0), 4)>>, <<Load(Cfg(FALSE, <<1, 0>>, 40, 2, TRUE, 3), 4)>>}
  \cup {<<[Single EXCEPT !.dtb = SubSeq(@, 1, n)]>> : n \in 0..(Len(Single.dtb) - 1)}
  \cup {<<[Single EXCEPT !.dtb[k] = word]>> : k \in DOMAIN Single.dtb, word \in {0, 1, 2, 3, 4, 9, 11, 60, 120}}

\* Boot: a good board of three cores, and what may be wrong with one.  A GICv3
\* board has frames for cores it does not run; a GICv4 one has VLPIs between.
Frame_(aff, last, vlpis) == [aff |-> aff, last |-> last, vlpis |-> vlpis]
Vlpi == Frame_(5, TRUE, FALSE)
FramesV3 == <<Frame_(0, FALSE, FALSE), Frame_(1, FALSE, FALSE), Frame_(5, FALSE, FALSE), Frame_(2, TRUE, FALSE)>>
FramesV4 == <<Frame_(0, FALSE, TRUE), Vlpi, Frame_(1, FALSE, TRUE), Vlpi, Frame_(5, TRUE, TRUE), Vlpi>>
GoodBoard == [hz |-> [c \in 0..2 |-> 10], ctr |-> [c \in 0..2 |-> 1], gicr |-> FramesV3, affinity |-> [c \in 0..2 |-> IF c = 2 THEN 9 ELSE c],
              wakes |-> 0..2, settles |-> 0..2, answers |-> {1, 2}, contract |-> TRUE, layout |-> GoodLayout, payloads |-> FourGuests]
RealBoards ==
  {GoodBoard, [GoodBoard EXCEPT !.gicr = FramesV4], [GoodBoard EXCEPT !.affinity[2] = 3], [GoodBoard EXCEPT !.affinity[0] = 3],
   [GoodBoard EXCEPT !.wakes = {0, 1}], [GoodBoard EXCEPT !.settles = {0, 2}], [GoodBoard EXCEPT !.answers = {2}],
   [GoodBoard EXCEPT !.ctr[1] = 2], [GoodBoard EXCEPT !.hz[2] = 8], [GoodBoard EXCEPT !.contract = FALSE]}
  \cup {[GoodBoard EXCEPT !.hz = [c \in 0..2 |-> hz]] : hz \in {0, 7, 8, 9, 15, 16, 17}}
  \cup {[GoodBoard EXCEPT !.layout = l, !.contract = FALSE] : l \in Layouts}
  \cup {[GoodBoard EXCEPT !.payloads = p, !.contract = FALSE] : p \in Linked}
\* A part that rests has a small state.
BareBoard == [GoodBoard EXCEPT !.payloads = <<>>, !.contract = FALSE]
AllCores == <<<<0, 1>>, <<0, 0>>, <<1, 0>>, <<1, 1>>>>

VARIABLE focus

vars == <<focus, tlmVars, trcVars, cmdVars, ivcVars, smqVars, wdVars, s2Vars, trapVars, regVars, conVars, polVars, distVars, bootVars>>

Parts == {"telemetry", "trace", "command", "ivc", "smmu", "watchdog", "memory", "trap", "gic", "console", "policy", "spi", "boot"}

OneOf(S) == CHOOSE x \in S : TRUE

Init ==
  /\ focus \in Foci
  \* one configuration of a part that rests is enough
  /\ build \in IF focus = "telemetry" THEN Builds ELSE {OneOf(Builds)}
  /\ machine \in IF focus = "memory" THEN MemoryConfigs ELSE {OneOf(MemoryConfigs)}
  /\ spec \in IF focus = "trap" THEN CpuSpecs ELSE {OneOf(CpuSpecs)}
  /\ IF focus = "policy" THEN dmaImage \in DmaConfigs ELSE dmaImage = Image
  /\ gicd_lines \in IF focus = "spi" THEN LineBanks ELSE {OneOf(LineBanks)}
  /\ IF focus = "boot" THEN bd \in BootBoards ELSE bd = BareBoard
  /\ TlmInit /\ TrcInit /\ CmdInit /\ IvcInit /\ SmqInit /\ WdInit /\ S2Init /\ TrapInit /\ RegInit
  /\ ConInit /\ PolBegins /\ DistInit /\ BootBegins

Others(own) ==
  /\ focus' = focus
  /\ \A c \in Parts \ {own} :
       CASE c = "telemetry" -> UNCHANGED tlmVars
         [] c = "trace" -> UNCHANGED trcVars
         [] c = "command" -> UNCHANGED cmdVars
         [] c = "ivc" -> UNCHANGED ivcVars
         [] c = "smmu" -> UNCHANGED smqVars
         [] c = "watchdog" -> UNCHANGED wdVars
         [] c = "memory" -> UNCHANGED s2Vars
         [] c = "trap" -> UNCHANGED trapVars
         [] c = "gic" -> UNCHANGED regVars
         [] c = "console" -> UNCHANGED conVars
         [] c = "policy" -> UNCHANGED polVars
         [] c = "spi" -> UNCHANGED distVars
         [] c = "boot" -> UNCHANGED bootVars

Next ==
  \/ focus = "telemetry" /\ TlmNext /\ Others("telemetry")
  \/ focus = "trace" /\ TrcNext /\ Others("trace")
  \/ focus = "command" /\ CmdNext /\ Others("command")
  \/ focus = "ivc" /\ IvcNext /\ Others("ivc")
  \/ focus = "smmu" /\ SmqNext /\ Others("smmu")
  \/ focus = "watchdog" /\ WdNext /\ Others("watchdog")
  \/ focus = "memory" /\ S2Next /\ Others("memory")
  \/ focus = "trap" /\ TrapNext /\ Others("trap")
  \/ focus = "gic" /\ RegNext /\ Others("gic")
  \/ focus = "console" /\ ConNext /\ Others("console")
  \/ focus = "policy" /\ PolNext /\ Others("policy")
  \/ focus = "spi" /\ DistNext /\ Others("spi")
  \/ focus = "boot" /\ BootNext /\ Others("boot")

Spec == Init /\ [][Next]_vars
=============================================================================
