------------------------------- MODULE DeviceTree ------------------------------
(***************************************************************************)
(* What EL2 knows of its guests: the flattened device tree the image       *)
(* builder writes for each (novakit/image/dtb.py), the walk that reads it  *)
(* back at boot (dtb_parser/fdt_model.hpp), and the guest table made of    *)
(* the result (projects/common/guest_config.cpp).                          *)
(*                                                                         *)
(* A blob is a sequence of words; offsets and lengths count words.  A name *)
(* and its NUL take one word, so any word can be read as a name; the name  *)
(* of a node with a unit address is ten times the bare name, plus a unit.  *)
(***************************************************************************)
EXTENDS Integers, Sequences, FiniteSets, SequencesExt

CONSTANTS
  WordTop,        \* 2^32
  ByteTop,        \* 2^8
  GuestIpaBase,   \* NOVA_GUEST_IPA_BASE
  GuestDtbSize,   \* NOVA_GUEST_DTB_SIZE
  FirstPa,        \* kGuestPaBase
  PaAlign,        \* NOVA_GUEST_PA_ALIGN
  MaxGuests,      \* kMaxGuests
  AffinityCap,    \* what GuestInfo has room for
  DefaultCores    \* kAffinity: for each guest, the cores of its vCPUs

kMagic == 77
kVersion == 17
HeaderWords == 10
kTokBeginNode == 1
kTokEndNode == 2
kTokProp == 3
kTokNop == 4
kTokEnd == 9
kMaxVcpusPerVm == 2

Names == [root |-> 10, memory |-> 11, cpus |-> 12, cpu |-> 13, uart |-> 14, chosen |-> 15, device |-> 16,
          reg |-> 20, autostart |-> 21, affinity |-> 22, compatible |-> 23]
Unit(name, n) == (10 * name) + n

------------------------------------------------------------------------------
(* FdtWriter and build_guest_dtb.                                           *)

\* The strings block: the names of properties.
StringBlock == <<Names.compatible, Names.autostart, Names.affinity, Names.reg>>
StringOffset(name) == (CHOOSE i \in DOMAIN StringBlock : StringBlock[i] = name) - 1

Prop(name, data) == <<kTokProp, Len(data), StringOffset(name)>> \o data
Node(name, body) == <<kTokBeginNode, name>> \o body \o <<kTokEndNode>>
U64(n) == <<n \div WordTop, n % WordTop>>

\* The tree of a guest, as far as the parser goes by it.
GuestTree(g) ==
  Node(Names.root,
       Prop(Names.compatible, <<g.name>>)
       \o (IF g.autostart THEN Prop(Names.autostart, <<>>) ELSE <<>>)
       \o (IF g.cores # <<>> THEN Prop(Names.affinity, g.cores) ELSE <<>>)
       \o Node(Unit(Names.memory, 5), Prop(Names.reg, U64(GuestIpaBase) \o U64(g.memory)))
       \o Node(Names.cpus, FlattenSeq([n \in 1..g.vcpus |-> Node(Unit(Names.cpu, n - 1), Prop(Names.reg, <<n - 1>>))]))
       \o (IF g.uart THEN Node(Unit(Names.uart, 9), Prop(Names.reg, U64(9) \o U64(1))) ELSE <<>>)
       \o FlattenSeq([n \in 1..g.devices |-> Node(Unit(Names.device, n), Prop(Names.reg, U64(n) \o U64(1)))])
       \o Node(Names.chosen, <<>>))

build_guest_dtb(g) ==
  LET structs == GuestTree(g) \o <<kTokEnd>>
      at == HeaderWords + 4
      total == at + Len(structs) + Len(StringBlock)
  IN <<kMagic, total, at, at + Len(structs), HeaderWords, kVersion, 16, 0, Len(StringBlock), Len(structs)>>
     \o <<0, 0, 0, 0>> \o structs \o StringBlock

------------------------------------------------------------------------------
(* The walker.  Nothing past the end of a block is read: a word there is 0. *)

be32(b, off) == IF off + 1 > Len(b) THEN 0 ELSE b[off + 1]
be64(b, off) == (be32(b, off) * WordTop) + be32(b, off + 1)

NoView == [ok |-> FALSE, structs |-> <<>>, strings |-> <<>>]
make_view(blob) ==
  LET total == be32(blob, 1)  off_struct == be32(blob, 2)   off_strings == be32(blob, 3)
      size_str == be32(blob, 8)  size_struct == be32(blob, 9)
  IN IF \/ Len(blob) < HeaderWords \/ be32(blob, 0) # kMagic
        \/ be32(blob, 5) < kVersion \/ be32(blob, 6) > kVersion \/ total > Len(blob)
        \/ off_struct + size_struct > total \/ off_strings + size_str > total
     THEN NoView
     ELSE [ok |-> TRUE, structs |-> SubSeq(blob, off_struct + 1, off_struct + size_struct),
                        strings |-> SubSeq(blob, off_strings + 1, off_strings + size_str)]

\* A name that runs to the end of the block is none.
Overrun == -1
read_string(block, off) == IF off + 1 > Len(block) THEN Overrun ELSE block[off + 1]

\* The token after this one, or the end of the block.
skip_token(structs, off) ==
  LET tok == be32(structs, off) IN
  CASE tok = kTokBeginNode -> IF read_string(structs, off + 1) = Overrun THEN Len(structs) ELSE off + 2
    [] tok = kTokProp -> off + 3 + be32(structs, off + 1)
    [] tok \in {kTokEndNode, kTokNop} -> off + 1
    [] OTHER -> Len(structs)

name_matches(node_name, name) == node_name = name \/ node_name \div 10 = name

\* for_each_child: the nodes one level below, to the end of this one.
Children(v, node) ==
  LET from[off \in Nat, depth \in Nat] ==
        LET tok == be32(v.structs, off)
            next == skip_token(v.structs, off)
        IN IF off >= Len(v.structs) \/ tok = kTokEnd \/ (tok = kTokEndNode /\ depth = 0) THEN <<>>
           ELSE IF tok = kTokBeginNode THEN (IF depth = 0 THEN <<off>> ELSE <<>>) \o from[next, depth + 1]
           ELSE from[next, IF tok = kTokEndNode THEN depth - 1 ELSE depth]
  IN IF be32(v.structs, node) # kTokBeginNode THEN <<>> ELSE from[skip_token(v.structs, node), 0]

NamedChildren(v, node, name) == SelectSeq(Children(v, node), LAMBDA off : name_matches(read_string(v.structs, off + 1), name))
count_children(v, node, name) == Len(NamedChildren(v, node, name))

NoProp == [ok |-> FALSE, data |-> <<>>]
find_prop(v, node, name) ==
  LET from[off \in Nat] ==
        LET tok == be32(v.structs, off)
            len == be32(v.structs, off + 1)
        IN IF off >= Len(v.structs) \/ tok \notin {kTokProp, kTokNop} THEN NoProp
           ELSE IF tok = kTokNop THEN from[skip_token(v.structs, off)]
           ELSE IF off + 3 + len > Len(v.structs) THEN NoProp
           ELSE IF read_string(v.strings, be32(v.structs, off + 2)) = name
           THEN [ok |-> TRUE, data |-> SubSeq(v.structs, off + 4, off + 3 + len)]
           ELSE from[skip_token(v.structs, off)]
  IN IF be32(v.structs, node) # kTokBeginNode THEN NoProp ELSE from[skip_token(v.structs, node)]

kRootNode == 0
NoInfo == [ok |-> FALSE, mem_base |-> 0, mem_size |-> 0, cpus |-> 0, has_uart |-> FALSE, autostart |-> FALSE, affinity |-> <<>>]

\* An affinity that does not name every vCPU, or too many, counts for nothing.
parse_guest(blob) ==
  LET v == make_view(blob)
      mem == NamedChildren(v, kRootNode, Names.memory)
      cpus == NamedChildren(v, kRootNode, Names.cpus)
      reg == find_prop(v, mem[1], Names.reg)
      n == count_children(v, cpus[1], Names.cpu)
      aff == find_prop(v, kRootNode, Names.affinity)
  IN IF ~v.ok \/ mem = <<>> \/ cpus = <<>> THEN NoInfo
     ELSE IF ~reg.ok \/ Len(reg.data) < 4 THEN NoInfo
     ELSE [ok |-> n > 0 /\ be64(reg.data, 2) > 0,
           mem_base |-> be64(reg.data, 0), mem_size |-> be64(reg.data, 2), cpus |-> n,
           has_uart |-> NamedChildren(v, kRootNode, Names.uart) # <<>>,
           autostart |-> find_prop(v, kRootNode, Names.autostart).ok,
           affinity |-> IF aff.ok /\ Len(aff.data) = n /\ n <= AffinityCap THEN [i \in 1..n |-> aff.data[i] % ByteTop] ELSE <<>>]

------------------------------------------------------------------------------
(* init_guest_table, over the payloads linked into the image.               *)

align_up_pa(pa) == ((pa + PaAlign - 1) \div PaAlign) * PaAlign

\* One guest is refused, and the machine with it, when its tree, its window
\* and its payload do not say the same.
Accepted(payload, info, load_pa) ==
  /\ info.ok /\ info.cpus <= kMaxVcpusPerVm /\ info.mem_base = GuestIpaBase
  /\ Len(payload.dtb) <= GuestDtbSize
  /\ payload.load_pa = load_pa /\ payload.memory_size = info.mem_size
  /\ GuestIpaBase <= payload.entry /\ payload.entry < GuestIpaBase + info.mem_size

Descriptor_(i, payload, info) ==
  [ipa_size |-> info.mem_size, load_pa |-> payload.load_pa, entry_pc |-> payload.entry, vmid |-> i, vcpus |-> info.cpus,
   cpu |-> [v \in 1..kMaxVcpusPerVm |-> IF v <= Len(info.affinity) THEN info.affinity[v] ELSE DefaultCores[i][v]],
   uart |-> info.has_uart, auto_start |-> info.autostart]

\* The table, or none when a payload is refused.
init_guest_table(payloads) ==
  LET infos == [i \in DOMAIN payloads |-> parse_guest(payloads[i].dtb)]
      load[i \in DOMAIN payloads] == IF i = 1 THEN FirstPa ELSE align_up_pa(load[i - 1] + infos[i - 1].mem_size)
  IN IF Len(payloads) \in 1..MaxGuests /\ \A i \in DOMAIN payloads : Accepted(payloads[i], infos[i], load[i])
     THEN [i \in DOMAIN payloads |-> Descriptor_(i, payloads[i], infos[i])] ELSE <<>>

------------------------------------------------------------------------------
(* What the builder meant.                                                  *)

Says(g) == [ok |-> TRUE, mem_base |-> GuestIpaBase, mem_size |-> g.memory, cpus |-> g.vcpus, has_uart |-> g.uart,
            autostart |-> g.autostart, affinity |-> g.cores]

\* A tree reads back as the guest it was written for.
ReadsBack(g) == parse_guest(build_guest_dtb(g)) = Says(g)
=============================================================================
