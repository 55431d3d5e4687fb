----------------------------- MODULE DmaDeviceMC -----------------------------
(***************************************************************************)
(* Instances and properties of DmaDevice.                                  *)
(***************************************************************************)
EXTENDS DmaDevice

CONSTANT v1

\* One VM with two devices, a stream each.
OwnerPair  == <<v1, v1>>
IssuerPair == <<1, 2>>
VmOfPair   == <<v1, v1>>

\* One device, and a stream no assignment names.
OwnerOne  == <<v1, NoVm>>
IssuerOne == <<1, NoVm>>
VmOfOne   == <<v1>>

\* A quiesced device cannot reach memory: whatever the hardware has cached, no
\* transaction of its streams translates (complete_quiesce detaches, and
\* abort_stream invalidates what the table write alone would leave cached), and
\* once no stream of a VM is attached none of its translations is cached.
IsolatedWhenQuiet ==
  /\ \A s \in Streams :
       Configured(s) /\ entry[Issuer[s]].state = "Quiesced" => Reaches(s) = {}
  /\ \A v \in Vms :
       Free /\ (\A s \in StreamsOf(v) : binding[s].state # "Attached") => v \notin tlb

\* From the end of shut_down, every stream reaches its own VM's memory or
\* nothing: no bypass, no entry firmware left in a cache, no foreign context.
Protected == domain.op = "start" => domain.pc > Len(ShutDown)
ReachesOwnVm == Protected => \A s \in Streams : Reaches(s) \subseteq {OwnerOf[s]} \ {NoVm}

\* The body of an entry changes only while neither the table nor the hardware
\* holds the entry valid (install_stream, SMMUv3 3.21).
BodyUnderInvalid ==
  [][\A s \in Streams : <<ste[s].root, ste[s].gen>>' # <<ste[s].root, ste[s].gen>> =>
       ste[s].w0 = "invalid" /\ (cfg[s] = NoEntry \/ cfg[s].w0 = "invalid")]_vars

\* The interrupt of a device that runs is never left masked for good: it is
\* open, or the end of its virtual interrupt is still to come, or that end is
\* between its check and its unmask (handle_irq, handle_virtual_eoi).
LineComesBack ==
  \A d \in Lines :
    entry[d].state = "Active" /\ answer[VmOf[d]] = "Running" /\ thread[VmOf[d]].pc = "idle" =>
      line[d] = "open" \/ token[d] = entry[d].generation \/ d \in eoi[VmOf[d]]

\* A quiesce answered "pending" ends, completed or failed: the device drains or
\* the deadline of the walk isolates the VM.
QuiesceEnds == \A v \in Vms : answer[v] = "Pending" ~> (answer[v] # "Pending" \/ panicked)
\* A recorded translation fault takes the context that raised it away from its
\* stream: quarantined, or detached by a quiesce that came first.
FaultQuarantines ==
  \A s \in Streams : \A g \in 1..MaxGen :
    (\E i \in DOMAIN evq : evq[i] = <<s, "translation", g>>)
      ~> (panicked \/ ~(binding[s].state = "Attached" /\ binding[s].generation = g))
=============================================================================
