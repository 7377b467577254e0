------------------------------ MODULE Interrupts ------------------------------
(***************************************************************************)
(* Interrupt delivery, from the processor and its local APIC through the   *)
(* stubs of idt.asm to interrupt_handler and back (idt.c, idt.asm, apic.c) *)
(* while kmain boots the kernel (main.c:141-230).                          *)
(*                                                                         *)
(* The stack is a sequence whose head is its top; a word has the name of   *)
(* what was pushed and a value, 0 where it does not matter.  Registers     *)
(* hold the name of the register whose value they have.  There is one      *)
(* processor.  Exceptions and device interrupts are the environment's; a   *)
(* bound on their number, MaxRaises, keeps the model finite.               *)
(***************************************************************************)
EXTENDS Naturals, Sequences, FiniteSets

CONSTANTS
  DeviceVectors,   \* vectors devices are set up to raise
  FaultVectors,    \* exceptions the running code may raise
  MaxRaises        \* bound on interrupts and exceptions raised

TIMER    == 32     \* case 0x20 of irq_handler
SPURIOUS == 255    \* the low byte of svr in enable_apic
PAGE_FAULT == 14

(* The processor pushes an error code for these exceptions. *)
PushesErrorCode == {8, 10, 11, 12, 13, 14, 17, 21, 29, 30}

ASSUME VectorsAssumption ==
  /\ DeviceVectors \subseteq 32 .. 47
  /\ FaultVectors \subseteq 0 .. 31
  /\ MaxRaises \in Nat

------------------------------------------------------------------------------
(* idt.asm                                                                 *)

(* Which macro makes the stub of a vector. *)
isr_stub(v) ==
  IF v \in {8, 10, 11, 12, 13, 14, 17, 30} THEN "isr_err_stub"
  ELSE IF v < 48 THEN "isr_no_err_stub"
  ELSE "isr_Reserved_stub"

(* The order in which isr_common pushes the registers, and pops them. *)
PushOrder ==
  <<"rax", "rbx", "rcx", "rdx", "rsi", "rdi", "rbp",
    "r8", "r9", "r10", "r11", "r12", "r13", "r14", "r15", "ds">>
PopOrder ==
  <<"ds", "r15", "r14", "r13", "r12", "r11", "r10", "r9", "r8",
    "rbp", "rdi", "rsi", "rdx", "rcx", "rbx", "rax">>
RegisterNames == { PushOrder[i] : i \in DOMAIN PushOrder }

(* struct Registers (idt.h:22-32): its fields, from the lowest address up. *)
Registers ==
  PopOrder \o <<"vectors", "errorcode", "rip", "cs", "rflags", "rsp", "ss">>

(* Where interrupt_handler finds Reg->vectors. *)
VectorField == CHOOSE i \in DOMAIN Registers : Registers[i] = "vectors"

Word(name, val) == [name |-> name, val |-> val]

VARIABLES
  boot,         \* the call of kmain that is next
  vectors,      \* vectors[] of idt.c: descriptors installed
  IF_flag,      \* RFLAGS.IF
  irr, isr,     \* the local APIC: requested, and in service
  svr,          \* the local APIC is enabled by software
  apic_mapped,  \* g_virt_apic is set, and mapped to the APIC's registers
  tick,
  pc,           \* "kernel" or a place in the interrupt path
  vec,          \* the vector being delivered
  stack, regs,
  raises,       \* interrupts and exceptions raised so far
  faulted,      \* the running code has raised an exception
  early         \* an interrupt came before the APIC was mapped

apic == <<irr, isr, svr>>
cpu  == <<IF_flag, pc, vec, stack, regs>>
hist == <<raises, faulted, early>>
vars == <<boot, vectors, apic_mapped, tick, apic, cpu, hist>>

------------------------------------------------------------------------------
(* Mutant: trap gates (0x8F), under which IF stays as it is. *)
Enter_TrapGate(v) ==
  /\ vec' = v
  /\ pc' = "stub"
  /\ stack' = (IF v \in PushesErrorCode THEN <<Word("errorcode", 0)>> ELSE <<>>)
              \o << Word("rip", 0), Word("cs", 0), Word("rflags", IF IF_flag THEN 1 ELSE 0),
                    Word("rsp", 0), Word("ss", 0) >>
              \o stack
  /\ UNCHANGED <<regs, IF_flag>>

(* What the processor pushes when it enters a handler; the gates are       *)
(* interrupt gates (0x8E), so it clears IF.                                *)
Enter(v) ==
  /\ vec' = v
  /\ pc' = "stub"
  /\ IF_flag' = FALSE
  /\ stack' = (IF v \in PushesErrorCode THEN <<Word("errorcode", 0)>> ELSE <<>>)
              \o << Word("rip", 0), Word("cs", 0), Word("rflags", IF IF_flag THEN 1 ELSE 0),
                    Word("rsp", 0), Word("ss", 0) >>
              \o stack
  /\ UNCHANGED regs

------------------------------------------------------------------------------
(* kmain.  The boot loader enters with interrupts off; it may leave the    *)
(* local APIC enabled.                                                     *)

Init ==
  /\ boot = "responses"
  /\ vectors = {}
  /\ IF_flag = FALSE
  /\ irr = {} /\ isr = {} /\ svr \in BOOLEAN
  /\ apic_mapped = FALSE
  /\ tick = 0
  /\ pc = "kernel" /\ vec = 0 /\ stack = <<>>
  /\ regs = [r \in RegisterNames |-> r]
  /\ raises = 0 /\ faulted = FALSE /\ early = FALSE

(* hcf, if the boot loader left one of the requests unanswered. *)
CheckResponses ==
  /\ pc = "kernel" /\ boot = "responses"
  /\ boot' \in {"initGdt", "refused"}
  /\ UNCHANGED <<vectors, apic_mapped, tick, apic, cpu, hist>>

(* Calls that do not touch the interrupt path. *)
OtherCall ==
  /\ pc = "kernel"
  /\ \/ boot = "initGdt" /\ boot' = "idt_init"
     \/ boot = "buddy_init" /\ boot' = "heap_init"
     \/ boot = "heap_init" /\ boot' = "enable_apic"
     \/ boot = "init_IOAPIC" /\ boot' = "hcf"
  /\ UNCHANGED <<vectors, apic_mapped, tick, apic, cpu, hist>>

idt_init ==
  /\ pc = "kernel" /\ boot = "idt_init"
  /\ vectors' = (0 .. 48) \cup {SPURIOUS}
  /\ IF_flag' = TRUE
  /\ boot' = "buddy_init"
  /\ UNCHANGED <<apic_mapped, tick, apic, pc, vec, stack, regs, hist>>

(* enable_apic, up to the vmm_map after which the registers can be used,   *)
(* unless there was no page left for a table ...                           *)
enable_apic ==
  /\ pc = "kernel" /\ boot = "enable_apic"
  /\ apic_mapped' \in BOOLEAN
  /\ boot' = "svr"
  /\ UNCHANGED <<vectors, tick, apic, cpu, hist>>

(* ... and the write that lets interrupts in, mapped or not. *)
SvrFaults ==
  /\ pc = "kernel" /\ boot = "svr" /\ ~apic_mapped
  /\ Enter(PAGE_FAULT)
  /\ UNCHANGED <<boot, vectors, apic_mapped, tick, apic, hist>>

WriteSvr ==
  /\ pc = "kernel" /\ boot = "svr" /\ apic_mapped
  /\ svr' = TRUE
  /\ boot' = "init_IOAPIC"
  /\ UNCHANGED <<vectors, apic_mapped, tick, irr, isr, cpu, hist>>

------------------------------------------------------------------------------
(* The processor and the local APIC.                                       *)

(* A device asks for service. *)
Raise(v) ==
  /\ svr /\ raises < MaxRaises
  /\ v \notin irr
  /\ irr' = irr \cup {v}
  /\ raises' = raises + 1
  /\ UNCHANGED <<boot, vectors, apic_mapped, tick, isr, svr, cpu, faulted, early>>

Highest(S) == CHOOSE v \in S : \A w \in S : w <= v
PriorityClass(v) == v \div 16

(* The most urgent request is delivered, if nothing as urgent is in service. *)
Deliver ==
  /\ pc # "hung" /\ IF_flag /\ irr # {}
  /\ \A w \in isr : PriorityClass(w) < PriorityClass(Highest(irr))
  /\ Highest(irr) \in vectors
  /\ irr' = irr \ {Highest(irr)}
  /\ isr' = isr \cup {Highest(irr)}
  /\ Enter(Highest(irr))
  /\ early' = (early \/ ~apic_mapped)
  /\ UNCHANGED <<boot, vectors, apic_mapped, tick, svr, raises, faulted>>

(* A request withdrawn too late: the spurious vector, not put in service. *)
DeliverSpurious ==
  /\ pc # "hung" /\ IF_flag /\ svr /\ raises < MaxRaises
  /\ SPURIOUS \in vectors
  /\ Enter(SPURIOUS)
  /\ raises' = raises + 1
  /\ UNCHANGED <<boot, vectors, apic_mapped, tick, apic, faulted, early>>

(* An exception in the kernel's own code. *)
Fault(v) ==
  /\ pc = "kernel" /\ v \in vectors
  /\ raises < MaxRaises
  /\ Enter(v)
  /\ raises' = raises + 1
  /\ faulted' = TRUE
  /\ UNCHANGED <<boot, vectors, apic_mapped, tick, apic, early>>

------------------------------------------------------------------------------
(* The stubs and the handler.                                              *)

(* The stub, and isr_common up to the call. *)
isr_common ==
  /\ pc = "stub" /\ isr_stub(vec) # "isr_Reserved_stub"
  /\ stack' = [ i \in 1 .. Len(PushOrder) |->
                  LET r == PushOrder[Len(PushOrder) + 1 - i] IN Word(r, regs[r]) ]
              \o << Word("vectors", vec) >>
              \o (IF isr_stub(vec) = "isr_no_err_stub" THEN << Word("errorcode", 0) >> ELSE <<>>)
              \o stack
  /\ pc' = "handler"
  /\ UNCHANGED <<boot, vectors, apic_mapped, tick, apic, IF_flag, vec, regs, hist>>

ReservedStub ==
  /\ pc = "stub" /\ isr_stub(vec) = "isr_Reserved_stub"
  /\ pc' = "iretq"
  /\ UNCHANGED <<boot, vectors, apic_mapped, tick, apic, IF_flag, vec, stack, regs, hist>>

RegVectors == stack[VectorField].val

(* interrupt_handler runs irq_handler; C code leaves the registers changed. *)
irq_handler ==
  /\ pc = "handler" /\ RegVectors > 31 /\ RegVectors < 48
  /\ tick' = IF RegVectors = TIMER THEN tick + 1 ELSE tick
  /\ regs' = [r \in RegisterNames |-> "changed"]
  /\ pc' = "eoi"
  /\ UNCHANGED <<boot, vectors, apic_mapped, apic, IF_flag, vec, stack, hist>>

(* Mutant: only the timer is ended. *)
APIC_EOI_TimerOnly ==
  /\ pc = "eoi" /\ apic_mapped
  /\ isr' = isr \ {TIMER}
  /\ pc' = "return"
  /\ UNCHANGED <<boot, vectors, apic_mapped, tick, irr, svr, IF_flag, vec, stack, regs, hist>>

(* The write to the EOI register ends what is most urgent in service. *)
APIC_EOI ==
  /\ pc = "eoi" /\ apic_mapped
  /\ isr' = IF isr = {} THEN {} ELSE isr \ {Highest(isr)}
  /\ pc' = "return"
  /\ UNCHANGED <<boot, vectors, apic_mapped, tick, irr, svr, IF_flag, vec, stack, regs, hist>>

(* g_virt_apic is still 0: the write goes to address 0xB0. *)
EoiFaults ==
  /\ pc = "eoi" /\ ~apic_mapped
  /\ Enter(PAGE_FAULT)
  /\ UNCHANGED <<boot, vectors, apic_mapped, tick, apic, hist>>

(* Mutant: <= in place of <. *)
HandleException_OneMore ==
  /\ pc = "handler" /\ RegVectors <= 32
  /\ pc' = "hung"
  /\ IF_flag' = FALSE
  /\ UNCHANGED <<boot, vectors, apic_mapped, tick, apic, vec, stack, regs, hist>>

(* cli; hlt *)
HandleException ==
  /\ pc = "handler" /\ RegVectors < 32
  /\ pc' = "hung"
  /\ IF_flag' = FALSE
  /\ UNCHANGED <<boot, vectors, apic_mapped, tick, apic, vec, stack, regs, hist>>

(* Mutant: add rsp, 8 in place of add rsp, 16. *)
PopRegisters_OneWord ==
  /\ pc = "return"
  /\ regs' = [ r \in RegisterNames |->
                 stack[CHOOSE i \in DOMAIN PopOrder : PopOrder[i] = r].val ]
  /\ stack' = SubSeq(stack, Len(PopOrder) + 2, Len(stack))
  /\ pc' = "iretq"
  /\ UNCHANGED <<boot, vectors, apic_mapped, tick, apic, IF_flag, vec, hist>>

(* isr_common after the call: the registers, then the two words above. *)
PopRegisters ==
  /\ pc = "return"
  /\ regs' = [ r \in RegisterNames |->
                 stack[CHOOSE i \in DOMAIN PopOrder : PopOrder[i] = r].val ]
  /\ stack' = SubSeq(stack, Len(PopOrder) + 3, Len(stack))
  /\ pc' = "iretq"
  /\ UNCHANGED <<boot, vectors, apic_mapped, tick, apic, IF_flag, vec, hist>>

iretq ==
  /\ pc = "iretq"
  /\ IF_flag' = (stack[3].val = 1)
  /\ stack' = SubSeq(stack, 6, Len(stack))
  /\ pc' = "kernel"
  /\ vec' = 0
  /\ UNCHANGED <<boot, vectors, apic_mapped, tick, apic, regs, hist>>

------------------------------------------------------------------------------
(* The processor executes: what it has begun, and what is pending. *)
Execute ==
  \/ CheckResponses \/ OtherCall \/ idt_init \/ enable_apic \/ WriteSvr \/ SvrFaults
  \/ Deliver
  \/ isr_common \/ ReservedStub \/ irq_handler \/ APIC_EOI \/ EoiFaults
  \/ HandleException \/ PopRegisters \/ iretq

Environment ==
  \/ \E v \in DeviceVectors : Raise(v)
  \/ DeliverSpurious
  \/ \E v \in FaultVectors : Fault(v)

Next == Execute \/ Environment

(* The processor does not stop; nothing obliges devices to interrupt. *)
Spec == Init /\ [][Next]_vars /\ WF_vars(Execute)

------------------------------------------------------------------------------
(* Properties.                                                             *)

(* The values the variables may have. *)
TypeOK ==
  /\ boot \in {"responses", "refused", "initGdt", "idt_init", "buddy_init", "heap_init",
               "enable_apic", "svr", "init_IOAPIC", "hcf"}
  /\ vectors \subseteq 0 .. 255
  /\ IF_flag \in BOOLEAN /\ svr \in BOOLEAN /\ apic_mapped \in BOOLEAN
  /\ irr \subseteq DeviceVectors /\ isr \subseteq DeviceVectors
  /\ tick \in 0 .. MaxRaises
  /\ pc \in {"kernel", "stub", "handler", "eoi", "return", "iretq", "hung"}
  /\ vec \in 0 .. 255
  /\ \A i \in DOMAIN stack : stack[i].name \in { Registers[j] : j \in DOMAIN Registers }
  /\ regs \in [RegisterNames -> RegisterNames \cup {"changed"}]

(***************************************************************************)
(* The variables have their types, and the code that was interrupted goes  *)
(* on as if nothing had happened: whatever the stub pushed and whatever    *)
(* words the processor put there, iretq finds its five words on top, and   *)
(* the kernel has its own registers and an empty interrupt stack again.    *)
(***************************************************************************)
ContextRestored ==
  /\ TypeOK
  /\ pc = "iretq" =>
       /\ Len(stack) >= 5
       /\ [i \in 1 .. 5 |-> stack[i].name] = <<"rip", "cs", "rflags", "rsp", "ss">>
  /\ pc \in {"kernel", "iretq"} => \A r \in RegisterNames : regs[r] = r
  /\ pc = "kernel" => stack = <<>>

(***************************************************************************)
(* Every interrupt put in service is ended before the kernel goes on, and  *)
(* none interrupts another: an EOI too few would shut out all interrupts   *)
(* of its priority for ever, one too many would end somebody else's.       *)
(***************************************************************************)
EoiBalanced ==
  /\ Cardinality(isr) <= 1
  /\ pc = "kernel" => isr = {}
  /\ pc \in {"handler", "eoi"} /\ vec > 31 => isr = {vec}
  /\ pc = "kernel" /\ vectors # {} => IF_flag

(* The kernel hangs only on an exception of its own, when an interrupt     *)
(* came in the window between the sti of idt_init and the mapping of the   *)
(* APIC in enable_apic, whose EOI then faults, or on the write to an APIC  *)
(* that vmm_map could not map; and never with its boot completed, but for  *)
(* an exception.                                                           *)
HangsOnlyOnFault ==
  pc = "hung" =>
    \/ faulted
    \/ early /\ boot \in {"buddy_init", "heap_init", "enable_apic"}
    \/ boot = "svr" /\ ~apic_mapped

(* Every interrupt a device raises is delivered and ended, or the kernel   *)
(* hangs or never began: nothing is left pending by a handler that forgot  *)
(* to allow it.                                                            *)
InterruptsServed ==
  \A v \in DeviceVectors :
    (v \in irr \cup isr) ~> (v \notin irr \cup isr \/ pc = "hung" \/ boot = "refused")

(***************************************************************************)
(* The comment of idt.h:24: the fields of struct Registers are in the      *)
(* reverse order they are pushed, so each field names the word it is laid  *)
(* over.                                                                   *)
(***************************************************************************)
RegistersMatchFrame ==
  pc = "handler" =>
    \A i \in DOMAIN Registers : i <= Len(stack) /\ stack[i].name = Registers[i]
==============================================================================
