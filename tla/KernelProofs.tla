---------------------------- MODULE KernelProofs ----------------------------
(***************************************************************************)
(* Proofs about module Kernel, for every set of lines and of exceptions.   *)
(***************************************************************************)
EXTENDS Kernel, SequenceTheorems, TLAPS

\* kmain's steps before the tables are loaded, and after interrupts are on.
Early == {"magic", "paging", "gdt", "idt"}
Late == {"acpi", "shell", "hang"}

\* The drivers that have registered before a step of kmain.
Registered(s) ==
  IF s = "rtc" THEN {IRQ0}
  ELSE IF s = "keyboard" THEN {IRQ0, IRQ0 + 8}
  ELSE IF s = "mouse" THEN {IRQ0, IRQ0 + 8, IRQ0 + 1}
  ELSE IF s \in {"sti", "acpi", "shell", "hang"}
  THEN {IRQ0, IRQ0 + 8, IRQ0 + 1, IRQ0 + 12}
  ELSE {}

\* The gates are there once the tables are, and all at once; a reset is early.
GatesSet ==
  /\ step \in Steps
  /\ cpu = "reset" => idt = {} /\ ~iflag
  /\ cpu # "reset" => idt = IF step \in Early THEN {} ELSE Gates

\* One interrupt in progress: a frame that has a gate; an interrupt of a line,
\* or one that came with interrupts on, is the outermost, after sti.
FrameOK(e, i, s) ==
  /\ e.vector \in Gates
  /\ e.kind = "irq" \/ e.iflag => i = 1 /\ s \in Late

FramesInv ==
  /\ frames \in Seq([kind : {"irq", "isr", "open"}, vector : Gates, iflag : BOOLEAN])
  /\ \A i \in 1 .. Len(frames) : FrameOK(frames[i], i, step)

\* Interrupts are off until sti, and in every handler.
OffUntilSti ==
  /\ iflag \in BOOLEAN
  /\ iflag => step \in Late /\ frames = <<>>

\* Each controller has at most the line of the outermost interrupt in service,
\* and the slave only for a vector of its own.
InService ==
  \/ master = {} /\ slave = {}
  \/ /\ frames # <<>> /\ frames[1].kind = "irq"
     /\ \E m \in Int : master \subseteq {m}
     /\ \E m \in Int : slave \subseteq {m}
     /\ frames[1].vector < PIC_SLAVE_IRQ_START => slave = {}

KernelInv ==
  /\ GatesSet
  /\ FramesInv
  /\ OffUntilSti
  /\ InService
  /\ Registered(step) \subseteq handlers

-----------------------------------------------------------------------------
\* Every vector that hardware can ask for has a gate.
LEMMA HasGate ==
  /\ \A n \in Lines : Vector(n) \in Gates
  /\ \A v \in Exceptions : v \in Gates
  /\ Vector(7) \in Gates /\ Vector(15) \in Gates /\ ISR_SYSCALL \in Gates
<1>1. \A n \in 0 .. 15 : Vector(n) \in Gates
  BY DEF Gates
<1>2. Lines \subseteq 0 .. 15
  BY LinesAssumption
<1> QED BY <1>1, <1>2, ExceptionsAssumption DEF Gates

\* One end of interrupt clears a controller with one line in service.
LEMMA EoiClears ==
  ASSUME NEW service, NEW m \in Int, service \subseteq {m}
  PROVE  Eoi(service) = {}
<1>1. \A n, k \in service : ~(k < n)
  OBVIOUS
<1> QED BY <1>1 DEF Eoi

LEMMA GatesAreInts == \A v \in Gates : v \in Int
BY DEF Gates, Vector, IRQ0, ISR_SYSCALL

LEMMA InitKernel ==
  ASSUME Init
  PROVE  KernelInv
<1>1. GatesSet /\ OffUntilSti /\ InService /\ Registered(step) \subseteq handlers
  BY DEF Init, GatesSet, OffUntilSti, InService, Registered, Early, Steps
<1>2. FramesInv
  BY DEF Init, FramesInv
<1> QED BY <1>1, <1>2 DEF KernelInv

\* The frame that an interrupt pushes keeps what the frames promise.
LEMMA PushFrame ==
  ASSUME KernelInv, NEW v \in Gates, NEW kind \in {"irq", "isr", "open"},
         idt = Gates, Enter(v, kind),
         step' \in Steps, step \in Late => step' \in Late,
         kind = "irq" => iflag
  PROVE  /\ FramesInv' /\ OffUntilSti' /\ cpu' = cpu
         /\ Len(frames') > 0
         /\ frames # <<>> => frames'[1] = frames[1]
         /\ frames = <<>> => frames'[1].kind = kind /\ frames'[1].vector = v
<1> DEFINE e == [kind |-> kind, vector |-> v, iflag |-> iflag]
           F == [kind : {"irq", "isr", "open"}, vector : Gates, iflag : BOOLEAN]
<1>1. frames' = Append(frames, e) /\ iflag' = FALSE /\ cpu' = cpu
  BY DEF Enter
<1>2. e \in F /\ frames \in Seq(F)
  BY DEF KernelInv, OffUntilSti, FramesInv
<1>3. e.vector = v /\ e.kind = kind /\ e.iflag = iflag
  OBVIOUS
<1>4. iflag => step \in Late /\ frames = <<>>
  BY DEF KernelInv, OffUntilSti
<1>5. \A i \in 1 .. Len(frames) : FrameOK(frames[i], i, step)
  BY DEF KernelInv, FramesInv
<1> HIDE DEF e, F
<1>6. /\ frames' \in Seq(F) /\ Len(frames') = Len(frames) + 1
      /\ frames'[Len(frames) + 1] = e
      /\ \A i \in 1 .. Len(frames) : frames'[i] = frames[i]
      /\ Len(frames) \in Nat /\ (frames = <<>> <=> Len(frames) = 0)
  BY <1>1, <1>2
<1>7. ASSUME NEW i \in 1 .. Len(frames')
      PROVE  FrameOK(frames'[i], i, step')
  <2>1. CASE i = Len(frames) + 1
    <3>1. e.vector \in Gates /\ (e.kind = "irq" => e.iflag)
      BY <1>3
    <3>2. e.iflag => i = 1 /\ step' \in Late
      BY <1>3, <1>4, <1>6, <2>1
    <3> QED BY <1>6, <2>1, <3>1, <3>2 DEF FrameOK
  <2>2. CASE i # Len(frames) + 1
    <3>1. i \in 1 .. Len(frames)
      BY <1>6, <2>2
    <3> QED BY <1>5, <1>6, <3>1 DEF FrameOK
  <2> QED BY <2>1, <2>2
<1>8. FramesInv'
  BY <1>6, <1>7 DEF FramesInv, F
<1>9. OffUntilSti'
  BY <1>1 DEF OffUntilSti
<1>10. /\ frames # <<>> => frames'[1] = frames[1]
       /\ frames = <<>> => frames'[1] = e
  BY <1>6
<1> QED BY <1>1, <1>3, <1>6, <1>8, <1>9, <1>10

\* In handlers interrupts are off, so one comes only from main.
LEMMA FromMain ==
  ASSUME KernelInv, iflag, Alive
  PROVE  /\ step \in Late /\ frames = <<>> /\ idt = Gates
         /\ master = {} /\ slave = {}
BY DEF KernelInv, OffUntilSti, GatesSet, InService, Alive, Early, Late

\* An interrupt in the shell or after it.
LEMMA InterruptKernel ==
  ASSUME KernelInv, NEW n \in Lines, Interrupt(n)
  PROVE  KernelInv'
<1>1. iflag /\ Alive
  BY DEF Interrupt
<1>2. step \in Late /\ frames = <<>> /\ idt = Gates /\ master = {} /\ slave = {}
  BY <1>1, FromMain
<1>3. Vector(n) \in Gates
  BY HasGate
<1>4. UNCHANGED <<step, idt, handlers>> /\ step \in Steps
  BY DEF Interrupt, tables, KernelInv, GatesSet
<1>5. Enter(Vector(n), "irq")
  BY DEF Interrupt
<1>6. /\ FramesInv' /\ OffUntilSti' /\ cpu' = cpu
      /\ Len(frames') > 0 /\ frames'[1].kind = "irq" /\ frames'[1].vector = Vector(n)
  BY <1>1, <1>2, <1>3, <1>4, <1>5, PushFrame
<1>7. n \in 0 .. 15 /\ MasterLine(n) \in Int
  BY LinesAssumption DEF MasterLine
<1>8. master' \subseteq {MasterLine(n)} /\ slave' \subseteq {n}
  BY <1>2 DEF Interrupt
<1>9. Vector(n) < PIC_SLAVE_IRQ_START => slave' = {}
  <2>1. Vector(n) < PIC_SLAVE_IRQ_START => ~(n >= 8)
    BY <1>7 DEF Vector, IRQ0, PIC_SLAVE_IRQ_START
  <2> QED BY <1>2, <2>1 DEF Interrupt
<1>10. frames' # <<>>
  BY <1>6
<1>11. InService'
  <2>1. (\E m \in Int : master \subseteq {m})'
    BY <1>7, <1>8
  <2>2. (\E m \in Int : slave \subseteq {m})'
    BY <1>7, <1>8
  <2> QED BY <1>6, <1>9, <1>10, <2>1, <2>2 DEF InService
<1>12. GatesSet'
  BY <1>1, <1>2, <1>4, <1>6 DEF GatesSet, Alive, KernelInv
<1> QED BY <1>4, <1>6, <1>11, <1>12 DEF KernelInv

\* A spurious interrupt takes nothing into service but the cascade.
LEMMA SpuriousKernel ==
  ASSUME KernelInv, NEW n \in {7, 15}, Spurious(n)
  PROVE  KernelInv'
<1>1. iflag /\ Alive
  BY DEF Spurious
<1>2. step \in Late /\ frames = <<>> /\ idt = Gates /\ master = {} /\ slave = {}
  BY <1>1, FromMain
<1>3. Vector(n) \in Gates
  BY HasGate
<1>4. UNCHANGED <<step, idt, handlers>> /\ step \in Steps
  BY DEF Spurious, tables, KernelInv, GatesSet
<1>5. Enter(Vector(n), "irq")
  BY DEF Spurious
<1>6. /\ FramesInv' /\ OffUntilSti' /\ cpu' = cpu
      /\ Len(frames') > 0 /\ frames'[1].kind = "irq" /\ frames'[1].vector = Vector(n)
  BY <1>1, <1>2, <1>3, <1>4, <1>5, PushFrame
<1>7. master' \subseteq {2} /\ slave' = {}
  BY <1>2 DEF Spurious
<1>8. frames' # <<>>
  BY <1>6
<1>9. InService'
  <2>1. (\E m \in Int : master \subseteq {m})' /\ (\E m \in Int : slave \subseteq {m})'
    BY <1>7
  <2> QED BY <1>6, <1>7, <1>8, <2>1 DEF InService
<1>10. GatesSet'
  BY <1>1, <1>2, <1>4, <1>6 DEF GatesSet, Alive, KernelInv
<1> QED BY <1>4, <1>6, <1>9, <1>10 DEF KernelInv

\* What is in service stays with the outermost frame when another is pushed.
LEMMA PushInService ==
  ASSUME InService, frames # <<>> => frames'[1] = frames[1], Len(frames') > 0,
         UNCHANGED <<master, slave>>
  PROVE  InService'
<1>1. frames' # <<>>
  OBVIOUS
<1> QED BY <1>1 DEF InService

\* An exception at any time: before the tables are loaded it resets.
LEMMA ExceptionKernel ==
  ASSUME KernelInv, NEW v \in Exceptions, Exception(v)
  PROVE  KernelInv'
<1>1. v \in Gates
  BY HasGate
<1>2. UNCHANGED <<step, idt, handlers, master, slave>> /\ step \in Steps
  BY DEF Exception, tables, pic, KernelInv, GatesSet
<1>3. Enter(v, "isr") /\ Alive
  BY DEF Exception
<1>4. CASE step \in Early
  <2>1. idt = {} /\ ~iflag
    BY <1>3, <1>4 DEF KernelInv, GatesSet, OffUntilSti, Alive, Early, Late
  <2>2. cpu' = "reset" /\ UNCHANGED <<frames, iflag>>
    BY <1>3, <2>1 DEF Enter
  <2>3. FramesInv' /\ OffUntilSti' /\ InService'
    BY <1>2, <2>2 DEF KernelInv, FramesInv, OffUntilSti, InService
  <2>4. GatesSet'
    BY <1>2, <2>1, <2>2 DEF GatesSet
  <2> QED BY <1>2, <2>3, <2>4 DEF KernelInv
<1>5. CASE step \notin Early
  <2>1. idt = Gates
    BY <1>3, <1>5 DEF KernelInv, GatesSet, Alive
  <2>2. /\ FramesInv' /\ OffUntilSti' /\ cpu' = cpu
        /\ Len(frames') > 0 /\ (frames # <<>> => frames'[1] = frames[1])
    BY <1>1, <1>2, <1>3, <2>1, PushFrame
  <2>3. InService'
    BY <1>2, <2>2, PushInService DEF KernelInv
  <2>4. GatesSet'
    BY <1>2, <1>3, <1>5, <2>1, <2>2 DEF GatesSet, Alive
  <2> QED BY <1>2, <2>2, <2>3, <2>4 DEF KernelInv
<1> QED BY <1>4, <1>5

LEMMA OpenKernel ==
  ASSUME KernelInv, open
  PROVE  KernelInv'
<1>1. step = "open" /\ step' = "pit" /\ cpu = "run"
  BY DEF open, At
<1>2. UNCHANGED <<idt, handlers, master, slave>>
  BY DEF open, tables, pic
<1>3. idt = Gates
  BY <1>1 DEF KernelInv, GatesSet, Early
<1>4. step' \in Steps /\ step' \notin Early /\ step \notin Late
  BY <1>1 DEF Steps, Early, Late
<1>5. Enter(ISR_SYSCALL, "open") /\ ISR_SYSCALL \in Gates
  BY HasGate DEF open
<1>6. /\ FramesInv' /\ OffUntilSti' /\ cpu' = cpu
      /\ Len(frames') > 0 /\ (frames # <<>> => frames'[1] = frames[1])
  BY <1>3, <1>4, <1>5, PushFrame
<1>7. InService'
  BY <1>2, <1>6, PushInService DEF KernelInv
<1>8. GatesSet'
  BY <1>1, <1>2, <1>3, <1>4, <1>6 DEF GatesSet
<1>9. Registered(step') \subseteq handlers'
  BY <1>1 DEF Registered
<1> QED BY <1>6, <1>7, <1>8, <1>9 DEF KernelInv

\* A handler's return: the frames without the innermost, and its flag.
LEMMA PopFrame ==
  ASSUME KernelInv, frames # <<>>, Return, UNCHANGED step
  PROVE  /\ FramesInv' /\ OffUntilSti'
         /\ Len(frames) > 1 => frames' # <<>> /\ frames'[1] = frames[1]
         /\ Len(frames) = 1 => frames' = <<>> /\ Top = frames[1]
         /\ Len(frames) > 1 \/ Len(frames) = 1
         /\ Top.vector \in Gates
         /\ Top.kind = "irq" => Len(frames) = 1
<1> DEFINE F == [kind : {"irq", "isr", "open"}, vector : Gates, iflag : BOOLEAN]
           n == Len(frames)
<1>1. frames \in Seq(F)
  BY DEF KernelInv, FramesInv
<1> HIDE DEF F
<1>2. n \in Nat /\ n > 0
  BY <1>1
<1> HIDE DEF n
<1>2a. n > 1 \/ n = 1
  BY <1>2
<1>3. \A i \in 1 .. n : FrameOK(frames[i], i, step)
  BY DEF KernelInv, FramesInv, n
<1>4. frames' = SubSeq(frames, 1, n - 1) /\ iflag' = frames[n].iflag
  BY DEF Return, ReturnFlag, Popped, Top, n
<1>5. /\ frames' \in Seq(F) /\ Len(frames') = n - 1
      /\ \A i \in 1 .. n - 1 : frames'[i] = frames[i]
  <2>1. n - 1 \in Int /\ 1 \in Int /\ (\A i \in 1 .. n - 1 : frames[i] \in F)
    BY <1>1, <1>2 DEF n
  <2>2. /\ SubSeq(frames, 1, n - 1) \in Seq(F)
        /\ Len(SubSeq(frames, 1, n - 1)) = IF 1 <= n - 1 THEN (n - 1) - 1 + 1 ELSE 0
        /\ \A i \in 1 .. (n - 1) - 1 + 1 : SubSeq(frames, 1, n - 1)[i] = frames[1 + i - 1]
    BY <2>1, SubSeqProperties
  <2>3. Len(SubSeq(frames, 1, n - 1)) = n - 1
    BY <1>2, <2>2
  <2>4. \A i \in 1 .. n - 1 : SubSeq(frames, 1, n - 1)[i] = frames[i]
    BY <1>2, <2>2
  <2> QED BY <1>4, <2>2, <2>3, <2>4
<1>6. \A i \in 1 .. Len(frames') : FrameOK(frames'[i], i, step')
  BY <1>2, <1>3, <1>5
<1>7. FramesInv'
  BY <1>5, <1>6 DEF FramesInv, F
<1>8. FrameOK(frames[n], n, step) /\ frames[n] \in F
  BY <1>1, <1>2, <1>3 DEF n
<1>9. frames[n].iflag \in BOOLEAN
  BY <1>8 DEF F
<1>10. frames[n].vector \in Gates
  BY <1>8 DEF FrameOK
<1>11. frames[n].kind = "irq" \/ frames[n].iflag => n = 1 /\ step \in Late
  BY <1>8 DEF FrameOK
<1>12. n = 1 => frames' = <<>>
  BY <1>5
<1>13. OffUntilSti'
  BY <1>4, <1>9, <1>11, <1>12 DEF OffUntilSti
<1>14. n > 1 => frames' # <<>> /\ frames'[1] = frames[1]
  BY <1>2, <1>5
<1> QED BY <1>7, <1>10, <1>11, <1>12, <1>13, <1>14, <1>2a DEF Top, n

\* An end of interrupt at each controller ends what its handler's interrupt
\* took into service.
LEMMA IrqHandlerKernel ==
  ASSUME KernelInv, irq_handler
  PROVE  KernelInv'
<1>1. /\ frames # <<>> /\ Top.kind = "irq" /\ Return
      /\ UNCHANGED <<step, cpu, idt, handlers>> /\ Alive
  BY DEF irq_handler, InHandler, Top, tables
<1>2. /\ FramesInv' /\ OffUntilSti' /\ Len(frames) = 1
      /\ frames' = <<>> /\ Top = frames[1] /\ Top.vector \in Gates
  BY <1>1, PopFrame
<1>3. /\ \E m \in Int : master \subseteq {m}
      /\ \E m \in Int : slave \subseteq {m}
      /\ Top.vector < PIC_SLAVE_IRQ_START => slave = {}
  BY <1>2 DEF KernelInv, InService
<1>4. master' = {}
  BY <1>3, EoiClears DEF irq_handler
<1>5. slave' = {}
  <2>1. CASE Top.vector >= PIC_SLAVE_IRQ_START
    BY <1>3, <2>1, EoiClears DEF irq_handler
  <2>2. CASE ~(Top.vector >= PIC_SLAVE_IRQ_START)
    <3>1. Top.vector \in Int
      BY <1>2, GatesAreInts
    <3>2. Top.vector < PIC_SLAVE_IRQ_START
      BY <2>2, <3>1 DEF PIC_SLAVE_IRQ_START
    <3> QED BY <1>3, <2>2, <3>2 DEF irq_handler
  <2> QED BY <2>1, <2>2
<1>6. InService'
  BY <1>4, <1>5 DEF InService
<1>7. GatesSet'
  BY <1>1 DEF KernelInv, GatesSet, Alive
<1> QED BY <1>1, <1>2, <1>6, <1>7 DEF KernelInv

LEMMA IsrHandlerKernel ==
  ASSUME KernelInv, isr_handler
  PROVE  KernelInv'
<1>1. /\ frames # <<>> /\ Top.kind \in {"isr", "open"} /\ Alive
      /\ UNCHANGED <<step, idt, handlers, master, slave>>
  BY DEF isr_handler, InHandler, Top, pic
<1>2. CASE Return /\ UNCHANGED cpu
  <2>1. /\ FramesInv' /\ OffUntilSti'
        /\ Len(frames) > 1 => frames' # <<>> /\ frames'[1] = frames[1]
        /\ Len(frames) = 1 => frames' = <<>> /\ Top = frames[1]
    BY <1>1, <1>2, PopFrame
  <2>3. Len(frames) > 1 \/ Len(frames) = 1
    BY <1>1, <1>2, PopFrame
  <2>4. InService'
    <3>1. CASE Len(frames) > 1
      BY <1>1, <2>1, <3>1 DEF KernelInv, InService
    <3>2. CASE Len(frames) = 1
      BY <1>1, <2>1, <3>2 DEF KernelInv, InService
    <3> QED BY <2>3, <3>1, <3>2
  <2>5. GatesSet'
    BY <1>1, <1>2 DEF KernelInv, GatesSet, Alive
  <2> QED BY <1>1, <2>1, <2>4, <2>5 DEF KernelInv
<1>3. CASE cpu' = "dead" /\ UNCHANGED <<iflag, frames>>
  <2>1. FramesInv' /\ OffUntilSti' /\ InService'
    BY <1>1, <1>3 DEF KernelInv, FramesInv, OffUntilSti, InService
  <2>2. GatesSet'
    BY <1>1, <1>3 DEF KernelInv, GatesSet, Alive
  <2> QED BY <1>1, <2>1, <2>2 DEF KernelInv
<1> QED BY <1>2, <1>3 DEF isr_handler

\* A step of kmain that takes no interrupt: the flag is kept, or set by sti
\* at the end, and a step past the tables keeps the gates.
LEMMA MainKernel ==
  ASSUME KernelInv, frames = <<>>, UNCHANGED frames,
         step' \in Steps, iflag' \in BOOLEAN, iflag' => step' \in Late,
         idt' = IF step' \in Early THEN {} ELSE Gates,
         cpu' = "reset" => idt' = {} /\ ~iflag',
         Registered(step') \subseteq handlers',
         master' = {}, slave' = {}
  PROVE  KernelInv'
<1>1. OffUntilSti' /\ InService'
  BY DEF OffUntilSti, InService
<1>2. FramesInv'
  BY DEF FramesInv
<1> QED BY <1>1, <1>2 DEF KernelInv, GatesSet

LEMMA KmainKernel ==
  ASSUME KernelInv, kmain
  PROVE  KernelInv'
<1>1. /\ frames = <<>> => master = {} /\ slave = {}
      /\ cpu = "run" => idt = IF step \in Early THEN {} ELSE Gates
      /\ iflag \in BOOLEAN /\ (iflag => step \in Late)
      /\ Registered(step) \subseteq handlers
  BY DEF KernelInv, InService, GatesSet, OffUntilSti
<1>2. CASE CheckMagic
  <2>1. /\ frames = <<>> /\ step = "magic" /\ step' = "paging" /\ cpu = "run"
        /\ cpu' # "reset" /\ UNCHANGED <<iflag, frames, idt, handlers, master, slave>>
    BY <1>2 DEF CheckMagic, At, tables, pic
  <2> QED BY <1>1, <2>1, MainKernel DEF Steps, Early, Late, Registered
<1>3. CASE paging_init
  <2>1. /\ frames = <<>> /\ step = "paging" /\ step' = "gdt" /\ cpu = "run"
        /\ UNCHANGED <<cpu, iflag, frames, idt, master, slave>>
    BY <1>3 DEF paging_init, At, pic
  <2> QED BY <1>1, <2>1, MainKernel DEF Steps, Early, Late, Registered
<1>4. CASE gdt_init
  <2>1. /\ frames = <<>> /\ step = "gdt" /\ step' = "idt" /\ cpu = "run"
        /\ UNCHANGED <<iflag, frames, idt, handlers, master, slave>>
    BY <1>4 DEF gdt_init, At, tables, pic
  <2> QED BY <1>1, <2>1, MainKernel DEF Steps, Early, Late, Registered
<1>5. CASE idt_init
  <2>1. /\ frames = <<>> /\ step = "idt" /\ step' = "syscall" /\ cpu = "run"
        /\ idt' = Gates /\ master' = {} /\ slave' = {}
        /\ UNCHANGED <<cpu, iflag, frames>>
    BY <1>5 DEF idt_init, At
  <2> QED BY <1>1, <2>1, MainKernel DEF Steps, Early, Late, Registered
<1>6. CASE syscall_init
  <2>1. /\ frames = <<>> /\ step = "syscall" /\ step' = "open" /\ cpu = "run"
        /\ UNCHANGED <<cpu, iflag, frames, idt, master, slave>>
    BY <1>6 DEF syscall_init, At, pic
  <2> QED BY <1>1, <2>1, MainKernel DEF Steps, Early, Late, Registered
<1>7. CASE open
  BY <1>7, OpenKernel
<1>8. CASE Drivers
  <2>1. ASSUME NEW s, NEW next, isr_register(s, next),
               s \in {"pit", "rtc", "keyboard", "mouse"},
               next \in {"rtc", "keyboard", "mouse", "sti"},
               Registered(next) \subseteq Registered(s) \union {Vector(Driver[s])}
        PROVE  KernelInv'
    <3>1. /\ frames = <<>> /\ step = s /\ step' = next /\ cpu = "run"
          /\ handlers' = handlers \union {Vector(Driver[s])}
          /\ UNCHANGED <<cpu, iflag, frames, idt, master, slave>>
      BY <2>1 DEF isr_register, At, pic
    <3>2. /\ s \notin Early /\ s \notin Late /\ next \in Steps /\ next \notin Early
      BY <2>1 DEF Steps, Early, Late
    <3>3. Registered(step') \subseteq handlers'
      BY <1>1, <2>1, <3>1
    <3> QED BY <1>1, <3>1, <3>2, <3>3, MainKernel
  <2>2. /\ Registered("rtc") \subseteq Registered("pit") \union {Vector(Driver["pit"])}
        /\ Registered("keyboard") \subseteq Registered("rtc") \union {Vector(Driver["rtc"])}
        /\ Registered("mouse") \subseteq
             Registered("keyboard") \union {Vector(Driver["keyboard"])}
        /\ Registered("sti") \subseteq
             Registered("mouse") \union {Vector(Driver["mouse"])}
    <3>1. /\ Driver["pit"] = 0 /\ Driver["rtc"] = 8
          /\ Driver["keyboard"] = 1 /\ Driver["mouse"] = 12
      BY DEF Driver
    <3> QED BY <3>1 DEF Registered, Vector, IRQ0
  <2> QED BY <1>8, <2>1, <2>2 DEF Drivers
<1>9. CASE sti
  <2>1. /\ frames = <<>> /\ step = "sti" /\ step' = "acpi" /\ cpu = "run" /\ iflag' = TRUE
        /\ UNCHANGED <<cpu, frames, idt, handlers, master, slave>>
    BY <1>9 DEF sti, At, tables, pic
  <2> QED BY <1>1, <2>1, MainKernel DEF Steps, Early, Late, Registered
<1>10. CASE acpi_init
  <2>1. /\ frames = <<>> /\ step = "acpi" /\ step' = "shell" /\ cpu = "run"
        /\ cpu' # "reset" /\ UNCHANGED <<iflag, frames, idt, handlers, master, slave>>
    BY <1>10 DEF acpi_init, At, tables, pic
  <2> QED BY <1>1, <2>1, MainKernel DEF Steps, Early, Late, Registered
<1>11. CASE Shutdown
  <2>1. /\ frames = <<>> /\ step = "shell" /\ step' = "hang" /\ cpu = "run"
        /\ cpu' # "reset" /\ UNCHANGED <<iflag, frames, idt, handlers, master, slave>>
    BY <1>11 DEF Shutdown, At, tables, pic
  <2> QED BY <1>1, <2>1, MainKernel DEF Steps, Early, Late, Registered
<1> QED
  BY <1>2, <1>3, <1>4, <1>5, <1>6, <1>7, <1>8, <1>9, <1>10, <1>11 DEF kmain

\* What the invariant speaks of is kept by a raised line and by a stutter.
LEMMA StutterKernel ==
  ASSUME KernelInv, UNCHANGED <<step, cpu, iflag, frames, idt, handlers, master, slave>>
  PROVE  KernelInv'
BY DEF KernelInv, GatesSet, OffUntilSti, FramesInv, InService

LEMMA NextKernel ==
  ASSUME KernelInv, [Next]_vars
  PROVE  KernelInv'
<1>1. ASSUME NEW n \in Lines, Raise(n)
      PROVE  KernelInv'
  BY <1>1, StutterKernel DEF Raise, tables
<1>2. CASE UNCHANGED vars
  BY <1>2, StutterKernel DEF vars, tables, pic
<1> QED
  BY <1>1, <1>2, InterruptKernel, SpuriousKernel, IrqHandlerKernel, IsrHandlerKernel,
     ExceptionKernel, KmainKernel
  DEF Next

\* In the shell, and so whenever a line's interrupt is in progress, every
\* driver has registered.
LEMMA KernelImplies ==
  ASSUME KernelInv
  PROVE  ResetsOnlyEarly /\ DriverFirst /\ NothingInService
<1>1. ResetsOnlyEarly
  BY DEF KernelInv, GatesSet, ResetsOnlyEarly
<1>2. NothingInService
  BY DEF KernelInv, InService, NothingInService
<1>3. DriverFirst
  <2> SUFFICES ASSUME NEW i \in DOMAIN frames, frames[i].kind = "irq",
                      NEW s \in DOMAIN Driver, frames[i].vector - IRQ0 = Driver[s]
               PROVE  frames[i].vector \in handlers
    BY DEF DriverFirst
  <2>1. i \in 1 .. Len(frames)
    BY DEF KernelInv, FramesInv
  <2>2. FrameOK(frames[i], i, step)
    BY <2>1 DEF KernelInv, FramesInv
  <2>3. step \in Late /\ frames[i].vector \in Gates
    BY <2>2 DEF FrameOK
  <2>4. frames[i].vector \in Int
    BY <2>3, GatesAreInts
  <2>5. Driver[s] \in {0, 8, 1, 12}
    BY DEF Driver
  <2>6. Registered(step) = {IRQ0, IRQ0 + 8, IRQ0 + 1, IRQ0 + 12}
    BY <2>3 DEF Registered, Late
  <2>7. frames[i].vector \in Registered(step)
    BY <2>4, <2>5, <2>6 DEF IRQ0
  <2> QED BY <2>7 DEF KernelInv
<1> QED BY <1>1, <1>2, <1>3

\* For every set of lines and exceptions, on processors that check the limits
\* of segments and on those that do not, with exceptions at any time: the
\* machine resets only before its table is loaded and never by a device, a
\* driver's handler is registered before its device can interrupt, and no line
\* is left in service.
THEOREM KernelSafe == Spec => [](ResetsOnlyEarly /\ DriverFirst /\ NothingInService)
<1>1. Init => KernelInv
  BY InitKernel
<1>2. KernelInv /\ [Next]_vars => KernelInv'
  BY NextKernel
<1>3. KernelInv => ResetsOnlyEarly /\ DriverFirst /\ NothingInService
  BY KernelImplies
<1> QED BY <1>1, <1>2, <1>3, PTL DEF Spec
=============================================================================
