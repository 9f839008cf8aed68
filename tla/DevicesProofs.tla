--------------------------- MODULE DevicesProofs ---------------------------
(***************************************************************************)
(* Proofs about the drivers and tables that share no state: Mouse, Serial, *)
(* Paging, Sdt and Clock, each for every value of its constants.           *)
(***************************************************************************)
EXTENDS Mouse, Serial, Paging, Sdt, Clock, SequenceTheorems, TLAPS

-----------------------------------------------------------------------------
(* Mouse                                                                   *)

\* What has been sent to the controller and what it has answered, wait by wait.
Waiting(port, val, done) == input = <<port, val>> \/ (input = <<>> /\ done)

Stage ==
  /\ at \in {3, 5, 9, 11, 13, 15, 19, 21} \/ input = <<>>
  /\ at \in {5, 6, 15, 16, 21, 22} \/ at = 23 \/ output = <<>>
  /\ at = 3 => Waiting(100, 168, TRUE)
  /\ at = 5 => Waiting(100, 32, output = <<From("settings", 69)>>)
  /\ at = 5 /\ input # <<>> => output = <<>>
  /\ at = 6 => output = <<From("settings", 69)>>
  /\ at = 9 => Waiting(100, 96, target = "settings")
  /\ at = 10 => target = "settings"
  /\ at = 11 => Waiting(96, 71, config = 71)
  /\ at = 11 /\ input # <<>> => target = "settings"
  /\ at \in {13, 19} => Waiting(100, 212, target = "mouse")
  /\ at \in {14, 20} => target = "mouse"
  /\ at = 15 => Waiting(96, 246, output = <<From("mouse", 250)>>)
  /\ at = 21 => Waiting(96, 244, output = <<From("mouse", 250)>>)
  /\ at \in {15, 21} /\ input # <<>> => target = "mouse" /\ output = <<>>
  /\ at \in {16, 22} => output = <<From("mouse", 250)>>
  /\ at \in 7 .. 10 => status = 69
  /\ at <= 10 => config = 69
  /\ at > 11 => config = 71

\* The accesses of mouse_init, one by one.
LEMMA Accesses ==
  /\ Len(mouse_init) = 22
  /\ \A k \in {1, 3, 7, 9, 11, 13, 17, 19} : mouse_init[k] = WaitIn
  /\ \A k \in {5, 15, 21} : mouse_init[k] = WaitOut
  /\ mouse_init[6] = [op |-> "in"]
  /\ \A k \in {16, 22} : mouse_init[k] = [op |-> "drop"]
  /\ mouse_init[2] = Command(168) /\ mouse_init[4] = Command(32)
  /\ mouse_init[8] = Command(96) /\ mouse_init[10] = [op |-> "settings"]
  /\ \A k \in {12, 18} : mouse_init[k] = Command(212)
  /\ mouse_init[14] = Data(246) /\ mouse_init[20] = Data(244)
BY DEF mouse_init, mouse_read, mouse_write

\* What a step of mouse_init does at each position.
LEMMA InitSteps ==
  ASSUME at \in Nat \ {0}, Initializing
  PROVE  /\ at \in 1 .. 22
         /\ mouse_wait => at \in {1, 3, 5, 7, 9, 11, 13, 15, 17, 19, 21}
         /\ mouse_wait /\ at \in {5, 15, 21} => output # <<>>
         /\ mouse_wait /\ at \notin {5, 15, 21} => input = <<>>
         /\ Write => at \in {2, 4, 8, 10, 12, 14, 18, 20}
         /\ Read => at \in {6, 16, 22}
<1> USE Accesses DEF Initializing, Op
<1>1. at \in 1 .. 22
  OBVIOUS
<1>2. ASSUME at \in {1, 3, 7, 9, 11, 13, 17, 19}
      PROVE  Op.op = "wait" /\ Op.type = 1
  BY <1>2 DEF WaitIn
<1>3. ASSUME at \in {5, 15, 21}
      PROVE  Op.op = "wait" /\ Op.type = 0
  BY <1>3 DEF WaitOut
<1>4. ASSUME at \in {2, 4, 8, 10, 12, 14, 18, 20}
      PROVE  Op.op \in {"out", "settings"}
  BY <1>4 DEF Command, Data
<1>5. ASSUME at \in {6, 16, 22}
      PROVE  Op.op \in {"in", "drop"}
  BY <1>5
<1>6. \/ at \in {1, 3, 7, 9, 11, 13, 17, 19} \/ at \in {5, 15, 21}
      \/ at \in {2, 4, 8, 10, 12, 14, 18, 20} \/ at \in {6, 16, 22}
  BY <1>1
<1> HIDE DEF Op
<1> QED BY ONLY <1>1, <1>2, <1>3, <1>4, <1>5, <1>6 DEF mouse_wait, Write, Read, Ready

\* What mouse_init leaves in the controller's input buffer at each write.
LEMMA Writes ==
  ASSUME at \in Nat \ {0}, Write
  PROVE  /\ at = 2 => input' = <<100, 168>>
         /\ at = 4 => input' = <<100, 32>>
         /\ at = 8 => input' = <<100, 96>>
         /\ at = 10 => input' = <<96, Or2(status)>>
         /\ at \in {12, 18} => input' = <<100, 212>>
         /\ at = 14 => input' = <<96, 246>>
         /\ at = 20 => input' = <<96, 244>>
BY Accesses DEF Write, Initializing, Op, Command, Data

LEMMA Or2Enables == Or2(69) = 71
BY DEF Or2

\* Bytes are numbers, and the pointer is on the screen.
Sources == {"mouse", "keyboard", "settings"}
Sourced == [source : Sources, byte : Int]
PortBytes == {<<p, b>> : p \in {96, 100}, b \in Int}

ControllerOK ==
  /\ at \in Nat \ {0} /\ status \in Int /\ config \in Int
  /\ input \in PortBytes \union {<<>>}
  /\ target \in Sources
  /\ output \in Seq(Sourced)

DriverOK ==
  /\ mouse_byte \in [0 .. 2 -> Int] /\ mouse_cycle \in 0 .. 2
  /\ mouse_x \in 0 .. 79 /\ mouse_y \in 0 .. 24

Bytes == ControllerOK /\ DriverOK

\* Where a packet leads from the pointer's place.
Led(h, dx, dy) ==
  IF Overflowed(h) THEN <<mouse_x, mouse_y>>
  ELSE <<Limit(mouse_x + Half(dx), 79), Limit(mouse_y - Half(dy), 24)>>

\* What is left of a packet when the handler has taken some of its bytes.
Rest(h, dx, dy) ==
  /\ mouse_cycle = 0 => output = <<From("mouse", h), From("mouse", dx), From("mouse", dy)>>
  /\ mouse_cycle = 1 => output = <<From("mouse", dx), From("mouse", dy)>>
  /\ mouse_cycle = 2 => output = <<From("mouse", dy)>> /\ mouse_byte[1] = dx
  /\ mouse_cycle # 0 => mouse_byte[0] = h

\* Some of the packet's bytes are left, and it leads from the driver's place to
\* the pointer's.
InPacket ==
  \E h \in Headers, dx \in Deltas, dy \in Deltas :
    /\ Rest(h, dx, dy)
    /\ ~wrapped => pointer = Led(h, dx, dy) /\ mouse_x + Half(dx) <= 127

BetweenPackets ==
  output = <<>> /\ mouse_cycle = 0 /\ (~wrapped => pointer = <<mouse_x, mouse_y>>)

Packets == IF at = 23 THEN BetweenPackets \/ InPacket
           ELSE mouse_cycle = 0 /\ pointer = <<mouse_x, mouse_y>>

\* What is known of the controller and of the handler while every byte on the
\* data port is the mouse's.
MouseInv == Bytes /\ (~disturbed => at \in 1 .. 23 /\ Stage /\ Packets)

LEMMA Ints ==
  ASSUME NEW n \in Int
  PROVE  /\ Half(n) \in Int /\ Or2(n) \in Int /\ Int8(n) \in Int
         /\ Limit(n, 79) \in 0 .. 79 /\ Limit(n, 24) \in 0 .. 24
BY DEF Half, Or2, Int8, Limit

\* A movement is halved to 7 bits, and 8 bits are stored as they are.
LEMMA HalfByte == ASSUME NEW n \in 0 .. 255 PROVE Half(n) \in -64 .. 63
BY DEF Half, Int8

LEMMA Int8Keeps == ASSUME NEW n \in -128 .. 127 PROVE Int8(n) = n
BY DEF Int8

LEMMA Initialized == ASSUME at \in 1 .. 23 PROVE Initializing <=> at # 23
<1>1. Len(mouse_init) = 22
  BY Accesses
<1> QED BY <1>1 DEF Initializing

LEMMA Outputs ==
  ASSUME ControllerOK
  PROVE  /\ \A s \in Sources, b \in Int : Append(output, From(s, b)) \in Seq(Sourced)
         /\ output # <<>> => /\ Head(output).byte \in Int
                             /\ Tail(output) \in Seq(Sourced)
<1>1. output \in Seq(Sourced)
  BY DEF ControllerOK
<1>2. \A s \in Sources, b \in Int : From(s, b) \in Sourced
  BY DEF From, Sourced
<1>3. output # <<>> => Head(output) \in Sourced /\ Tail(output) \in Seq(Sourced)
  BY <1>1, HeadTailProperties
<1>4. \A r \in Sourced : r.byte \in Int
  BY DEF Sourced
<1>5. \A r \in Sourced : Append(output, r) \in Seq(Sourced)
  BY <1>1, AppendProperties
<1> QED BY <1>2, <1>3, <1>4, <1>5

LEMMA InitBytes == ASSUME MouseInit PROVE Bytes
BY EmptySeq DEF MouseInit, Bytes, ControllerOK, DriverOK, Sources

\* Every step keeps the controller's registers and queues well formed.
LEMMA NextController ==
  ASSUME Bytes, [MouseNext]_mvars
  PROVE  ControllerOK'
<1>0. ControllerOK
  BY DEF Bytes
<1>1. CASE mouse_wait \/ TimeOut
  <2>1. at' = at + 1 /\ UNCHANGED <<status, controller>>
    BY <1>1 DEF mouse_wait, TimeOut, Goes
  <2> QED BY <1>0, <2>1 DEF ControllerOK, controller
<1>2. CASE Write
  <2>1. at' = at + 1 /\ UNCHANGED <<status, output, target, config>>
    BY <1>2 DEF Write, Goes
  <2>2. at \in {2, 4, 8, 10, 12, 14, 18, 20}
    BY <1>0, <1>2, InitSteps DEF Write, ControllerOK
  <2>3. Or2(status) \in Int
    BY <1>0, Ints DEF ControllerOK
  <2>4. input' \in PortBytes
    BY <1>2, <2>2, <2>3, Writes DEF PortBytes
  <2> QED BY <1>0, <2>1, <2>4 DEF ControllerOK
<1>3. CASE Read
  <2>1. /\ at' = at + 1 /\ UNCHANGED <<input, target, config>>
        /\ output = <<>> => UNCHANGED <<status, output>>
        /\ output # <<>> => output' = Tail(output)
                            /\ status' \in {Head(output).byte, status}
    BY <1>3 DEF Read, Goes
  <2> QED BY <1>0, <2>1, Outputs DEF ControllerOK
<1>4. CASE Obey
  <2>1. input # <<>> /\ input' = <<>> /\ at' = at /\ status' = status
    BY <1>4 DEF Obey
  <2>2. input[2] \in Int
    BY <1>0, <2>1 DEF ControllerOK, PortBytes
  <2>3. config' \in {config, input[2]} /\ target' \in Sources
    BY <1>4 DEF Obey, Sources
  <2>4. \/ output' = output
        \/ output' = Append(output, From("settings", config))
        \/ output' = Append(output, From(target, 250))
    BY <1>4 DEF Obey, Answer
  <2>5. output' \in Seq(Sourced)
    BY <1>0, <2>4, Outputs DEF ControllerOK, Sources
  <2> QED BY <1>0, <2>1, <2>2, <2>3, <2>5 DEF ControllerOK
<1>5. CASE ScanCode
  <2>1. \E byte \in {30, 158} : output' = Append(output, From("keyboard", byte))
    BY <1>5 DEF ScanCode, Answer
  <2>2. output' \in Seq(Sourced)
    BY <1>0, <2>1, Outputs DEF Sources
  <2> QED BY <1>0, <1>5, <2>2 DEF ScanCode, ControllerOK
<1>6. CASE Send
  <2>1. \A b \in Deltas \union Headers : From("mouse", b) \in Sourced
    BY MouseAssumption DEF From, Sourced, Sources
  <2>2. output' \in Seq(Sourced)
    BY <1>6, <2>1 DEF Send
  <2> QED BY <1>0, <1>6, <2>2 DEF Send, ControllerOK
<1>7. CASE mouse_isr \/ OtherIsr
  <2>1. /\ UNCHANGED <<at, status, input, target, config>>
        /\ output # <<>> /\ output' = Tail(output)
    BY <1>7 DEF mouse_isr, OtherIsr
  <2> QED BY <1>0, <2>1, Outputs DEF ControllerOK
<1>8. CASE UNCHANGED mvars
  BY <1>0, <1>8 DEF mvars, ControllerOK, controller
<1> QED BY <1>1, <1>2, <1>3, <1>4, <1>5, <1>6, <1>7, <1>8 DEF MouseNext

LEMMA MovesOnScreen ==
  ASSUME DriverOK, NEW b \in Int
  PROVE  MoveX(mouse_byte[1]) \in 0 .. 79 /\ MoveY(b) \in 0 .. 24
<1>1. mouse_byte[1] \in Int /\ mouse_x \in Int /\ mouse_y \in Int
  BY DEF DriverOK
<1>2. Half(mouse_byte[1]) \in Int /\ Half(b) \in Int
  BY <1>1, Ints
<1>3. mouse_x + Half(mouse_byte[1]) \in Int /\ mouse_y - Half(b) \in Int
  BY <1>1, <1>2
<1>4. Int8(mouse_x + Half(mouse_byte[1])) \in Int /\ Int8(mouse_y - Half(b)) \in Int
  BY <1>3, Ints
<1> QED BY <1>4, Ints DEF MoveX, MoveY

\* Every step keeps the driver's place on the screen.
LEMMA NextDriver ==
  ASSUME Bytes, [MouseNext]_mvars
  PROVE  DriverOK'
<1>1. CASE mouse_isr
  <2> DEFINE byte == Head(output).byte
  <2>1. /\ output # <<>>
        /\ mouse_byte' = [mouse_byte EXCEPT ![mouse_cycle] = byte]
        /\ mouse_cycle' = IF mouse_cycle = 0 /\ ~HasSync(byte) THEN 0 ELSE (mouse_cycle + 1) % 3
        /\ \/ mouse_x' = MoveX(mouse_byte[1]) /\ mouse_y' = MoveY(byte)
           \/ UNCHANGED <<mouse_x, mouse_y>>
    BY <1>1 DEF mouse_isr
  <2>2. byte \in Int
    BY <2>1, Outputs DEF Bytes
  <2> HIDE DEF byte
  <2>3. mouse_byte' \in [0 .. 2 -> Int] /\ mouse_cycle' \in 0 .. 2
    BY <2>1, <2>2 DEF Bytes, DriverOK
  <2>4. mouse_x' \in 0 .. 79 /\ mouse_y' \in 0 .. 24
    BY <2>1, <2>2, MovesOnScreen DEF Bytes, DriverOK
  <2> QED BY <2>3, <2>4 DEF DriverOK
<1>2. CASE ~mouse_isr
  <2>1. UNCHANGED driver
    BY <1>2 DEF MouseNext, mouse_wait, TimeOut, Write, Read, Obey, ScanCode, Send, OtherIsr, mvars
  <2> QED BY <2>1 DEF driver, Bytes, DriverOK
<1> QED BY <1>1, <1>2

LEMMA InitStage == ASSUME MouseInit PROVE MouseInv
BY InitBytes DEF MouseInit, MouseInv, Stage, Packets

\* An access of mouse_init finds what the accesses before it have left.
LEMMA NextStage ==
  ASSUME MouseInv, [MouseNext]_mvars, ~disturbed'
  PROVE  at' \in 1 .. 23 /\ Stage'
<1>0. ~disturbed /\ at \in 1 .. 23 /\ Stage /\ Packets /\ at \in Nat \ {0}
  BY DEF MouseInv, Bytes, ControllerOK, MouseNext, mouse_wait, TimeOut, Write, Read, Obey, ScanCode, Send, mouse_isr, OtherIsr, mvars
<1>1. CASE mouse_wait
  <2>1. at \in {1, 3, 5, 7, 9, 11, 13, 15, 17, 19, 21} /\ at' = at + 1
    BY <1>0, <1>1, InitSteps DEF mouse_wait, Goes
  <2>2. (at \in {5, 15, 21} => output # <<>>) /\ (at \notin {5, 15, 21} => input = <<>>)
    BY <1>0, <1>1, InitSteps DEF mouse_wait
  <2>3. UNCHANGED <<status, controller>>
    BY <1>1 DEF mouse_wait
  <2> QED BY <1>0, <2>1, <2>2, <2>3 DEF Stage, Waiting, controller
<1>2. CASE Write
  <2>1. at \in {2, 4, 8, 10, 12, 14, 18, 20} /\ at' = at + 1
    BY <1>0, <1>2, InitSteps DEF Write, Goes
  <2>2. UNCHANGED <<status, output, target, config>>
    BY <1>2 DEF Write
  <2>3. at = 10 => input' = <<96, 71>>
    BY <1>0, <1>2, Writes, Or2Enables DEF Stage
  <2> QED BY <1>0, <1>2, <2>1, <2>2, <2>3, Writes DEF Stage, Waiting
<1>3. CASE Read
  <2>1. at \in {6, 16, 22} /\ at' = at + 1
    BY <1>0, <1>3, InitSteps DEF Read, Goes
  <2>2. /\ UNCHANGED <<input, target, config>>
        /\ output # <<>> => output' = Tail(output)
                            /\ status' = IF Op.op = "in" THEN Head(output).byte ELSE status
    BY <1>3 DEF Read
  <2>3. Op.op = "in" <=> at = 6
    BY <2>1, Accesses DEF Op
  <2>4. \E b \in {69, 250}, source \in Sources :
          output = <<From(source, b)>> /\ (at = 6 => b = 69)
    BY <1>0, <2>1 DEF Stage, Sources
  <2>5. output # <<>> /\ output' = <<>> /\ (at = 6 => Head(output).byte = 69)
    BY <2>2, <2>4 DEF From
  <2> QED BY <1>0, <2>1, <2>2, <2>3, <2>5 DEF Stage, Waiting
<1>4. CASE Obey
  <2>1. at \in {3, 5, 9, 11, 13, 15, 19, 21} /\ at' = at /\ status' = status /\ input' = <<>>
    BY <1>0, <1>4 DEF Obey, Stage
  <2>2. CASE at \in {3, 5, 9, 13, 19}
    <3>1. /\ input[1] = 100 /\ (at = 3 => input[2] = 168) /\ (at = 5 => input[2] = 32)
          /\ (at = 9 => input[2] = 96) /\ (at \in {13, 19} => input[2] = 212)
      BY <1>0, <1>4, <2>2 DEF Obey, Stage, Waiting
    <3>2. /\ config' = config
          /\ at = 5 => output' = Append(output, From("settings", config))
          /\ at # 5 => output' = output
          /\ at = 9 => target' = "settings"
          /\ at \in {13, 19} => target' = "mouse"
      BY <1>4, <2>2, <3>1 DEF Obey, Answer
    <3>3. at = 5 => output = <<>> /\ config = 69
      BY <1>0, <1>4 DEF Stage, Obey
    <3>4. at = 5 => output' = <<From("settings", 69)>>
      BY <3>2, <3>3
    <3> QED BY <1>0, <2>1, <2>2, <3>2, <3>4 DEF Stage, Waiting
  <2>3. CASE at \in {11, 15, 21}
    <3>1. input[1] = 96 /\ (at = 11 => input[2] = 71)
      BY <1>0, <1>4, <2>3 DEF Obey, Stage, Waiting
    <3>2. /\ target = "settings" => config' = input[2] /\ output' = output
          /\ target = "mouse" => config' = config /\ output' = Append(output, From("mouse", 250))
      BY <1>4, <3>1 DEF Obey, Answer
    <3>3. input # <<>>
      BY <1>4 DEF Obey
    <3>4. target = (IF at = 11 THEN "settings" ELSE "mouse") /\ output = <<>>
      BY <1>0, <2>3, <3>3 DEF Stage
    <3>5. at # 11 => output' = <<From("mouse", 250)>>
      BY <3>2, <3>4
    <3> QED BY <1>0, <2>1, <2>3, <3>1, <3>2, <3>4, <3>5 DEF Stage, Waiting
  <2> QED BY <2>1, <2>2, <2>3
<1>5. CASE Send \/ mouse_isr \/ OtherIsr
  <2>1. at = 23
    BY <1>0, <1>5, Initialized DEF Send, mouse_isr, OtherIsr
  <2>2. UNCHANGED <<at, input, config>>
    BY <1>5 DEF Send, mouse_isr, OtherIsr
  <2> QED BY <1>0, <2>1, <2>2 DEF Stage
<1>6. CASE UNCHANGED mvars
  BY <1>0, <1>6 DEF mvars, controller, Stage, Waiting
<1> QED BY <1>0, <1>1, <1>2, <1>3, <1>4, <1>5, <1>6 DEF MouseNext, TimeOut, ScanCode

\* The sum of a move that fits 8 bits is stored as it is.
LEMMA MovesAsSent ==
  ASSUME DriverOK, NEW dx \in 0 .. 255, NEW dy \in 0 .. 255, mouse_x + Half(dx) <= 127,
         mouse_byte[1] = dx
  PROVE  /\ MoveX(mouse_byte[1]) = Limit(mouse_x + Half(dx), 79)
         /\ MoveY(dy) = Limit(mouse_y - Half(dy), 24)
<1>1. Half(dx) \in -64 .. 63 /\ Half(dy) \in -64 .. 63
  BY HalfByte
<1>2. mouse_x + Half(dx) \in -128 .. 127 /\ mouse_y - Half(dy) \in -128 .. 127
  BY <1>1 DEF DriverOK
<1>3. Int8(mouse_x + Half(dx)) = mouse_x + Half(dx)
  BY <1>2, Int8Keeps
<1>4. Int8(mouse_y - Half(dy)) = mouse_y - Half(dy)
  BY <1>2, Int8Keeps
<1> QED BY <1>3, <1>4, Zenon DEF MoveX, MoveY

\* What the handler finds of a packet.
LEMMA RestBegins ==
  ASSUME mouse_cycle \in 0 .. 2, NEW h, NEW dx, NEW dy, Rest(h, dx, dy)
  PROVE  /\ output # <<>> /\ Head(output).source = "mouse"
         /\ mouse_cycle = 0 => Head(output).byte = h
         /\ mouse_cycle = 1 => Head(output).byte = dx
         /\ mouse_cycle = 2 => Head(output).byte = dy
         /\ mouse_cycle = 0 => Tail(output) = <<From("mouse", dx), From("mouse", dy)>>
         /\ mouse_cycle = 1 => Tail(output) = <<From("mouse", dy)>>
         /\ mouse_cycle = 2 => Tail(output) = <<>>
<1>1. \A a, b, c : /\ Head(<<a>>) = a /\ Tail(<<a>>) = <<>>
                   /\ Head(<<a, b>>) = a /\ Tail(<<a, b>>) = <<b>>
                   /\ Head(<<a, b, c>>) = a /\ Tail(<<a, b, c>>) = <<b, c>>
  OBVIOUS
<1>2. \A b : From("mouse", b).source = "mouse" /\ From("mouse", b).byte = b
  BY DEF From
<1>3. \A a, b, c : <<a>> # <<>> /\ <<a, b>> # <<>> /\ <<a, b, c>> # <<>>
  OBVIOUS
<1>4. CASE mouse_cycle = 0
  <2>1. output = <<From("mouse", h), From("mouse", dx), From("mouse", dy)>>
    BY <1>4 DEF Rest
  <2>2. output # <<>>
    BY <1>3, <2>1, Zenon
  <2>3. Head(output) = From("mouse", h)
    BY <1>1, <2>1, Zenon
  <2>4. Tail(output) = <<From("mouse", dx), From("mouse", dy)>>
    BY <1>1, <2>1, Zenon
  <2> QED BY <1>2, <1>4, <2>2, <2>3, <2>4
<1>5. CASE mouse_cycle = 1
  <2>1. output = <<From("mouse", dx), From("mouse", dy)>>
    BY <1>5 DEF Rest
  <2>2. output # <<>> /\ Head(output) = From("mouse", dx) /\ Tail(output) = <<From("mouse", dy)>>
    BY <1>1, <1>3, <2>1, Zenon
  <2> QED BY <1>2, <1>5, <2>2
<1>6. CASE mouse_cycle = 2
  <2>1. output = <<From("mouse", dy)>>
    BY <1>6 DEF Rest
  <2>2. output # <<>> /\ Head(output) = From("mouse", dy) /\ Tail(output) = <<>>
    BY <1>1, <1>3, <2>1, Zenon
  <2> QED BY <1>2, <1>6, <2>2
<1> QED BY <1>4, <1>5, <1>6

\* The handler takes a byte of a packet.
LEMMA IsrPackets ==
  ASSUME DriverOK, mouse_isr, BetweenPackets \/ InPacket
  PROVE  (BetweenPackets \/ InPacket)'
<1>1. InPacket
  BY DEF mouse_isr, BetweenPackets
<1>2. PICK h \in Headers, dx \in Deltas, dy \in Deltas :
        /\ Rest(h, dx, dy)
        /\ ~wrapped => pointer = Led(h, dx, dy) /\ mouse_x + Half(dx) <= 127
  BY <1>1 DEF InPacket
<1>3. HasSync(h) /\ h \in Int /\ dx \in 0 .. 255 /\ dy \in 0 .. 255
  BY MouseAssumption DEF HasSync
<1> DEFINE byte == Head(output).byte
<1>4. /\ output' = Tail(output) /\ UNCHANGED <<pointer, wrapped>>
      /\ mouse_byte' = [mouse_byte EXCEPT ![mouse_cycle] = byte]
      /\ mouse_cycle' = IF mouse_cycle = 0 /\ ~HasSync(byte) THEN 0 ELSE (mouse_cycle + 1) % 3
      /\ IF mouse_cycle = 2 /\ ~Overflowed(mouse_byte[0])
         THEN mouse_x' = MoveX(mouse_byte[1]) /\ mouse_y' = MoveY(byte)
         ELSE UNCHANGED <<mouse_x, mouse_y>>
  BY DEF mouse_isr, sent
<1>5. mouse_cycle \in 0 .. 2 /\ mouse_byte \in [0 .. 2 -> Int]
  BY DEF DriverOK
<1>6. CASE mouse_cycle = 0
  <2>1. byte = h /\ output' = <<From("mouse", dx), From("mouse", dy)>>
    BY <1>2, <1>4, <1>5, <1>6, RestBegins DEF Rest
  <2> HIDE DEF byte
  <2>2. mouse_cycle' = 1 /\ mouse_byte'[0] = h /\ UNCHANGED <<mouse_x, mouse_y>>
    BY <1>3, <1>4, <1>5, <1>6, <2>1
  <2>3. Rest(h, dx, dy)'
    BY <2>1, <2>2 DEF Rest
  <2>4. Led(h, dx, dy)' = Led(h, dx, dy)
    BY <2>2 DEF Led
  <2> QED BY <1>2, <1>4, <2>2, <2>3, <2>4 DEF InPacket
<1>7. CASE mouse_cycle = 1
  <2>1. byte = dx /\ output' = <<From("mouse", dy)>> /\ mouse_byte[0] = h
    BY <1>2, <1>4, <1>5, <1>7, RestBegins DEF Rest
  <2> HIDE DEF byte
  <2>2. /\ mouse_cycle' = 2 /\ mouse_byte'[0] = h /\ mouse_byte'[1] = dx
        /\ UNCHANGED <<mouse_x, mouse_y>>
    BY <1>4, <1>5, <1>7, <2>1
  <2>3. Rest(h, dx, dy)'
    BY <2>1, <2>2 DEF Rest
  <2>4. Led(h, dx, dy)' = Led(h, dx, dy)
    BY <2>2 DEF Led
  <2> QED BY <1>2, <1>4, <2>2, <2>3, <2>4 DEF InPacket
<1>8. CASE mouse_cycle = 2
  <2>1. byte = dy /\ output' = <<>> /\ mouse_byte[0] = h /\ mouse_byte[1] = dx
    BY <1>2, <1>4, <1>5, <1>8, RestBegins DEF Rest
  <2> HIDE DEF byte
  <2>2. /\ mouse_cycle' = 0
        /\ IF ~Overflowed(h) THEN mouse_x' = MoveX(mouse_byte[1]) /\ mouse_y' = MoveY(dy)
           ELSE UNCHANGED <<mouse_x, mouse_y>>
    BY <1>4, <1>8, <2>1
  <2>3. ASSUME ~wrapped PROVE pointer = <<mouse_x', mouse_y'>>
    <3>1. pointer = Led(h, dx, dy) /\ mouse_x + Half(dx) <= 127
      BY <1>2, <2>3
    <3>2. CASE Overflowed(h)
      <4>1. mouse_x' = mouse_x /\ mouse_y' = mouse_y
        BY <2>2, <3>2
      <4> QED BY <3>1, <3>2, <4>1, Zenon DEF Led
    <3>3. CASE ~Overflowed(h)
      <4>1. mouse_x' = MoveX(mouse_byte[1]) /\ mouse_y' = MoveY(dy)
        BY <2>2, <3>3
      <4>2. MoveX(mouse_byte[1]) = Limit(mouse_x + Half(dx), 79)
        BY <1>3, <2>1, <3>1, MovesAsSent, Zenon
      <4>3. MoveY(dy) = Limit(mouse_y - Half(dy), 24)
        BY <1>3, <2>1, <3>1, MovesAsSent, Zenon
      <4>4. pointer = <<Limit(mouse_x + Half(dx), 79), Limit(mouse_y - Half(dy), 24)>>
        BY <3>1, <3>3, Zenon DEF Led
      <4> QED BY <4>1, <4>2, <4>3, <4>4, Zenon
    <3> QED BY <3>2, <3>3
  <2> QED BY <1>4, <2>1, <2>2, <2>3 DEF BetweenPackets
<1> QED BY <1>5, <1>6, <1>7, <1>8

LEMMA NextPackets ==
  ASSUME MouseInv, [MouseNext]_mvars, ~disturbed'
  PROVE  Packets'
<1>0. ~disturbed /\ at \in 1 .. 23 /\ Stage /\ Packets /\ Bytes
  BY DEF MouseInv, MouseNext, mouse_wait, TimeOut, Write, Read, Obey, ScanCode, Send, mouse_isr, OtherIsr, mvars
<1>1. CASE Initializing
  <2>1. at # 23 /\ mouse_cycle = 0 /\ pointer = <<mouse_x, mouse_y>>
    BY <1>0, <1>1, Initialized DEF Packets
  <2>2. mouse_cycle' = 0 /\ pointer' = <<mouse_x', mouse_y'>>
    BY <1>1, <2>1 DEF MouseNext, mouse_wait, TimeOut, Write, Read, Obey, ScanCode, Send, mouse_isr, OtherIsr, mvars, driver, sent
  <2>3. at' = 23 => output' = <<>>
    <3>1. CASE Read
      <4>1. at' = at + 1 /\ (output # <<>> => output' = Tail(output))
        BY <3>1 DEF Read, Goes
      <4>2. at' = 23 => output = <<From("mouse", 250)>>
        BY <1>0, <4>1 DEF Stage
      <4>3. \A a : <<a>> # <<>> /\ Tail(<<a>>) = <<>>
        OBVIOUS
      <4> QED BY <4>1, <4>2, <4>3, Zenon
    <3>2. CASE mouse_wait \/ Write
      <4>1. at # 22 /\ at' = at + 1
        BY <1>0, <1>1, <3>2, InitSteps DEF mouse_wait, Write, Goes, Bytes, ControllerOK
      <4> QED BY <1>0, <4>1
    <3>3. CASE ~(Read \/ mouse_wait \/ Write)
      <4>1. at' = at
        BY <1>0, <1>1, <3>3 DEF MouseNext, TimeOut, Obey, ScanCode, Send, mouse_isr, OtherIsr, mvars
      <4> QED BY <2>1, <4>1
    <3> QED BY <3>1, <3>2, <3>3
  <2> QED BY <2>2, <2>3 DEF Packets, BetweenPackets
<1>2. CASE ~Initializing
  <2>1. at = 23 /\ input = <<>> /\ (BetweenPackets \/ InPacket)
    BY <1>0, <1>2, Initialized DEF Stage, Packets
  <2>2. CASE mouse_isr
    <3>1. at' = 23 /\ DriverOK
      BY <1>0, <2>1, <2>2 DEF mouse_isr, Bytes
    <3> QED BY <2>1, <2>2, <3>1, IsrPackets DEF Packets
  <2>3. CASE Send
    <3>1. /\ output = <<>> /\ mouse_cycle = 0 /\ (~wrapped => pointer = <<mouse_x, mouse_y>>)
      BY <1>0, <2>1, <2>3, RestBegins DEF Send, BetweenPackets, InPacket, Bytes, DriverOK
    <3>2. PICK h \in Headers, dx \in Deltas, dy \in Deltas :
             /\ output' = <<From("mouse", h), From("mouse", dx), From("mouse", dy)>>
             /\ pointer' = IF Overflowed(h) THEN pointer
                           ELSE <<Limit(pointer[1] + Half(dx), 79),
                                  Limit(pointer[2] - Half(dy), 24)>>
             /\ wrapped' = (wrapped \/ pointer[1] + Half(dx) > 127)
      BY <2>3 DEF Send
    <3>3. UNCHANGED <<at, driver>>
      BY <2>3 DEF Send
    <3>4. Rest(h, dx, dy)'
      BY <3>1, <3>2, <3>3 DEF Rest, driver
    <3>5. ASSUME ~wrapped'
          PROVE  pointer' = Led(h, dx, dy)' /\ mouse_x' + Half(dx) <= 127
      <4>1. ~wrapped /\ ~(pointer[1] + Half(dx) > 127)
        BY <3>2, <3>5
      <4>2. pointer[1] = mouse_x /\ pointer[2] = mouse_y /\ mouse_x \in Int /\ Half(dx) \in Int
        BY <1>0, <3>1, <4>1, Ints, MouseAssumption DEF Bytes, DriverOK
      <4>3. mouse_x + Half(dx) <= 127
        BY <4>1, <4>2
      <4> QED BY <3>1, <3>2, <3>3, <4>1, <4>2, <4>3 DEF Led, driver
    <3> QED BY <2>1, <3>3, <3>4, <3>5 DEF Packets, InPacket
  <2>4. CASE OtherIsr
    <3>1. output # <<>> /\ Head(output).source # "mouse"
      BY <2>4 DEF OtherIsr
    <3>2. Head(output).source = "mouse"
      BY <1>0, <2>1, <3>1, RestBegins DEF BetweenPackets, InPacket, Bytes, DriverOK
    <3> QED BY <3>1, <3>2
  <2>5. CASE UNCHANGED mvars
    BY <1>0, <2>5 DEF mvars, controller, driver, sent, Packets, BetweenPackets, InPacket, Rest, Led
  <2>6. ~(mouse_wait \/ TimeOut \/ Write \/ Read \/ Obey \/ ScanCode)
    BY <1>2, <2>1 DEF mouse_wait, TimeOut, Write, Read, Obey, ScanCode
  <2> QED BY <2>2, <2>3, <2>4, <2>5, <2>6 DEF MouseNext
<1> QED BY <1>1, <1>2

\* Whatever the packets: once mouse_init is done the controller's settings are
\* its own with bit 1 set, and while only the mouse answered, the driver's place
\* is the pointer's whenever every byte sent has been taken.
THEOREM MouseSafe == MouseSpec => [](SettingsKept /\ PointerFollowsMouse)
<1>1. MouseInit => MouseInv
  BY InitStage
<1>2. MouseInv /\ [MouseNext]_mvars => MouseInv'
  BY NextController, NextDriver, NextStage, NextPackets DEF MouseInv, Bytes
<1>3. MouseInv => SettingsKept /\ PointerFollowsMouse
  <2> SUFFICES ASSUME MouseInv
               PROVE  SettingsKept /\ PointerFollowsMouse
    OBVIOUS
  <2>1. mouse_x \in 0 .. 79 /\ mouse_y \in 0 .. 24 /\ mouse_cycle \in 0 .. 2
    BY DEF MouseInv, Bytes, DriverOK
  <2>2. ASSUME ~Initializing, ~disturbed
        PROVE  at = 23 /\ config = 71 /\ (BetweenPackets \/ InPacket)
    BY <2>2, Initialized DEF MouseInv, Stage, Packets
  <2>3. ASSUME output = <<>> PROVE ~InPacket
    BY <2>1, <2>3, RestBegins DEF InPacket
  <2>4. SettingsKept
    BY <2>2 DEF SettingsKept
  <2>5. PointerFollowsMouse
    BY <2>1, <2>2, <2>3 DEF PointerFollowsMouse, BetweenPackets
  <2> QED BY <2>4, <2>5
<1> QED BY <1>1, <1>2, <1>3, PTL DEF MouseSpec

-----------------------------------------------------------------------------
(* Serial ports                                                            *)

\* The device of a line as com_open leaves it, for a request it accepts.
Frame(s) == DataBits(s.data) + StopBits(s.stop) + s.parity

Opened(u) ==
  /\ u.ier = COM_INTERRUPT_ENABLE
  /\ \E s \in {t \in Settings : Accepted(t)} : u.lcr = Frame(s)

\* LinesAgree with the functions' domains, and with the divisor latch out of
\* the way of every line, so that com_close reaches the interrupt register.
\* The shared slots are no part of a queue's size.
SerialInv ==
  /\ DOMAIN is_open = ComLines /\ DOMAIN uart = ComLines
  /\ DOMAIN buffer_in = ComLines /\ DOMAIN buffer_out = ComLines
  /\ \A l \in ComLines :
       /\ DOMAIN uart[l] = {"ier", "lcr", "dll", "dlm"}
       /\ uart[l].lcr \in 0 .. COM_DLAB - 1
       /\ "size" \in DOMAIN buffer_out[l]
  /\ \A l \in ComLines : is_open[l] => Opened(uart[l])
  /\ \A l \in ComLines :
       ~is_open[l] => uart[l].ier = 0 /\ buffer_in[l].size = 0 /\ buffer_out[l].size = 0

-----------------------------------------------------------------------------
\* The frame of an accepted request leaves the divisor latch closed.
LEMMA FrameInRange ==
  ASSUME NEW s \in Settings, Accepted(s)
  PROVE  Frame(s) \in 0 .. COM_DLAB - 1
<1>1. s.data \in 5 .. 8 /\ s.stop \in 1 .. 2 /\ s.parity \in {0, 8, 24, 40, 56}
  BY SettingsAssumption DEF Accepted, COM_PARITY
<1> QED BY <1>1 DEF Frame, DataBits, StopBits, COM_DLAB

\* One write to a register of a device keeps what the device is made of.
LEMMA OutbWrites ==
  ASSUME NEW u, DOMAIN u = {"ier", "lcr", "dll", "dlm"}, NEW val
  PROVE  /\ \A k \in {0, 1, 3} : DOMAIN Outb(u, k, val) = {"ier", "lcr", "dll", "dlm"}
         /\ Outb(u, 3, val).lcr = val
         /\ Outb(u, 0, val).lcr = u.lcr /\ Outb(u, 1, val).lcr = u.lcr
         /\ ~Latched(u) => Outb(u, 1, val).ier = val
<1> DEFINE Put(field) == [u EXCEPT ![field] = val]
<1>1. \A field \in DOMAIN u :
        /\ DOMAIN Put(field) = DOMAIN u /\ Put(field)[field] = val
        /\ \A other \in DOMAIN u \ {field} : Put(field)[other] = u[other]
  OBVIOUS
<1>2. /\ Behind(u, 3) = "lcr" /\ Behind(u, 0) = "dll"
      /\ Behind(u, 1) = IF Latched(u) THEN "dlm" ELSE "ier"
  BY DEF Behind
<1>3. /\ \A k \in {1, 3} : Outb(u, k, val) = Put(Behind(u, k))
      /\ Outb(u, 0, val) = IF Latched(u) THEN Put(Behind(u, 0)) ELSE u
  BY DEF Outb
<1> HIDE DEF Put
<1>4. Outb(u, 3, val) = Put("lcr")
  BY <1>2, <1>3
<1>5. Outb(u, 0, val) = IF Latched(u) THEN Put("dll") ELSE u
  BY <1>2, <1>3
<1>6. Outb(u, 1, val) = IF Latched(u) THEN Put("dlm") ELSE Put("ier")
  BY <1>2, <1>3
<1> QED BY <1>1, <1>4, <1>5, <1>6

\* com_open's writes end with the frame stored and the interrupts enabled.
LEMMA ProgramOpens ==
  ASSUME NEW u, DOMAIN u = {"ier", "lcr", "dll", "dlm"},
         NEW s \in Settings, Accepted(s)
  PROVE  /\ DOMAIN Program(u, s) = {"ier", "lcr", "dll", "dlm"}
         /\ Program(u, s).lcr = Frame(s)
         /\ Program(u, s).ier = COM_INTERRUPT_ENABLE
<1> DEFINE silent == Outb(u, 1, 0)
           locked == Outb(silent, 3, COM_DLAB)
           low    == Outb(locked, 0, Divlo(s.baud))
           rated  == Outb(low, 1, 0)
           framed == Outb(rated, 3, Frame(s))
           last   == Outb(framed, 1, COM_INTERRUPT_ENABLE)
           Fields == {"ier", "lcr", "dll", "dlm"}
<1>1. Program(u, s) = last
  BY DEF Program, Frame
<1>2. DOMAIN silent = Fields
  BY OutbWrites
<1>3. DOMAIN locked = Fields
  BY <1>2, OutbWrites
<1>4. DOMAIN low = Fields
  BY <1>3, OutbWrites
<1>5. DOMAIN rated = Fields
  BY <1>4, OutbWrites
<1>6. DOMAIN framed = Fields /\ framed.lcr = Frame(s)
  BY <1>5, OutbWrites
<1>7. ~Latched(framed)
  BY <1>6, FrameInRange DEF COM_DLAB, Latched
<1>8. DOMAIN last = Fields /\ last.lcr = Frame(s) /\ last.ier = COM_INTERRUPT_ENABLE
  BY <1>6, <1>7, OutbWrites
<1> QED BY <1>1, <1>8

LEMMA ComInitSerial ==
  ASSUME ComInit
  PROVE  SerialInv
BY DEF ComInit, SerialInv, new_queue, COM_DLAB

LEMMA OpenSerial ==
  ASSUME SerialInv, NEW line, NEW s \in Settings, com_open(line, s)
  PROVE  SerialInv'
<1>1. CASE Accepted(s) /\ line \in ComLines
  <2> DEFINE u == Program(uart[line], s)
  <2>1. DOMAIN uart[line] = {"ier", "lcr", "dll", "dlm"}
    BY <1>1 DEF SerialInv
  <2>2. /\ DOMAIN u = {"ier", "lcr", "dll", "dlm"}
        /\ u.lcr = Frame(s) /\ u.ier = COM_INTERRUPT_ENABLE
    BY <1>1, <2>1, ProgramOpens
  <2>3. u.lcr \in 0 .. COM_DLAB - 1 /\ Opened(u)
    BY <1>1, <2>2, FrameInRange DEF Opened
  <2>4. /\ is_open' = [is_open EXCEPT ![line] = TRUE]
        /\ uart' = [uart EXCEPT ![line] = u]
        /\ UNCHANGED <<buffer_in, buffer_out>>
    BY <1>1 DEF com_open
  <2> HIDE DEF u
  <2> QED BY <1>1, <2>2, <2>3, <2>4 DEF SerialInv
<1>2. CASE ~(Accepted(s) /\ line \in ComLines)
  BY <1>2 DEF com_open, SerialInv
<1> QED BY <1>1, <1>2

LEMMA CloseSerial ==
  ASSUME SerialInv, NEW line, com_close(line)
  PROVE  SerialInv'
<1> DEFINE u == Outb(uart[line], 1, 0)
<1>1. line \in ComLines /\ uart' = [uart EXCEPT ![line] = u]
  BY DEF com_close
<1>2. DOMAIN uart[line] = {"ier", "lcr", "dll", "dlm"} /\ uart[line].lcr \in 0 .. COM_DLAB - 1
  BY <1>1 DEF SerialInv
<1>3. ~Latched(uart[line])
  BY <1>2 DEF COM_DLAB, Latched
<1>4. /\ DOMAIN u = {"ier", "lcr", "dll", "dlm"}
      /\ u.lcr \in 0 .. COM_DLAB - 1 /\ u.ier = 0
  BY <1>2, <1>3, OutbWrites
<1> HIDE DEF u
<1>5. CASE is_open[line]
  <2>1. /\ is_open' = [is_open EXCEPT ![line] = FALSE]
        /\ buffer_out' = [buffer_out EXCEPT ![line] = clear_queue(buffer_out[line])]
        /\ buffer_in' = [buffer_in EXCEPT ![line] = clear_queue(buffer_in[line])]
    BY <1>5 DEF com_close
  <2>2. \A q : clear_queue(q).size = 0 /\ "size" \in DOMAIN clear_queue(q)
    BY DEF clear_queue
  <2> QED BY <1>1, <1>4, <2>1, <2>2 DEF SerialInv
<1>6. CASE ~is_open[line]
  BY <1>1, <1>4, <1>6 DEF com_close, SerialInv
<1> QED BY <1>5, <1>6

\* A shared slot is no part of a queue's size.
LEMMA WrittenSizes ==
  ASSUME SerialInv, NEW line \in ComLines, NEW q, "size" \in DOMAIN q
  PROVE  /\ DOMAIN Written(buffer_out, line, q) = ComLines
         /\ \A l \in ComLines : "size" \in DOMAIN Written(buffer_out, line, q)[l]
         /\ \A l \in ComLines \ {line} : Written(buffer_out, line, q)[l].size = buffer_out[l].size
<1> DEFINE Put(l, slot, val) == [buffer_out[l] EXCEPT !.data[slot] = val]
<1>1. ASSUME NEW l \in ComLines, NEW slot, NEW val
      PROVE  "size" \in DOMAIN Put(l, slot, val) /\ Put(l, slot, val).size = buffer_out[l].size
  BY <1>1 DEF SerialInv
<1>2. \A l \in ComLines :
        Written(buffer_out, line, q)[l] =
          IF l = line THEN q
          ELSE IF l = line + 1 THEN Put(l, 0, q.data[Capacity])
          ELSE IF l = line - 1 THEN Put(l, Capacity, q.data[0])
          ELSE buffer_out[l]
  BY DEF Written
<1>3. DOMAIN Written(buffer_out, line, q) = ComLines
  BY DEF Written
<1> HIDE DEF Put
<1>4. \A l \in ComLines : "size" \in DOMAIN buffer_out[l]
  BY DEF SerialInv
<1> QED BY <1>1, <1>2, <1>3, <1>4

\* Only an open line's queues are used.
LEMMA UseSerial ==
  ASSUME SerialInv, NEW line, com_read(line) \/ \E ch \in Chars : com_write(line, ch)
  PROVE  SerialInv'
<1>1. line \in ComLines /\ is_open[line] /\ UNCHANGED <<is_open, uart>>
  BY DEF com_read, com_write, CanUse
<1>2. CASE com_read(line)
  <2>1. buffer_out' = buffer_out /\ buffer_in' = [buffer_in EXCEPT ![line] = dequeue(@)]
    BY <1>2 DEF com_read
  <2>2. /\ DOMAIN buffer_in' = ComLines
        /\ \A l \in ComLines \ {line} : buffer_in'[l] = buffer_in[l]
    BY <2>1 DEF SerialInv
  <2> QED BY <1>1, <2>1, <2>2 DEF SerialInv
<1>3. ASSUME NEW ch \in Chars, com_write(line, ch)
      PROVE  SerialInv'
  <2> DEFINE q == enqueue(buffer_out[line], ch)
  <2>1. buffer_out' = Written(buffer_out, line, q) /\ buffer_in' = buffer_in
    BY <1>3 DEF com_write
  <2>2. "size" \in DOMAIN q
    BY DEF enqueue
  <2> HIDE DEF q
  <2>3. /\ DOMAIN buffer_out' = ComLines
        /\ \A l \in ComLines : "size" \in DOMAIN buffer_out'[l]
        /\ \A l \in ComLines \ {line} : buffer_out'[l].size = buffer_out[l].size
    BY <1>1, <2>1, <2>2, WrittenSizes
  <2> QED BY <1>1, <2>1, <2>3 DEF SerialInv
<1> QED BY <1>2, <1>3

LEMMA NextSerial ==
  ASSUME SerialInv, [SerialNext]_svars
  PROVE  SerialInv'
<1>1. CASE UNCHANGED svars
  BY <1>1 DEF svars, SerialInv
<1> QED BY <1>1, OpenSerial, CloseSerial, UseSerial DEF SerialNext

\* For every capacity, and in every order of the calls: the flag of a line
\* and its device agree, and a closed line's queues are empty.
THEOREM SerialSafe == SerialSpec => []LinesAgree
<1>1. ComInit => SerialInv
  BY ComInitSerial
<1>2. SerialInv /\ [SerialNext]_svars => SerialInv'
  BY NextSerial
<1>3. SerialInv => LinesAgree
  BY DEF SerialInv, LinesAgree, Opened, Frame
<1> QED BY <1>1, <1>2, <1>3, PTL DEF SerialSpec

-----------------------------------------------------------------------------
(* Paging                                                                  *)

\* The kernel's page.
Low(i) == [pdpt |-> 0, pdt |-> 0, pt |-> i]

\* The processor's copy leads to the first directory alone; of that, only the
\* first entry names the kernel's table, which no fault touches.
KernelTables ==
  /\ cr3[0] = "pdt" /\ cr3[1] = None
  /\ pdt \in [Index -> {"pt", "pttemp", None}]
  /\ \A i \in Index : pdt[i] = "pt" <=> i = 0
  /\ \A i \in Index : pt[i] = Low(i)

\* The shared table holds the pages of the last faults.
SharedTable ==
  /\ pttemp \in [Index -> Page \union {NoPage}]
  /\ faulted = pttemp

\* The page being waited for is mapped, where a fault can map it.
WantedMapped ==
  /\ wanted \in Page \union {NoPage}
  /\ wanted # NoPage /\ wanted.pdpt = 0 =>
       pdt[wanted.pdt] = "pttemp" /\ pttemp[wanted.pt] = wanted

PagingInv == KernelTables /\ SharedTable /\ WantedMapped

-----------------------------------------------------------------------------
LEMMA NoPageIsNone == NoPage \notin Page
<1> SUFFICES ASSUME NoPage \in Page PROVE FALSE
  OBVIOUS
<1>1. NoPage.pdpt \in 0 .. 1
  BY DEF Page
<1> QED BY <1>1 DEF NoPage

LEMMA ZeroIsIndex == 0 \in Index
BY EntriesAssumption DEF Index

\* What the processor's walk finds.
LEMMA WalkFinds ==
  ASSUME KernelTables, NEW p \in Page
  PROVE  Walk(p) = IF p.pdpt # 0 \/ pdt[p.pdt] = None THEN NoPage
                   ELSE IF p.pdt = 0 THEN Low(p.pt) ELSE pttemp[p.pt]
<1>1. p.pdpt \in 0 .. 1 /\ p.pdt \in Index /\ p.pt \in Index
  BY DEF Page
<1>2. CASE p.pdpt # 0
  <2>1. p.pdpt = 1
    BY <1>1, <1>2
  <2> QED BY <1>2, <2>1 DEF Walk, KernelTables
<1>3. CASE p.pdpt = 0
  <2>1. cr3[p.pdpt] # None /\ Directory(cr3[p.pdpt]) = pdt
    BY <1>3 DEF KernelTables, None, Directory
  <2>2. Walk(p) = IF pdt[p.pdt] = None THEN NoPage ELSE Table(pdt[p.pdt])[p.pt]
    BY <2>1 DEF Walk
  <2>3. CASE p.pdt = 0
    <3>1. pdt[p.pdt] = "pt" /\ pt[p.pt] = Low(p.pt)
      BY <1>1, <2>3 DEF KernelTables
    <3>2. Table("pt") = pt
      BY DEF Table
    <3> QED BY <1>3, <2>2, <2>3, <3>1, <3>2 DEF None
  <2>4. CASE p.pdt # 0
    <3>1. pdt[p.pdt] \in {"pttemp", None}
      BY <1>1, <2>4 DEF KernelTables
    <3>2. Table("pttemp") = pttemp
      BY DEF Table
    <3> QED BY <1>3, <2>2, <2>4, <3>1, <3>2
  <2> QED BY <2>3, <2>4
<1> QED BY <1>2, <1>3

\* A fault is never for one of the kernel's pages.
LEMMA KernelIsMapped ==
  ASSUME KernelTables, NEW p \in Page, KernelPage(p)
  PROVE  Walk(p) = p /\ Walk(p) # NoPage
<1>1. p.pdpt = 0 /\ p.pdt = 0 /\ p.pt \in Index
  BY DEF KernelPage, Page
<1>2. pdt[p.pdt] = "pt"
  BY <1>1, ZeroIsIndex DEF KernelTables
<1>3. Walk(p) = Low(p.pt)
  BY <1>1, <1>2, WalkFinds DEF None
<1>4. p = Low(p.pt)
  BY <1>1 DEF Low, Page
<1> QED BY <1>3, <1>4, NoPageIsNone

LEMMA PagingInitInv ==
  ASSUME PagingInit
  PROVE  PagingInv
<1>1. KernelTables
  BY DEF PagingInit, KernelTables, Low, None
<1>2. SharedTable /\ WantedMapped
  BY DEF PagingInit, SharedTable, WantedMapped
<1> QED BY <1>1, <1>2 DEF PagingInv

LEMMA FaultPaging ==
  ASSUME PagingInv, NEW p \in Page, NEW present \in BOOLEAN, ~present,
         paging_isr(p, present)
  PROVE  PagingInv'
<1>1. p.pdpt \in 0 .. 1 /\ p.pdt \in Index /\ p.pt \in Index
  BY DEF Page
<1>2. KernelTables /\ SharedTable
  BY DEF PagingInv
<1>3. ~KernelPage(p)
  BY <1>2, KernelIsMapped DEF paging_isr
<1>4. /\ faulted' = [faulted EXCEPT ![p.pt] = p]
      /\ pttemp' = [pttemp EXCEPT ![p.pt] = p]
      /\ wanted' = p /\ cr3' = cr3 /\ pt' = pt
  BY DEF paging_isr, MapLow, MapHigh
<1>5. SharedTable'
  BY <1>1, <1>2, <1>4 DEF SharedTable
<1>6. CASE p.pdpt = 0
  <2>1. pdt' = [pdt EXCEPT ![p.pdt] = "pttemp"] /\ p.pdt # 0
    BY <1>3, <1>6 DEF paging_isr, MapLow, KernelPage
  <2>2. KernelTables'
    BY <1>1, <1>2, <1>4, <2>1 DEF KernelTables
  <2>3. pdt'[p.pdt] = "pttemp" /\ pttemp'[p.pt] = p
    BY <1>1, <1>2, <1>4, <2>1 DEF KernelTables, SharedTable
  <2> QED BY <1>4, <1>5, <2>2, <2>3 DEF PagingInv, WantedMapped
<1>7. CASE p.pdpt # 0
  <2>1. pdt' = pdt
    BY <1>7 DEF paging_isr, MapHigh
  <2>2. KernelTables'
    BY <1>2, <1>4, <2>1 DEF KernelTables
  <2> QED BY <1>4, <1>5, <1>7, <2>2 DEF PagingInv, WantedMapped
<1> QED BY <1>6, <1>7

LEMMA NextPaging ==
  ASSUME PagingInv, [PagingNext]_gvars
  PROVE  PagingInv'
<1>1. ASSUME NEW p \in Page, Access(p)
      PROVE  PagingInv'
  BY <1>1 DEF Access, ptables, PagingInv, KernelTables, SharedTable, WantedMapped
<1>2. ASSUME NEW p \in Page, NEW present \in BOOLEAN, present, paging_isr(p, present)
      PROVE  PagingInv'
  <2>1. UNCHANGED <<ptables, faulted, wanted>>
    BY <1>2 DEF paging_isr
  <2> QED BY <2>1 DEF ptables, PagingInv, KernelTables, SharedTable, WantedMapped
<1>3. CASE UNCHANGED gvars
  BY <1>3 DEF gvars, ptables, PagingInv, KernelTables, SharedTable, WantedMapped
<1> QED BY <1>1, <1>2, <1>3, FaultPaging DEF PagingNext

LEMMA PagingImplies ==
  ASSUME PagingInv
  PROVE  MapsLastFault
<1>1. KernelTables /\ SharedTable
  BY DEF PagingInv
<1>2. ASSUME NEW p \in Page, KernelPage(p)
      PROVE  Walk(p) = p
  BY <1>1, <1>2, KernelIsMapped
<1>3. ASSUME NEW p \in Page, ~KernelPage(p)
      PROVE  Walk(p) \in {NoPage, faulted[p.pt]}
  BY <1>1, <1>3, WalkFinds DEF SharedTable, KernelPage
<1>4. ASSUME wanted # NoPage, wanted.pdpt = 0
      PROVE  Walk(wanted) = wanted
  <2>1. wanted \in Page /\ pdt[wanted.pdt] = "pttemp" /\ pttemp[wanted.pt] = wanted
    BY <1>4 DEF PagingInv, WantedMapped
  <2>2. wanted.pdt \in Index /\ wanted.pdt # 0
    BY <1>1, <2>1, ZeroIsIndex DEF KernelTables, Page
  <2> QED BY <1>1, <1>4, <2>1, <2>2, WalkFinds DEF None
<1> QED BY <1>2, <1>3, <1>4 DEF MapsLastFault

\* For every number of entries: whatever faults there are the kernel stays
\* mapped, a page whose access is restarted below 1 GiB is mapped to itself,
\* and every other mapping is that of the last fault in the shared table.
THEOREM PagingSafe == PagingSpec => []MapsLastFault
<1>1. PagingInit => PagingInv
  BY PagingInitInv
<1>2. PagingInv /\ [PagingNext]_gvars => PagingInv'
  BY NextPaging
<1>3. PagingInv => MapsLastFault
  BY PagingImplies
<1> QED BY <1>1, <1>2, <1>3, PTL DEF PagingSpec

-----------------------------------------------------------------------------
(* The search for the system description pointer                           *)

\* The search stands on a slot that it looks at, and has seen no pointer
\* before it in the area, or in the one before.
SearchInv ==
  /\ tables \in [DOMAIN tables -> Pointer] /\ DOMAIN tables \subseteq Area
  /\ scan \in Nat /\ end \in {EbdaSlots, EbdaSlots + BiosSlots}
  /\ end # EbdaSlots => scan >= EbdaSlots
  /\ scan < end => Seen(scan)
  /\ \A slot \in DOMAIN tables : Seen(slot) /\ slot < end => scan <= slot

ResultInv ==
  /\ found \in BOOLEAN /\ result \in {"none", "ENXIO", "EOK", "EFAULT"}
  /\ found => scan < end /\ scan \in DOMAIN tables /\ result # "ENXIO"
  /\ ~found /\ result # "none" => result = "ENXIO" /\ scan >= end /\ end # EbdaSlots
  /\ result = "none" => xsdt = NoSlot
  /\ found /\ result # "none" => (result = "EOK" <=> Good(tables[scan]))
  /\ result = "EOK" =>
       rsdt = scan /\ xsdt = IF tables[scan].revision > 0 THEN scan ELSE NoSlot

SdtInv == SearchInv /\ ResultInv

LEMMA InitSdt ==
  ASSUME SdtInit
  PROVE  SdtInv
<1> USE SlotsAssumption DEF SdtInit
<1>1. tables \in [DOMAIN tables -> Pointer] /\ DOMAIN tables \subseteq Area
  OBVIOUS
<1>2. \A slot \in DOMAIN tables : 0 <= slot
  BY <1>1 DEF Area
<1>3. SearchInv
  BY <1>1, <1>2 DEF SearchInv, Seen
<1>4. ResultInv
  BY DEF ResultInv
<1> QED BY <1>3, <1>4 DEF SdtInv

LEMMA NextSdt ==
  ASSUME SdtInv, [SdtNext]_tvars
  PROVE  SdtInv'
<1> USE SlotsAssumption
<1>0. SearchInv /\ ResultInv /\ \A slot \in DOMAIN tables : slot \in Nat
  BY DEF SdtInv, SearchInv, Area
<1>1. CASE Match
  BY <1>0, <1>1 DEF Match, Searching, SdtInv, SearchInv, ResultInv
<1>2. CASE Skip
  <2>1. /\ UNCHANGED <<tables, end, found, rsdt, xsdt, result>> /\ scan' = scan + 2
        /\ ~found /\ result = "none" /\ scan < end /\ scan \notin DOMAIN tables
    BY <1>2 DEF Skip, Searching
  <2>2. Seen(scan) /\ scan \in Nat /\ end \in Nat
    BY <1>0, <2>1 DEF SearchInv
  <2>3. ASSUME NEW slot \in Nat, Seen(slot), scan <= slot, slot < end, slot # scan
        PROVE  scan + 2 <= slot
    <3>1. slot # scan + 1
      BY <1>0, <2>1, <2>2, <2>3 DEF Seen, SearchInv
    <3> QED BY <2>2, <2>3, <3>1
  <2>4. scan + 2 < end => Seen(scan + 2)
    BY <1>0, <2>1, <2>2 DEF Seen, SearchInv
  <2>5. SearchInv'
    BY <1>0, <2>1, <2>2, <2>3, <2>4 DEF SearchInv
  <2>6. ResultInv'
    BY <1>0, <2>1 DEF ResultInv
  <2> QED BY <2>5, <2>6 DEF SdtInv
<1>3. CASE SecondArea
  <2>1. /\ UNCHANGED <<tables, found, rsdt, xsdt, result>> /\ scan' = EbdaSlots
        /\ end' = EbdaSlots + BiosSlots /\ scan >= end /\ end = EbdaSlots
        /\ ~found /\ result = "none"
    BY <1>3 DEF SecondArea, Searching
  <2>2. Seen(EbdaSlots)
    BY DEF Seen
  <2>3. \A slot \in DOMAIN tables : Seen(slot) => EbdaSlots <= slot
    BY <1>0, <2>1 DEF SearchInv
  <2>4. SearchInv'
    BY <1>0, <2>1, <2>2, <2>3 DEF SearchInv
  <2>5. ResultInv'
    BY <1>0, <2>1 DEF ResultInv
  <2> QED BY <2>4, <2>5 DEF SdtInv
<1>4. CASE NotFound
  BY <1>0, <1>4 DEF NotFound, Searching, SdtInv, SearchInv, ResultInv
<1>5. CASE Validate
  <2> DEFINE p == tables[scan]
  <2>1. /\ found /\ result = "none" /\ UNCHANGED <<tables, scan, end, found>>
        /\ result' = IF Good(p) THEN "EOK" ELSE "EFAULT"
        /\ rsdt' = IF p.sum THEN scan ELSE rsdt
        /\ xsdt' = IF p.sum /\ p.revision > 0 /\ p.xsum THEN scan ELSE xsdt
    BY <1>5 DEF Validate
  <2>2. result' = "EOK" => Good(p)
    BY <2>1
  <2>3. Good(p) => /\ rsdt' = scan
                   /\ xsdt' = IF p.revision > 0 THEN scan ELSE NoSlot
    BY <1>0, <2>1 DEF Good, ResultInv
  <2>4. SearchInv'
    BY <1>0, <2>1 DEF SearchInv
  <2>5. /\ result' \in {"EOK", "EFAULT"}
        /\ (result' = "EOK" <=> Good(p)) /\ Good(tables'[scan']) = Good(p)
    BY <2>1
  <2>6. result' = "EOK" => /\ rsdt' = scan'
                          /\ xsdt' = IF tables'[scan'].revision > 0 THEN scan' ELSE NoSlot
    BY <2>1, <2>2, <2>3
  <2> HIDE DEF p
  <2>7. ResultInv'
    BY <1>0, <2>1, <2>5, <2>6 DEF ResultInv
  <2> QED BY <2>4, <2>7 DEF SdtInv
<1>6. CASE UNCHANGED tvars
  BY <1>0, <1>6 DEF tvars, SdtInv, SearchInv, ResultInv
<1> QED BY <1>1, <1>2, <1>3, <1>4, <1>5, <1>6 DEF SdtNext

LEMMA SdtImplies ==
  ASSUME SdtInv, result # "none", \A slot \in DOMAIN tables : Seen(slot)
  PROVE  FirstPointerDecides
<1> USE SlotsAssumption
<1>0. SearchInv /\ ResultInv
  BY DEF SdtInv
<1>1. CASE found
  <2>1. scan < end /\ scan \in DOMAIN tables
    BY <1>0, <1>1 DEF ResultInv
  <2>2. \A slot \in DOMAIN tables : scan <= slot
    BY <1>0, <2>1 DEF SearchInv, Area
  <2>3. (result = "EOK") <=> Good(tables[scan])
    BY <1>0, <1>1 DEF ResultInv
  <2>4. result = "EOK" => /\ rsdt = scan
                         /\ xsdt = IF tables[scan].revision > 0 THEN scan ELSE NoSlot
    BY <1>0 DEF ResultInv
  <2> QED BY <2>1, <2>2, <2>3, <2>4 DEF FirstPointerDecides
<1>2. CASE ~found
  <2>1. result = "ENXIO" /\ scan >= end /\ end = EbdaSlots + BiosSlots
    BY <1>0, <1>2 DEF SearchInv, ResultInv
  <2>2. ASSUME NEW slot \in DOMAIN tables PROVE FALSE
    <3>1. slot \in Area /\ Seen(slot)
      BY <1>0 DEF SearchInv
    <3>2. ~(slot < end)
      BY <1>0, <2>1, <3>1 DEF SearchInv, Area
    <3> QED BY <2>1, <3>1, <3>2 DEF Area
  <2>3. result = "ENXIO"
    BY <2>1
  <2>4. DOMAIN tables = {}
    BY ONLY <2>2
  <2> QED BY ONLY <2>3, <2>4, Zenon DEF FirstPointerDecides
<1> QED BY <1>1, <1>2

\* For areas of any size and any number of pointers, all of them where the
\* search looks (every second slot of each area): the first with the signature
\* decides the search, which is right about its sums and fails only where there
\* is none.
THEOREM SdtSafe == SdtSpec => []FirstPointerDecides
<1>1. SdtInit => SdtInv
  BY InitSdt
<1>2. SdtInv /\ [SdtNext]_tvars => SdtInv'
  BY NextSdt
<1>3. SdtInv => FirstPointerDecides
  BY SdtImplies DEF FirstPointerDecides
<1> QED BY <1>1, <1>2, <1>3, PTL DEF SdtSpec

-----------------------------------------------------------------------------
(* Clock                                                                   *)

\* A read that nothing has cut is of the register selected, and what has been
\* read is the chip's time.
DateInv ==
  /\ reg \in {1, 2} /\ DOMAIN dt = {1, 2}
  /\ pc \notin {"select", "read", "told"} => reg = 1
  /\ pc = "read" /\ ~split => sel = Registers[reg] /\ isr = "off"
  /\ pc \in {"select", "read"} /\ reg = 2 /\ ~split => dt[1] = now % SECS
  /\ pc = "told" => reg = 2
  /\ pc = "told" /\ ~split => dt = <<now % SECS, now \div SECS>>

\* The message leaves the high byte's index selected, so the low byte is
\* where main's write belongs or has been overwritten.
CursorInv ==
  /\ cursor.index \in {"LO", "HI"}
  /\ pc = "put_lo" /\ cursor.index = "HI" => cursor.lo = TopLine.lo
  /\ pc \in {"index_hi", "put_hi"} => cursor.lo \in {pos.lo, TopLine.lo}
  /\ pc = "put_hi" => cursor.index = "HI"

\* The handler is off or has the rest to do.
HandlerInv == isr \in {"off", "rest"} /\ NeverDeaf

\* The interrupts of this second that the handler has counted, or will before
\* the next one, reach RTC_IRQ_FREQ: the time's read is still to come.
LatchedCount == IF pending THEN 1 ELSE 0
Due == count + LatchedCount > phase

Second(t) == t % SECS
Minute(t) == t \div SECS
Times == 0 .. SECS * MINS - 1
After(t) == (t + 1) % (SECS * MINS)

\* While no interrupt was missed and no read split, the time is read once in
\* every second.  What the read has yet to tell is this second's minute.
MinuteInv ==
  /\ now \in Times /\ phase \in 0 .. RTC_IRQ_FREQ - 1
  /\ count \in 0 .. RTC_IRQ_FREQ
  /\ missed \in Nat
  /\ isr \in {"off", "rest"}
  /\ count = RTC_IRQ_FREQ => isr = "rest"
  /\ missed = 0 /\ ~torn =>
       /\ count = RTC_IRQ_FREQ => isr_sec = Second(now)
       /\ ~Due => said /\ prev_min \in {255, Minute(now)}
       /\ ~said => Second(now) = 0 /\ prev_min # Minute(now)

-----------------------------------------------------------------------------
\* A minute that begins is not the one before it, and no minute is 255.
LEMMA MinuteBegins ==
  ASSUME NEW t \in Times
  PROVE  /\ After(t) \in Times /\ After(t) # t
         /\ Second(After(t)) = 0 => Minute(t) # Minute(After(t))
         /\ Minute(t) # 255
BY ClockAssumption DEF Times, After, Second, Minute

LEMMA InitMinute ==
  ASSUME ClockInit
  PROVE  MinuteInv
BY ClockAssumption DEF ClockInit, MinuteInv, LatchedCount, Due, Times

\* Whatever leaves the time, the read and what was told of it alone.
LEMMA KeepsMinute ==
  ASSUME MinuteInv, UNCHANGED <<now, phase, missed, torn, said, prev_min, isr_sec>>,
         isr' \in {"off", "rest"},
         count' \in 0 .. RTC_IRQ_FREQ, count' + LatchedCount' = count + LatchedCount,
         count' = RTC_IRQ_FREQ => isr' = "rest" /\ count = RTC_IRQ_FREQ
  PROVE  MinuteInv'
BY DEF MinuteInv, Due

LEMMA NextMinute ==
  ASSUME MinuteInv, [ClockNext]_cvars
  PROVE  MinuteInv'
<1>0. PortData("SEC") = Second(now) /\ PortData("MIN") = Minute(now) /\ Minute(now) # 255
  <2>1. PortData("SEC") = Second(now)
    BY DEF PortData, Second
  <2>2. PortData("MIN") = Minute(now)
    BY DEF PortData, Minute
  <2> QED BY <2>1, <2>2, MinuteBegins DEF MinuteInv, Minute
<1>1. CASE Tick
  <2>0. phase' = (phase + 1) % RTC_IRQ_FREQ
    BY <1>1 DEF Tick
  <2>1. /\ missed' = IF flag \/ pending THEN missed + 1 ELSE missed
        /\ now' = IF phase' = 0 THEN After(now) ELSE now
        /\ UNCHANGED <<count, prev_min, isr, isr_sec>>
        /\ said' <=> said /\ ~(now' # now /\ Second(now') = 0)
        /\ torn' <=> torn \/ (now' # now /\ isr = "rest" /\ count = RTC_IRQ_FREQ)
        /\ pending' <=> pending \/ ~flag
    BY <1>1 DEF Tick, After, Second
  <2>2. phase' = IF phase = RTC_IRQ_FREQ - 1 THEN 0 ELSE phase + 1
    BY <2>0, ClockAssumption DEF MinuteInv
  <2>3. ASSUME missed' = 0, ~torn'
        PROVE  missed = 0 /\ ~torn /\ ~pending /\ pending'
    BY <2>1, <2>3 DEF MinuteInv
  <2>4. now' \in Times
    BY <2>1, MinuteBegins DEF MinuteInv
  <2>5. phase' \in 0 .. RTC_IRQ_FREQ - 1 /\ missed' \in Nat
    BY <2>1, <2>2, ClockAssumption DEF MinuteInv
  <2>6. CASE phase = RTC_IRQ_FREQ - 1
    <3>1. phase' = 0 /\ now' = After(now) /\ now' # now
      BY <2>1, <2>2, <2>6, MinuteBegins DEF MinuteInv
    <3>2. ASSUME missed' = 0, ~torn'
          PROVE  ~Due /\ Due'
      <4>1. count # RTC_IRQ_FREQ /\ ~pending /\ pending' /\ count' = count
        BY <2>1, <2>3, <3>1, <3>2 DEF MinuteInv
      <4> QED BY <2>6, <3>1, <4>1, ClockAssumption DEF MinuteInv, Due, LatchedCount
    <3>3. ASSUME missed' = 0, ~torn', ~said'
          PROVE  Second(now') = 0 /\ prev_min' # Minute(now')
      BY <1>0, <2>1, <2>3, <3>1, <3>2, <3>3, MinuteBegins DEF MinuteInv
    <3> QED BY <2>1, <2>4, <2>5, <3>2, <3>3 DEF MinuteInv
  <2>7. CASE phase # RTC_IRQ_FREQ - 1
    <3>1. phase' = phase + 1 /\ now' = now /\ (said' <=> said)
      BY <2>1, <2>2, <2>7 DEF MinuteInv
    <3>2. ASSUME missed' = 0, ~torn' PROVE Due' <=> Due
      BY <2>1, <2>3, <3>1, <3>2 DEF MinuteInv, Due, LatchedCount
    <3> QED BY <2>1, <2>3, <2>4, <2>5, <3>1, <3>2 DEF MinuteInv
  <2> QED BY <2>6, <2>7
<1>2. CASE IsrEnter
  <2>1. /\ UNCHANGED <<now, phase, missed, torn, said, prev_min>>
        /\ pending /\ ~pending' /\ isr' = "rest" /\ isr_sec' = Second(now)
        /\ count' = count + 1 /\ isr = "off"
    BY <1>0, <1>2 DEF IsrEnter, MinuteInv
  <2>2. count' \in 0 .. RTC_IRQ_FREQ /\ (Due' <=> Due)
    BY <2>1, ClockAssumption DEF MinuteInv, Due, LatchedCount
  <2> QED BY <2>1, <2>2 DEF MinuteInv
<1>3. CASE IsrRead
  <2>1. /\ UNCHANGED <<now, phase, pending, missed, torn, isr, isr_sec>>
        /\ count = RTC_IRQ_FREQ /\ count' = 0 /\ prev_min' = Minute(now)
        /\ isr = "rest"
        /\ said' <=> said \/ (isr_sec = 0 /\ prev_min # Minute(now))
    BY <1>0, <1>3 DEF IsrRead, Announces, chip
  <2>2. missed' = 0 /\ ~torn' => said'
    BY <2>1 DEF MinuteInv
  <2> QED BY <2>1, <2>2, ClockAssumption DEF MinuteInv
<1>4. CASE IsrAck
  <2>1. /\ UNCHANGED <<now, phase, missed, torn, said, prev_min, isr_sec, pending, count>>
        /\ isr' = "off" /\ count < RTC_IRQ_FREQ
    BY <1>4 DEF IsrAck
  <2> QED BY <2>1, KeepsMinute DEF MinuteInv, LatchedCount
<1>5. CASE rtc_time \/ vga_write \/ UNCHANGED cvars
  <2>1. UNCHANGED <<now, phase, pending, missed, handler>>
    BY <1>5 DEF rtc_time, vga_write, cvars, Date, Select, ReadReg, Told, Poll, PutLo, IndexHi, PutHi, chip
  <2> QED BY <2>1, KeepsMinute DEF handler, MinuteInv, LatchedCount
<1> QED BY <1>1, <1>2, <1>3, <1>4, <1>5 DEF ClockNext, rtc_isr

LEMMA InitClock ==
  ASSUME ClockInit
  PROVE  HandlerInv /\ DateInv /\ CursorInv
<1>1. HandlerInv
  BY DEF ClockInit, HandlerInv, NeverDeaf
<1>2. DateInv
  BY DEF ClockInit, DateInv, Unread
<1>3. CursorInv
  BY DEF ClockInit, CursorInv
<1> QED BY <1>1, <1>2, <1>3

\* The chip's flag goes up with the interrupt latched or already latched, and
\* the latch is cleared where the handler starts.
LEMMA NextHandler ==
  ASSUME HandlerInv, [ClockNext]_cvars
  PROVE  HandlerInv'
<1>1. CASE Tick
  BY <1>1 DEF Tick, HandlerInv, NeverDeaf
<1>2. CASE rtc_isr
  BY <1>2 DEF rtc_isr, IsrEnter, IsrRead, IsrAck, HandlerInv, NeverDeaf, chip
<1>3. CASE rtc_time
  <2>1. (flag' => flag) /\ pending' = pending /\ isr' = isr
    <3>1. Date \/ Select \/ Told => (flag' => flag) /\ pending' = pending /\ isr' = isr
      BY DEF Date, Select, Told, chip, handler
    <3>2. ReadReg => (flag' => flag) /\ pending' = pending /\ isr' = isr
      BY Zenon DEF ReadReg, handler
    <3> QED BY <1>3, <3>1, <3>2, Zenon DEF rtc_time
  <2> QED BY <2>1 DEF HandlerInv, NeverDeaf
<1>4. CASE vga_write
  BY <1>4 DEF vga_write, Poll, PutLo, IndexHi, PutHi, HandlerInv, NeverDeaf, chip, handler
<1>5. CASE UNCHANGED cvars
  BY <1>5 DEF cvars, HandlerInv, NeverDeaf, chip, handler
<1> QED BY <1>1, <1>2, <1>3, <1>4, <1>5 DEF ClockNext

\* Whatever leaves main, the selected register and the time alone.
LEMMA KeepsDate ==
  ASSUME DateInv, UNCHANGED <<main, now>>, split => split',
         pc = "read" /\ ~split' => sel' = sel /\ isr' = isr
  PROVE  DateInv'
BY DEF DateInv, main

LEMMA NextDate ==
  ASSUME DateInv, [ClockNext]_cvars
  PROVE  DateInv'
<1>1. CASE Tick
  <2>1. UNCHANGED <<main, sel, isr>> /\ (split' <=> split \/ (now' # now /\ pc # "idle" /\ reg > 1))
    BY <1>1 DEF Tick
  <2>2. CASE now' = now
    BY <2>1, <2>2, KeepsDate
  <2>3. CASE now' # now
    BY <2>1, <2>3 DEF DateInv, main
  <2> QED BY <2>2, <2>3
<1>2. CASE IsrEnter
  BY <1>2, KeepsDate DEF IsrEnter
<1>3. CASE IsrRead
  BY <1>3, KeepsDate DEF IsrRead, chip
<1>4. CASE IsrAck
  BY <1>4, KeepsDate DEF IsrAck, DateInv
<1>5. CASE Date
  BY <1>5 DEF Date, DateInv, chip
<1>6. CASE Select
  BY <1>6 DEF Select, DateInv, handler
<1>7. CASE ReadReg
  <2>1. /\ pc = "read" /\ dt' = [dt EXCEPT ![reg] = PortData(sel)] /\ now' = now
        /\ split' = split /\ reg \in {1, 2} /\ DOMAIN dt = {1, 2}
    BY <1>7 DEF ReadReg, DateInv, chip
  <2>2. DOMAIN dt' = {1, 2} /\ dt'[reg] = PortData(sel) /\ (reg = 2 => dt'[1] = dt[1])
    BY <2>1
  <2>3. /\ reg = 1 => pc' = "select" /\ reg' = 2
        /\ reg = 2 => pc' = "told" /\ reg' = 2
    BY <1>7, <2>1 DEF ReadReg, Registers
  <2>4. ~split => PortData(sel) = IF reg = 1 THEN now % SECS ELSE now \div SECS
    <3>1. PortData("SEC") = now % SECS
      BY DEF PortData
    <3>2. PortData("MIN") = now \div SECS
      BY DEF PortData
    <3>3. ~split => sel = IF reg = 1 THEN "SEC" ELSE "MIN"
      BY <2>1 DEF DateInv, Registers
    <3> QED BY <3>1, <3>2, <3>3
  <2>5. CASE reg = 1
    BY <2>1, <2>2, <2>3, <2>4, <2>5 DEF DateInv
  <2>6. CASE reg = 2
    BY <2>1, <2>2, <2>3, <2>4, <2>6 DEF DateInv
  <2> QED BY <2>1, <2>5, <2>6
<1>8. CASE Told
  BY <1>8 DEF Told, DateInv, Unread
<1>9. CASE vga_write
  BY <1>9 DEF vga_write, Poll, PutLo, IndexHi, PutHi, DateInv, chip, handler
<1>10. CASE UNCHANGED cvars
  BY <1>10, KeepsDate DEF cvars, chip, handler
<1> QED
  BY <1>1, <1>2, <1>3, <1>4, <1>5, <1>6, <1>7, <1>8, <1>9, <1>10
  DEF ClockNext, rtc_isr, rtc_time

LEMMA NextCursor ==
  ASSUME CursorInv, [ClockNext]_cvars
  PROVE  CursorInv'
<1>1. CASE Tick \/ IsrEnter \/ IsrAck \/ UNCHANGED cvars
  <2>1. UNCHANGED <<pc, pos, cursor>>
    BY <1>1 DEF Tick, IsrEnter, IsrAck, cvars, main
  <2> QED BY <2>1 DEF CursorInv
<1>2. CASE IsrRead
  <2>1. UNCHANGED <<pc, pos>>
    BY <1>2 DEF IsrRead, main
  <2>2. \/ cursor' = cursor
        \/ cursor' = [index |-> "HI", lo |-> TopLine.lo, hi |-> TopLine.hi]
    BY <1>2 DEF IsrRead
  <2> QED BY <2>1, <2>2 DEF CursorInv
<1>3. CASE rtc_time
  BY <1>3 DEF rtc_time, Date, Select, ReadReg, Told, CursorInv
<1>4. CASE Poll
  BY <1>4 DEF Poll, CursorInv
<1>5. CASE PutLo
  BY <1>5 DEF PutLo, Out, CursorInv
<1>6. CASE IndexHi
  BY <1>6 DEF IndexHi, CursorInv
<1>7. CASE PutHi
  BY <1>7 DEF PutHi, Out, CursorInv
<1> QED
  BY <1>1, <1>2, <1>3, <1>4, <1>5, <1>6, <1>7 DEF ClockNext, rtc_isr, vga_write

LEMMA PutHiHalfRight ==
  ASSUME CursorInv, ClockNext, pc = "put_hi", pc' = "idle"
  PROVE  cursor'.hi = pos.hi /\ cursor'.lo \in {pos.lo, TopLine.lo}
<1>1. PutHi
  BY DEF ClockNext, rtc_isr, rtc_time, vga_write, Tick, IsrEnter, IsrRead, IsrAck,
         Date, Select, ReadReg, Told, Poll, PutLo, IndexHi, main
<1>2. cursor' = [cursor EXCEPT !.hi = pos.hi]
  BY <1>1 DEF PutHi, Out, CursorInv
<1> QED BY <1>2 DEF CursorInv

\* At every rate and length of a minute, a minute is told in its first second
\* when no interrupt was missed and no read was split.
THEOREM ClockTells == ClockSpec => []EveryMinuteTold
<1>1. ClockInit => MinuteInv
  BY InitMinute
<1>2. MinuteInv /\ [ClockNext]_cvars => MinuteInv'
  BY NextMinute
<1>3. MinuteInv => EveryMinuteTold
  BY ClockAssumption DEF MinuteInv, EveryMinuteTold, Second
<1> QED BY <1>1, <1>2, <1>3, PTL DEF ClockSpec

\* At every rate the handler is on its way when the chip's flag is up, and a
\* date that was not cut is the chip's.
THEOREM ClockSafe == ClockSpec => [](NeverDeaf /\ DateIsTime)
<1>1. ClockInit => HandlerInv /\ DateInv
  BY InitClock
<1>2. HandlerInv /\ DateInv /\ [ClockNext]_cvars => (HandlerInv /\ DateInv)'
  BY NextHandler, NextDate
<1>3. HandlerInv /\ DateInv => NeverDeaf /\ DateIsTime
  BY DEF HandlerInv, DateInv, DateIsTime
<1> QED BY <1>1, <1>2, <1>3, PTL DEF ClockSpec

\* However often the message cuts main's writes, the high byte is main's.
THEOREM ClockCursor == ClockSpec => CursorHalfRight
<1>1. ClockInit => CursorInv
  BY InitClock
<1>2. CursorInv /\ [ClockNext]_cvars => CursorInv'
  BY NextCursor
<1>3. CursorInv /\ [ClockNext]_cvars =>
        [pc = "put_hi" /\ pc' = "idle" =>
           cursor'.hi = pos.hi /\ cursor'.lo \in {pos.lo, TopLine.lo}]_cvars
  BY PutHiHalfRight
<1> QED BY <1>1, <1>2, <1>3, PTL DEF ClockSpec, CursorHalfRight
=============================================================================
