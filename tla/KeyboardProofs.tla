--------------------------- MODULE KeyboardProofs ---------------------------
(***************************************************************************)
(* Theorems about Keyboard.tla, for every set of keys and every ring size. *)
(***************************************************************************)
EXTENDS Keyboard, TLAPS

\* The next slot of a slot is a slot, and the increment wraps exactly at the
\* last one ((kbd_head + 1) % 256 and (kbd_tail + 1) % 256).
LEMMA SuccWraps ==
  ASSUME NEW i \in Slots
  PROVE  /\ Succ(i) \in Slots
         /\ Succ(i) = IF i = Size - 1 THEN 0 ELSE i + 1
BY SizeAssumption DEF Succ, Slots

\* What kbd_handler decodes is a character or none (kbd_map_lower and
\* kbd_map_upper with is_shifted).
LEMMA DecodeType ==
  ASSUME NEW k \in Keys, NEW up \in BOOLEAN, NEW s \in BOOLEAN, NEW c \in BOOLEAN
  PROVE  Decode(k, up, s, c) \in Char \cup {NoChar}
BY DEF Decode, is_shifted, Char

\* The controller's registers keep their shape under every write and edge.
LEMMA PicType ==
  ASSUME NEW p \in State, NEW l \in Lines
  PROVE  /\ AsBooted \in State
         /\ Edge(p, l) \in State
         /\ Icw1(p) \in State /\ Icw4(p) \in State
         /\ Ocw1(p, {"timer"}) \in State
         /\ Acknowledge(p, l) \in State
         /\ EndOfInterrupt(p) \in State
         /\ Requests(p) \subseteq Lines
BY DEF State, Lines, AsBooted, Edge, Icw1, Icw4, Ocw1, Acknowledge, EndOfInterrupt, Requests

\* Type correctness of the keyboard path: every action, whoever takes it,
\* leaves the driver's statics, the thread, the CPU and the wire well formed.
THEOREM TypeCorrect == Spec => []TypeOK
<1>1. Init => TypeOK
  BY SizeAssumption, WireMaxAssumption, PicType DEF Init, TypeOK, Slots, Pcs, BootPcs, Lines
<1>2. TypeOK /\ [Next]_vars => TypeOK'
  <2> SUFFICES ASSUME TypeOK, [Next]_vars PROVE TypeOK'
    OBVIOUS
  <2> USE DEF TypeOK, driver, user
  <2>1. ASSUME NEW sc \in ScanCode, Send(sc)
        PROVE  wire' \in Seq(ScanCode) /\ Len(wire') <= WireMax /\ pic' \in State
    BY <2>1, WireMaxAssumption, PicType DEF Send, Lines
  <2>2. ASSUME NEW k \in Keys
        PROVE  Meant(k) \in Char \cup {NoChar}
    BY DEF Meant, Char, ShiftHeld
  <2>3. CASE UserAct
    <3>1. PICK k \in Keys : Press(k) \/ Repeat(k) \/ Release(k)
      BY <2>3 DEF UserAct
    <3>2. PICK sc \in ScanCode : Send(sc)
      BY <3>1, <2>2 DEF Press, Repeat, Release, ScanCode
    <3>3. held' \subseteq Keys /\ capsOn' \in BOOLEAN
      BY <3>1 DEF Press, Repeat, Release
    <3> QED
      BY <2>1, <3>2, <3>3, <2>3 DEF UserAct
  <2>4. CASE TimerTick
    BY <2>4, PicType DEF TimerTick, Lines
  <2>5. CASE TakeInterrupt
    <3>1. PICK l \in Requests(pic) :
             /\ pic' = Acknowledge(pic, l)
             /\ IF l = "kbd" /\ idt_loaded
                THEN irq' = "handler" /\ pc' = IF pc = "halted" THEN "check" ELSE pc
                ELSE irq' = irq /\ pc' = "fault"
      BY <2>5 DEF TakeInterrupt
    <3>2. pic' \in State
      BY <3>1, PicType DEF Lines
    <3>3. pc' \in Pcs /\ irq' \in {"none", "handler", "eoi"}
      BY <3>1 DEF Pcs
    <3> QED
      BY <2>5, <3>2, <3>3 DEF TakeInterrupt
  <2>6. CASE kbd_handler
    <3> DEFINE sc == Head(wire)
               c  == Decode(sc.key, sc.up, shift_down, caps_lock)
    <3>1. sc \in ScanCode /\ wire' \in Seq(ScanCode) /\ Len(wire') <= WireMax
      BY <2>6, WireMaxAssumption DEF kbd_handler, ReadPort
    <3>2. pic' \in State
      BY <2>6, PicType DEF kbd_handler, ReadPort, Lines
    <3>3. c \in Char \cup {NoChar}
      BY <3>1, DecodeType DEF ScanCode
    <3>4. kbd_buf' \in [Slots -> Char \cup {NoChar}] /\ kbd_head' \in Slots
      BY <2>6, <3>3, SuccWraps DEF kbd_handler, Store
    <3>5. shift_down' \in BOOLEAN /\ caps_lock' \in BOOLEAN
      BY <2>6, <3>1 DEF kbd_handler, NextShift, NextCaps, ScanCode
    <3> QED
      BY <2>6, <3>1, <3>2, <3>4, <3>5 DEF kbd_handler
  <2>7. CASE irq1_return
    BY <2>7, PicType DEF irq1_return, Lines
  <2>8. CASE Thread
    BY <2>8, PicType, SuccWraps, ZenonT(60)
       DEF Thread, banner, idt_load, pic_remap, pic_remap_step, boot_sti, kprint, kprint_end, Goto,
           call_kinput, kinput_check, kinput_hlt, kinput_take, kinput_return, Pcs, BootPcs, Lines
  <2>9. CASE UNCHANGED vars
    BY <2>9 DEF vars
  <2> QED
    BY <2>3, <2>4, <2>5, <2>6, <2>7, <2>8, <2>9 DEF Next, Interrupt
<1> QED
  BY <1>1, <1>2, PTL DEF Spec

-----------------------------------------------------------------------------
(* The ring implements the queue *)

\* What makes the refinement inductive: kinput is past its test only when a
\* character waits, and between its two statements the character it read is
\* still in the slot (the handler writes only slots that do not wait).
RingInv == /\ pc \in {"take", "advance"} => kbd_head # kbd_tail
           /\ pc = "advance" => ch = kbd_buf[kbd_tail]
           /\ \A k \in 1 .. Count : kbd_buf[SlotOf(k)] \in Char

\* How many characters wait, and where they are, in terms of head and tail.
LEMMA CountFacts ==
  ASSUME TypeOK
  PROVE  /\ Count \in 0 .. Size - 1
         /\ Count = 0 <=> kbd_head = kbd_tail
         /\ \A k \in 1 .. Size : SlotOf(k) \in Slots
         /\ \A k \in 1 .. Count : SlotOf(k) # kbd_head
         /\ Count > 0 => SlotOf(1) = kbd_tail
         /\ SlotOf(Count + 1) = kbd_head
         /\ RingHasRoom <=> Count < Size - 1
<1>1. Succ(kbd_head) = IF kbd_head = Size - 1 THEN 0 ELSE kbd_head + 1
  BY SuccWraps DEF TypeOK
<1> QED
  BY <1>1, SizeAssumption DEF TypeOK, Count, SlotOf, Slots, RingHasRoom

\* Store appends one character to what waits, and does so only with room.
LEMMA StorePuts ==
  ASSUME TypeOK, NEW c \in Char, Store(c), kbd_tail' = kbd_tail
  PROVE  \/ RingHasRoom /\ Count' = Count + 1 /\ Pending' = Append(Pending, c)
         \/ ~RingHasRoom /\ UNCHANGED <<kbd_buf, kbd_head, Count, Pending>>
<1>1. CASE RingHasRoom
  <2>1. kbd_head' = IF kbd_head = Size - 1 THEN 0 ELSE kbd_head + 1
    BY <1>1, SuccWraps DEF Store, TypeOK
  <2>2. Count' = Count + 1
    BY <2>1, <1>1, CountFacts, SizeAssumption DEF Count, TypeOK, Slots
  <2>3. \A k \in 1 .. Count + 1 : SlotOf(k)' = SlotOf(k)
    BY DEF SlotOf
  <2>4. kbd_buf' = [kbd_buf EXCEPT ![kbd_head] = c]
    BY <1>1 DEF Store
  <2>5. \A k \in 1 .. Count + 1 :
           kbd_buf'[SlotOf(k)] = IF k = Count + 1 THEN c ELSE kbd_buf[SlotOf(k)]
    BY <2>4, CountFacts DEF TypeOK
  <2>6. Pending' = [k \in 1 .. Count + 1 |-> IF k = Count + 1 THEN c ELSE kbd_buf[SlotOf(k)]]
    BY <2>2, <2>3, <2>5 DEF Pending
  <2>7. Append(Pending, c) = [k \in 1 .. Count + 1 |-> IF k = Count + 1 THEN c ELSE kbd_buf[SlotOf(k)]]
    BY CountFacts DEF Pending
  <2> QED
    BY <1>1, <2>2, <2>6, <2>7
<1>2. CASE ~RingHasRoom
  BY <1>2 DEF Store, Count, SlotOf, Pending
<1> QED
  BY <1>1, <1>2

\* kinput's two statements take the oldest waiting character.
LEMMA AdvanceGets ==
  ASSUME TypeOK, kbd_head # kbd_tail, kbd_tail' = Succ(kbd_tail), UNCHANGED <<kbd_buf, kbd_head>>
  PROVE  Count' = Count - 1 /\ Pending' = Tail(Pending) /\ Head(Pending) = kbd_buf[kbd_tail]
<1>1. kbd_tail' = IF kbd_tail = Size - 1 THEN 0 ELSE kbd_tail + 1
  BY SuccWraps DEF TypeOK
<1>2. Count \in Nat /\ Count > 0 /\ Count' = Count - 1
  BY <1>1, CountFacts, SizeAssumption DEF Count, TypeOK, Slots
<1>3. \A k \in 1 .. Count - 1 : SlotOf(k)' = SlotOf(k + 1)
  BY <1>1, <1>2, CountFacts, SizeAssumption DEF SlotOf, TypeOK, Slots
<1>4. Pending' = [k \in 1 .. Count - 1 |-> kbd_buf[SlotOf(k + 1)]]
  BY <1>2, <1>3 DEF Pending
<1>5. Tail(Pending) = [k \in 1 .. Count - 1 |-> kbd_buf[SlotOf(k + 1)]]
  BY <1>2 DEF Pending
<1> QED
  BY <1>2, <1>4, <1>5, CountFacts DEF Pending

\* A step that leaves the ring's three variables alone leaves the queue alone.
LEMMA RingUntouched ==
  ASSUME UNCHANGED <<kbd_buf, kbd_head, kbd_tail>>
  PROVE  /\ UNCHANGED <<Count, Pending>>
         /\ \A k \in 1 .. Count : SlotOf(k)' = SlotOf(k)
BY DEF Count, SlotOf, Pending

\* RingInv is an invariant: it is inductive on top of TypeOK.
THEOREM RingInvariant == Spec => []RingInv
<1>1. Init => RingInv
  BY SizeAssumption DEF Init, RingInv, Count
<1>2. TypeOK /\ RingInv /\ [Next]_vars => RingInv'
  <2> SUFFICES ASSUME TypeOK, RingInv, [Next]_vars PROVE RingInv'
    OBVIOUS
  <2>0. ASSUME UNCHANGED <<kbd_buf, kbd_head, kbd_tail>>
        PROVE  \A k \in 1 .. Count' : kbd_buf'[SlotOf(k)'] \in Char
    BY <2>0, RingUntouched DEF RingInv
  <2>1. CASE UNCHANGED <<driver, pc, ch>>
    BY <2>1, <2>0 DEF RingInv, driver
  <2>2. CASE TakeInterrupt
    BY <2>2, <2>0 DEF TakeInterrupt, RingInv, driver
  <2>3. CASE kbd_handler
    <3> DEFINE sc == Head(wire)
               c  == Decode(sc.key, sc.up, shift_down, caps_lock)
    <3>1. c \in Char \cup {NoChar}
      <4>1. sc \in ScanCode
        BY <2>3 DEF kbd_handler, TypeOK
      <4> QED
        BY <4>1, DecodeType DEF TypeOK, ScanCode
    <3>2. CASE c = NoChar
      BY <2>3, <3>2, <2>0 DEF kbd_handler, RingInv
    <3>3. CASE c \in Char /\ ~RingHasRoom
      BY <2>3, <3>3, <2>0, NoCharAssumption DEF kbd_handler, RingInv, Store, Char
    <3>4. CASE c \in Char /\ RingHasRoom
      <4>1. kbd_buf' = [kbd_buf EXCEPT ![kbd_head] = c] /\ kbd_head' = Succ(kbd_head)
            /\ kbd_tail' = kbd_tail /\ pc' = pc /\ ch' = ch
        BY <2>3, <3>4, NoCharAssumption DEF kbd_handler, Store, Char
      <4>2. Count' = Count + 1
        BY <2>3, <3>4, StorePuts, NoCharAssumption DEF kbd_handler, Char
      <4>3. \A k \in 1 .. Count + 1 :
               kbd_buf'[SlotOf(k)'] = IF k = Count + 1 THEN c ELSE kbd_buf[SlotOf(k)]
        BY <4>1, CountFacts DEF SlotOf, TypeOK
      <4>4. \A k \in 1 .. Count' : kbd_buf'[SlotOf(k)'] \in Char
        BY <4>2, <4>3, <3>4, CountFacts DEF RingInv
      <4>5. kbd_head # kbd_tail => kbd_head' # kbd_tail' /\ kbd_buf'[kbd_tail'] = kbd_buf[kbd_tail]
        BY <4>1, <3>4 DEF RingHasRoom, TypeOK
      <4> QED
        BY <4>1, <4>4, <4>5 DEF RingInv
    <3> QED
      BY <3>1, <3>2, <3>3, <3>4
  <2>4. CASE irq1_return
    BY <2>4, <2>1 DEF irq1_return
  <2>5. CASE kinput_check
    BY <2>5, <2>0 DEF kinput_check, Goto, RingInv, RingEmpty, driver
  <2>6. CASE kinput_take
    BY <2>6, <2>0 DEF kinput_take, Goto, RingInv, driver
  <2>7. CASE kinput_return
    <3>1. kbd_head # kbd_tail /\ pc' = "caller"
      BY <2>7 DEF kinput_return, Goto, RingInv
    <3>2. Count' = Count - 1 /\ \A k \in 1 .. Count - 1 : SlotOf(k)' = SlotOf(k + 1)
      <4>1. kbd_tail' = IF kbd_tail = Size - 1 THEN 0 ELSE kbd_tail + 1
        BY <2>7, SuccWraps DEF kinput_return, TypeOK
      <4> QED
        BY <2>7, <3>1, <4>1, AdvanceGets, CountFacts, SizeAssumption
           DEF kinput_return, SlotOf, TypeOK, Slots
    <3> QED
      BY <2>7, <3>1, <3>2, CountFacts DEF kinput_return, RingInv
  <2>8. CASE Thread /\ ~kinput_check /\ ~kinput_take /\ ~kinput_return
    <3>1. UNCHANGED driver /\ pc' \notin {"take", "advance"}
      BY <2>8 DEF Thread, banner, idt_load, pic_remap, pic_remap_step, boot_sti, kprint, kprint_end,
                  Goto, call_kinput, kinput_hlt, TypeOK
    <3> QED
      BY <3>1, <2>0 DEF RingInv, driver
  <2> QED
    BY <2>1, <2>2, <2>3, <2>4, <2>5, <2>6, <2>7, <2>8
       DEF Next, Interrupt, UserAct, TimerTick, vars
<1> QED
  BY <1>1, <1>2, TypeCorrect, PTL DEF Spec

\* The keyboard driver implements the bounded FIFO queue of KbdQueue.tla, for
\* every ring size and every set of keys, whatever the interleaving of kinput
\* and the interrupt handler.
THEOREM RingImplementsQueue == Spec => ImplementsQueue
<1>1. Init => KQ!Init
  BY SizeAssumption DEF Init, KQ!Init, Pending, Count
<1>2. TypeOK /\ RingInv /\ [Next]_vars => [KQ!Next]_KQ!vars
  <2> SUFFICES ASSUME TypeOK, RingInv, [Next]_vars PROVE [KQ!Next]_KQ!vars
    OBVIOUS
  <2>1. CASE UNCHANGED <<kbd_buf, kbd_head, kbd_tail, got>>
    BY <2>1, RingUntouched DEF KQ!vars
  <2>2. CASE kbd_handler
    <3> DEFINE sc == Head(wire)
               c  == Decode(sc.key, sc.up, shift_down, caps_lock)
    <3>1. c \in Char \cup {NoChar}
      <4>1. sc \in ScanCode
        BY <2>2 DEF kbd_handler, TypeOK
      <4> QED
        BY <4>1, DecodeType DEF TypeOK, ScanCode
    <3>2. CASE c = NoChar
      BY <2>2, <3>2, <2>1 DEF kbd_handler
    <3>3. CASE c \in Char /\ ~RingHasRoom
      BY <2>2, <3>3, <2>1, NoCharAssumption DEF kbd_handler, Store, Char
    <3>4. CASE c \in Char /\ RingHasRoom
      <4>1. Store(c) /\ kbd_tail' = kbd_tail /\ got' = got
        BY <2>2, <3>4, NoCharAssumption DEF kbd_handler, Char
      <4>2. Pending' = Append(Pending, c)
        BY <4>1, <3>4, StorePuts
      <4>3. Len(Pending) < Size - 1
        BY <3>4, CountFacts DEF Pending
      <4>4. KQ!Put(c)
        BY <4>1, <4>2, <4>3 DEF KQ!Put
      <4> QED
        BY <3>4, <4>4 DEF KQ!Next
    <3> QED
      BY <3>1, <3>2, <3>3, <3>4
  <2>3. CASE kinput_return
    <3>1. kbd_head # kbd_tail /\ ch = kbd_buf[kbd_tail]
      BY <2>3 DEF kinput_return, Goto, RingInv
    <3>2. Pending' = Tail(Pending) /\ Head(Pending) = kbd_buf[kbd_tail]
      BY <2>3, <3>1, AdvanceGets DEF kinput_return
    <3>3. Pending # <<>>
      BY <3>1, CountFacts DEF Pending
    <3>4. KQ!Get
      BY <2>3, <3>1, <3>2, <3>3 DEF KQ!Get, kinput_return
    <3> QED
      BY <3>4 DEF KQ!Next
  <2>4. CASE Thread /\ ~kinput_return
    BY <2>4, <2>1
       DEF Thread, banner, idt_load, pic_remap, pic_remap_step, boot_sti, kprint, kprint_end, Goto,
           call_kinput, kinput_check, kinput_hlt, kinput_take, driver
  <2>5. CASE UserAct \/ TimerTick \/ TakeInterrupt \/ irq1_return \/ UNCHANGED vars
    BY <2>5, <2>1 DEF UserAct, TimerTick, TakeInterrupt, irq1_return, vars, driver
  <2> QED
    BY <2>2, <2>3, <2>4, <2>5 DEF Next, Interrupt
<1> QED
  BY <1>1, <1>2, TypeCorrect, RingInvariant, PTL DEF Spec, ImplementsQueue, KQ!Spec

-----------------------------------------------------------------------------
(* Bring-up *)

\* Until lidt is executed every line is masked and the thread is in its first
\* kprint or just before idt_load; from then on the timer's line is masked but
\* between ICW1 and OCW1, and nothing is delivered before ICW4.
BootInv == /\ ~idt_loaded => pc \in {"boot", "drawing", "lidt", "fault"} /\ pic.mask = Lines
           /\ ~idt_loaded => ret = "lidt"
           /\ "timer" \notin pic.mask => pc \in {"icw4", "ocw1", "fault"}
           /\ pc = "icw4" => pic.init

\* A triple fault is the timer's, between ICW4 and OCW1, or there is none:
\* whatever the user hits while the kernel boots, whether the firmware left the
\* PIT running or not, and wherever kprint enables interrupts.
THEOREM BringUpSafe == Spec => FaultsOnlyInRemap
<1>1. Init => BootInv
  BY DEF Init, BootInv, AsBooted, Lines
<1>2. TypeOK /\ BootInv /\ [Next]_vars => BootInv'
  <2> SUFFICES ASSUME TypeOK, BootInv, [Next]_vars PROVE BootInv'
    OBVIOUS
  <2> USE DEF BootInv
  <2>1. ASSUME NEW l \in Lines
        PROVE  Edge(pic, l).mask = pic.mask /\ Edge(pic, l).init = pic.init
    BY <2>1 DEF Edge, TypeOK, State
  <2>2. CASE UserAct \/ TimerTick
    <3>1. pic'.mask = pic.mask /\ pic'.init = pic.init
      BY <2>1, <2>2 DEF UserAct, Press, Repeat, Release, Send, TimerTick, Lines
    <3> QED
      BY <2>2, <3>1 DEF UserAct, TimerTick
  <2>3. CASE TakeInterrupt
    <3>1. PICK l \in Requests(pic) :
             /\ pic' = Acknowledge(pic, l)
             /\ IF l = "kbd" /\ idt_loaded
                THEN irq' = "handler" /\ pc' = IF pc = "halted" THEN "check" ELSE pc
                ELSE irq' = irq /\ pc' = "fault"
      BY <2>3 DEF TakeInterrupt
    <3>2. pic'.mask = pic.mask /\ pic'.init = pic.init /\ idt_loaded' = idt_loaded
      BY <2>3, <3>1 DEF TakeInterrupt, Acknowledge, TypeOK, State
    <3>3. l \notin pic.mask /\ l \in Lines
      BY <3>1 DEF Requests, TypeOK, State
    <3> QED
      BY <3>1, <3>2, <3>3
  <2>4. CASE kbd_handler
    <3>1. pic'.mask = pic.mask /\ pic'.init = pic.init
      BY <2>1, <2>4 DEF kbd_handler, ReadPort, Lines
    <3> QED
      BY <2>4, <3>1 DEF kbd_handler
  <2>5. CASE irq1_return
    <3>1. pic'.mask = pic.mask /\ pic'.init = pic.init
      BY <2>5 DEF irq1_return, EndOfInterrupt, TypeOK, State
    <3> QED
      BY <2>5, <3>1 DEF irq1_return
  <2>6. CASE pic_remap
    BY <2>6 DEF pic_remap, pic_remap_step, Goto, Icw1, Icw4, Ocw1, TypeOK, State
  <2>7. CASE Thread /\ ~pic_remap
    BY <2>7 DEF Thread, banner, idt_load, boot_sti, kprint, kprint_end, Goto, TypeOK,
                call_kinput, kinput_check, kinput_hlt, kinput_take, kinput_return
  <2>8. CASE UNCHANGED vars
    BY <2>8 DEF vars
  <2> QED
    BY <2>2, <2>3, <2>4, <2>5, <2>6, <2>7, <2>8 DEF Next, Interrupt
<1>3. TypeOK /\ BootInv /\ [Next]_vars
      => [ (pc # "fault" /\ pc' = "fault")
           => pc = "ocw1" /\ pic' = Acknowledge(pic, "timer") ]_vars
  <2> SUFFICES ASSUME TypeOK, BootInv, [Next]_vars, pc # "fault", pc' = "fault"
               PROVE  pc = "ocw1" /\ pic' = Acknowledge(pic, "timer")
    OBVIOUS
  <2>1. TakeInterrupt
    BY DEF Next, Interrupt, UserAct, TimerTick, kbd_handler, irq1_return, Thread, banner, idt_load,
           pic_remap, pic_remap_step, boot_sti, kprint, kprint_end, Goto, call_kinput, kinput_check,
           kinput_hlt, kinput_take, kinput_return, vars, TypeOK
  <2>2. PICK l \in Requests(pic) :
           /\ pic' = Acknowledge(pic, l)
           /\ IF l = "kbd" /\ idt_loaded
              THEN irq' = "handler" /\ pc' = IF pc = "halted" THEN "check" ELSE pc
              ELSE irq' = irq /\ pc' = "fault"
    BY <2>1 DEF TakeInterrupt
  <2>3. l \in Lines \ pic.mask /\ ~pic.init
    BY <2>2 DEF Requests, TypeOK, State
  <2>4. idt_loaded
    BY <2>3 DEF BootInv
  <2>5. l = "timer"
    BY <2>2, <2>3, <2>4 DEF Lines
  <2> QED
    BY <2>2, <2>3, <2>5 DEF BootInv
<1> QED
  BY <1>1, <1>2, <1>3, TypeCorrect, PTL DEF Spec, FaultsOnlyInRemap

-----------------------------------------------------------------------------
(* No character is dropped while there is room *)

\* The bytes on the wire that mean a character are exactly the make codes of
\* keys that have one.
WireInv == \A i \in 1 .. Len(wire) :
              wire[i].meant # NoChar <=> ~wire[i].up /\ wire[i].key \in Letters \cup Symbols

\* kbd_handler drops a character only when Size - 1 of them wait already.
THEOREM DropsFull == Spec => DropsOnlyWhenFull
<1>1. Init => WireInv
  BY DEF Init, WireInv
<1>2. TypeOK /\ WireInv /\ [Next]_vars => WireInv'
  <2> SUFFICES ASSUME TypeOK, WireInv, [Next]_vars PROVE WireInv'
    OBVIOUS
  <2>1. CASE UserAct
    <3>1. PICK sc : /\ Send(sc)
                    /\ sc.meant # NoChar <=> ~sc.up /\ sc.key \in Letters \cup Symbols
      <4>1. \A k : Meant(k) # NoChar <=> k \in Letters \cup Symbols
        <5>1. \A k \in Letters \cup Symbols : Meant(k) \in [key : Letters \cup Symbols, upper : BOOLEAN]
          BY DEF Meant, ShiftHeld
        <5>2. \A k : k \notin Letters \cup Symbols => Meant(k) = NoChar
          BY DEF Meant
        <5> QED
          BY <5>1, <5>2, NoCharAssumption
      <4> QED
        BY <2>1, <4>1 DEF UserAct, Press, Repeat, Release
    <3>2. wire' = Append(wire, sc)
      BY <3>1 DEF Send
    <3> QED
      BY <3>1, <3>2 DEF WireInv, TypeOK
  <2>2. CASE kbd_handler
    <3>1. wire' = Tail(wire) /\ wire # <<>>
      BY <2>2 DEF kbd_handler, ReadPort
    <3>2. Len(wire') = Len(wire) - 1 /\ \A i \in 1 .. Len(wire') : wire'[i] = wire[i + 1]
      BY <3>1 DEF TypeOK
    <3> QED
      BY <3>2 DEF WireInv, TypeOK
  <2>3. CASE wire' = wire
    BY <2>3 DEF WireInv
  <2> QED
    BY <2>1, <2>2, <2>3
       DEF Next, Interrupt, TimerTick, TakeInterrupt, irq1_return, Thread, banner, idt_load, pic_remap,
           pic_remap_step, boot_sti, kprint, kprint_end, Goto, call_kinput, kinput_check, kinput_hlt,
           kinput_take, kinput_return, vars
<1>3. TypeOK /\ WireInv /\ [Next]_vars
      => [ (irq = "handler" /\ irq' = "eoi" /\ Head(wire).meant # NoChar /\ Count < Size - 1)
           => Count' = Count + 1 ]_vars
  <2> SUFFICES ASSUME TypeOK, WireInv, [Next]_vars, irq = "handler", irq' = "eoi",
                      Head(wire).meant # NoChar, Count < Size - 1
               PROVE  Count' = Count + 1
    OBVIOUS
  <2> DEFINE sc == Head(wire)
             c  == Decode(sc.key, sc.up, shift_down, caps_lock)
  <2>1. kbd_handler
    BY DEF Next, Interrupt, UserAct, TimerTick, TakeInterrupt, irq1_return, Thread, banner, idt_load,
           pic_remap, pic_remap_step, boot_sti, kprint, kprint_end, Goto, call_kinput, kinput_check,
           kinput_hlt, kinput_take, kinput_return, vars
  <2>2. ~sc.up /\ sc.key \in Letters \cup Symbols
    BY <2>1 DEF kbd_handler, WireInv, TypeOK
  <2>3. c \in Char
    BY <2>2 DEF Decode, is_shifted, Char, TypeOK
  <2>4. Store(c) /\ kbd_tail' = kbd_tail
    BY <2>1, <2>3, NoCharAssumption DEF kbd_handler, Char
  <2>5. RingHasRoom
    BY CountFacts
  <2> QED
    BY <2>3, <2>4, <2>5, StorePuts
<1> QED
  BY <1>1, <1>2, <1>3, TypeCorrect, PTL DEF Spec, DropsOnlyWhenFull

-----------------------------------------------------------------------------
(* A character is what the user meant *)

\* The states of shift and caps lock in which the bytes on the wire find the
\* driver: the first one finds it as it is, the last one leaves it as the user's
\* keys are, and each byte means what the driver will make of it.
NextOf(sc, s) == IF sc.key \in Shifts THEN ~sc.up ELSE s
NextCapsOf(sc, c) == IF sc.key \in CapsKeys /\ ~sc.up THEN ~c ELSE c
Finds(w, s, c) == \A i \in 1 .. Len(w) : /\ s[i + 1] = NextOf(w[i], s[i])
                                         /\ c[i + 1] = NextCapsOf(w[i], c[i])
                                         /\ w[i].meant = Decode(w[i].key, w[i].up, s[i], c[i])
MeantInv == \E s, c \in [1 .. Len(wire) + 1 -> BOOLEAN] :
               /\ s[1] = shift_down /\ c[1] = caps_lock
               /\ s[Len(wire) + 1] = ShiftHeld /\ c[Len(wire) + 1] = capsOn
               /\ Finds(wire, s, c)

\* The user's key goes on the wire, behind the other bytes.
LEMMA SentAsMeant ==
  ASSUME TypeOK, MeantInv, NEW sc \in ScanCode, wire' = Append(wire, sc),
         UNCHANGED <<shift_down, caps_lock>>,
         NEW sh \in BOOLEAN, sh = ShiftHeld, ShiftHeld' = NextOf(sc, sh),
         capsOn' = NextCapsOf(sc, capsOn), sc.meant = Decode(sc.key, sc.up, sh, capsOn)
  PROVE  MeantInv'
<1>1. PICK n \in Nat : n = Len(wire)
  BY DEF TypeOK
<1>2. PICK s \in [1 .. n + 1 -> BOOLEAN], c \in [1 .. n + 1 -> BOOLEAN] :
         /\ s[1] = shift_down /\ c[1] = caps_lock /\ s[n + 1] = sh /\ c[n + 1] = capsOn
         /\ Finds(wire, s, c)
  BY <1>1 DEF MeantInv
<1>3. PICK v : v = Append(wire, sc)
  OBVIOUS
<1>4. Len(v) = n + 1 /\ v[n + 1] = sc /\ \A i \in 1 .. n : v[i] = wire[i]
  BY <1>1, <1>3 DEF TypeOK
<1>5. NextOf(sc, sh) \in BOOLEAN /\ NextCapsOf(sc, capsOn) \in BOOLEAN
  BY DEF NextOf, NextCapsOf, ScanCode, TypeOK
<1>6. PICK t : t = [i \in 1 .. n + 2 |-> IF i = n + 2 THEN NextOf(sc, sh) ELSE s[i]]
  OBVIOUS
<1>7. PICK d : d = [i \in 1 .. n + 2 |-> IF i = n + 2 THEN NextCapsOf(sc, capsOn) ELSE c[i]]
  OBVIOUS
<1>8. t \in [1 .. n + 2 -> BOOLEAN] /\ d \in [1 .. n + 2 -> BOOLEAN]
  <2>1. \A i \in 1 .. n + 2 : i # n + 2 => i \in 1 .. n + 1
    BY <1>1
  <2> QED
    BY <1>2, <1>5, <1>6, <1>7, <2>1
<1>9. /\ t[n + 2] = NextOf(sc, sh) /\ d[n + 2] = NextCapsOf(sc, capsOn)
      /\ \A i \in 1 .. n + 1 : t[i] = s[i] /\ d[i] = c[i]
  <2>1. n + 2 \in 1 .. n + 2 /\ \A i \in 1 .. n + 1 : i \in 1 .. n + 2 /\ i # n + 2
    BY <1>1
  <2> QED
    BY <1>6, <1>7, <2>1
<1>10. ASSUME NEW i \in 1 .. n + 1
       PROVE  /\ t[i + 1] = NextOf(v[i], t[i]) /\ d[i + 1] = NextCapsOf(v[i], d[i])
              /\ v[i].meant = Decode(v[i].key, v[i].up, t[i], d[i])
  <2>1. CASE i = n + 1
    <3>1. n + 1 \in 1 .. n + 1 /\ i + 1 = n + 2
      BY <1>1, <2>1
    <3>2. v[i] = sc /\ t[i] = sh /\ d[i] = capsOn
      BY <1>2, <1>4, <1>9, <2>1, <3>1
    <3> QED
      BY <1>9, <3>1, <3>2
  <2>2. CASE i # n + 1
    <3>1. i \in 1 .. n /\ i + 1 \in 1 .. n + 1
      BY <1>1, <2>2
    <3>2. v[i] = wire[i] /\ t[i] = s[i] /\ d[i] = c[i] /\ t[i + 1] = s[i + 1] /\ d[i + 1] = c[i + 1]
      BY <1>4, <1>9, <3>1
    <3>3. /\ s[i + 1] = NextOf(wire[i], s[i]) /\ c[i + 1] = NextCapsOf(wire[i], c[i])
          /\ wire[i].meant = Decode(wire[i].key, wire[i].up, s[i], c[i])
      BY <1>1, <1>2, <3>1 DEF Finds
    <3> QED
      BY <3>2, <3>3
  <2> QED
    BY <2>1, <2>2
<1>11. Finds(v, t, d)
  BY <1>4, <1>10 DEF Finds
<1>12. t[1] = shift_down /\ d[1] = caps_lock
  <2>1. 1 \in 1 .. n + 1
    BY <1>1
  <2> QED
    BY <1>2, <1>9, <2>1
<1>13. Len(wire') + 1 = n + 2 /\ wire' = v
  BY <1>1, <1>3, <1>4
<1> QED
  BY <1>8, <1>9, <1>11, <1>12, <1>13 DEF MeantInv

\* The driver takes the first byte off it.
LEMMA HandledAsMeant ==
  ASSUME TypeOK, MeantInv, kbd_handler
  PROVE  MeantInv' /\ Head(wire).meant = Decode(Head(wire).key, Head(wire).up, shift_down, caps_lock)
<1>1. PICK n \in Nat : n + 1 = Len(wire)
  <2>1. Len(wire) \in Nat /\ Len(wire) # 0
    BY DEF kbd_handler, TypeOK
  <2>2. Len(wire) - 1 \in Nat /\ (Len(wire) - 1) + 1 = Len(wire)
    BY <2>1
  <2> QED
    BY <2>2
<1>2. PICK s \in [1 .. n + 2 -> BOOLEAN], c \in [1 .. n + 2 -> BOOLEAN] :
         /\ s[1] = shift_down /\ c[1] = caps_lock /\ s[n + 2] = ShiftHeld /\ c[n + 2] = capsOn
         /\ Finds(wire, s, c)
  <2>1. Len(wire) + 1 = n + 2
    BY <1>1
  <2> QED
    BY <2>1 DEF MeantInv
<1>3. Head(wire) = wire[1] /\ wire' = Tail(wire) /\ wire # <<>> /\ UNCHANGED user
  BY DEF kbd_handler, ReadPort, TypeOK
<1>4. PICK v : v = Tail(wire)
  OBVIOUS
<1>5. Len(v) = n /\ \A i \in 1 .. n : v[i] = wire[i + 1]
  BY <1>1, <1>3, <1>4 DEF TypeOK
<1>6. PICK t : t = [i \in 1 .. n + 1 |-> s[i + 1]]
  OBVIOUS
<1>7. PICK d : d = [i \in 1 .. n + 1 |-> c[i + 1]]
  OBVIOUS
<1>8. t \in [1 .. n + 1 -> BOOLEAN] /\ d \in [1 .. n + 1 -> BOOLEAN]
  <2>1. \A i \in 1 .. n + 1 : i + 1 \in 1 .. n + 2
    BY <1>1
  <2> QED
    BY <1>2, <1>6, <1>7, <2>1
<1>9. /\ s[2] = NextOf(wire[1], s[1]) /\ c[2] = NextCapsOf(wire[1], c[1])
      /\ wire[1].meant = Decode(wire[1].key, wire[1].up, s[1], c[1])
  <2>1. 1 \in 1 .. Len(wire) /\ 1 + 1 = 2
    BY <1>1
  <2> QED
    BY <1>2, <2>1 DEF Finds
<1>10. t[1] = shift_down' /\ d[1] = caps_lock'
  <2>1. t[1] = s[2] /\ d[1] = c[2]
    <3>1. 1 \in 1 .. n + 1 /\ 1 + 1 = 2
      BY <1>1
    <3> QED
      BY <1>6, <1>7, <3>1
  <2>2. shift_down' = NextOf(wire[1], shift_down) /\ caps_lock' = NextCapsOf(wire[1], caps_lock)
    BY <1>3 DEF kbd_handler, NextShift, NextCaps, NextOf, NextCapsOf
  <2> QED
    BY <1>2, <1>9, <2>1, <2>2
<1>11. t[n + 1] = ShiftHeld' /\ d[n + 1] = capsOn'
  <2>1. n + 1 \in 1 .. n + 1 /\ (n + 1) + 1 = n + 2
    BY <1>1
  <2>2. t[n + 1] = s[n + 2] /\ d[n + 1] = c[n + 2]
    BY <1>6, <1>7, <2>1
  <2>3. ShiftHeld' = ShiftHeld /\ capsOn' = capsOn
    BY <1>3 DEF user, ShiftHeld
  <2> QED
    BY <1>2, <2>2, <2>3
<1>12. ASSUME NEW i \in 1 .. n
       PROVE  /\ t[i + 1] = NextOf(v[i], t[i]) /\ d[i + 1] = NextCapsOf(v[i], d[i])
              /\ v[i].meant = Decode(v[i].key, v[i].up, t[i], d[i])
  <2>1. PICK j \in 1 .. Len(wire) : j = i + 1
    BY <1>1
  <2>2. i \in 1 .. n + 1 /\ i + 1 \in 1 .. n + 1
    BY <1>1
  <2>3. v[i] = wire[j] /\ t[i] = s[j] /\ d[i] = c[j] /\ t[i + 1] = s[j + 1] /\ d[i + 1] = c[j + 1]
    BY <1>5, <1>6, <1>7, <2>1, <2>2
  <2>4. /\ s[j + 1] = NextOf(wire[j], s[j]) /\ c[j + 1] = NextCapsOf(wire[j], c[j])
        /\ wire[j].meant = Decode(wire[j].key, wire[j].up, s[j], c[j])
    BY <1>2 DEF Finds
  <2> QED
    BY <2>3, <2>4
<1>13. Finds(v, t, d)
  BY <1>5, <1>12 DEF Finds
<1>14. MeantInv'
  <2>1. wire' = v /\ Len(wire') + 1 = n + 1
    BY <1>3, <1>4, <1>5
  <2> QED
    BY <1>8, <1>10, <1>11, <1>13, <2>1 DEF MeantInv
<1> QED
  BY <1>2, <1>3, <1>9, <1>14

\* What a key means, and what it does to the keys that are held: with one shift
\* key, a shift is up when it is released.
LEMMA KeyMeans ==
  ASSUME TypeOK, \A k, l \in Shifts : k = l, CapsKeys \cap Typematic = {}, UserAct
  PROVE  \E sc \in ScanCode :
            /\ wire' = Append(wire, sc) /\ UNCHANGED <<shift_down, caps_lock>>
            /\ ShiftHeld' = NextOf(sc, ShiftHeld) /\ capsOn' = NextCapsOf(sc, capsOn)
            /\ sc.meant = Decode(sc.key, sc.up, ShiftHeld, capsOn)
<1>1. PICK k \in Keys : Press(k) \/ Repeat(k) \/ Release(k)
  BY DEF UserAct
<1>2. UNCHANGED <<shift_down, caps_lock>> /\ held \subseteq Keys /\ capsOn \in BOOLEAN
  BY DEF UserAct, driver, TypeOK
<1>3. Meant(k) = Decode(k, FALSE, ShiftHeld, capsOn) /\ Meant(k) \in Char \cup {NoChar}
  <2>1. Meant(k) \in Char \cup {NoChar}
    BY DEF Meant, Char, ShiftHeld
  <2>2. CASE k \notin Letters \cup Symbols
    BY <2>1, <2>2 DEF Meant, Decode
  <2>3. CASE k \in Letters \cup Symbols
    <3>1. PICK sh \in BOOLEAN : sh = ShiftHeld
      BY DEF ShiftHeld
    <3>2. (sh # (capsOn /\ k \in Letters)) = (IF capsOn /\ k \in Letters THEN ~sh ELSE sh)
      BY <1>2
    <3> QED
      BY <2>1, <2>3, <3>1, <3>2 DEF Meant, Decode, is_shifted
  <2> QED
    BY <2>2, <2>3
<1>4. CASE Press(k) \/ Repeat(k)
  <2>1. PICK sc : sc = [key |-> k, up |-> FALSE, meant |-> Meant(k)]
    OBVIOUS
  <2>2. sc \in ScanCode /\ wire' = Append(wire, sc)
    BY <1>3, <1>4, <2>1 DEF Press, Repeat, Send, ScanCode
  <2>3. sc.key = k /\ sc.up = FALSE /\ sc.meant = Meant(k)
    BY <2>1
  <2>4. held' = held \cup {k}
    BY <1>4 DEF Press, Repeat, user
  <2>5. ShiftHeld' = NextOf(sc, ShiftHeld)
    BY <2>3, <2>4 DEF ShiftHeld, NextOf
  <2>6. capsOn' = NextCapsOf(sc, capsOn)
    BY <1>4, <2>3 DEF Press, Repeat, user, NextCapsOf
  <2> QED
    BY <1>2, <1>3, <2>2, <2>3, <2>5, <2>6
<1>5. CASE Release(k)
  <2>1. PICK sc : sc = [key |-> k, up |-> TRUE, meant |-> NoChar]
    OBVIOUS
  <2>2. sc \in ScanCode /\ wire' = Append(wire, sc)
    BY <1>5, <2>1 DEF Release, Send, ScanCode
  <2>3. sc.key = k /\ sc.up = TRUE /\ sc.meant = NoChar
    BY <2>1
  <2>4. held' = held \ {k} /\ capsOn' = capsOn
    BY <1>5 DEF Release
  <2>5. ShiftHeld' = NextOf(sc, ShiftHeld)
    BY <2>3, <2>4 DEF ShiftHeld, NextOf
  <2>6. capsOn' = NextCapsOf(sc, capsOn)
    BY <2>3, <2>4 DEF NextCapsOf
  <2>7. Decode(k, TRUE, ShiftHeld, capsOn) = NoChar
    BY DEF Decode
  <2> QED
    BY <1>2, <2>2, <2>3, <2>5, <2>6, <2>7
<1> QED
  BY <1>1, <1>4, <1>5

\* A character enters the ring only as the user meant it, however many bytes the
\* handler is behind, for a user with one shift key whose caps lock key does not
\* repeat (a second shift key and a held caps lock key are what the driver's two
\* flags cannot follow).
THEOREM CharactersAsMeant ==
  ASSUME \A k, l \in Shifts : k = l, CapsKeys \cap Typematic = {}
  PROVE  Spec => TypedAsMeant
<1>1. Init => MeantInv
  <2> SUFFICES ASSUME Init PROVE MeantInv
    OBVIOUS
  <2>1. PICK s : s = [i \in 1 .. 1 |-> FALSE]
    OBVIOUS
  <2>2. s \in [1 .. 1 -> BOOLEAN] /\ s[1] = FALSE
    BY <2>1
  <2>3. Len(wire) = 0 /\ Len(wire) + 1 = 1 /\ ShiftHeld = FALSE /\ capsOn = FALSE
        /\ shift_down = FALSE /\ caps_lock = FALSE
    BY DEF Init, ShiftHeld
  <2>4. Finds(wire, s, s)
    BY <2>3 DEF Finds
  <2> QED
    BY <2>2, <2>3, <2>4 DEF MeantInv
<1>2. TypeOK /\ MeantInv /\ [Next]_vars => MeantInv'
  <2> SUFFICES ASSUME TypeOK, MeantInv, [Next]_vars PROVE MeantInv'
    OBVIOUS
  <2>1. CASE UserAct
    <3>1. PICK sh \in BOOLEAN : sh = ShiftHeld
      BY DEF ShiftHeld
    <3>2. PICK sc \in ScanCode :
             /\ wire' = Append(wire, sc) /\ UNCHANGED <<shift_down, caps_lock>>
             /\ ShiftHeld' = NextOf(sc, ShiftHeld) /\ capsOn' = NextCapsOf(sc, capsOn)
             /\ sc.meant = Decode(sc.key, sc.up, ShiftHeld, capsOn)
      BY <2>1, KeyMeans
    <3> QED
      BY <3>1, <3>2, SentAsMeant
  <2>2. CASE kbd_handler
    BY <2>2, HandledAsMeant
  <2>3. CASE UNCHANGED <<wire, shift_down, caps_lock, user>>
    <3>1. ShiftHeld' = ShiftHeld /\ capsOn' = capsOn /\ wire' = wire
          /\ shift_down' = shift_down /\ caps_lock' = caps_lock
      BY <2>3 DEF ShiftHeld, user
    <3> QED
      BY <3>1 DEF MeantInv, Finds
  <2> QED
    BY <2>1, <2>2, <2>3
       DEF Next, Interrupt, TimerTick, TakeInterrupt, irq1_return, Thread, banner, idt_load, pic_remap,
           pic_remap_step, boot_sti, kprint, kprint_end, Goto, call_kinput, kinput_check, kinput_hlt,
           kinput_take, kinput_return, vars, driver
<1>3. TypeOK /\ MeantInv /\ [Next]_vars
      => [ (irq = "handler" /\ irq' = "eoi" /\ Count' # Count)
           => Pending' = Append(Pending, Head(wire).meant) ]_vars
  <2> SUFFICES ASSUME TypeOK, MeantInv, [Next]_vars, irq = "handler", irq' = "eoi", Count' # Count
               PROVE  Pending' = Append(Pending, Head(wire).meant)
    OBVIOUS
  <2>1. kbd_handler
    BY DEF Next, Interrupt, UserAct, TimerTick, TakeInterrupt, irq1_return, Thread, banner, idt_load,
           pic_remap, pic_remap_step, boot_sti, kprint, kprint_end, Goto, call_kinput, kinput_check,
           kinput_hlt, kinput_take, kinput_return, vars
  <2>2. PICK c : c = Head(wire).meant
    OBVIOUS
  <2>3. c = Decode(Head(wire).key, Head(wire).up, shift_down, caps_lock)
    BY <2>1, <2>2, HandledAsMeant
  <2>4. kbd_tail' = kbd_tail /\ IF c = NoChar THEN UNCHANGED <<kbd_buf, kbd_head>> ELSE Store(c)
    BY <2>1, <2>3 DEF kbd_handler
  <2>5. c # NoChar
    BY <2>4 DEF Count
  <2>6. c \in Char
    <3>1. Head(wire) \in ScanCode
      BY <2>1 DEF kbd_handler, TypeOK
    <3> QED
      BY <2>2, <2>5, <3>1 DEF ScanCode
  <2> QED
    BY <2>2, <2>4, <2>5, <2>6, StorePuts
<1> QED
  BY <1>1, <1>2, <1>3, TypeCorrect, PTL DEF Spec, TypedAsMeant
====
