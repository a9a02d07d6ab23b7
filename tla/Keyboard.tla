------------------------------ MODULE Keyboard ------------------------------
(***************************************************************************)
(* The keyboard path of kmain.c: the user's keys, the 8042 wire, the       *)
(* interrupt controller, irq1_handler_c and kbd_handler filling kbd_buf,   *)
(* and the one kernel thread, which brings the interrupts up at boot and   *)
(* then alternates between kinput() and code that prints.                  *)
(*                                                                         *)
(* The granularity is that of the hardware: an interrupt may be taken      *)
(* between any two of the thread's steps while the CPU's IF flag is set,   *)
(* and the handler itself runs with IF clear.                              *)
(***************************************************************************)
EXTENDS Naturals, Sequences, Pic8259

CONSTANTS Shifts,        \* the shift keys (SC_LSHIFT, SC_RSHIFT)
          CapsKeys,      \* the caps lock key (SC_CAPSLOCK)
          Letters,       \* keys caps lock applies to
          Symbols,       \* keys with a character that caps lock leaves alone
          DeadKeys,      \* keys whose entries in both key maps are 0
          Typematic,     \* keys that repeat while they are held
          Size,          \* the number of slots of kbd_buf (256)
          WireMax,       \* bound: bytes waiting in the keyboard and the 8042
          EarlyKeys,     \* may the user type before pic_remap is done?
          TimerRunning,  \* is the PIT left running by the firmware?
          NoChar         \* no character

ASSUME SizeAssumption == Size \in Nat /\ Size > 1
ASSUME WireMaxAssumption == WireMax \in Nat
ASSUME KeysAssumption ==
    /\ Shifts \cap (CapsKeys \cup Letters \cup Symbols \cup DeadKeys) = {}
    /\ CapsKeys \cap (Letters \cup Symbols \cup DeadKeys) = {}
    /\ Letters \cap (Symbols \cup DeadKeys) = {}
    /\ Symbols \cap DeadKeys = {}
ASSUME NoCharAssumption == NoChar \notin [key : Letters \cup Symbols, upper : BOOLEAN]

Keys == Shifts \cup CapsKeys \cup Letters \cup Symbols \cup DeadKeys
Char == [key : Letters \cup Symbols, upper : BOOLEAN]
Slots == 0 .. Size - 1

VARIABLES kbd_buf, kbd_head, kbd_tail, shift_down, caps_lock, \* the driver's statics
          pc,          \* where the kernel thread is
          ret,         \* where kprint returns to
          ch,          \* kinput's local c
          got,         \* what kinput returned last
          iflag,       \* the CPU's interrupt flag
          idt_loaded,  \* lidt was executed
          irq,         \* "none", or where the interrupt handler is
          pic,         \* the interrupt controller
          wire,        \* bytes from the keyboard not read yet, oldest first
          held,        \* keys that are physically down
          capsOn       \* what the user expects of caps lock: toggled per press

driver == <<kbd_buf, kbd_head, kbd_tail, shift_down, caps_lock>>
user   == <<held, capsOn>>
vars   == <<driver, pc, ret, ch, got, iflag, idt_loaded, irq, pic, wire, user>>

\* A scan code: a make or break code of a key.  "meant" is the character the
\* user means by it (a history field no action reads).
ScanCode == [key : Keys, up : BOOLEAN, meant : Char \cup {NoChar}]
BootPcs == {"boot", "lidt", "icw1", "icw4", "ocw1", "sti"}
Pcs == BootPcs \cup {"caller", "drawing", "check", "hlt", "halted", "take", "advance", "fault"}

Init == /\ kbd_buf = [i \in Slots |-> NoChar]
        /\ kbd_head = 0 /\ kbd_tail = 0
        /\ shift_down = FALSE /\ caps_lock = FALSE
        /\ pc = "boot" /\ ret = "lidt"
        /\ ch = NoChar /\ got = NoChar
        /\ iflag = FALSE /\ idt_loaded = FALSE
        /\ irq = "none" /\ pic = AsBooted
        /\ wire = <<>> /\ held = {} /\ capsOn = FALSE
-----------------------------------------------------------------------------
(* The ring and the key maps *)

\* Each X_bug below is X with a mistake one could make in it: a mutant the
\* properties must catch.
Succ_bug(i) == i + 1
Succ(i) == (i + 1) % Size
RingEmpty_bug == kbd_head = kbd_tail \/ kbd_head = Succ(kbd_tail)
RingEmpty == kbd_head = kbd_tail
RingHasRoom_bug == TRUE
RingHasRoom_bug2 == Succ(Succ(kbd_head)) # kbd_tail
RingHasRoom == Succ(kbd_head) # kbd_tail

is_shifted_bug(key, shift, caps) == shift \/ (caps /\ key \in Letters)
\* is_shifted: caps lock inverts the shift state for the letter keys only.
is_shifted(key, shift, caps) == IF caps /\ key \in Letters THEN ~shift ELSE shift

\* The character kbd_handler decodes a scan code to, or NoChar.
Decode(key, up, shift, caps) ==
    IF up \/ key \notin Letters \cup Symbols THEN NoChar
    ELSE [key |-> key, upper |-> is_shifted(key, shift, caps)]
-----------------------------------------------------------------------------
(* The user, the keyboard and the timer *)

\* The keyboard queues a byte; the 8042 raises IRQ1 when its output buffer
\* goes from empty to full.
Send(sc) == /\ Len(wire) < WireMax
            /\ wire' = Append(wire, sc)
            /\ pic' = IF wire = <<>> THEN Edge(pic, "kbd") ELSE pic

MayType == (EarlyKeys \/ pc \notin BootPcs \cup {"drawing"} \/ ret = "caller") /\ pc # "fault"
\* The character a user means by a key: a shift key that is held and caps lock
\* cancel each other on a letter.
ShiftHeld == held \cap Shifts # {}
Meant(k) == IF k \notin Letters \cup Symbols THEN NoChar
            ELSE [key |-> k, upper |-> ShiftHeld # (capsOn /\ k \in Letters)]

Press(k) == /\ MayType /\ k \notin held
            /\ held' = held \cup {k}
            /\ capsOn' = IF k \in CapsKeys THEN ~capsOn ELSE capsOn
            /\ Send([key |-> k, up |-> FALSE, meant |-> Meant(k)])
Repeat(k) == /\ MayType /\ k \in held \cap Typematic
             /\ UNCHANGED user
             /\ Send([key |-> k, up |-> FALSE, meant |-> Meant(k)])
Release(k) == /\ MayType /\ k \in held
              /\ held' = held \ {k}
              /\ UNCHANGED capsOn
              /\ Send([key |-> k, up |-> TRUE, meant |-> NoChar])

UserAct == /\ \E k \in Keys : Press(k) \/ Repeat(k) \/ Release(k)
           /\ UNCHANGED <<driver, pc, ret, ch, got, iflag, idt_loaded, irq>>

TimerTick == /\ TimerRunning /\ "timer" \notin pic.irr /\ pc # "fault"
             /\ pic' = Edge(pic, "timer")
             /\ UNCHANGED <<driver, pc, ret, ch, got, iflag, idt_loaded, irq, wire, user>>
-----------------------------------------------------------------------------
(* Interrupts *)

\* The CPU serves a request between two instructions of the thread.  Only
\* vector 0x21 has a gate, and only once the IDT is loaded: any other vector
\* ends in a triple fault.  An interrupt gate clears IF.
TakeInterrupt ==
    /\ iflag /\ irq = "none" /\ pc # "fault"
    /\ \E l \in Requests(pic) :
         /\ pic' = Acknowledge(pic, l)
         /\ IF l = "kbd" /\ idt_loaded
            THEN irq' = "handler" /\ pc' = IF pc = "halted" THEN "check" ELSE pc
            ELSE irq' = irq /\ pc' = "fault"
    /\ iflag' = FALSE
    /\ UNCHANGED <<driver, ret, ch, got, idt_loaded, wire, user>>

\* inb(PS2_DATA): the byte leaves the output buffer and the next one, if any,
\* takes its place with a new edge.
ReadPort == /\ wire' = Tail(wire)
            /\ pic' = IF Len(wire) > 1 THEN Edge(pic, "kbd") ELSE pic

NextShift(sc) == IF sc.key \in Shifts THEN ~sc.up ELSE shift_down
NextCaps(sc) == IF sc.key \in CapsKeys /\ ~sc.up THEN ~caps_lock ELSE caps_lock

Store(c) == IF RingHasRoom
            THEN kbd_buf' = [kbd_buf EXCEPT ![kbd_head] = c] /\ kbd_head' = Succ(kbd_head)
            ELSE UNCHANGED <<kbd_buf, kbd_head>>

kbd_handler ==
    /\ irq = "handler" /\ wire # <<>>
    /\ LET sc == Head(wire)
           c  == Decode(sc.key, sc.up, shift_down, caps_lock)
       IN  /\ shift_down' = NextShift(sc)
           /\ caps_lock' = NextCaps(sc)
           /\ IF c = NoChar THEN UNCHANGED <<kbd_buf, kbd_head>> ELSE Store(c)
    /\ ReadPort
    /\ irq' = "eoi"
    /\ UNCHANGED <<kbd_tail, pc, ret, ch, got, iflag, idt_loaded, user>>

irq1_return_bug == /\ irq = "eoi" /\ irq' = "none" /\ iflag' = TRUE
                   /\ UNCHANGED <<driver, pc, ret, ch, got, idt_loaded, pic, wire, user>>
\* irq1_handler_c's outb(0x20, 0x20), then iretq restores IF.
irq1_return == /\ irq = "eoi"
               /\ pic' = EndOfInterrupt(pic)
               /\ irq' = "none" /\ iflag' = TRUE
               /\ UNCHANGED <<driver, pc, ret, ch, got, idt_loaded, wire, user>>
-----------------------------------------------------------------------------
(* The kernel thread: one step at a time, and only while no handler runs *)

Goto(from, to) == /\ irq = "none" /\ pc = from
                  /\ pc' = to
                  /\ UNCHANGED <<irq, wire, user>>

\* kprint: cli, draw, sti - whatever IF was before.
kprint(from, to) == /\ Goto(from, "drawing")
                    /\ ret' = to /\ iflag' = FALSE
                    /\ UNCHANGED <<driver, ch, got, idt_loaded, pic>>
kprint_end == /\ Goto("drawing", ret)
              /\ iflag' = TRUE
              /\ UNCHANGED <<driver, ret, ch, got, idt_loaded, pic>>

\* kmain's bring-up: banner, idt_load, pic_remap (three writes matter), sti.
banner == kprint("boot", "lidt")
idt_load_bug == \/ /\ Goto("lidt", "icw1")
                   /\ UNCHANGED <<driver, ret, ch, got, iflag, idt_loaded, pic>>
                \/ /\ Goto("caller", "caller")
                   /\ idt_loaded' = TRUE
                   /\ UNCHANGED <<driver, ret, ch, got, iflag, pic>>
idt_load == /\ Goto("lidt", "icw1")
            /\ idt_loaded' = TRUE
            /\ UNCHANGED <<driver, ret, ch, got, iflag, pic>>
pic_remap_step(from, to, p) == /\ Goto(from, to)
                               /\ pic' = p
                               /\ UNCHANGED <<driver, ret, ch, got, iflag, idt_loaded>>
pic_remap == \/ pic_remap_step("icw1", "icw4", Icw1(pic))
             \/ pic_remap_step("icw4", "ocw1", Icw4(pic))
             \/ pic_remap_step("ocw1", "sti", Ocw1(pic, {"timer"}))
boot_sti == /\ Goto("sti", "caller")
            /\ iflag' = TRUE
            /\ UNCHANGED <<driver, ret, ch, got, idt_loaded, pic>>

\* kinput: the test, the hlt and the two statements that take a character.
call_kinput == /\ Goto("caller", "check")
               /\ UNCHANGED <<driver, ret, ch, got, iflag, idt_loaded, pic>>
kinput_check == /\ Goto("check", IF RingEmpty THEN "hlt" ELSE "take")
                /\ UNCHANGED <<driver, ret, ch, got, iflag, idt_loaded, pic>>
kinput_hlt == /\ Goto("hlt", "halted")
              /\ UNCHANGED <<driver, ret, ch, got, iflag, idt_loaded, pic>>
kinput_take == /\ Goto("take", "advance")
               /\ ch' = kbd_buf[kbd_tail]
               /\ UNCHANGED <<driver, ret, got, iflag, idt_loaded, pic>>
kinput_return == /\ Goto("advance", "caller")
                 /\ kbd_tail' = Succ(kbd_tail)
                 /\ got' = ch
                 /\ UNCHANGED <<kbd_buf, kbd_head, shift_down, caps_lock,
                                ret, ch, iflag, idt_loaded, pic>>

Thread == \/ banner \/ idt_load \/ pic_remap \/ boot_sti
          \/ kprint("caller", "caller") \/ kprint_end
          \/ call_kinput \/ kinput_check \/ kinput_hlt \/ kinput_take \/ kinput_return

Interrupt == TakeInterrupt \/ kbd_handler \/ irq1_return

Next == UserAct \/ TimerTick \/ Interrupt \/ Thread

Spec == Init /\ [][Next]_vars

(* Fairness.  The keyboard sends its bytes milliseconds apart and a handler  *)
(* takes microseconds, so the thread runs again and again between them;     *)
(* every loop of the shell comes back to kinput; the CPU tests for a request *)
(* at every instruction boundary, so one that is possible again and again   *)
(* is taken; the handler runs to its end.                                    *)
Fairness == /\ SF_vars(Thread) /\ SF_vars(call_kinput)
            /\ SF_vars(TakeInterrupt) /\ WF_vars(kbd_handler) /\ WF_vars(irq1_return)

\* kinput's test and its hlt are two instructions: only a further interrupt
\* wakes a thread that halted just after a character arrived, so a waiting
\* character is certain to be read only if the user goes on using the keyboard.
FairSpec == Spec /\ Fairness /\ WF_vars(UserAct)
-----------------------------------------------------------------------------
(* Properties *)

TypeOK == /\ kbd_buf \in [Slots -> Char \cup {NoChar}]
          /\ kbd_head \in Slots /\ kbd_tail \in Slots
          /\ shift_down \in BOOLEAN /\ caps_lock \in BOOLEAN
          /\ pc \in Pcs /\ ret \in {"lidt", "caller"}
          /\ ch \in Char \cup {NoChar} /\ got \in Char \cup {NoChar}
          /\ iflag \in BOOLEAN /\ idt_loaded \in BOOLEAN
          /\ irq \in {"none", "handler", "eoi"}
          /\ pic \in State
          /\ wire \in Seq(ScanCode) /\ Len(wire) <= WireMax
          /\ held \subseteq Keys /\ capsOn \in BOOLEAN

\* The characters between kbd_tail and kbd_head, oldest first.
Count == IF kbd_tail <= kbd_head THEN kbd_head - kbd_tail ELSE (kbd_head + Size) - kbd_tail
SlotOf(k) == IF kbd_tail + k <= Size THEN (kbd_tail + k) - 1 ELSE ((kbd_tail + k) - 1) - Size
Pending == [k \in 1 .. Count |-> kbd_buf[SlotOf(k)]]

\* The ring is a FIFO of Size - 1 characters: whatever the interrupt handler
\* does between kinput's test, its read of kbd_buf[kbd_tail] and its update of
\* kbd_tail, characters come out in order, none twice, none overwritten.
KQ == INSTANCE KbdQueue WITH Capacity <- Size - 1, queue <- Pending, got <- got
ImplementsQueue == KQ!Spec

\* kbd_handler drops a character only when Size - 1 of them wait already.
DropsOnlyWhenFull ==
    [][ (irq = "handler" /\ irq' = "eoi" /\ Head(wire).meant # NoChar /\ Count < Size - 1)
        => Count' = Count + 1 ]_vars

\* A character enters the ring only as the user meant it: with the case the
\* shift keys held and the caps lock state gave it when the key went down,
\* however late the interrupt is served.
TypedAsMeant ==
    [][ (irq = "handler" /\ irq' = "eoi" /\ Count' # Count)
        => Pending' = Append(Pending, Head(wire).meant) ]_vars

\* kprint sets IF long before idt_load, and ICW1 unmasks every line: only the
\* order of idt_load, pic_remap and the masks stands between that and a triple
\* fault.  A key never causes one, however early it is hit, and the timer only
\* between ICW4 and OCW1, the one moment at which its line is open.
FaultsOnlyInRemap ==
    [][ (pc # "fault" /\ pc' = "fault")
        => pc = "ocw1" /\ pic' = Acknowledge(pic, "timer") ]_vars

\* Every byte the keyboard sends is read: no missed edge, no missing EOI and no
\* cli left behind wedges the keyboard.
EveryByteRead == (wire # <<>>) ~> (irq = "handler")

\* A character in the ring is returned by kinput some day, although the thread
\* may halt with it in the ring.
EveryCharReturned == (kbd_head # kbd_tail) ~> (pc = "advance")
=============================================================================
