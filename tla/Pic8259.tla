------------------------------ MODULE Pic8259 ------------------------------
(***************************************************************************)
(* The master 8259 interrupt controller, as far as kmain.c programs it     *)
(* (outb to ports 0x20 and 0x21).  The hardware is outside the repository: *)
(* these operators say what each write, and each edge on a line, does to a *)
(* record of its registers.  Only the two lines that matter are kept: the  *)
(* timer (IRQ0, which the kernel has no gate for) and the keyboard (IRQ1). *)
(***************************************************************************)
Lines == {"timer", "kbd"}

State == [init : BOOLEAN, mask : SUBSET Lines, irr : SUBSET Lines, isr : SUBSET Lines]

\* The boot loader enters the kernel with every line masked.
AsBooted == [init |-> FALSE, mask |-> Lines, irr |-> {}, isr |-> {}]

\* A rising edge is latched whether or not the line is masked.
Edge(p, l) == [p EXCEPT !.irr = @ \cup {l}]

\* ICW1 forgets the latched edges and unmasks every line; nothing is
\* delivered until ICW4 ends the sequence.
Icw1(p) == [init |-> TRUE, mask |-> {}, irr |-> {}, isr |-> {}]
Icw4(p) == [p EXCEPT !.init = FALSE]
Ocw1(p, mask) == [p EXCEPT !.mask = mask]

\* The lines the controller asks the CPU to serve: latched, not masked, and
\* not held back by a line of the same or a higher priority in service.
Requests(p) == {l \in p.irr \ p.mask : ~p.init /\ p.isr \subseteq ({"kbd"} \ {l})}

Acknowledge(p, l) == [p EXCEPT !.irr = @ \ {l}, !.isr = @ \cup {l}]
EndOfInterrupt(p) == [p EXCEPT !.isr = {}]
=============================================================================
