------------------------------ MODULE KbdQueue ------------------------------
(***************************************************************************)
(* What the keyboard driver promises its readers: a bounded first-in       *)
(* first-out queue of characters.  The interrupt handler puts characters,  *)
(* kinput() gets them; Keyboard.tla is shown to implement this module.     *)
(***************************************************************************)
EXTENDS Naturals, Sequences

CONSTANTS Char,      \* the characters a key can produce
          NoChar,    \* nothing read yet
          Capacity   \* how many characters may wait

VARIABLES queue,     \* the characters waiting, oldest first
          got        \* the character the last Get returned

vars == <<queue, got>>

TypeOK == /\ queue \in Seq(Char)
          /\ Len(queue) <= Capacity
          /\ got \in Char \cup {NoChar}

Init == queue = <<>> /\ got = NoChar

Put(ch) == /\ Len(queue) < Capacity
           /\ queue' = Append(queue, ch)
           /\ UNCHANGED got

Get == /\ queue # <<>>
       /\ got' = Head(queue)
       /\ queue' = Tail(queue)

Next == (\E ch \in Char : Put(ch)) \/ Get

Spec == Init /\ [][Next]_vars
=============================================================================
