--------------------------- MODULE TerminalProofs ---------------------------
(***************************************************************************)
(* Theorems about Terminal.tla, for every size of the screen, of a line    *)
(* and of the history.                                                     *)
(***************************************************************************)
EXTENDS Terminal, SequenceTheorems, SetInduction, TLAPS

\* The entries of the ring are its first hist_count slots until it is full.
HistInv == /\ hist_count \in 0 .. HistMax /\ hist_next \in 0 .. HistMax - 1
           /\ DOMAIN hist = 0 .. HistMax - 1
           /\ hist_count < HistMax => hist_next = hist_count

-----------------------------------------------------------------------------
\* An index that has gone round the ring at most once.
LEMMA OnceRound ==
  ASSUME NEW n \in Nat \ {0}, NEW a \in 0 .. 2 * n - 1
  PROVE  a % n = IF a < n THEN a ELSE a - n
<1>1. CASE a < n
  BY <1>1
<1>2. CASE a >= n
  <2>1. a % n = (a - n) % n
    BY <1>2
  <2> QED
    BY <1>2, <2>1
<1> QED
  BY <1>1, <1>2

\* The next slot is the next one, or the first after the last.
LEMMA NextSlot ==
  ASSUME HistInv
  PROVE  NextEntry = IF hist_next = HistMax - 1 THEN 0 ELSE hist_next + 1
<1> DEFINE a == hist_next + 1
<1>1. a \in 0 .. 2 * HistMax - 1 /\ HistMax \in Nat \ {0} /\ hist_next \in 0 .. HistMax - 1
  BY TerminalAssumption DEF HistInv
<1>2. NextEntry = a % HistMax
  BY DEF NextEntry
<1>3. a % HistMax = IF a < HistMax THEN a ELSE a - HistMax
  <2> HIDE DEF a
  <2> QED
    BY <1>1, OnceRound
<1> QED
  BY <1>1, <1>2, <1>3

\* Where the i-th entry of a listing that starts at slot st is in the ring.
Slot(st, i) == IF st + i <= HistMax THEN st + i - 1 ELSE st + i - 1 - HistMax
LEMMA SlotOfEntry ==
  ASSUME NEW st \in 0 .. HistMax - 1, NEW i \in 1 .. HistMax
  PROVE  (st + i - 1) % HistMax = Slot(st, i) /\ Slot(st, i) \in 0 .. HistMax - 1
<1> DEFINE a == st + i - 1
<1>1. a \in 0 .. 2 * HistMax - 1 /\ HistMax \in Nat \ {0}
  BY TerminalAssumption
<1>2. a % HistMax = IF a < HistMax THEN a ELSE a - HistMax
  <2> HIDE DEF a
  <2> QED
    BY <1>1, OnceRound
<1> QED
  BY <1>1, <1>2 DEF Slot

-----------------------------------------------------------------------------
\* history_add is the only step that touches the ring, and keeps it in order.
LEMMA AddKeeps ==
  ASSUME HistInv, history_add
  PROVE  HistInv'
<1>1. HistMax \in Nat \ {0} /\ hist_next' = IF hist_next = HistMax - 1 THEN 0 ELSE hist_next + 1
  BY NextSlot, TerminalAssumption DEF history_add
<1>2. hist_count' = IF hist_count < HistMax THEN hist_count + 1 ELSE hist_count
  BY DEF history_add
<1>3. DOMAIN hist' = DOMAIN hist
  BY DEF history_add
<1> QED
  BY <1>1, <1>2, <1>3 DEF HistInv

\* Adding a line appends it to the listing, and drops the oldest entry of a full
\* ring.
LEMMA AddLists ==
  ASSUME HistInv, history_add
  PROVE  Listing' = LastOf(HistMax, Append(Listing, line))
<1> DEFINE L == Append(Listing, line)
<1>1. /\ HistMax \in Nat \ {0} /\ hist_count \in 0 .. HistMax /\ hist_next \in 0 .. HistMax - 1
      /\ hist_count < HistMax => hist_next = hist_count
      /\ hist_next' = IF hist_next = HistMax - 1 THEN 0 ELSE hist_next + 1
      /\ hist_count' = IF hist_count < HistMax THEN hist_count + 1 ELSE hist_count
      /\ \A k \in 0 .. HistMax - 1 : hist'[k] = IF k = hist_next THEN line ELSE hist[k]
  BY NextSlot, TerminalAssumption DEF HistInv, history_add
<1>2. Start \in 0 .. HistMax - 1 /\ Start' \in 0 .. HistMax - 1 /\ hist_count' \in 1 .. HistMax
  BY <1>1 DEF Start
<1>3. Listing = [i \in 1 .. hist_count |-> hist[Slot(Start, i)]]
  <2>1. \A i \in 1 .. hist_count : (Start + i - 1) % HistMax = Slot(Start, i)
    BY <1>1, <1>2, SlotOfEntry
  <2> QED
    BY <2>1 DEF Listing
<1>4. Listing' = [i \in 1 .. hist_count' |-> hist'[Slot(Start', i)]]
  <2>1. \A i \in 1 .. hist_count' : (Start' + i - 1) % HistMax = Slot(Start', i)
    BY <1>1, <1>2, SlotOfEntry
  <2> QED
    BY <2>1 DEF Listing
<1>5. /\ L = [i \in 1 .. hist_count + 1 |-> IF i = hist_count + 1 THEN line ELSE Listing[i]]
      /\ Len(L) = hist_count + 1
  <2> DEFINE S == {hist[Slot(Start, i)] : i \in 1 .. hist_count} \cup {line}
  <2>1. Listing \in Seq(S) /\ Len(Listing) = hist_count /\ line \in S
    BY <1>1, <1>3
  <2> HIDE DEF S
  <2>2. L \in Seq(S) /\ Len(L) = hist_count + 1
    BY <1>1, <2>1
  <2>3. \A i \in 1 .. hist_count + 1 : L[i] = IF i = hist_count + 1 THEN line ELSE Listing[i]
    BY <1>1, <2>1
  <2> HIDE DEF L
  <2> QED
    BY <1>1, <2>2, <2>3
<1>6. CASE hist_count < HistMax
  <2>1. Start = 0 /\ Start' = 0 /\ hist_count' = hist_count + 1
    BY <1>1, <1>6 DEF Start
  <2>2. ASSUME NEW i \in 1 .. hist_count + 1
        PROVE  hist'[Slot(0, i)] = IF i = hist_count + 1 THEN line ELSE hist[Slot(0, i)]
    BY <1>1, <1>6 DEF Slot
  <2>3. \A i \in 1 .. hist_count : Listing[i] = hist[Slot(0, i)]
    BY <1>3, <2>1
  <2>4. LastOf(HistMax, L) = L
    BY <1>1, <1>5, <1>6 DEF LastOf
  <2> HIDE DEF L
  <2>5. Listing' = L
    BY <1>1, <1>4, <1>5, <2>1, <2>2, <2>3
  <2> QED
    BY <2>4, <2>5 DEF L
<1>7. CASE hist_count = HistMax
  <2>1. Start = hist_next /\ Start' = hist_next' /\ hist_count' = HistMax
    BY <1>1, <1>7 DEF Start
  <2>2. ASSUME NEW i \in 1 .. HistMax
        PROVE  hist'[Slot(hist_next', i)] = IF i = HistMax THEN line ELSE hist[Slot(hist_next, i + 1)]
    BY <1>1, <1>7 DEF Slot
  <2>3. \A i \in 1 .. HistMax : Listing[i] = hist[Slot(hist_next, i)]
    BY <1>3, <1>7, <2>1
  <2> HIDE DEF L
  <2>4. LastOf(HistMax, L) = SubSeq(L, 2, HistMax + 1)
    <3>1. Len(L) = HistMax + 1 /\ Len(L) > HistMax /\ Len(L) - HistMax + 1 = 2
      BY <1>1, <1>5, <1>7
    <3> QED
      BY <3>1 DEF LastOf
  <2>5. SubSeq(L, 2, HistMax + 1) = [i \in 1 .. HistMax |-> L[i + 1]]
    BY <1>1, <1>5, <1>7
  <2>6. \A i \in 1 .. HistMax : L[i + 1] = hist'[Slot(hist_next', i)]
    <3> TAKE i \in 1 .. HistMax
    <3>1. CASE i = HistMax
      BY <1>1, <1>5, <1>7, <2>2, <3>1
    <3>2. CASE i < HistMax
      <4>1. i + 1 \in 1 .. HistMax /\ i + 1 # HistMax + 1 /\ i # HistMax
        BY <1>1, <3>2
      <4>2. L[i + 1] = Listing[i + 1]
        BY <1>5, <1>7, <4>1, <1>1
      <4> QED
        BY <2>2, <2>3, <4>1, <4>2
    <3> QED
      BY <1>1, <3>1, <3>2
  <2>7. Listing' = [i \in 1 .. HistMax |-> L[i + 1]]
    BY <1>4, <2>1, <2>6
  <2> QED
    BY <2>4, <2>5, <2>7 DEF L
<1> QED
  BY <1>1, <1>6, <1>7

\* history lists the last HistMax lines that were entered, in order, however
\* often the ring has wrapped (history_add, cmd_history).
THEOREM HistoryTheorem == Spec => HistoryIsLastLines
<1>1. Init => HistInv
  BY TerminalAssumption DEF Init, HistInv
<1>2. ASSUME HistInv, [Next]_vars
      PROVE  \/ line_enter /\ line # <<>> /\ history_add
             \/ ~(line_enter /\ line # <<>>) /\ UNCHANGED history
  <2>1. CASE line_enter
    BY <2>1 DEF line_enter
  <2>2. CASE ~line_enter
    BY <1>2, <2>2 DEF Next, Key, vars, kprint_char, name_char, pass_char, line_char, name_erase,
                      name_enter, pass_enter, line_erase
  <2> QED
    BY <2>1, <2>2
<1>3. HistInv /\ [Next]_vars => HistInv'
  <2> SUFFICES ASSUME HistInv, [Next]_vars PROVE HistInv'
    OBVIOUS
  <2>1. CASE history_add
    BY <2>1, AddKeeps
  <2>2. CASE UNCHANGED history
    BY <2>2 DEF history, HistInv
  <2> QED
    BY <1>2, <2>1, <2>2
<1>4. HistInv /\ [Next]_vars =>
        [Listing' = IF line_enter /\ line # <<>> THEN LastOf(HistMax, Append(Listing, line)) ELSE Listing]_vars
  <2> SUFFICES ASSUME HistInv, [Next]_vars
               PROVE  Listing' = IF line_enter /\ line # <<>> THEN LastOf(HistMax, Append(Listing, line)) ELSE Listing
    OBVIOUS
  <2>1. CASE line_enter /\ line # <<>> /\ history_add
    BY <2>1, AddLists
  <2>2. CASE ~(line_enter /\ line # <<>>) /\ UNCHANGED history
    BY <2>2 DEF history, Listing, Start
  <2> QED
    BY <1>2, <2>1, <2>2
<1> QED
  BY <1>1, <1>3, <1>4, PTL DEF Spec, HistoryIsLastLines
-----------------------------------------------------------------------------
(* Types *)

Printable == Glyphs \cup {"\n", "\r", "BS", "clear"}
Drawn == [Pos -> SUBSET (Glyphs \cup {"BS"})]

\* What the types rest on: names and passwords are typed at the prompts, and
\* the third wrong password is the last.
TermInv == /\ TypeOK
           /\ mode \in {"login", "password"} => line \in Names /\ attempt <= 2

\* A line is a sequence of limited length.
LEMMA LineIs ==
  ASSUME NEW n \in Nat, NEW l
  PROVE  l \in UNION {[1 .. m -> Typed] : m \in 0 .. n} <=> l \in Seq(Typed) /\ Len(l) <= n
<1>1. ASSUME NEW m \in 0 .. n, l \in [1 .. m -> Typed]
      PROVE  l \in Seq(Typed) /\ Len(l) <= n
  BY <1>1
<1>2. ASSUME l \in Seq(Typed), Len(l) <= n
      PROVE  Len(l) \in 0 .. n /\ l \in [1 .. Len(l) -> Typed]
  BY <1>2
<1> QED
  BY <1>1, <1>2

\* One character more, or one less, of a line that has a limit.
LEMMA LongerLine ==
  ASSUME NEW n \in Nat, NEW l \in UNION {[1 .. m -> Typed] : m \in 0 .. n}
  PROVE  /\ \A c \in Typed : Len(l) < n => Append(l, c) \in UNION {[1 .. m -> Typed] : m \in 0 .. n}
         /\ l # <<>> => Front(l) \in UNION {[1 .. m -> Typed] : m \in 0 .. n}
         /\ <<>> \in UNION {[1 .. m -> Typed] : m \in 0 .. n}
<1> DEFINE L == UNION {[1 .. m -> Typed] : m \in 0 .. n}
<1>1. l \in Seq(Typed) /\ Len(l) <= n /\ Len(l) \in Nat
  BY LineIs
<1>2. ASSUME NEW c \in Typed, Len(l) < n
      PROVE  Append(l, c) \in L
  <2>1. Append(l, c) \in Seq(Typed) /\ Len(Append(l, c)) = Len(l) + 1
    BY <1>1, AppendProperties
  <2>2. Len(l) + 1 <= n
    BY <1>1, <1>2
  <2> QED
    BY <2>1, <2>2, LineIs
<1>3. ASSUME l # <<>>
      PROVE  Front(l) \in L
  <2>1. Len(l) # 0
    BY <1>1, <1>3, EmptySeq
  <2>2. \A i \in 1 .. Len(l) - 1 : l[i] \in Typed
    BY <1>1
  <2>3. Len(l) - 1 \in Int /\ 1 \in Int
    BY <1>1
  <2>4. /\ SubSeq(l, 1, Len(l) - 1) \in Seq(Typed)
        /\ Len(SubSeq(l, 1, Len(l) - 1)) = IF 1 <= Len(l) - 1 THEN (Len(l) - 1) - 1 + 1 ELSE 0
    BY <2>2, <2>3, SubSeqProperties
  <2>5. Front(l) \in Seq(Typed) /\ Len(Front(l)) <= n
    BY <1>1, <2>1, <2>4 DEF Front
  <2> QED
    BY <2>5, LineIs
<1>4. <<>> \in Seq(Typed) /\ Len(<<>>) <= n
  OBVIOUS
<1> QED
  BY <1>2, <1>3, <1>4, LineIs

\* Nothing is a line, and a name.
LEMMA EmptyLine == <<>> \in Lines /\ <<>> \in Names
<1>1. NameMax \in Nat /\ LineMax \in Nat
  BY TerminalAssumption
<1>2. <<>> \in Seq(Typed) /\ \A n \in Nat : Len(<<>>) <= n
  OBVIOUS
<1> QED
  BY <1>1, <1>2, LineIs DEF Lines, Names

\* A name or a password, a key later.
LEMMA LongerName ==
  /\ \A l \in Names : \A c \in Typed : Len(l) < NameMax => Append(l, c) \in Names
  /\ \A l \in Names : l # <<>> => Front(l) \in Names
<1>1. NameMax \in Nat
  BY TerminalAssumption
<1>2. ASSUME NEW l \in Names
      PROVE  /\ \A c \in Typed : Len(l) < NameMax => Append(l, c) \in Names
             /\ l # <<>> => Front(l) \in Names
  <2>1. l \in UNION {[1 .. m -> Typed] : m \in 0 .. NameMax}
    BY DEF Names
  <2> QED
    BY <1>1, <2>1, LongerLine DEF Names
<1> QED
  BY <1>2

\* A command line, a key later.
LEMMA LongerCommand ==
  /\ \A l \in Lines : \A c \in Typed : Len(l) < LineMax => Append(l, c) \in Lines
  /\ \A l \in Lines : l # <<>> => Front(l) \in Lines
<1>1. LineMax \in Nat
  BY TerminalAssumption
<1>2. ASSUME NEW l \in Lines
      PROVE  /\ \A c \in Typed : Len(l) < LineMax => Append(l, c) \in Lines
             /\ l # <<>> => Front(l) \in Lines
  <2>1. l \in UNION {[1 .. m -> Typed] : m \in 0 .. LineMax}
    BY DEF Lines
  <2> QED
    BY <1>1, <2>1, LongerLine DEF Lines
<1> QED
  BY <1>2

\* A column, however often the cursor's width has gone round.
LEMMA Column ==
  ASSUME NEW a \in Int, NEW n \in Nat \ {0}
  PROVE  a % n \in 0 .. n - 1
OBVIOUS

\* Every text can be printed.
LEMMA TextsPrint ==
  /\ \A o \in {BootText, LoginPrompt, PasswordPrompt, Incorrect, Welcome, Halting, Prompt}
                  \cup Outputs \cup {<<"clear">>, <<"\n">>, <<"BS">>} : o \in Seq(Printable)
  /\ \A c \in Typed : <<c>> \in Seq(Printable)
  /\ \A s, t \in Seq(Printable) : s \o t \in Seq(Printable)
<1>1. Seq(Glyphs \cup {"\n", "\r"}) \subseteq Seq(Printable)
  <2>1. Glyphs \cup {"\n", "\r"} \subseteq Printable
    BY DEF Printable
  <2> QED
    BY <2>1, SeqMonotonic
<1>2. \A c \in Printable : <<c>> \in Seq(Printable)
  OBVIOUS
<1>3. Typed \cup {"clear", "\n", "BS"} \subseteq Printable
  BY TerminalAssumption DEF Printable
<1> QED
  BY <1>1, <1>2, <1>3, ConcatProperties, TerminalAssumption

Screen == cell \in Drawn /\ x \in 0 .. Columns32 - 1 /\ y \in 0 .. Rows - 1

\* A cell is lit, the rows scroll, the screen is cleared: what is on it stays
\* of glyphs.
LEMMA Pictures ==
  ASSUME NEW cs \in Drawn, Screen
  PROVE  /\ Scrolled(cs) \in Drawn /\ [k \in Pos |-> {}] \in Drawn
         /\ \A c \in Glyphs \cup {"BS"} : Lit(cs, c) \in Drawn
         /\ \A k \in Pos : [cs EXCEPT ![k] = {}] \in Drawn
<1>1. Cols \in Nat /\ Rows \in Nat
  BY TerminalAssumption
<1>2. ASSUME NEW k \in Pos, k[2] + 1 < Rows
      PROVE  <<k[1], k[2] + 1>> \in Pos
  BY <1>1, <1>2 DEF Pos
<1>3. Scrolled(cs) \in Drawn
  BY <1>2 DEF Scrolled, Drawn
<1>4. ASSUME NEW c \in Glyphs \cup {"BS"}
      PROVE  Lit(cs, c) \in Drawn
  BY DEF Lit, Drawn
<1> QED
  BY <1>3, <1>4 DEF Drawn

\* A new line stays on the screen.
LEMMA NextRowType ==
  ASSUME Screen, NEW cs \in Drawn, NextRow(cs)
  PROVE  Screen'
<1>1. Rows \in Nat \ {0} /\ Columns32 \in Nat /\ Columns32 > 0
  BY TerminalAssumption
<1>2. cell' \in Drawn
  BY Pictures DEF NextRow
<1>3. x' = 0 /\ (y' = y \/ (y + 1 < Rows /\ y' = y + 1))
  BY DEF NextRow
<1> QED
  BY <1>1, <1>2, <1>3 DEF Screen

\* kprint draws on the screen and nowhere else.
LEMMA PrintType ==
  ASSUME TypeOK, kprint_char
  PROVE  Screen' /\ out' \in Seq(Printable)
<1>1. Screen /\ Columns32 \in Nat \ {0} /\ Rows \in Nat \ {0} /\ out \in Seq(Printable)
  BY TerminalAssumption DEF TypeOK, Screen, Drawn, Printable
<1>2. Head(out) \in Printable /\ out' \in Seq(Printable)
  BY <1>1, HeadTailProperties DEF kprint_char
<1>3. CASE Head(out) = "clear"
  <2>1. fb_clear
    BY <1>3 DEF kprint_char
  <2> QED
    BY <1>1, <1>2, <2>1 DEF fb_clear, Screen, Drawn
<1>4. CASE Head(out) = "\n"
  <2>1. NextRow(cell)
    BY <1>4 DEF kprint_char
  <2> QED
    BY <1>1, <1>2, <2>1, NextRowType DEF Screen
<1>5. CASE Head(out) = "\r"
  <2>1. x' = 0 /\ UNCHANGED <<cell, y>>
    BY <1>5 DEF kprint_char
  <2> QED
    BY <1>1, <1>2, <2>1 DEF Screen
<1>6. CASE Head(out) \notin {"clear", "\n", "\r"}
  <2>1. draw(Head(out)) /\ Head(out) \in Glyphs \cup {"BS"}
    BY <1>2, <1>6 DEF kprint_char, Printable
  <2>2. Lit(cell, Head(out)) \in Drawn
    BY <1>1, <2>1, Pictures DEF Screen
  <2>3. Right \in 0 .. Columns32 - 1
    BY <1>1, Column DEF Right, Screen
  <2>4. CASE Wraps
    BY <1>1, <1>2, <2>1, <2>2, <2>4, NextRowType DEF draw
  <2>5. CASE ~Wraps
    BY <1>1, <1>2, <2>1, <2>2, <2>3, <2>5 DEF draw, Screen
  <2> QED
    BY <2>4, <2>5
<1> QED
  BY <1>3, <1>4, <1>5, <1>6

\* So does the erasure of the line editor.
LEMMA EraseType ==
  ASSUME TypeOK, line_erase
  PROVE  Screen'
<1>1. Screen /\ Columns32 \in Nat \ {0} /\ Cols \in Nat
  BY TerminalAssumption DEF TypeOK, Screen, Drawn
<1>2. Left \in 0 .. Columns32 - 1 /\ x' = Left /\ y' = y
  <2>1. Left \in 0 .. Columns32 - 1
    BY <1>1, Column DEF Left, Screen
  <2> QED
    BY <2>1 DEF line_erase
<1>3. CASE Inside(Left, y)
  <2>1. <<Left, y>> \in Pos
    BY <1>1, <1>2, <1>3 DEF Inside, Pos, Screen
  <2> QED
    BY <1>1, <1>2, <1>3, <2>1, Pictures DEF line_erase, Screen
<1>4. CASE ~Inside(Left, y)
  BY <1>1, <1>2, <1>4 DEF line_erase, Screen
<1> QED
  BY <1>3, <1>4

\* Every key and every character printed keeps the types.
LEMMA TermStep ==
  ASSUME TermInv, [Next]_vars
  PROVE  TermInv'
<1>1. /\ Screen /\ out \in Seq(Printable) /\ attempt \in 0 .. 3
      /\ mode \in {"login", "password", "shell", "halted"}
      /\ hist \in [0 .. HistMax - 1 -> Lines] /\ hist_count \in 0 .. HistMax
      /\ hist_next \in 0 .. HistMax - 1 /\ line \in Lines \cup Names
      /\ mode = "shell" => line \in Lines
      /\ mode \in {"login", "password"} => line \in Names /\ attempt <= 2
      /\ HistMax \in Nat \ {0} /\ LineMax \in Nat /\ NameMax \in Nat
  BY TerminalAssumption DEF TermInv, TypeOK, Screen, Drawn, Printable
<1>2. <<>> \in Lines /\ <<>> \in Names
  BY EmptyLine
<1>3. ASSUME Screen', out' \in Seq(Printable), UNCHANGED <<mode, attempt, line, history>>
      PROVE  TermInv'
  BY <1>1, <1>3 DEF TermInv, TypeOK, Screen, Drawn, Printable, history
<1>4. ASSUME UNCHANGED screen, UNCHANGED history, out' \in Seq(Printable),
             mode' \in {"login", "password", "shell", "halted"}, attempt' \in 0 .. 3,
             mode' \in {"login", "password"} => line' \in Names /\ attempt' <= 2,
             mode' \in {"shell", "halted"} => line' \in Lines
      PROVE  TermInv'
  BY <1>1, <1>4 DEF TermInv, TypeOK, Screen, Drawn, Printable, history, screen
<1>5. CASE kprint_char
  BY <1>3, <1>5, PrintType DEF kprint_char, TermInv
<1>6. CASE \E c \in Keys : name_char(c)
  <2>1. PICK c \in Typed : name_char(c)
    BY <1>6 DEF name_char
  <2>2. line' \in Names
    BY <1>1, <2>1, LongerName DEF name_char, Waits
  <2>3. out' \in Seq(Printable)
    BY <1>1, <2>1, TextsPrint DEF name_char
  <2> QED
    BY <1>1, <1>4, <2>1, <2>2, <2>3 DEF name_char, Waits
<1>7. CASE name_erase
  <2>1. line' \in Names
    BY <1>1, <1>7, LongerName DEF name_erase, Waits
  <2>2. out' \in Seq(Printable)
    BY <1>7, TextsPrint DEF name_erase
  <2> QED
    BY <1>1, <1>4, <1>7, <2>1, <2>2 DEF name_erase, Waits
<1>8. CASE name_enter
  <2>1. out' \in Seq(Printable)
    BY <1>8, TextsPrint DEF name_enter
  <2> QED
    BY <1>1, <1>2, <1>4, <1>8, <2>1 DEF name_enter, Waits
<1>9. CASE \E c \in Keys : pass_char(c)
  <2>1. PICK c : pass_char(c)
    BY <1>9
  <2>2. line' \in Names
    BY <1>1, <2>1, LongerName DEF pass_char, Waits
  <2> QED
    BY <1>1, <1>4, <2>1, <2>2 DEF pass_char, Waits
<1>10. CASE pass_enter
  <2>1. /\ line' = <<>> /\ UNCHANGED screen /\ UNCHANGED history /\ attempt <= 2
    BY <1>1, <1>10 DEF pass_enter, Waits
  <2>2. CASE mode' = "shell" /\ out' = <<"\n">> \o Welcome \o Prompt /\ UNCHANGED attempt
    <3>1. out' \in Seq(Printable)
      BY <2>2, TextsPrint
    <3> QED
      BY <1>1, <1>2, <1>4, <2>1, <2>2, <3>1
  <2>3. CASE /\ attempt' = attempt + 1
             /\ IF attempt' < 3
                THEN mode' = "login" /\ out' = <<"\n">> \o Incorrect \o LoginPrompt
                ELSE mode' = "halted" /\ out' = <<"\n">> \o Incorrect \o Halting
    <3>1. out' \in Seq(Printable)
      BY <2>3, TextsPrint
    <3>2. attempt' \in 0 .. 3 /\ (attempt' < 3 => attempt' <= 2)
      BY <1>1, <2>1, <2>3
    <3> QED
      BY <1>1, <1>2, <1>4, <2>1, <2>3, <3>1, <3>2
  <2> QED
    BY <1>10, <2>2, <2>3 DEF pass_enter
<1>11. CASE \E c \in Keys : line_char(c)
  <2>1. PICK c \in Typed : line_char(c)
    BY <1>11 DEF line_char
  <2>2. line' \in Lines
    BY <1>1, <2>1, LongerCommand DEF line_char, Waits
  <2>3. out' \in Seq(Printable)
    BY <1>1, <2>1, TextsPrint DEF line_char
  <2> QED
    BY <1>1, <1>4, <2>1, <2>2, <2>3 DEF line_char, Waits
<1>12. CASE line_erase
  <2>1. Screen'
    BY <1>12, EraseType DEF TermInv
  <2>2. line' \in Lines /\ mode = "shell" /\ UNCHANGED <<out, mode, attempt, history>>
    BY <1>1, <1>12, LongerCommand DEF line_erase, Waits
  <2> QED
    BY <1>1, <2>1, <2>2 DEF TermInv, TypeOK, Screen, Drawn, Printable, history
<1>13. CASE line_enter
  <2>1. /\ mode = "shell" /\ line' = <<>> /\ line \in Lines /\ UNCHANGED <<screen, mode, attempt>>
    BY <1>1, <1>13 DEF line_enter, Waits
  <2>2. out' \in Seq(Printable)
    BY <1>13, TextsPrint DEF line_enter
  <2>3. CASE UNCHANGED history
    BY <1>1, <1>2, <1>4, <2>1, <2>2, <2>3
  <2>4. CASE history_add
    <3>1. hist' \in [0 .. HistMax - 1 -> Lines] /\ hist_count' \in 0 .. HistMax
      BY <1>1, <2>1, <2>4 DEF history_add
    <3>2. hist_next' \in 0 .. HistMax - 1
      BY <1>1, <2>4, Column DEF history_add, NextEntry
    <3> QED
      BY <1>1, <1>2, <2>1, <2>2, <3>1, <3>2 DEF TermInv, TypeOK, Screen, Drawn, Printable, screen
  <2> QED
    BY <1>13, <2>3, <2>4 DEF line_enter
<1>14. CASE UNCHANGED vars
  BY <1>1, <1>3, <1>14 DEF vars, screen, Screen, Drawn
<1> QED
  BY <1>5, <1>6, <1>7, <1>8, <1>9, <1>10, <1>11, <1>12, <1>13, <1>14 DEF Next, Key

\* The console starts with an empty screen, history and name.
LEMMA TermInit ==
  ASSUME Init
  PROVE  TermInv
<1>1. /\ Cols \in Nat /\ Rows \in Nat \ {0} /\ Columns32 \in Nat \ {0} /\ HistMax \in Nat \ {0}
      /\ LineMax \in Nat /\ NameMax \in Nat
  BY TerminalAssumption
<1>2. <<>> \in Lines /\ <<>> \in Names
  BY EmptyLine
<1>3. out \in Seq(Printable)
  BY TextsPrint DEF Init
<1> QED
  BY <1>1, <1>2, <1>3 DEF Init, TermInv, TypeOK, Printable

\* On a screen of any size the cursor's row and every pixel that is drawn stay
\* in the framebuffer, a name, a password and a line in their buffers, the
\* history in its ring, and the third wrong password is the last (kprint,
\* authenticate, the loop of kmain).
THEOREM TerminalTypeCorrect == Spec => []TypeOK
<1>1. Init => TermInv
  BY TermInit
<1>2. TermInv /\ [Next]_vars => TermInv'
  BY TermStep
<1>3. TermInv => TypeOK
  BY DEF TermInv
<1> QED
  BY <1>1, <1>2, <1>3, PTL DEF Spec
-----------------------------------------------------------------------------
(* The rows of a text: division by the columns, and the last of a sequence *)

\* Division by the columns of a row.
LEMMA DivMod ==
  ASSUME NEW n \in Nat, NEW c \in Nat \ {0}
  PROVE  n \div c \in Nat /\ n % c \in 0 .. c - 1 /\ n = c * (n \div c) + (n % c)
OBVIOUS

\* There is one quotient and one rest.
LEMMA DivUnique ==
  ASSUME NEW c \in Nat \ {0}, NEW q \in Nat, NEW r \in 0 .. c - 1
  PROVE  (c * q + r) \div c = q /\ (c * q + r) % c = r
OBVIOUS

\* Products keep the order.
LEMMA Times ==
  ASSUME NEW a \in Nat, NEW b \in Nat, NEW c \in Nat, a <= b
  PROVE  a * c <= b * c /\ c * a = a * c /\ a * c \in Nat
OBVIOUS

\* One more: a place further in the row, or the first of the next.
LEMMA DivNext ==
  ASSUME NEW n \in Nat, NEW c \in Nat \ {0}
  PROVE  IF n % c = c - 1 THEN (n + 1) % c = 0 /\ (n + 1) \div c = n \div c + 1
                          ELSE (n + 1) % c = (n % c) + 1 /\ (n + 1) \div c = n \div c
<1> DEFINE q == n \div c  r == n % c
<1>1. q \in Nat /\ r \in 0 .. c - 1 /\ n = c * q + r
  BY DivMod
<1> HIDE DEF q, r
<1>2. CASE r = c - 1
  <2>1. n + 1 = c * (q + 1) + 0
    BY <1>1, <1>2
  <2>2. (c * (q + 1) + 0) \div c = q + 1 /\ (c * (q + 1) + 0) % c = 0
    BY <1>1, DivUnique
  <2> QED
    BY <1>1, <1>2, <2>1, <2>2 DEF q, r
<1>3. CASE r # c - 1
  <2>1. n + 1 = c * q + (r + 1) /\ r + 1 \in 0 .. c - 1
    BY <1>1, <1>3
  <2>2. (c * q + (r + 1)) \div c = q /\ (c * q + (r + 1)) % c = r + 1
    BY <1>1, <2>1, DivUnique
  <2> QED
    BY <1>1, <1>3, <2>1, <2>2 DEF q, r
<1> QED
  BY <1>2, <1>3 DEF q, r

\* An element behind two sequences that are joined.
LEMMA JoinAppend ==
  ASSUME NEW T, NEW a \in Seq(T), NEW b \in Seq(T), NEW e \in T
  PROVE  IsJoined(Append(a \o b, e), a, Append(b, e)) /\ a \o b \in Seq(T)
<1>1. a \o b \in Seq(T) /\ <<e>> \in Seq(T)
  BY ConcatProperties
<1>2. Append(b, e) = b \o <<e>>
  BY AppendIsConcat
<1>3. Append(a \o b, e) = (a \o b) \o <<e>>
  BY <1>1, AppendIsConcat
<1>4. (a \o b) \o <<e>> = a \o (b \o <<e>>)
  BY <1>1, ConcatAssociative
<1> QED
  BY <1>1, <1>2, <1>3, <1>4, Zenon DEF IsJoined

\* What LastOf keeps.
LEMMA LastOfIs ==
  ASSUME NEW T, NEW n \in Nat \ {0}, NEW s \in Seq(T)
  PROVE  /\ LastOf(n, s) \in Seq(T)
         /\ Len(LastOf(n, s)) = IF Len(s) > n THEN n ELSE Len(s)
         /\ \A j \in 1 .. Len(LastOf(n, s)) : LastOf(n, s)[j] = s[Len(s) - Len(LastOf(n, s)) + j]
<1>1. Len(s) \in Nat
  OBVIOUS
<1>2. CASE Len(s) > n
  <2> DEFINE m == Len(s) - n + 1
  <2>1. LastOf(n, s) = SubSeq(s, m, Len(s))
    BY <1>2 DEF LastOf
  <2>2. m \in Int /\ m <= Len(s) /\ Len(s) - m + 1 = n /\ m >= 1 /\ \A i \in m .. Len(s) : i \in 1 .. Len(s)
    BY <1>1, <1>2
  <2>3. \A i \in m .. Len(s) : s[i] \in T
    BY <2>2, ElementOfSeq
  <2> HIDE DEF m
  <2>4. /\ SubSeq(s, m, Len(s)) \in Seq(T) /\ Len(SubSeq(s, m, Len(s))) = n
        /\ \A i \in 1 .. n : SubSeq(s, m, Len(s))[i] = s[m + i - 1]
    BY <1>1, <2>2, <2>3, SubSeqProperties
  <2>5. \A i \in 1 .. n : m + i - 1 = Len(s) - n + i
    BY <1>1 DEF m
  <2> QED
    BY <1>2, <2>1, <2>4, <2>5
<1>3. CASE ~(Len(s) > n)
  <2>1. LastOf(n, s) = s
    BY <1>3 DEF LastOf
  <2> QED
    BY <1>1, <1>3, <2>1
<1> QED
  BY <1>2, <1>3

\* All n of them, when there are as many.
LEMMA LastOfFull ==
  ASSUME NEW T, NEW n \in Nat \ {0}, NEW s \in Seq(T), Len(s) >= n
  PROVE  /\ LastOf(n, s) \in Seq(T) /\ Len(LastOf(n, s)) = n
         /\ \A j \in 1 .. n : LastOf(n, s)[j] = s[Len(s) - n + j]
<1>1. Len(s) \in Nat
  BY LenProperties
<1>2. /\ LastOf(n, s) \in Seq(T)
      /\ Len(LastOf(n, s)) = IF Len(s) > n THEN n ELSE Len(s)
      /\ \A j \in 1 .. Len(LastOf(n, s)) : LastOf(n, s)[j] = s[Len(s) - Len(LastOf(n, s)) + j]
  BY LastOfIs
<1>3. Len(LastOf(n, s)) = n
  BY <1>1, <1>2
<1> QED
  BY <1>2, <1>3

\* The last of two sequences, when the second has enough of them.
LEMMA LastOfJoin ==
  ASSUME NEW T, NEW n \in Nat \ {0}, NEW a \in Seq(T), NEW b \in Seq(T), Len(b) >= n,
         NEW c, IsJoined(c, a, b)
  PROVE  LastOf(n, c) = LastOf(n, b)
<1>0. Len(a) \in Nat /\ Len(b) \in Nat
  BY LenProperties
<1>1. /\ c \in Seq(T) /\ Len(c) = Len(a) + Len(b) /\ Len(a) \in Nat /\ Len(b) \in Nat
      /\ \A i \in 1 .. Len(a) + Len(b) : c[i] = IF i <= Len(a) THEN a[i] ELSE b[i - Len(a)]
  <2>1. /\ a \o b \in Seq(T) /\ Len(a \o b) = Len(a) + Len(b)
        /\ \A i \in 1 .. Len(a) + Len(b) : (a \o b)[i] = IF i <= Len(a) THEN a[i] ELSE b[i - Len(a)]
    BY ConcatProperties
  <2> QED
    BY <1>0, <2>1, Zenon DEF IsJoined
<1>6. c \in Seq(T) /\ Len(c) >= n
  BY <1>1
<1>2. /\ LastOf(n, c) \in Seq(T) /\ Len(LastOf(n, c)) = n
      /\ \A j \in 1 .. n : LastOf(n, c)[j] = c[Len(c) - n + j]
  BY <1>6, LastOfFull
<1>3. /\ LastOf(n, b) \in Seq(T) /\ Len(LastOf(n, b)) = n
      /\ \A j \in 1 .. n : LastOf(n, b)[j] = b[Len(b) - n + j]
  BY LastOfFull
<1>4. ASSUME NEW j \in 1 .. n
      PROVE  c[Len(c) - n + j] = b[Len(b) - n + j]
  <2>1. PICK i : i = Len(c) - n + j
    OBVIOUS
  <2>2. i \in 1 .. Len(a) + Len(b) /\ ~(i <= Len(a)) /\ i - Len(a) = Len(b) - n + j
    BY <1>1, <2>1
  <2>3. c[i] = b[i - Len(a)]
    BY <1>1, <2>2
  <2> QED
    BY <2>1, <2>2, <2>3, Zenon
<1>5. \A j \in 1 .. n : LastOf(n, c)[j] = LastOf(n, b)[j]
  BY <1>2, <1>3, <1>4
<1> QED
  BY <1>2, <1>3, <1>5, SeqEqual

\* The last of P with u at its end.
Ends(L, n, P, u) == L = LastOf(n, Append(P, u))

\* u is the last of them, behind the last of P.
LEMMA LastOfAppend ==
  ASSUME NEW T, NEW n \in Nat \ {0}, NEW P \in Seq(T), NEW u \in T, NEW L, Ends(L, n, P, u)
  PROVE  /\ L \in Seq(T) /\ Len(L) = IF Len(P) < n THEN Len(P) + 1 ELSE n
         /\ Len(L) \in 1 .. n /\ L[Len(L)] = u
         /\ \A j \in 1 .. Len(L) - 1 : L[j] = P[Len(P) + 1 - Len(L) + j]
<1>1. PICK A : A = Append(P, u)
  OBVIOUS
<1>2. /\ A \in Seq(T) /\ Len(A) = Len(P) + 1 /\ Len(P) \in Nat /\ A[Len(P) + 1] = u
      /\ \A i \in 1 .. Len(P) : A[i] = P[i]
  BY <1>1, AppendProperties
<1>3. /\ L \in Seq(T) /\ Len(L) = (IF Len(A) > n THEN n ELSE Len(A))
      /\ \A j \in 1 .. Len(L) : L[j] = A[Len(A) - Len(L) + j]
  <2>1. L = LastOf(n, A)
    BY <1>1 DEF Ends
  <2>2. /\ LastOf(n, A) \in Seq(T) /\ Len(LastOf(n, A)) = (IF Len(A) > n THEN n ELSE Len(A))
        /\ \A j \in 1 .. Len(LastOf(n, A)) : LastOf(n, A)[j] = A[Len(A) - Len(LastOf(n, A)) + j]
    BY <1>2, LastOfIs
  <2> QED
    BY <2>1, <2>2, Zenon
<1>4. Len(L) = (IF Len(P) < n THEN Len(P) + 1 ELSE n) /\ Len(L) \in 1 .. n /\ Len(L) <= Len(P) + 1
  BY <1>2, <1>3
<1>5. L[Len(L)] = u
  <2>1. Len(L) \in 1 .. Len(L) /\ Len(A) - Len(L) + Len(L) = Len(P) + 1
    BY <1>2, <1>4
  <2> QED
    BY <1>2, <1>3, <2>1
<1>6. ASSUME NEW j \in 1 .. Len(L) - 1
      PROVE  L[j] = P[Len(P) + 1 - Len(L) + j]
  <2>1. PICK i : i = Len(P) + 1 - Len(L) + j
    OBVIOUS
  <2>2. i \in 1 .. Len(P) /\ i = Len(A) - Len(L) + j /\ j \in 1 .. Len(L)
    BY <1>2, <1>4, <2>1
  <2>3. L[j] = A[i]
    BY <1>3, <2>2
  <2> QED
    BY <1>2, <2>1, <2>2, <2>3
<1> QED
  BY <1>3, <1>4, <1>5, <1>6

\* A part of a sequence that gets one more element.
LEMMA PartOfLonger ==
  ASSUME NEW T, NEW l \in Seq(T), NEW c \in T, NEW m \in Nat \ {0}, NEW n \in Nat, n <= Len(l)
  PROVE  SubSeq(Append(l, c), m, n) = SubSeq(l, m, n) /\ SubSeq(l, m, n) \in Seq(T)
<1>1. PICK a : a = Append(l, c)
  OBVIOUS
<1>2. /\ Len(l) \in Nat /\ a \in Seq(T) /\ Len(a) = Len(l) + 1 /\ \A i \in 1 .. Len(l) : a[i] = l[i]
  BY <1>1, AppendProperties
<1>3. \A i \in m .. n : a[i] \in T /\ l[i] \in T /\ a[i] = l[i]
  <2>1. \A i \in m .. n : i \in 1 .. Len(l)
    BY <1>2
  <2> QED
    BY <1>2, <2>1, ElementOfSeq
<1>4. /\ SubSeq(a, m, n) \in Seq(T) /\ Len(SubSeq(a, m, n)) = IF m <= n THEN n - m + 1 ELSE 0
      /\ \A i \in 1 .. n - m + 1 : SubSeq(a, m, n)[i] = a[m + i - 1]
  BY <1>3, SubSeqProperties
<1>5. /\ SubSeq(l, m, n) \in Seq(T) /\ Len(SubSeq(l, m, n)) = IF m <= n THEN n - m + 1 ELSE 0
      /\ \A i \in 1 .. n - m + 1 : SubSeq(l, m, n)[i] = l[m + i - 1]
  BY <1>3, SubSeqProperties
<1>6. \A i \in 1 .. Len(SubSeq(a, m, n)) : SubSeq(a, m, n)[i] = SubSeq(l, m, n)[i]
  <2> TAKE i \in 1 .. Len(SubSeq(a, m, n))
  <2>1. i \in 1 .. n - m + 1 /\ m + i - 1 \in m .. n
    BY <1>4
  <2> QED
    BY <1>3, <1>4, <1>5, <2>1
<1>7. SubSeq(a, m, n) = SubSeq(l, m, n)
  BY <1>4, <1>5, <1>6, SeqEqual
<1> QED
  BY <1>1, <1>5, <1>7

\* The end of it.
LEMMA EndOfLonger ==
  ASSUME NEW T, NEW l \in Seq(T), NEW c \in T, NEW m \in Nat \ {0}, m <= Len(l) + 1
  PROVE  /\ SubSeq(Append(l, c), m, Len(l) + 1) = Append(SubSeq(l, m, Len(l)), c)
         /\ SubSeq(l, m, Len(l)) \in Seq(T) /\ Len(SubSeq(l, m, Len(l))) = Len(l) - m + 1
<1>1. PICK a : a = Append(l, c)
  OBVIOUS
<1>2. /\ Len(l) \in Nat /\ a \in Seq(T) /\ Len(a) = Len(l) + 1 /\ a[Len(l) + 1] = c
  BY <1>1, AppendProperties
<1>3. \A i \in m .. Len(l) : l[i] \in T
  <2>1. \A i \in m .. Len(l) : i \in 1 .. Len(l)
    BY <1>2
  <2> QED
    BY <1>2, <2>1, ElementOfSeq
<1>4. SubSeq(l, m, Len(l)) \in Seq(T) /\ Len(SubSeq(l, m, Len(l))) = Len(l) - m + 1
  BY <1>2, <1>3, SubSeqProperties
<1>5. SubSeq(a, m, Len(l)) = SubSeq(l, m, Len(l))
  BY <1>1, <1>2, PartOfLonger
<1>6. SubSeq(a, m, Len(a)) = SubSeq(a, m, Len(a) - 1) \o <<a[Len(a)]>>
  BY <1>2, SubSeqRecursiveSecond
<1>7. Append(SubSeq(l, m, Len(l)), c) = SubSeq(l, m, Len(l)) \o <<c>>
  BY <1>4, AppendIsConcat
<1>8. Len(a) - 1 = Len(l) /\ a[Len(a)] = c
  BY <1>2
<1>9. SubSeq(a, m, Len(l) + 1) = SubSeq(l, m, Len(l)) \o <<c>>
  BY <1>2, <1>5, <1>6, <1>8
<1> QED
  BY <1>1, <1>4, <1>7, <1>9

\* The rows that a line fills, and the one it ends in.
FullRows(l) == [k \in 1 .. Len(l) \div Cols |-> SubSeq(l, (k - 1) * Cols + 1, k * Cols)]
LastRow(l) == SubSeq(l, (Len(l) \div Cols) * Cols + 1, Len(l))

\* Where the rows of a line are in it.
LEMMA RowBounds ==
  ASSUME NEW n \in Nat, NEW k \in 1 .. n \div Cols
  PROVE  (k - 1) * Cols + 1 \in Nat \ {0} /\ k * Cols \in Nat /\ k * Cols <= n
<1>1. Cols \in Nat \ {0}
  BY TerminalAssumption
<1>2. n \div Cols \in Nat /\ n % Cols \in Nat /\ n = Cols * (n \div Cols) + (n % Cols)
  BY <1>1, DivMod
<1> DEFINE q == n \div Cols
<1> HIDE DEF q
<1>3. q \in Nat /\ k \in 1 .. q
  BY <1>2 DEF q
<1>4. k - 1 \in Nat /\ k \in Nat /\ k <= q
  BY <1>3
<1>5. (k - 1) * Cols \in Nat /\ k * Cols \in Nat
  BY <1>1, <1>4, Times
<1>6. k * Cols <= q * Cols /\ Cols * q = q * Cols /\ q * Cols \in Nat
  BY <1>1, <1>3, <1>4, Times
<1>7. k * Cols <= n
  BY <1>2, <1>5, <1>6 DEF q
<1> QED
  BY <1>5, <1>7

\* Where the last row begins.
LEMMA LastBounds ==
  ASSUME NEW n \in Nat, NEW q, q = n \div Cols
  PROVE  /\ q \in Nat /\ n % Cols \in 0 .. Cols - 1 /\ n % Cols \in Nat
         /\ q * Cols \in Nat /\ n = q * Cols + (n % Cols)
         /\ (q + 1) * Cols \in Nat /\ n < (q + 1) * Cols
<1>1. Cols \in Nat \ {0}
  BY TerminalAssumption
<1>2. q \in Nat /\ n % Cols \in 0 .. Cols - 1 /\ n = Cols * q + (n % Cols)
  BY <1>1, DivMod
<1>4. Cols * q = q * Cols /\ q * Cols \in Nat /\ (q + 1) * Cols = q * Cols + Cols
  BY <1>1, <1>2, Times
<1> QED
  BY <1>1, <1>2, <1>4

\* A line is laid out as the rows it fills and the one it ends in.
LEMMA RowsAre ==
  ASSUME NEW T, NEW l \in Seq(T)
  PROVE  /\ FullRows(l) \in Seq(Seq(T)) /\ Len(FullRows(l)) = Len(l) \div Cols
         /\ LastRow(l) \in Seq(T) /\ Len(LastRow(l)) = Len(l) % Cols
         /\ RowsOf(l) = Append(FullRows(l), LastRow(l))
<1>1. PICK n \in Nat : n = Len(l)
  BY LenProperties
<1>2. PICK q \in Nat : q = n \div Cols
  BY TerminalAssumption, DivMod
<1>3. \A i \in 1 .. n : l[i] \in T
  BY <1>1, ElementOfSeq
<1>4. ASSUME NEW k \in 1 .. q
      PROVE  SubSeq(l, (k - 1) * Cols + 1, k * Cols) \in Seq(T)
  <2>1. (k - 1) * Cols + 1 \in Nat \ {0} /\ k * Cols \in Nat /\ k * Cols <= n
    BY <1>2, RowBounds
  <2>2. \A a \in Nat \ {0}, b \in Nat : b <= n => SubSeq(l, a, b) \in Seq(T)
    <3> TAKE a \in Nat \ {0}, b \in Nat
    <3> HAVE b <= n
    <3>1. \A i \in a .. b : l[i] \in T
      BY <1>3
    <3> QED
      BY <3>1, SubSeqProperties
  <2> QED
    BY <2>1, <2>2
<1>5. FullRows(l) \in Seq(Seq(T)) /\ Len(FullRows(l)) = q
      /\ \A k \in 1 .. q : FullRows(l)[k] = SubSeq(l, (k - 1) * Cols + 1, k * Cols)
  <2>1. FullRows(l) = [k \in 1 .. q |-> SubSeq(l, (k - 1) * Cols + 1, k * Cols)]
    BY <1>1, <1>2 DEF FullRows
  <2>2. FullRows(l) \in [1 .. q -> Seq(T)]
    BY <1>4, <2>1
  <2>3. \A k \in 1 .. q : FullRows(l)[k] = SubSeq(l, (k - 1) * Cols + 1, k * Cols)
    BY <2>1
  <2>4. FullRows(l) \in Seq(Seq(T)) /\ Len(FullRows(l)) = q
    BY <2>2
  <2> QED
    BY <2>3, <2>4
<1>6. /\ q * Cols \in Nat /\ n = q * Cols + (n % Cols) /\ n % Cols \in Nat /\ n < (q + 1) * Cols
      /\ (q + 1) * Cols \in Nat
  BY <1>2, LastBounds
<1>7. LastRow(l) \in Seq(T) /\ Len(LastRow(l)) = n % Cols /\ LastRow(l) = SubSeq(l, q * Cols + 1, n)
  <2>1. PICK a \in Nat : a = q * Cols
    BY <1>6
  <2>2. \A i \in a + 1 .. n : l[i] \in T
    BY <1>3, <2>1
  <2>3. SubSeq(l, a + 1, n) \in Seq(T) /\ Len(SubSeq(l, a + 1, n)) = IF a + 1 <= n THEN n - (a + 1) + 1 ELSE 0
    BY <2>2, SubSeqProperties
  <2>4. n = a + (n % Cols) /\ n % Cols \in Nat
    BY <1>6, <2>1
  <2>5. Len(SubSeq(l, a + 1, n)) = n % Cols
    BY <2>3, <2>4
  <2>6. LastRow(l) = SubSeq(l, a + 1, n)
    BY <1>1, <1>2, <2>1 DEF LastRow
  <2> QED
    BY <2>1, <2>3, <2>5, <2>6
<1> DEFINE W == [k \in 1 .. q + 1 |-> IF k = q + 1 THEN LastRow(l) ELSE FullRows(l)[k]]
<1>8. PICK R : R = Append(FullRows(l), LastRow(l))
  OBVIOUS
<1>9. ASSUME NEW k \in 1 .. q + 1
      PROVE  SubSeq(l, (k - 1) * Cols + 1, IF k * Cols < n THEN k * Cols ELSE n)
               = IF k = q + 1 THEN LastRow(l) ELSE FullRows(l)[k]
  <2>1. CASE k = q + 1
    <3>1. (k - 1) * Cols = q * Cols /\ ~(k * Cols < n)
      BY <1>6, <2>1
    <3> QED
      BY <1>7, <2>1, <3>1
  <2>2. CASE k # q + 1
    <3>1. k \in 1 .. q
      BY <2>2
    <3>2. k * Cols \in Nat /\ k * Cols <= n
      BY <1>2, <3>1, RowBounds
    <3>3. (IF k * Cols < n THEN k * Cols ELSE n) = k * Cols
      BY <3>2
    <3> QED
      BY <1>5, <2>2, <3>1, <3>3
  <2> QED
    BY <2>1, <2>2
<1>10. RowsOf(l) = [k \in 1 .. q + 1 |-> SubSeq(l, (k - 1) * Cols + 1, IF k * Cols < n THEN k * Cols ELSE n)]
  BY <1>1, <1>2 DEF RowsOf
<1>11. RowsOf(l) = W
  BY <1>9, <1>10
<1>12. W \in Seq(Seq(T)) /\ Len(W) = q + 1
  <2>1. \A k \in 1 .. q + 1 : W[k] \in Seq(T)
    <3> TAKE k \in 1 .. q + 1
    <3>1. k # q + 1 => k \in 1 .. q
      OBVIOUS
    <3> QED
      BY <1>5, <1>7, <3>1, ElementOfSeq
  <2>2. W \in [1 .. q + 1 -> Seq(T)]
    BY <2>1
  <2> HIDE DEF W
  <2> QED
    BY <2>2
<1>13. /\ R \in Seq(Seq(T)) /\ Len(R) = q + 1 /\ \A k \in 1 .. q : R[k] = FullRows(l)[k]
       /\ R[q + 1] = LastRow(l)
  <2>1. PICK S : S = Seq(T)
    OBVIOUS
  <2>2. FullRows(l) \in Seq(S) /\ LastRow(l) \in S /\ Len(FullRows(l)) = q
    BY <1>5, <1>7, <2>1, Zenon
  <2>3. /\ R \in Seq(S) /\ Len(R) = q + 1 /\ \A k \in 1 .. q : R[k] = FullRows(l)[k]
        /\ R[q + 1] = LastRow(l)
    <3> HIDE DEF W
    <3> QED
      BY <1>8, <2>2, AppendProperties
  <2> QED
    BY <2>1, <2>3, Zenon
<1>14. \A k \in 1 .. q + 1 : W[k] = R[k]
  <2> TAKE k \in 1 .. q + 1
  <2>1. k # q + 1 => k \in 1 .. q
    OBVIOUS
  <2> QED
    BY <1>13, <2>1
<1>15. W = R
  <2> HIDE DEF W
  <2> QED
    BY <1>12, <1>13, <1>14, SeqEqual
<1> QED
  BY <1>1, <1>2, <1>5, <1>7, <1>8, <1>11, <1>15

\* A line of no character has one row, of none.
LEMMA RowsOfNothing ==
  ASSUME NEW T
  PROVE  FullRows(<<>>) = <<>> /\ LastRow(<<>>) = <<>>
<1>1. Cols \in Nat \ {0, 1}
  BY TerminalAssumption
<1>2. 0 \div Cols = 0
  <2>1. (Cols * 0 + 0) \div Cols = 0
    BY <1>1, DivUnique
  <2>2. Cols * 0 + 0 = 0
    BY <1>1
  <2> QED
    BY <2>1, <2>2
<1>3. Len(<<>>) = 0
  OBVIOUS
<1>4. FullRows(<<>>) = <<>>
  BY <1>2, <1>3 DEF FullRows
<1>5. LastRow(<<>>) = SubSeq(<<>>, 1, 0)
  <2>1. 0 * Cols + 1 = 1
    BY <1>1
  <2> QED
    BY <1>2, <1>3, <2>1 DEF LastRow
<1> QED
  BY <1>4, <1>5, SubSeqEmpty

\* The rows that stay full.
LEMMA FullRowsStay ==
  ASSUME NEW T, NEW l \in Seq(T), NEW c \in T, NEW k \in 1 .. Len(l) \div Cols
  PROVE  SubSeq(Append(l, c), (k - 1) * Cols + 1, k * Cols) = SubSeq(l, (k - 1) * Cols + 1, k * Cols)
<1>1. Len(l) \in Nat
  BY LenProperties
<1>2. (k - 1) * Cols + 1 \in Nat \ {0} /\ k * Cols \in Nat /\ k * Cols <= Len(l)
  BY <1>1, RowBounds
<1> QED
  BY <1>2, PartOfLonger, SMTT(60)

\* The last row, a character longer.
LEMMA LastRowLonger ==
  ASSUME NEW T, NEW l \in Seq(T), NEW c \in T, NEW q, q = Len(l) \div Cols
  PROVE  SubSeq(Append(l, c), q * Cols + 1, Len(l) + 1) = Append(LastRow(l), c)
<1>1. Len(l) \in Nat
  BY LenProperties
<1>2. q * Cols \in Nat /\ Len(l) = q * Cols + (Len(l) % Cols) /\ Len(l) % Cols \in Nat
  BY <1>1, LastBounds
<1>3. PICK m : m = q * Cols + 1
  OBVIOUS
<1>4. m \in Nat \ {0} /\ m <= Len(l) + 1
  BY <1>1, <1>2, <1>3
<1>5. SubSeq(Append(l, c), m, Len(l) + 1) = Append(SubSeq(l, m, Len(l)), c)
  BY <1>4, EndOfLonger
<1>6. LastRow(l) = SubSeq(l, m, Len(l))
  BY <1>3 DEF LastRow
<1> QED
  BY <1>3, <1>5, <1>6, Zenon

\* A character more: the last row is longer, or full and a new one begins.
LEMMA RowsLonger ==
  ASSUME NEW T, NEW l \in Seq(T), NEW c \in T
  PROVE  IF Len(l) % Cols = Cols - 1
         THEN /\ FullRows(Append(l, c)) = Append(FullRows(l), Append(LastRow(l), c))
              /\ LastRow(Append(l, c)) = <<>>
         ELSE /\ FullRows(Append(l, c)) = FullRows(l)
              /\ LastRow(Append(l, c)) = Append(LastRow(l), c)
<1>1. PICK n \in Nat : n = Len(l)
  BY LenProperties
<1>2. PICK q : q = n \div Cols
  OBVIOUS
<1>3. q \in Nat /\ q * Cols \in Nat /\ n = q * Cols + (n % Cols)
  BY <1>2, LastBounds
<1>4. PICK a : a = Append(l, c)
  OBVIOUS
<1>5. a \in Seq(T) /\ Len(a) = n + 1
  BY <1>1, <1>4, AppendProperties
<1>6. PICK A : A = FullRows(l)
  OBVIOUS
<1>7. A = [k \in 1 .. q |-> SubSeq(l, (k - 1) * Cols + 1, k * Cols)]
  BY <1>1, <1>2, <1>6 DEF FullRows
<1>8. \A k \in 1 .. q : SubSeq(a, (k - 1) * Cols + 1, k * Cols) = SubSeq(l, (k - 1) * Cols + 1, k * Cols)
  BY <1>1, <1>2, <1>4, FullRowsStay
<1>9. SubSeq(a, q * Cols + 1, n + 1) = Append(LastRow(l), c)
  BY <1>1, <1>2, <1>4, LastRowLonger
<1>10. CASE n % Cols # Cols - 1
  <2>1. (n + 1) \div Cols = q
    BY <1>2, <1>10, DivNext, TerminalAssumption
  <2>2. FullRows(a) = [k \in 1 .. q |-> SubSeq(a, (k - 1) * Cols + 1, k * Cols)]
    BY <1>5, <2>1 DEF FullRows
  <2>3. LastRow(a) = SubSeq(a, q * Cols + 1, n + 1)
    BY <1>5, <2>1 DEF LastRow
  <2>4. FullRows(a) = A
    BY <1>7, <1>8, <2>2
  <2> QED
    BY <1>1, <1>4, <1>6, <1>9, <1>10, <2>3, <2>4
<1>11. CASE n % Cols = Cols - 1
  <2>1. (n + 1) \div Cols = q + 1
    BY <1>2, <1>11, DivNext, TerminalAssumption
  <2>2. (q + 1) * Cols = n + 1
    <3>1. (q + 1) * Cols = q * Cols + Cols
      BY <1>3, TerminalAssumption
    <3> QED
      BY <1>3, <1>11, <3>1, TerminalAssumption
  <2>3. FullRows(a) = [k \in 1 .. q + 1 |-> SubSeq(a, (k - 1) * Cols + 1, k * Cols)]
    BY <1>5, <2>1 DEF FullRows
  <2>4. LastRow(a) = <<>>
    <3>1. LastRow(a) = SubSeq(a, (n + 1) + 1, n + 1)
      BY <1>5, <2>1, <2>2 DEF LastRow
    <3> QED
      BY <3>1, SubSeqEmpty
  <2>5. PICK u : u = Append(LastRow(l), c)
    OBVIOUS
  <2>6. SubSeq(a, ((q + 1) - 1) * Cols + 1, (q + 1) * Cols) = u
    <3>1. (q + 1) - 1 = q
      BY <1>3
    <3> QED
      BY <1>9, <2>2, <2>5, <3>1
  <2>7. FullRows(a) = Append(A, u)
    <3>1. FullRows(l) \in Seq(Seq(T)) /\ Len(FullRows(l)) = q /\ LastRow(l) \in Seq(T)
      BY <1>1, <1>2, RowsAre
    <3>2. u \in Seq(T)
      BY <2>5, <3>1, AppendProperties
    <3>3. FullRows(a) \in Seq(Seq(T)) /\ Len(FullRows(a)) = q + 1
      BY <1>5, <2>1, RowsAre
    <3>4. PICK S : S = Seq(T)
      OBVIOUS
    <3>5. A \in Seq(S) /\ Len(A) = q /\ u \in S
      BY <1>6, <3>1, <3>2, <3>4, Zenon
    <3>6. FullRows(a) \in Seq(S)
      BY <3>3, <3>4, Zenon
    <3>7. PICK B : B = Append(A, u)
      OBVIOUS
    <3>8. B \in Seq(S) /\ Len(B) = q + 1 /\ (\A k \in 1 .. q : B[k] = A[k]) /\ B[q + 1] = u
      BY <3>5, <3>7, AppendProperties
    <3>9. \A k \in 1 .. q + 1 : FullRows(a)[k] = B[k]
      <4> TAKE k \in 1 .. q + 1
      <4>1. CASE k = q + 1
        BY <2>3, <2>6, <3>8, <4>1
      <4>2. CASE k # q + 1
        <5>1. k \in 1 .. q
          BY <1>3, <4>2
        <5> QED
          BY <1>7, <1>8, <2>3, <3>8, <5>1
      <4> QED
        BY <4>1, <4>2
    <3> QED
      BY <3>3, <3>6, <3>7, <3>8, <3>9, SeqEqual
  <2> QED
    BY <1>1, <1>4, <1>6, <1>11, <2>4, <2>5, <2>7
<1> QED
  BY <1>10, <1>11

\* The rows of every line of a text, and all of them one below the other.
RowsByLine(t) == [i \in DOMAIN t |-> RowsOf(t[i])]
AllRows(t) == FlattenSeq(RowsByLine(t))

\* Every line takes a row.
LEMMA RowsType ==
  ASSUME NEW T, NEW l \in Seq(T)
  PROVE  RowsOf(l) \in Seq(Seq(T)) /\ RowsOf(l) # <<>>
<1>1. PICK S : S = Seq(T)
  OBVIOUS
<1>2. FullRows(l) \in Seq(S) /\ LastRow(l) \in S /\ RowsOf(l) = Append(FullRows(l), LastRow(l))
  BY <1>1, RowsAre
<1>3. RowsOf(l) \in Seq(S) /\ RowsOf(l) # <<>>
  BY <1>2, AppendProperties
<1> QED
  BY <1>1, <1>3, Zenon

\* The rows of each line.
LEMMA LaidIs ==
  ASSUME NEW T, NEW t \in Seq(Seq(T)), NEW S, S = Seq(Seq(T))
  PROVE  /\ RowsByLine(t) \in Seq(S) /\ Len(RowsByLine(t)) = Len(t) /\ Filled(RowsByLine(t), Len(t), Seq(T))
         /\ \A i \in 1 .. Len(t) : RowsByLine(t)[i] = RowsOf(t[i])
<1>1. PICK n \in Nat : n = Len(t)
  BY LenProperties
<1>2. DOMAIN t = 1 .. n /\ \A i \in 1 .. n : t[i] \in Seq(T)
  BY <1>1, ElementOfSeq, LenProperties
<1>3. \A i \in 1 .. n : RowsOf(t[i]) \in S /\ RowsOf(t[i]) # <<>>
  BY <1>2, RowsType
<1>4. RowsByLine(t) = [i \in 1 .. n |-> RowsOf(t[i])]
  BY <1>2 DEF RowsByLine
<1>5. \A i \in 1 .. n : RowsByLine(t)[i] = RowsOf(t[i])
  BY <1>4
<1>6. RowsByLine(t) \in [1 .. n -> S]
  BY <1>3, <1>4
<1>7. RowsByLine(t) \in Seq(S) /\ Len(RowsByLine(t)) = n
  BY <1>6
<1>8. Filled(RowsByLine(t), n, Seq(T))
  BY <1>3, <1>5 DEF Filled
<1> QED
  BY <1>1, <1>5, <1>7, <1>8

\* No line, no rows.
LEMMA AllOfNone == AllRows(<<>>) = <<>>
<1>1. RowsByLine(<<>>) = <<>>
  BY DEF RowsByLine
<1> QED
  BY <1>1 DEF AllRows, FlattenSeq

\* A text takes at least as many rows as it has lines.
LEMMA AllType ==
  ASSUME NEW T, NEW t \in Seq(Seq(T))
  PROVE  AllRows(t) \in Seq(Seq(T)) /\ Len(AllRows(t)) >= Len(t)
<1>1. CASE t = <<>>
  <2>1. AllRows(t) = t
    BY <1>1, AllOfNone
  <2> QED
    BY <2>1
<1>2. CASE t # <<>>
  <2>1. PICK S : S = Seq(Seq(T))
    OBVIOUS
  <2>2. PICK s : s = RowsByLine(t)
    OBVIOUS
  <2>3. s \in Seq(S) /\ Len(s) = Len(t) /\ Filled(s, Len(s), Seq(T))
    BY <2>1, <2>2, LaidIs
  <2>4. s # <<>>
    BY <1>2, <2>3, EmptySeq
  <2>5. PICK V : V = Seq(T)
    OBVIOUS
  <2>6. Filled(s, Len(s), V)
    BY <2>3, <2>5
  <2>7. FlattenSeq(s) \in Seq(V) /\ Len(FlattenSeq(s)) >= Len(s)
    BY <2>3, <2>4, <2>6, FlatType
  <2> QED
    BY <2>2, <2>3, <2>5, <2>7 DEF AllRows
<1> QED
  BY <1>1, <1>2

\* A line more.
LEMMA AllOfMore ==
  ASSUME NEW T, NEW t \in Seq(Seq(T)), NEW l \in Seq(T)
  PROVE  IsJoined(AllRows(Append(t, l)), AllRows(t), RowsOf(l))
<1>1. PICK V : V = Seq(T)
  OBVIOUS
<1>2. PICK S : S = Seq(Seq(T))
  OBVIOUS
<1>3. PICK a : a = Append(t, l)
  OBVIOUS
<1>4. t \in Seq(V) /\ l \in V
  BY <1>1
<1>5. /\ a \in Seq(V) /\ Len(a) = Len(t) + 1 /\ a[Len(t) + 1] = l /\ Len(t) \in Nat
      /\ \A i \in 1 .. Len(t) : a[i] = t[i]
  BY <1>3, <1>4, AppendProperties
<1>6. /\ RowsByLine(a) \in Seq(S) /\ Len(RowsByLine(a)) = Len(a)
      /\ \A i \in 1 .. Len(a) : RowsByLine(a)[i] = RowsOf(a[i])
  <2>1. a \in Seq(Seq(T))
    BY <1>1, <1>5
  <2> QED
    BY <1>2, <2>1, LaidIs
<1>7. /\ RowsByLine(t) \in Seq(S) /\ Len(RowsByLine(t)) = Len(t)
      /\ \A i \in 1 .. Len(t) : RowsByLine(t)[i] = RowsOf(t[i])
  BY <1>2, LaidIs
<1>8. RowsOf(l) \in S
  BY <1>2, RowsType
<1>9. RowsByLine(a) = Append(RowsByLine(t), RowsOf(l))
  <2>1. PICK b : b = Append(RowsByLine(t), RowsOf(l))
    OBVIOUS
  <2>2. /\ b \in Seq(S) /\ Len(b) = Len(t) + 1 /\ b[Len(t) + 1] = RowsOf(l)
        /\ \A i \in 1 .. Len(t) : b[i] = RowsByLine(t)[i]
    BY <1>7, <1>8, <2>1, AppendProperties
  <2>3. ASSUME NEW i \in 1 .. Len(t) + 1
        PROVE  RowsByLine(a)[i] = b[i]
    <3>1. i = Len(t) + 1 \/ i \in 1 .. Len(t)
      BY <1>5
    <3> QED
      BY <1>5, <1>6, <1>7, <2>2, <3>1
  <2> QED
    BY <1>5, <1>6, <2>1, <2>2, <2>3, SeqEqual
<1>10. CASE t # <<>>
  <2>1. RowsByLine(t) # <<>>
    <3>1. Len(t) # 0
      BY <1>4, <1>10, EmptySeq
    <3> QED
      BY <1>7, <3>1
  <2>2. FlattenSeq(Append(RowsByLine(t), RowsOf(l))) = FlattenSeq(RowsByLine(t)) \o RowsOf(l)
    BY <1>7, <1>8, <2>1, FlatAppend
  <2> QED
    BY <1>3, <1>9, <2>2, Zenon DEF AllRows, IsJoined
<1>11. CASE t = <<>>
  <2>1. RowsByLine(t) = <<>>
    BY <1>11 DEF RowsByLine
  <2>2. Append(RowsByLine(t), RowsOf(l)) = <<RowsOf(l)>>
    BY <2>1
  <2>3. AllRows(a) = RowsOf(l)
    BY <1>9, <2>2, FlatOne DEF AllRows
  <2>4. AllRows(t) = <<>>
    BY <1>11, AllOfNone
  <2>5. RowsOf(l) \in Seq(V)
    BY <1>1, RowsType
  <2>6. <<>> \o RowsOf(l) = RowsOf(l)
    BY <2>5, ConcatEmptySeq
  <2> QED
    BY <1>3, <2>3, <2>4, <2>6 DEF IsJoined
<1> QED
  BY <1>10, <1>11

\* The first line less.
LEMMA AllOfTail ==
  ASSUME NEW T, NEW t \in Seq(Seq(T)), Len(t) >= 2
  PROVE  IsJoined(AllRows(t), RowsOf(t[1]), AllRows(Tail(t)))
<1>1. PICK V : V = Seq(T)
  OBVIOUS
<1>2. PICK S : S = Seq(Seq(T))
  OBVIOUS
<1>3. PICK r : r = Tail(t)
  OBVIOUS
<1>4. t # <<>> /\ Len(t) \in Nat
  BY EmptySeq, LenProperties
<1>5. r \in Seq(V) /\ Len(r) = Len(t) - 1 /\ \A i \in 1 .. Len(r) : r[i] = t[i + 1]
  <2>1. t \in Seq(V)
    BY <1>1
  <2> QED
    BY <1>3, <1>4, <2>1, HeadTailProperties
<1>6. /\ RowsByLine(t) \in Seq(S) /\ Len(RowsByLine(t)) = Len(t) /\ Filled(RowsByLine(t), Len(t), V)
      /\ \A i \in 1 .. Len(t) : RowsByLine(t)[i] = RowsOf(t[i])
  BY <1>1, <1>2, LaidIs
<1>7. /\ RowsByLine(r) \in Seq(S) /\ Len(RowsByLine(r)) = Len(r)
      /\ \A i \in 1 .. Len(r) : RowsByLine(r)[i] = RowsOf(r[i])
  <2>1. r \in Seq(Seq(T))
    BY <1>1, <1>5
  <2> QED
    BY <1>2, <2>1, LaidIs
<1>8. RowsByLine(r) = Tail(RowsByLine(t))
  <2>1. PICK b : b = Tail(RowsByLine(t))
    OBVIOUS
  <2>2. RowsByLine(t) # <<>>
    BY <1>4, <1>6
  <2>3. b \in Seq(S) /\ Len(b) = Len(t) - 1 /\ \A i \in 1 .. Len(b) : b[i] = RowsByLine(t)[i + 1]
    BY <1>6, <2>1, <2>2, HeadTailProperties
  <2>4. ASSUME NEW i \in 1 .. Len(r)
        PROVE  RowsByLine(r)[i] = b[i]
    <3>1. i \in 1 .. Len(b) /\ i + 1 \in 1 .. Len(t)
      BY <1>4, <1>5, <2>3
    <3> QED
      BY <1>5, <1>6, <1>7, <2>3, <3>1
  <2> QED
    BY <1>5, <1>7, <2>1, <2>3, <2>4, SeqEqual
<1>9. FlattenSeq(RowsByLine(t)) = RowsByLine(t)[1] \o FlattenSeq(Tail(RowsByLine(t)))
  <2>1. PICK L : L = RowsByLine(t)
    OBVIOUS
  <2>2. L \in Seq(S) /\ Len(L) >= 2 /\ Filled(L, Len(L), V)
    BY <1>6, <2>1
  <2> QED
    BY <2>1, <2>2, FlatHead
<1>10. RowsByLine(t)[1] = RowsOf(t[1])
  <2>1. 1 \in 1 .. Len(t)
    BY <1>4
  <2> QED
    BY <1>6, <2>1
<1> QED
  BY <1>3, <1>8, <1>9, <1>10, Zenon DEF AllRows, IsJoined

\* All rows of a text, the last one apart.
LEMMA AllEnds ==
  ASSUME NEW T, NEW t \in Seq(Seq(T)), NEW l \in Seq(T), NEW F \in Seq(Seq(T)), NEW u \in Seq(T),
         RowsOf(l) = Append(F, u)
  PROVE  AllRows(Append(t, l)) = Append(AllRows(t) \o F, u) /\ AllRows(t) \o F \in Seq(Seq(T))
<1>1. PICK V : V = Seq(T)
  OBVIOUS
<1>2. PICK A : A = AllRows(t)
  OBVIOUS
<1>3. A \in Seq(V)
  BY <1>1, <1>2, AllType
<1>4. IsJoined(AllRows(Append(t, l)), A, Append(F, u))
  BY <1>2, AllOfMore
<1>5. IsJoined(Append(A \o F, u), A, Append(F, u)) /\ A \o F \in Seq(V)
  <2>1. F \in Seq(V) /\ u \in V
    BY <1>1
  <2> QED
    BY <1>3, <2>1, JoinAppend
<1> QED
  BY <1>1, <1>2, <1>4, <1>5, Zenon DEF IsJoined

-----------------------------------------------------------------------------
(* What a cell shows *)

\* What a row at the end does to the rows on the screen: it takes the place of
\* another,
LEMMA OtherLastRow ==
  ASSUME NEW T, NEW n \in Nat \ {0}, NEW P \in Seq(T), NEW u \in T, NEW v \in T,
         NEW L, Ends(L, n, P, u), NEW K, Ends(K, n, P, v)
  PROVE  /\ L \in Seq(T) /\ K \in Seq(T) /\ Len(K) = Len(L) /\ Len(L) \in 1 .. n
         /\ L[Len(L)] = u /\ K[Len(L)] = v
         /\ \A j \in 1 .. Len(L) - 1 : K[j] = L[j]
<1>1. /\ L \in Seq(T) /\ Len(L) = (IF Len(P) < n THEN Len(P) + 1 ELSE n)
      /\ Len(L) \in 1 .. n /\ L[Len(L)] = u
      /\ \A j \in 1 .. Len(L) - 1 : L[j] = P[Len(P) + 1 - Len(L) + j]
  BY LastOfAppend
<1>2. /\ K \in Seq(T) /\ Len(K) = (IF Len(P) < n THEN Len(P) + 1 ELSE n)
      /\ Len(K) \in 1 .. n /\ K[Len(K)] = v
      /\ \A j \in 1 .. Len(K) - 1 : K[j] = P[Len(P) + 1 - Len(K) + j]
  BY LastOfAppend
<1>3. Len(K) = Len(L)
  BY <1>1, <1>2
<1> QED
  BY <1>1, <1>2, <1>3

\* or comes below it, and the first one goes when there is no room.
LEMMA OneRowMore ==
  ASSUME NEW T, NEW n \in Nat \ {0}, NEW Q \in Seq(T), Q # <<>>, NEW v \in T,
         NEW L, L = LastOf(n, Q), NEW K, Ends(K, n, Q, v)
  PROVE  /\ L \in Seq(T) /\ K \in Seq(T) /\ Len(L) \in 1 .. n /\ K[Len(K)] = v
         /\ IF Len(L) < n THEN Len(K) = Len(L) + 1 /\ \A j \in 1 .. Len(L) : K[j] = L[j]
                          ELSE Len(K) = n /\ \A j \in 1 .. n - 1 : K[j] = L[j + 1]
<1>2. Len(Q) \in Nat \ {0}
  BY EmptySeq
<1>3. /\ L \in Seq(T) /\ Len(L) = (IF Len(Q) > n THEN n ELSE Len(Q))
      /\ \A j \in 1 .. Len(L) : L[j] = Q[Len(Q) - Len(L) + j]
  <2>2. /\ LastOf(n, Q) \in Seq(T) /\ Len(LastOf(n, Q)) = (IF Len(Q) > n THEN n ELSE Len(Q))
        /\ \A j \in 1 .. Len(LastOf(n, Q)) : LastOf(n, Q)[j] = Q[Len(Q) - Len(LastOf(n, Q)) + j]
    BY LastOfIs
  <2> QED
    BY <2>2, Zenon
<1>4. /\ K \in Seq(T) /\ Len(K) = (IF Len(Q) < n THEN Len(Q) + 1 ELSE n)
      /\ Len(K) \in 1 .. n /\ K[Len(K)] = v
      /\ \A j \in 1 .. Len(K) - 1 : K[j] = Q[Len(Q) + 1 - Len(K) + j]
  BY LastOfAppend
<1>5. Len(L) \in 1 .. n
  BY <1>2, <1>3
<1>6. CASE Len(Q) < n
  <2>1. Len(L) = Len(Q) /\ Len(K) = Len(L) + 1
    BY <1>2, <1>3, <1>4, <1>6
  <2>2. ASSUME NEW j \in 1 .. Len(L)
        PROVE  K[j] = L[j]
    <3>1. j \in 1 .. Len(K) - 1 /\ Len(Q) + 1 - Len(K) + j = j /\ Len(Q) - Len(L) + j = j
      BY <1>2, <2>1
    <3> QED
      BY <1>3, <1>4, <3>1
  <2> QED
    BY <1>2, <1>3, <1>4, <1>5, <1>6, <2>1, <2>2
<1>7. CASE ~(Len(Q) < n)
  <2>1. Len(L) = n /\ Len(K) = n
    BY <1>2, <1>3, <1>4, <1>7
  <2>2. ASSUME NEW j \in 1 .. n - 1
        PROVE  K[j] = L[j + 1]
    <3>1. PICK i : i = j + 1
      OBVIOUS
    <3>2. j \in 1 .. Len(K) - 1 /\ i \in 1 .. Len(L)
      BY <1>2, <2>1, <3>1
    <3>3. Len(Q) + 1 - Len(K) + j = Len(Q) - Len(L) + i
      BY <1>2, <2>1, <3>1
    <3>4. K[j] = Q[Len(Q) + 1 - Len(K) + j] /\ L[i] = Q[Len(Q) - Len(L) + i]
      BY <1>3, <1>4, <3>2
    <3> QED
      BY <3>1, <3>3, <3>4
  <2> QED
    BY <1>3, <1>4, <1>5, <2>1, <2>2
<1> QED
  BY <1>6, <1>7

-----------------------------------------------------------------------------
GlyphAt(L, k) == IF /\ k[2] + 1 <= Len(L) /\ k[1] + 1 <= Len(L[k[2] + 1])
                    /\ L[k[2] + 1][k[1] + 1] # " "
                 THEN {L[k[2] + 1][k[1] + 1]} ELSE {}
Shows(cs, L) == \A k \in Pos : cs[k] = GlyphAt(L, k)

\* The row and the character of a cell, counted from one.
LEMMA Position ==
  ASSUME NEW k \in Pos
  PROVE  /\ k[1] \in Nat /\ k[2] \in Nat /\ k[1] < Cols /\ k[2] < Rows /\ k = <<k[1], k[2]>>
         /\ Cols \in Nat /\ Rows \in Nat
         /\ \E i \in Nat, j \in Nat : i = k[1] + 1 /\ j = k[2] + 1 /\ i >= 1 /\ j >= 1 /\ j <= Rows
<1>1. Cols \in Nat /\ Rows \in Nat
  BY TerminalAssumption
<1>2. k[1] \in Nat /\ k[2] \in Nat /\ k[1] < Cols /\ k[2] < Rows /\ k = <<k[1], k[2]>>
  BY <1>1 DEF Pos
<1>3. k[1] + 1 \in Nat /\ k[2] + 1 \in Nat /\ k[1] + 1 >= 1 /\ k[2] + 1 >= 1 /\ k[2] + 1 <= Rows
  BY <1>1, <1>2
<1> QED
  BY <1>1, <1>2, <1>3

\* L's last row, its row n + 1, is v, and K's has c behind it.
Longer(L, K, n, v, c) == /\ Len(L) = n + 1 /\ Len(K) = n + 1 /\ \A j \in 1 .. n : K[j] = L[j]
                         /\ L[n + 1] = v /\ K[n + 1] = Append(v, c)
\* K has an empty row below L's, or in place of L's first.
Pushed(L, K) == /\ K[Len(K)] = <<>>
                /\ IF Len(L) < Rows THEN Len(K) = Len(L) + 1 /\ \A j \in 1 .. Len(L) : K[j] = L[j]
                                    ELSE Len(K) = Rows /\ \A j \in 1 .. Rows - 1 : K[j] = L[j + 1]

\* A character drawn behind the last row, or the last one taken off it: the
\* other cells stay.
LEMMA OtherCells ==
  ASSUME NEW T, NEW L \in Seq(Seq(T)), NEW K \in Seq(Seq(T)), NEW n \in Nat,
         NEW v \in Seq(T), NEW c \in T, Longer(L, K, n, v, c), NEW k \in Pos, k # <<Len(v), n>>
  PROVE  GlyphAt(K, k) = GlyphAt(L, k)
<1>1. PICK i \in Nat, j \in Nat : i = k[1] + 1 /\ j = k[2] + 1
  BY Position
<1>2. /\ GlyphAt(L, k) = IF j <= Len(L) /\ i <= Len(L[j]) /\ L[j][i] # " " THEN {L[j][i]} ELSE {}
      /\ GlyphAt(K, k) = IF j <= Len(K) /\ i <= Len(K[j]) /\ K[j][i] # " " THEN {K[j][i]} ELSE {}
  BY <1>1 DEF GlyphAt
<1>3. i >= 1 /\ j >= 1 /\ (i # Len(v) + 1 \/ j # n + 1)
  <2>1. k[1] \in Nat /\ k[2] \in Nat /\ k = <<k[1], k[2]>>
    BY Position
  <2> QED
    BY <1>1, <2>1
<1>4. CASE j <= n
  <2>1. K[j] = L[j] /\ j <= Len(L) /\ j <= Len(K)
    BY <1>3, <1>4 DEF Longer
  <2> QED
    BY <1>2, <2>1
<1>5. CASE j = n + 1
  <2>1. Len(Append(v, c)) = Len(v) + 1 /\ Len(v) \in Nat /\ \A m \in 1 .. Len(v) : Append(v, c)[m] = v[m]
    BY AppendProperties
  <2>2. PICK w : w = Append(v, c)
    OBVIOUS
  <2>3. L[j] = v /\ K[j] = w /\ j <= Len(L) /\ j <= Len(K)
    BY <1>5, <2>2 DEF Longer
  <2>4. i # Len(v) + 1 /\ Len(w) = Len(v) + 1 /\ \A m \in 1 .. Len(v) : w[m] = v[m]
    BY <1>3, <1>5, <2>1, <2>2
  <2>5. CASE i <= Len(v)
    <3>1. w[i] = v[i] /\ i <= Len(w)
      BY <1>3, <2>1, <2>4, <2>5
    <3> QED
      BY <1>2, <2>3, <2>5, <3>1
  <2>6. CASE ~(i <= Len(v))
    <3>1. ~(i <= Len(w))
      BY <2>1, <2>4, <2>6
    <3> QED
      BY <1>2, <2>3, <2>6, <3>1
  <2> QED
    BY <2>5, <2>6
<1>6. CASE j > n + 1
  <2>1. ~(j <= Len(L)) /\ ~(j <= Len(K))
    BY <1>6 DEF Longer
  <2> QED
    BY <1>2, <2>1
<1> QED
  BY <1>4, <1>5, <1>6

\* The cell of that character.
Lights(c) == IF c = " " THEN {} ELSE {c}
Dark == {}

\* and that cell is dark without the character and lit with it.
LEMMA ThatCell ==
  ASSUME NEW T, NEW L \in Seq(Seq(T)), NEW K \in Seq(Seq(T)), NEW n \in Nat,
         NEW v \in Seq(T), NEW c \in T, Longer(L, K, n, v, c), NEW k \in Pos, k[1] = Len(v), k[2] = n
  PROVE  GlyphAt(L, k) = Dark /\ GlyphAt(K, k) = Lights(c)
<1>1. PICK m \in Nat : m = Len(v)
  BY LenProperties
<1>2. PICK w : w = Append(v, c)
  OBVIOUS
<1>3. Len(w) = m + 1 /\ w[m + 1] = c
  BY <1>1, <1>2, AppendProperties
<1>4. k[1] = m /\ k[2] = n
  BY <1>1
<1>5. GlyphAt(L, k) = IF n + 1 <= Len(L) /\ m + 1 <= Len(v) /\ v[m + 1] # " " THEN {v[m + 1]} ELSE {}
  BY <1>4 DEF GlyphAt, Longer
<1>6. GlyphAt(K, k) = IF n + 1 <= Len(K) /\ m + 1 <= Len(w) /\ w[m + 1] # " " THEN {w[m + 1]} ELSE {}
  BY <1>2, <1>4 DEF GlyphAt, Longer
<1>7. ~(m + 1 <= Len(v)) /\ n + 1 <= Len(K) /\ m + 1 <= Len(w)
  BY <1>1, <1>3 DEF Longer
<1> QED
  BY <1>3, <1>5, <1>6, <1>7 DEF Lights, Dark

\* draw lights the cell behind the last row.
LEMMA DrawShows ==
  ASSUME NEW T, NEW L \in Seq(Seq(T)), NEW K \in Seq(Seq(T)),
         NEW v \in Seq(T), NEW c \in T, Longer(L, K, y, v, c), x = Len(v), x < Cols,
         y \in 0 .. Rows - 1, DOMAIN cell = Pos, Shows(cell, L)
  PROVE  Shows(Lit(cell, c), K) /\ DOMAIN Lit(cell, c) = Pos
<1>1. y \in Nat /\ x \in Nat /\ y < Rows /\ Inside(x, y) /\ <<x, y>> \in Pos
  <2>1. Rows \in Nat /\ Cols \in Nat /\ x \in Nat
    BY TerminalAssumption, LenProperties
  <2> QED
    BY <2>1 DEF Inside, Pos
<1>2. DOMAIN Lit(cell, c) = Pos
  BY DEF Lit
<1>3. ASSUME NEW k \in Pos
      PROVE  Lit(cell, c)[k] = GlyphAt(K, k)
  <2>1. CASE k = <<x, y>>
    <3>1. GlyphAt(L, k) = Dark /\ GlyphAt(K, k) = Lights(c)
      <4>1. k[1] = Len(v) /\ k[2] = y
        BY <2>1
      <4> QED
        BY <1>1, <4>1, ThatCell
    <3>2. cell[k] = {}
      BY <3>1 DEF Shows, Dark
    <3>3. Lit(cell, c)[k] = IF c = " " THEN {} ELSE {c}
      BY <1>1, <2>1, <3>2 DEF Lit
    <3> QED
      BY <3>1, <3>3 DEF Lights
  <2>2. CASE k # <<x, y>>
    <3>1. GlyphAt(K, k) = GlyphAt(L, k)
      BY <1>1, <2>2, OtherCells
    <3>2. Lit(cell, c)[k] = cell[k]
      BY <2>2 DEF Lit
    <3> QED
      BY <3>1, <3>2 DEF Shows
  <2> QED
    BY <2>1, <2>2
<1> QED
  BY <1>2, <1>3 DEF Shows

\* The line editor's backspace clears it.
LEMMA EraseShows ==
  ASSUME NEW T, NEW L \in Seq(Seq(T)), NEW K \in Seq(Seq(T)),
         NEW v \in Seq(T), NEW c \in T, Longer(L, K, y, v, c), Len(v) < Cols,
         y \in 0 .. Rows - 1, DOMAIN cell = Pos, Shows(cell, K)
  PROVE  Shows([cell EXCEPT ![<<Len(v), y>>] = {}], L)
<1>1. y \in Nat /\ <<Len(v), y>> \in Pos
  <2>1. Rows \in Nat /\ Cols \in Nat /\ Len(v) \in Nat
    BY TerminalAssumption, LenProperties
  <2> QED
    BY <2>1 DEF Pos
<1>2. ASSUME NEW k \in Pos
      PROVE  [cell EXCEPT ![<<Len(v), y>>] = {}][k] = GlyphAt(L, k)
  <2>1. CASE k = <<Len(v), y>>
    <3>1. GlyphAt(L, k) = Dark
      <4>1. k[1] = Len(v) /\ k[2] = y
        BY <2>1
      <4> QED
        BY <1>1, <4>1, ThatCell
    <3>2. [cell EXCEPT ![<<Len(v), y>>] = {}][k] = {}
      BY <1>1, <2>1
    <3> QED
      BY <3>1, <3>2 DEF Dark
  <2>2. CASE k # <<Len(v), y>>
    <3>1. GlyphAt(K, k) = GlyphAt(L, k)
      BY <1>1, <2>2, OtherCells
    <3>2. [cell EXCEPT ![<<Len(v), y>>] = {}][k] = cell[k]
      BY <2>2
    <3> QED
      BY <3>1, <3>2 DEF Shows
  <2> QED
    BY <2>1, <2>2
<1> QED
  BY <1>2 DEF Shows

\* A new line begins an empty row below, and the rows scroll at the bottom.
LEMMA NextRowShows ==
  ASSUME NEW T, NEW L \in Seq(Seq(T)), NEW K \in Seq(Seq(T)), Len(L) = y + 1, Pushed(L, K),
         y \in 0 .. Rows - 1, NEW cs, Shows(cs, L), NextRow(cs)
  PROVE  Shows(cell', K) /\ Len(K) = y' + 1 /\ x' = 0
<1>1. Rows \in Nat \ {0} /\ y \in Nat /\ y < Rows /\ Len(<<>>) = 0
  BY TerminalAssumption
<1>2. CASE y + 1 < Rows
  <2>1. y' = y + 1 /\ cell' = cs /\ x' = 0
    BY <1>2 DEF NextRow
  <2>2. Len(K) = y + 2 /\ (\A j \in 1 .. y + 1 : K[j] = L[j]) /\ K[y + 2] = <<>>
    BY <1>1, <1>2 DEF Pushed
  <2>3. ASSUME NEW k \in Pos
        PROVE  GlyphAt(K, k) = GlyphAt(L, k)
    <3>1. PICK i \in Nat, j \in Nat : i = k[1] + 1 /\ j = k[2] + 1 /\ i >= 1 /\ j >= 1 /\ j <= Rows
      BY Position
    <3>2. /\ GlyphAt(L, k) = IF j <= Len(L) /\ i <= Len(L[j]) /\ L[j][i] # " " THEN {L[j][i]} ELSE {}
          /\ GlyphAt(K, k) = IF j <= Len(K) /\ i <= Len(K[j]) /\ K[j][i] # " " THEN {K[j][i]} ELSE {}
      BY <3>1 DEF GlyphAt
    <3>3. CASE j <= y + 1
      <4>1. K[j] = L[j] /\ j <= Len(L) /\ j <= Len(K)
        BY <1>1, <2>2, <3>1, <3>3
      <4> QED
        BY <3>2, <4>1
    <3>4. CASE j = y + 2
      <4>1. ~(j <= Len(L)) /\ K[j] = <<>>
        BY <1>1, <2>2, <3>4
      <4>2. ~(i <= Len(K[j]))
        <5>1. Len(K[j]) = 0
          BY <1>1, <4>1, Zenon
        <5> QED
          BY <3>1, <5>1, SMTT(60)
      <4> QED
        BY <3>2, <4>1, <4>2
    <3>5. CASE j > y + 2
      <4>1. ~(j <= Len(L)) /\ ~(j <= Len(K))
        BY <1>1, <2>2, <3>5
      <4> QED
        BY <3>2, <4>1
    <3> QED
      BY <1>1, <3>3, <3>4, <3>5
  <2> QED
    BY <1>1, <2>1, <2>2, <2>3 DEF Shows
<1>3. CASE ~(y + 1 < Rows)
  <2>1. y' = y /\ cell' = Scrolled(cs) /\ x' = 0
    BY <1>3 DEF NextRow
  <2>2. Len(K) = Rows /\ (\A j \in 1 .. Rows - 1 : K[j] = L[j + 1]) /\ K[Rows] = <<>> /\ Len(L) = Rows
    BY <1>1, <1>3 DEF Pushed
  <2>3. ASSUME NEW k \in Pos
        PROVE  cell'[k] = GlyphAt(K, k)
    <3>1. PICK i \in Nat, j \in Nat : i = k[1] + 1 /\ j = k[2] + 1 /\ i >= 1 /\ j >= 1 /\ j <= Rows
      BY Position
    <3>2. GlyphAt(K, k) = IF j <= Len(K) /\ i <= Len(K[j]) /\ K[j][i] # " " THEN {K[j][i]} ELSE {}
      BY <3>1 DEF GlyphAt
    <3>3. cell'[k] = IF j < Rows THEN cs[<<k[1], j>>] ELSE {}
      BY <2>1, <3>1 DEF Scrolled
    <3>4. CASE j < Rows
      <4>1. <<k[1], j>> \in Pos
        <5>1. k[1] \in Nat /\ k[1] < Cols /\ Cols \in Nat
          BY Position
        <5> QED
          BY <1>1, <3>1, <3>4, <5>1 DEF Pos
      <4>2. cs[<<k[1], j>>] = GlyphAt(L, <<k[1], j>>)
        BY <4>1 DEF Shows
      <4>3. PICK m \in Nat : m = j + 1
        OBVIOUS
      <4>4. GlyphAt(L, <<k[1], j>>) = IF m <= Len(L) /\ i <= Len(L[m]) /\ L[m][i] # " " THEN {L[m][i]} ELSE {}
        BY <3>1, <4>3 DEF GlyphAt
      <4>5. K[j] = L[m] /\ m <= Len(L) /\ j <= Len(K)
        <5>1. j \in 1 .. Rows - 1 /\ m <= Rows /\ j <= Rows
          BY <1>1, <3>1, <3>4, <4>3
        <5>2. m <= Len(L) /\ j <= Len(K)
          BY <2>2, <5>1, Zenon
        <5>3. K[j] = L[j + 1]
          BY <2>2, <5>1, Zenon
        <5> QED
          BY <4>3, <5>2, <5>3, Zenon
      <4>6. cell'[k] = GlyphAt(L, <<k[1], j>>)
        BY <3>3, <3>4, <4>2, Zenon
      <4>7. PICK r : r = L[m]
        OBVIOUS
      <4>8. GlyphAt(L, <<k[1], j>>) = IF i <= Len(r) /\ r[i] # " " THEN {r[i]} ELSE {}
        BY <4>4, <4>5, <4>7
      <4>9. GlyphAt(K, k) = IF i <= Len(r) /\ r[i] # " " THEN {r[i]} ELSE {}
        BY <3>2, <4>5, <4>7
      <4> QED
        BY <4>6, <4>8, <4>9, Zenon
    <3>5. CASE j = Rows
      <4>1. ~(i <= Len(K[j]))
        BY <1>1, <2>2, <3>1, <3>5
      <4> QED
        BY <3>2, <3>3, <3>5, <4>1
    <3> QED
      BY <1>1, <3>1, <3>4, <3>5
  <2> QED
    BY <1>1, <1>3, <2>1, <2>2, <2>3 DEF Shows
<1> QED
  BY <1>2, <1>3

-----------------------------------------------------------------------------
(* The picture of the text *)

Ink == Glyphs \cup {"BS"}
TextInv == text \in Seq(Seq(Ink)) /\ text # <<>> /\ Len(text) <= Rows
Painted == Shows(cell, Layout) /\ Len(Layout) = y + 1
Picture == Painted /\ DOMAIN cell = Pos /\ y \in 0 .. Rows - 1

\* What the screen should show.
LEMMA LayoutIs == Layout = LastOf(Rows, AllRows(text))
BY DEF Layout, AllRows, RowsByLine

\* The text is its last line l behind the lines t; the rows P are above the row
\* u of the cursor.
Parts(t, l, P, u) == /\ t \in Seq(Seq(Ink)) /\ l \in Seq(Ink) /\ P \in Seq(Seq(Ink)) /\ u \in Seq(Ink)
                     /\ P = AllRows(t) \o FullRows(l) /\ u = LastRow(l) /\ Len(u) = Len(l) % Cols
                     /\ AllRows(Append(t, l)) = Append(P, u)

\* Every text has these parts.
LEMMA PartsOf ==
  ASSUME NEW t \in Seq(Seq(Ink)), NEW l \in Seq(Ink)
  PROVE  Parts(t, l, AllRows(t) \o FullRows(l), LastRow(l))
<1>1. /\ FullRows(l) \in Seq(Seq(Ink)) /\ LastRow(l) \in Seq(Ink) /\ Len(LastRow(l)) = Len(l) % Cols
      /\ RowsOf(l) = Append(FullRows(l), LastRow(l))
  BY RowsAre
<1>2. /\ AllRows(Append(t, l)) = Append(AllRows(t) \o FullRows(l), LastRow(l))
      /\ AllRows(t) \o FullRows(l) \in Seq(Seq(Ink))
  BY <1>1, AllEnds
<1> QED
  BY <1>1, <1>2 DEF Parts

\* The text as the lines above and the last one.
IsText(t, l) == text = Append(t, l) /\ Last(text) = l

\* There is always a last line.
LEMMA TextParts ==
  ASSUME TextInv
  PROVE  \E t \in Seq(Seq(Ink)), l \in Seq(Ink) : IsText(t, l) /\ Len(t) + 1 = Len(text) /\ Len(t) \in Nat
<1>1. PICK S : S = Seq(Ink)
  OBVIOUS
<1>2. text \in Seq(S) /\ text # <<>>
  BY <1>1 DEF TextInv
<1>3. PICK t \in Seq(S), l \in S : text = Append(t, l)
  BY <1>2, SequenceEmptyOrAppend
<1>4. /\ Len(t) \in Nat /\ Len(Append(t, l)) = Len(t) + 1
      /\ Append(t, l)[Len(t) + 1] = l
  BY <1>3, AppendProperties
<1>5. Last(text) = l
  BY <1>3, <1>4 DEF Last
<1> QED
  BY <1>1, <1>3, <1>4, <1>5 DEF IsText

\* The last element, replaced.
WithLast(s, v) == [s EXCEPT ![Len(s)] = v]

\* It is as if the new one had been appended.
LEMMA LastReplaced ==
  ASSUME NEW S, NEW t \in Seq(S), NEW l \in S, NEW v \in S
  PROVE  WithLast(Append(t, l), v) = Append(t, v)
<1>0. PICK a : a = Append(t, l)
  OBVIOUS
<1>1. Len(t) \in Nat
  BY LenProperties
<1>n. PICK n \in Nat : n = Len(t) + 1
  BY <1>1
<1>2. a \in Seq(S) /\ Len(a) = n /\ \A i \in 1 .. Len(t) : a[i] = t[i]
  BY <1>0, <1>n, AppendProperties
<1>3. /\ Append(t, v) \in Seq(S) /\ Len(Append(t, v)) = Len(t) + 1 /\ Append(t, v)[Len(t) + 1] = v
      /\ \A i \in 1 .. Len(t) : Append(t, v)[i] = t[i]
  BY AppendProperties
<1>4. PICK b : b = WithLast(a, v)
  OBVIOUS
<1>5. b \in Seq(S) /\ Len(b) = n /\ \A i \in 1 .. n : b[i] = IF i = n THEN v ELSE a[i]
  <2>1. a \in [1 .. n -> S]
    BY <1>2, LenProperties
  <2>2. b = [i \in 1 .. n |-> IF i = n THEN v ELSE a[i]]
    BY <1>2, <1>4, <2>1 DEF WithLast
  <2>3. b \in [1 .. n -> S]
    BY <2>1, <2>2
  <2>4. b \in Seq(S) /\ Len(b) = n
    BY <2>3
  <2> QED
    BY <2>2, <2>4
<1>6. \A i \in 1 .. n : b[i] = Append(t, v)[i]
  <2> TAKE i \in 1 .. n
  <2>1. i = n \/ i \in 1 .. Len(t)
    BY <1>1, <1>n
  <2>2. i = n => b[i] = v /\ Append(t, v)[i] = v
    BY <1>n, <1>3, <1>5
  <2>3. i \in 1 .. Len(t) => i # n
    BY <1>1, <1>n
  <2> QED
    BY <1>2, <1>3, <1>5, <2>1, <2>2, <2>3
<1>7. b = Append(t, v)
  BY <1>n, <1>3, <1>5, <1>6, SeqEqual
<1> QED
  BY <1>0, <1>4, <1>7, Zenon

\* The last line, replaced.
LEMMA LastLineIs ==
  ASSUME NEW t \in Seq(Seq(Ink)), NEW l \in Seq(Ink), IsText(t, l), NEW v \in Seq(Ink), TextInv
  PROVE  /\ LastLine(v) = Append(t, v)
         /\ text' = Append(t, v) => IsText(t, v)' /\ TextInv'
<1>1. PICK S : S = Seq(Ink)
  OBVIOUS
<1>2. t \in Seq(S) /\ l \in S /\ v \in S /\ text = Append(t, l)
  BY <1>1 DEF IsText
<1>3. /\ Len(t) \in Nat /\ Append(t, v) \in Seq(S) /\ Append(t, v) # <<>>
      /\ Len(Append(t, v)) = Len(t) + 1 /\ Append(t, v)[Len(t) + 1] = v
  BY <1>2, AppendProperties
<1>4. Len(text) = Len(t) + 1
  BY <1>2, AppendProperties
<1>5. PICK b : b = Append(t, v)
  OBVIOUS
<1>6. b \in Seq(S) /\ b # <<>> /\ Len(b) = Len(text) /\ b[Len(b)] = v
  BY <1>3, <1>4, <1>5
<1>7. LastLine(v) = b
  <2>1. WithLast(Append(t, l), v) = Append(t, v)
    BY <1>2, LastReplaced
  <2> QED
    BY <1>2, <1>5, <2>1, Zenon DEF LastLine, WithLast
<1>10. ASSUME text' = b
       PROVE  IsText(t, v)' /\ TextInv'
  <2>1. Last(text') = v
    BY <1>6, <1>10 DEF Last
  <2>2. text' \in Seq(Seq(Ink)) /\ text' # <<>> /\ Len(text') = Len(text)
    BY <1>1, <1>6, <1>10
  <2>3. Len(text) <= Rows
    BY DEF TextInv
  <2> QED
    BY <1>5, <1>10, <2>1, <2>2, <2>3 DEF IsText, TextInv
<1> QED
  BY <1>5, <1>7, <1>10

\* The cursor wraps at the last column.
LEMMA WrapsAt ==
  ASSUME x \in Nat, x < Cols
  PROVE  /\ Wraps <=> x = Cols - 1
         /\ ~Wraps => Right = x + 1
<1>1. Cols \in Nat /\ Columns32 \in Nat \ {0} /\ Columns32 > Cols + 1
  BY TerminalAssumption
<1>2. \A a \in Nat : a < Columns32 => a % Columns32 = a
  BY <1>1
<1>3. Right = x + 1
  <2>1. x + 1 \in Nat /\ x + 1 < Columns32
    BY <1>1
  <2> QED
    BY <1>2, <2>1 DEF Right
<1>4. (Right + 1) % Columns32 = x + 2
  <2>1. PICK a : a = x + 2
    OBVIOUS
  <2>2. a \in Nat /\ a < Columns32 /\ Right + 1 = a
    BY <1>1, <1>3, <2>1
  <2> QED
    BY <1>2, <2>1, <2>2
<1>5. Wraps <=> x + 2 > Cols
  BY <1>4 DEF Wraps
<1> QED
  BY <1>1, <1>3, <1>5

\* A row whose last row is replaced by a longer one.
LEMMA RowGrows ==
  ASSUME Picture, NEW P \in Seq(Seq(Ink)), NEW u \in Seq(Ink), NEW c \in Ink, Ends(Layout, Rows, P, u),
         x = Len(u), x < Cols
  PROVE  /\ Shows(Lit(cell, c), LastOf(Rows, Append(P, Append(u, c)))) /\ DOMAIN Lit(cell, c) = Pos
         /\ Len(LastOf(Rows, Append(P, Append(u, c)))) = y + 1
         /\ LastOf(Rows, Append(P, Append(u, c))) \in Seq(Seq(Ink))
<1>1. PICK S : S = Seq(Ink)
  OBVIOUS
<1>2. PICK K : K = LastOf(Rows, Append(P, Append(u, c)))
  OBVIOUS
<1>3. PICK L : L = Layout
  OBVIOUS
<1>4. PICK w : w = Append(u, c)
  OBVIOUS
<1>5. w \in S /\ u \in S /\ P \in Seq(S)
  BY <1>1, <1>4, AppendProperties
<1>6. /\ L \in Seq(S) /\ K \in Seq(S) /\ Len(K) = Len(L) /\ Len(L) \in 1 .. Rows
      /\ L[Len(L)] = u /\ K[Len(L)] = w /\ \A j \in 1 .. Len(L) - 1 : K[j] = L[j]
  <2>1. Ends(L, Rows, P, u) /\ Ends(K, Rows, P, w) /\ Rows \in Nat \ {0}
    BY <1>2, <1>3, <1>4, TerminalAssumption DEF Ends
  <2> QED
    BY <1>5, <2>1, OtherLastRow
<1>7. Longer(L, K, y, u, c)
  <2>1. Len(L) = y + 1 /\ Len(L) - 1 = y
    BY <1>3 DEF Picture, Painted
  <2> QED
    BY <1>4, <1>6, <2>1 DEF Longer
<1>8. Shows(Lit(cell, c), K) /\ DOMAIN Lit(cell, c) = Pos
  <2>1. L \in Seq(Seq(Ink)) /\ K \in Seq(Seq(Ink))
    BY <1>1, <1>6
  <2>2. Shows(cell, L) /\ DOMAIN cell = Pos /\ y \in 0 .. Rows - 1
    BY <1>3 DEF Picture, Painted
  <2> QED
    BY <1>7, <2>1, <2>2, DrawShows
<1> QED
  BY <1>1, <1>2, <1>3, <1>6, <1>8 DEF Picture, Painted

\* A row more below what cs shows.
LEMMA RowBegins ==
  ASSUME NEW Q \in Seq(Seq(Ink)), Q # <<>>, NEW cs, Shows(cs, LastOf(Rows, Q)),
         Len(LastOf(Rows, Q)) = y + 1, y \in 0 .. Rows - 1, NextRow(cs)
  PROVE  /\ Shows(cell', LastOf(Rows, Append(Q, <<>>))) /\ x' = 0
         /\ Len(LastOf(Rows, Append(Q, <<>>))) = y' + 1
<1>1. PICK S : S = Seq(Ink)
  OBVIOUS
<1>2. PICK K : K = LastOf(Rows, Append(Q, <<>>))
  OBVIOUS
<1>3. PICK L : L = LastOf(Rows, Q)
  OBVIOUS
<1>4. Q \in Seq(S) /\ <<>> \in S
  BY <1>1, EmptySeq
<1>5. /\ L \in Seq(S) /\ K \in Seq(S) /\ Len(L) \in 1 .. Rows /\ K[Len(K)] = <<>>
      /\ IF Len(L) < Rows THEN Len(K) = Len(L) + 1 /\ \A j \in 1 .. Len(L) : K[j] = L[j]
                          ELSE Len(K) = Rows /\ \A j \in 1 .. Rows - 1 : K[j] = L[j + 1]
  <2>1. PICK e : e = <<>>
    OBVIOUS
  <2>2. Ends(K, Rows, Q, e) /\ Rows \in Nat \ {0} /\ e \in S
    BY <1>2, <1>4, <2>1, TerminalAssumption DEF Ends
  <2>3. /\ L \in Seq(S) /\ K \in Seq(S) /\ Len(L) \in 1 .. Rows /\ K[Len(K)] = e
        /\ IF Len(L) < Rows THEN Len(K) = Len(L) + 1 /\ \A j \in 1 .. Len(L) : K[j] = L[j]
                            ELSE Len(K) = Rows /\ \A j \in 1 .. Rows - 1 : K[j] = L[j + 1]
    BY <1>3, <1>4, <2>2, OneRowMore
  <2> QED
    BY <2>1, <2>3
<1>6. Pushed(L, K)
  BY <1>5 DEF Pushed
<1>7. L \in Seq(Seq(Ink)) /\ K \in Seq(Seq(Ink)) /\ Len(L) = y + 1 /\ Shows(cs, L)
  BY <1>1, <1>3, <1>5
<1>8. Shows(cell', K) /\ Len(K) = y' + 1 /\ x' = 0
  BY <1>6, <1>7, NextRowShows
<1> QED
  BY <1>2, <1>8

\* A character is drawn behind the last line.
LEMMA AfterGlyph ==
  ASSUME TextInv, Picture, x = Len(Last(text)) % Cols, NEW c \in Ink, draw(c),
         text' = LastLine(Append(Last(text), c))
  PROVE  /\ TextInv' /\ Painted' /\ x' = Len(Last(text)') % Cols
         /\ x \in 0 .. Cols - 1 /\ x' = IF x = Cols - 1 THEN 0 ELSE x + 1
<1>1. PICK t \in Seq(Seq(Ink)), l \in Seq(Ink) : IsText(t, l)
  BY TextParts
<1>2. PICK v : v = Append(l, c)
  OBVIOUS
<1>3. v \in Seq(Ink) /\ Len(v) = Len(l) + 1 /\ Len(l) \in Nat
  BY <1>2, AppendProperties
<1>4. text' = Append(t, v) /\ IsText(t, v)' /\ TextInv'
  <2>1. LastLine(v) = Append(t, v) /\ (text' = Append(t, v) => IsText(t, v)' /\ TextInv')
    BY <1>1, <1>3, LastLineIs
  <2>2. text' = LastLine(v)
    BY <1>1, <1>2 DEF IsText
  <2> QED
    BY <2>1, <2>2
<1>5. PICK P \in Seq(Seq(Ink)), u \in Seq(Ink) : P = AllRows(t) \o FullRows(l) /\ u = LastRow(l) /\ Parts(t, l, P, u)
  <2>1. Parts(t, l, AllRows(t) \o FullRows(l), LastRow(l))
    BY PartsOf
  <2> QED
    BY <2>1 DEF Parts
<1>6. Ends(Layout, Rows, P, u) /\ Len(u) = Len(l) % Cols
  BY <1>1, <1>5, LayoutIs DEF Ends, Parts, IsText
<1>7. x = Len(u) /\ Last(text) = l /\ Last(text)' = v
  BY <1>1, <1>4, <1>6 DEF IsText
<1>8. Cols \in Nat \ {0} /\ x \in Nat /\ x \in 0 .. Cols - 1 /\ x < Cols
  <2>1. Cols \in Nat \ {0}
    BY TerminalAssumption
  <2>2. Len(l) % Cols \in 0 .. Cols - 1
    BY <1>3, <2>1, DivMod
  <2> QED
    BY <1>6, <1>7, <2>1, <2>2
<1>9. /\ Wraps <=> x = Cols - 1
      /\ ~Wraps => Right = x + 1
  BY <1>8, WrapsAt
<1>10. PICK w : w = Append(u, c)
  OBVIOUS
<1>11. w \in Seq(Ink)
  BY <1>10, AppendProperties
<1>12. PICK Q : Q = Append(P, w)
  OBVIOUS
<1>13. Q \in Seq(Seq(Ink)) /\ Q # <<>>
  <2>1. PICK S : S = Seq(Ink)
    OBVIOUS
  <2>2. P \in Seq(S) /\ w \in S
    BY <1>11, <2>1
  <2>3. Q \in Seq(S) /\ Q # <<>>
    BY <1>12, <2>2, AppendProperties
  <2> QED
    BY <2>1, <2>3
<1>14. PICK cs : cs = Lit(cell, c)
  OBVIOUS
<1>15. Shows(cs, LastOf(Rows, Q)) /\ Len(LastOf(Rows, Q)) = y + 1
  BY <1>6, <1>7, <1>8, <1>10, <1>12, <1>14, RowGrows
<1>16. /\ FullRows(v) = IF x = Cols - 1 THEN Append(FullRows(l), w) ELSE FullRows(l)
       /\ LastRow(v) = IF x = Cols - 1 THEN <<>> ELSE w
  <2>1. Len(l) % Cols = x
    BY <1>6, <1>7
  <2> QED
    BY <1>2, <1>5, <1>10, <2>1, RowsLonger
<1>17. AllRows(text') = Append(AllRows(t) \o FullRows(v), LastRow(v))
  <2>1. Parts(t, v, AllRows(t) \o FullRows(v), LastRow(v))
    BY <1>3, PartsOf
  <2> QED
    BY <1>4, <2>1 DEF Parts
<1>18. Layout' = LastOf(Rows, AllRows(text'))
  BY LayoutIs DEF Layout, AllRows, RowsByLine
<1>19. Len(v) % Cols = IF x = Cols - 1 THEN 0 ELSE x + 1
  <2>1. Len(l) % Cols = x
    BY <1>6, <1>7
  <2>2. IF Len(l) % Cols = Cols - 1 THEN (Len(l) + 1) % Cols = 0 ELSE (Len(l) + 1) % Cols = (Len(l) % Cols) + 1
    BY <1>3, <1>8, DivNext
  <2> QED
    BY <1>3, <2>1, <2>2
<1>20. CASE x # Cols - 1
  <2>1. cell' = cs /\ x' = x + 1 /\ y' = y
    BY <1>9, <1>14, <1>20 DEF draw
  <2>2. AllRows(text') = Q
    BY <1>5, <1>12, <1>16, <1>17, <1>20
  <2>3. Painted'
    BY <1>15, <1>18, <2>1, <2>2 DEF Painted, Shows
  <2> QED
    BY <1>4, <1>7, <1>8, <1>19, <1>20, <2>1, <2>3
<1>21. CASE x = Cols - 1
  <2>1. NextRow(cs)
    BY <1>9, <1>14, <1>21 DEF draw
  <2>2. AllRows(text') = Append(Q, <<>>)
    <3>1. AllRows(t) \o Append(FullRows(l), w) = Append(P, w)
      <4>1. PICK S : S = Seq(Ink)
        OBVIOUS
      <4>2. AllRows(t) \in Seq(S) /\ FullRows(l) \in Seq(S) /\ w \in S
        BY <1>11, <4>1, AllType, RowsAre
      <4>3. IsJoined(Append(AllRows(t) \o FullRows(l), w), AllRows(t), Append(FullRows(l), w))
        BY <4>2, JoinAppend
      <4> QED
        BY <1>5, <4>3, Zenon DEF IsJoined
    <3> QED
      BY <1>12, <1>16, <1>17, <1>21, <3>1
  <2>3. y \in 0 .. Rows - 1
    BY DEF Picture
  <2>4. /\ Shows(cell', LastOf(Rows, Append(Q, <<>>))) /\ x' = 0
        /\ Len(LastOf(Rows, Append(Q, <<>>))) = y' + 1
    BY <1>13, <1>15, <2>1, <2>3, RowBegins
  <2>5. Painted'
    BY <1>18, <2>2, <2>4 DEF Painted, Shows
  <2> QED
    BY <1>4, <1>7, <1>8, <1>19, <1>21, <2>4, <2>5
<1> QED
  BY <1>20, <1>21

\* A line of nothing has one row, of nothing.
LEMMA AllOfEmptyLine ==
  ASSUME NEW t \in Seq(Seq(Ink))
  PROVE  AllRows(Append(t, <<>>)) = Append(AllRows(t), <<>>)
<1>1. <<>> \in Seq(Ink)
  OBVIOUS
<1>2. FullRows(<<>>) = <<>> /\ LastRow(<<>>) = <<>>
  BY RowsOfNothing
<1>3. Parts(t, <<>>, AllRows(t) \o FullRows(<<>>), LastRow(<<>>))
  BY <1>1, PartsOf
<1>4. AllRows(t) \o <<>> = AllRows(t)
  BY AllType, ConcatEmptySeq
<1> QED
  BY <1>2, <1>3, <1>4, Zenon DEF Parts

\* A new line: an empty row below, and the first line of a full screen gone.
LEMMA AfterNewline ==
  ASSUME TextInv, Picture, NextRow(cell), text' = LastOf(Rows, Append(text, <<>>))
  PROVE  TextInv' /\ Painted' /\ Last(text)' = <<>> /\ x' = 0
<1>1. PICK S : S = Seq(Ink)
  OBVIOUS
<1>2. Rows \in Nat \ {0} /\ text \in Seq(S) /\ <<>> \in S /\ text # <<>> /\ Len(text) <= Rows
      /\ Len(text) \in Nat \ {0}
  <2>1. text \in Seq(S) /\ text # <<>>
    BY <1>1 DEF TextInv
  <2>2. Len(text) \in Nat \ {0}
    BY <2>1, EmptySeq
  <2> QED
    BY <1>1, <2>1, <2>2, TerminalAssumption DEF TextInv
<1>3. PICK b : b = Append(text, <<>>)
  OBVIOUS
<1>4. b \in Seq(S) /\ Len(b) = Len(text) + 1 /\ b[Len(text) + 1] = <<>> /\ b # <<>>
  BY <1>2, <1>3, AppendProperties
<1>5. PICK Q : Q = AllRows(text)
  OBVIOUS
<1>6. Q \in Seq(Seq(Ink)) /\ Len(Q) >= Len(text) /\ Q # <<>>
  <2>1. text \in Seq(Seq(Ink))
    BY <1>1, <1>2
  <2>2. Q \in Seq(Seq(Ink)) /\ Len(Q) >= Len(text)
    BY <1>5, <2>1, AllType
  <2>3. Q # <<>>
    <3>1. Len(<<>>) = 0
      OBVIOUS
    <3>2. Len(Q) # 0
      BY <1>2, <2>2
    <3> QED
      BY <3>1, <3>2, Zenon
  <2> QED
    BY <2>2, <2>3
<1>7. AllRows(b) = Append(Q, <<>>)
  BY <1>1, <1>2, <1>3, <1>5, AllOfEmptyLine
<1>8. Layout' = LastOf(Rows, AllRows(text'))
  BY LayoutIs DEF Layout, AllRows, RowsByLine
<1>9. Shows(cell, LastOf(Rows, Q)) /\ Len(LastOf(Rows, Q)) = y + 1 /\ y \in 0 .. Rows - 1
  BY <1>5, LayoutIs DEF Picture, Painted
<1>10. /\ Shows(cell', LastOf(Rows, Append(Q, <<>>))) /\ x' = 0
       /\ Len(LastOf(Rows, Append(Q, <<>>))) = y' + 1
  BY <1>6, <1>9, RowBegins
<1>11. SUFFICES ASSUME TRUE
                PROVE  /\ TextInv' /\ Last(text)' = <<>>
                       /\ LastOf(Rows, AllRows(text')) = LastOf(Rows, Append(Q, <<>>))
  BY <1>8, <1>10 DEF Painted, Shows
<1>12. CASE Len(text) < Rows
  <2>1. text' = b
    BY <1>2, <1>3, <1>4, <1>12 DEF LastOf
  <2>2. Last(text') = <<>>
    BY <1>4, <2>1 DEF Last
  <2>3. text' \in Seq(Seq(Ink)) /\ text' # <<>> /\ Len(text') <= Rows
    BY <1>1, <1>2, <1>4, <1>12, <2>1
  <2> QED
    BY <1>7, <2>1, <2>2, <2>3 DEF TextInv
<1>13. CASE Len(text) = Rows
  <2>1. text' = SubSeq(b, 2, Len(b))
    <3>1. Len(b) > Rows /\ Len(b) - Rows + 1 = 2
      BY <1>2, <1>4, <1>13
    <3> QED
      BY <1>3, <3>1 DEF LastOf
  <2>2. text' = Tail(b)
    BY <1>4, <2>1, TailIsSubSeq
  <2>3. PICK r : r = Tail(b)
    OBVIOUS
  <2>4. r \in Seq(S) /\ Len(r) = Len(b) - 1 /\ \A i \in 1 .. Len(r) : r[i] = b[i + 1]
    BY <1>4, <2>3, HeadTailProperties
  <2>5. Len(r) = Rows /\ Len(b) >= 2
    BY <1>2, <1>4, <1>13, <2>4
  <2>6. r[Len(r)] = <<>>
    <3>1. Len(r) \in 1 .. Len(r) /\ Len(r) + 1 = Len(text) + 1
      BY <1>2, <1>13, <2>5
    <3>2. r[Len(r)] = b[Len(r) + 1]
      BY <2>4, <3>1
    <3> QED
      BY <1>4, <3>1, <3>2
  <2>7. TextInv' /\ Last(text') = <<>>
    <3>1. text' \in Seq(Seq(Ink)) /\ text' # <<>> /\ Len(text') <= Rows
      <4>1. Len(r) # 0 /\ Len(<<>>) = 0 /\ Len(r) <= Rows
        BY <1>2, <2>5
      <4>2. r # <<>>
        BY <4>1, Zenon
      <4>3. r \in Seq(Seq(Ink))
        BY <1>1, <2>4, Zenon
      <4> QED
        BY <2>2, <2>3, <4>1, <4>2, <4>3, Zenon
    <3> QED
      BY <2>2, <2>3, <2>6, <3>1 DEF TextInv, Last
  <2>8. PICK W : W = AllRows(r)
    OBVIOUS
  <2>9. PICK B : B = RowsOf(b[1])
    OBVIOUS
  <2>10. b \in Seq(Seq(Ink)) /\ r \in Seq(Seq(Ink)) /\ b[1] \in Seq(Ink)
    <3>1. b \in Seq(Seq(Ink)) /\ r \in Seq(Seq(Ink))
      BY <1>1, <1>4, <2>4
    <3>2. 1 \in 1 .. Len(b) /\ b \in Seq(S)
      BY <1>2, <1>4
    <3>3. b[1] \in S
      BY <3>2, ElementOfSeq
    <3> QED
      BY <1>1, <3>1, <3>3
  <2>11. IsJoined(AllRows(b), B, W)
    BY <2>3, <2>5, <2>8, <2>9, <2>10, AllOfTail
  <2>12. W \in Seq(S) /\ Len(W) >= Rows /\ B \in Seq(S)
    BY <1>1, <2>5, <2>8, <2>9, <2>10, AllType, RowsType
  <2>13. LastOf(Rows, AllRows(b)) = LastOf(Rows, W)
    BY <1>2, <2>11, <2>12, LastOfJoin
  <2> QED
    BY <1>7, <2>2, <2>3, <2>7, <2>8, <2>13
<1> QED
  BY <1>2, <1>12, <1>13

\* The screen is cleared.
LEMMA Cleared ==
  ASSUME text' = << <<>> >>, fb_clear
  PROVE  TextInv' /\ Painted' /\ Last(text)' = <<>> /\ x' = 0
<1>1. Rows \in Nat \ {0}
  BY TerminalAssumption
<1>2. TextInv' /\ Last(text)' = <<>>
  BY <1>1 DEF TextInv, Last
<1>3. AllRows(text') = << <<>> >>
  <2>1. text' = Append(<<>>, <<>>)
    OBVIOUS
  <2>2. AllRows(Append(<<>>, <<>>)) = Append(AllRows(<<>>), <<>>)
    <3>1. <<>> \in Seq(Seq(Ink))
      OBVIOUS
    <3> QED
      BY <3>1, AllOfEmptyLine
  <2> QED
    BY <2>1, <2>2, AllOfNone
<1>4. Layout' = LastOf(Rows, AllRows(text'))
  BY LayoutIs DEF Layout, AllRows, RowsByLine
<1>5. Layout' = << <<>> >>
  <2>1. Len(<< <<>> >>) = 1
    OBVIOUS
  <2> QED
    BY <1>1, <1>3, <1>4, <2>1 DEF LastOf
<1>6. PICK L : L = << <<>> >>
  OBVIOUS
<1>7. ASSUME NEW k \in Pos
      PROVE  cell'[k] = GlyphAt(L, k)
  <2>1. PICK i \in Nat, j \in Nat : i = k[1] + 1 /\ j = k[2] + 1 /\ i >= 1 /\ j >= 1 /\ j <= Rows
    BY Position
  <2>2. GlyphAt(L, k) = IF j <= Len(L) /\ i <= Len(L[j]) /\ L[j][i] # " " THEN {L[j][i]} ELSE {}
    BY <2>1 DEF GlyphAt
  <2>3. Len(L) = 1 /\ L[1] = <<>> /\ Len(<<>>) = 0
    BY <1>6
  <2>4. ~(j <= Len(L) /\ i <= Len(L[j]))
    BY <2>1, <2>3
  <2>5. cell'[k] = {}
    BY DEF fb_clear
  <2> QED
    BY <2>2, <2>4, <2>5
<1>8. Painted'
  <2>1. y' = 0 /\ Len(L) = 1
    BY <1>6 DEF fb_clear
  <2> QED
    BY <1>5, <1>6, <1>7, <2>1 DEF Painted, Shows
<1> QED
  BY <1>2, <1>8 DEF fb_clear

\* Front and Append.
LEMMA FrontOfAppend ==
  ASSUME NEW S, NEW s \in Seq(S), NEW e \in S
  PROVE  Front(Append(s, e)) = s
<1>1. Len(s) \in Nat /\ Len(Append(s, e)) = Len(s) + 1
  BY LenProperties, AppendProperties
<1>2. Front(Append(s, e)) = SubSeq(Append(s, e), 1, Len(s))
  <2>1. (Len(s) + 1) - 1 = Len(s)
    BY <1>1
  <2> QED
    BY <1>1, <2>1 DEF Front
<1>3. SubSeq(Append(s, e), 1, Len(s)) = SubSeq(s, 1, Len(s))
  BY <1>1, PartOfLonger
<1>4. SubSeq(s, 1, Len(s)) = s
  BY SubSeqFull
<1> QED
  BY <1>2, <1>3, <1>4, Zenon

\* The cursor a column to the left.
LEMMA LeftIs ==
  ASSUME x \in 1 .. Cols - 1, y \in 0 .. Rows - 1
  PROVE  Left = x - 1 /\ Inside(Left, y)
<1>1. Cols \in Nat /\ Columns32 \in Nat \ {0} /\ Columns32 > Cols + 1 /\ Rows \in Nat
  BY TerminalAssumption
<1>2. \A a \in Nat : a < Columns32 => a % Columns32 = a
  BY <1>1
<1>3. x - 1 \in Nat /\ x - 1 < Columns32 /\ x - 1 < Cols /\ y < Rows
  BY <1>1
<1> QED
  BY <1>2, <1>3 DEF Left, Inside

\* The last character of the last line is erased.
LEMMA AfterErase ==
  ASSUME TextInv, Picture, x = Len(Last(text)) % Cols, x \in 1 .. Cols - 1, line_erase
  PROVE  TextInv' /\ Painted' /\ x' = Len(Last(text)') % Cols /\ x' = x - 1
<1>1. PICK t \in Seq(Seq(Ink)), l \in Seq(Ink) : IsText(t, l)
  BY TextParts
<1>2. Cols \in Nat \ {0} /\ y \in 0 .. Rows - 1 /\ x = Len(l) % Cols /\ Last(text) = l
  BY <1>1, TerminalAssumption DEF Picture, IsText
<1>3. l # <<>>
  <2>1. Len(<<>>) = 0
    OBVIOUS
  <2>2. 0 % Cols = 0
    BY <1>2
  <2>3. Len(l) # 0
    BY <1>2, <2>2
  <2> QED
    BY <2>1, <2>3, Zenon
<1>4. PICK f \in Seq(Ink), c \in Ink : l = Append(f, c)
  BY <1>3, SequenceEmptyOrAppend
<1>5. Front(l) = f /\ Len(f) \in Nat /\ Len(l) = Len(f) + 1
  BY <1>4, FrontOfAppend, AppendProperties
<1>6. Len(f) % Cols = x - 1 /\ Len(f) % Cols # Cols - 1
  <2>1. IF Len(f) % Cols = Cols - 1 THEN (Len(f) + 1) % Cols = 0 ELSE (Len(f) + 1) % Cols = (Len(f) % Cols) + 1
    BY <1>2, <1>5, DivNext
  <2>2. Len(f) % Cols \in 0 .. Cols - 1
    BY <1>2, <1>5, DivMod
  <2>3. x = (Len(f) + 1) % Cols
    BY <1>2, <1>5, Zenon
  <2>4. PICK r : r = Len(f) % Cols
    OBVIOUS
  <2>5. PICK q : q = (Len(f) + 1) % Cols
    OBVIOUS
  <2>6. /\ IF r = Cols - 1 THEN q = 0 ELSE q = r + 1
        /\ r \in 0 .. Cols - 1 /\ x = q
    BY <2>1, <2>2, <2>3, <2>4, <2>5, Zenon
  <2>7. r = x - 1 /\ r # Cols - 1
    BY <1>2, <2>6
  <2> QED
    BY <2>4, <2>7, Zenon
<1>7. text' = Append(t, f) /\ IsText(t, f)' /\ TextInv'
  <2>1. LastLine(f) = Append(t, f) /\ (text' = Append(t, f) => IsText(t, f)' /\ TextInv')
    BY <1>1, LastLineIs
  <2>2. text' = LastLine(f)
    BY <1>2, <1>5 DEF line_erase
  <2> QED
    BY <2>1, <2>2
<1>8. PICK P \in Seq(Seq(Ink)), v \in Seq(Ink) : P = AllRows(t) \o FullRows(f) /\ v = LastRow(f) /\ Parts(t, f, P, v)
  <2>1. Parts(t, f, AllRows(t) \o FullRows(f), LastRow(f))
    BY PartsOf
  <2> QED
    BY <2>1 DEF Parts
<1>9. PICK w : w = Append(v, c)
  OBVIOUS
<1>10. FullRows(l) = FullRows(f) /\ LastRow(l) = w
  BY <1>4, <1>6, <1>8, <1>9, RowsLonger
<1>11. AllRows(text) = Append(P, w)
  <2>1. Parts(t, l, AllRows(t) \o FullRows(l), LastRow(l))
    BY PartsOf
  <2> QED
    BY <1>1, <1>8, <1>10, <2>1 DEF Parts, IsText
<1>12. AllRows(text') = Append(P, v) /\ Len(v) = x - 1
  BY <1>6, <1>7, <1>8 DEF Parts
<1>13. PICK S : S = Seq(Ink)
  OBVIOUS
<1>14. P \in Seq(S) /\ v \in S /\ w \in S
  BY <1>9, <1>13, AppendProperties
<1>15. PICK L : L = LastOf(Rows, Append(P, v))
  OBVIOUS
<1>16. PICK K : K = Layout
  OBVIOUS
<1>17. Ends(L, Rows, P, v) /\ Ends(K, Rows, P, w) /\ Rows \in Nat \ {0}
  BY <1>11, <1>15, <1>16, LayoutIs, TerminalAssumption DEF Ends
<1>18. /\ L \in Seq(S) /\ K \in Seq(S) /\ Len(K) = Len(L) /\ Len(L) \in 1 .. Rows
       /\ L[Len(L)] = v /\ K[Len(L)] = w /\ \A j \in 1 .. Len(L) - 1 : K[j] = L[j]
  BY <1>14, <1>17, OtherLastRow
<1>19. Shows(cell, K) /\ Len(K) = y + 1 /\ DOMAIN cell = Pos
  BY <1>16 DEF Picture, Painted
<1>20. Longer(L, K, y, v, c)
  <2>1. Len(L) = y + 1 /\ Len(L) - 1 = y
    BY <1>2, <1>18, <1>19
  <2> QED
    BY <1>9, <1>18, <2>1 DEF Longer
<1>21. Shows([cell EXCEPT ![<<Len(v), y>>] = {}], L)
  <2>1. L \in Seq(Seq(Ink)) /\ K \in Seq(Seq(Ink))
    BY <1>13, <1>18
  <2>2. Len(v) < Cols
    BY <1>2, <1>12
  <2> QED
    BY <1>2, <1>19, <1>20, <2>1, <2>2, EraseShows
<1>22. cell' = [cell EXCEPT ![<<Len(v), y>>] = {}] /\ x' = x - 1 /\ y' = y
  BY <1>2, <1>12, LeftIs DEF line_erase
<1>23. Layout' = L
  BY <1>12, <1>15, LayoutIs DEF Layout, AllRows, RowsByLine
<1>24. Painted'
  <2>1. Len(L) = y + 1
    BY <1>18, <1>19
  <2> QED
    BY <1>21, <1>22, <1>23, <2>1 DEF Painted, Shows
<1>25. Last(text)' = f
  BY <1>7 DEF IsText
<1> QED
  BY <1>6, <1>7, <1>22, <1>24, <1>25

-----------------------------------------------------------------------------
(* The invariant of the screen *)

\* The cursor is behind the last line, unless a return took it back for a newline.
AtEnd == x = Len(Last(text)) % Cols
CursorInv == x < Cols /\ (AtEnd \/ (out # <<>> /\ Head(out) = "\n"))

ScreenInv == TermInv /\ (~astray => TextInv /\ Painted /\ CursorInv)

\* Until it goes astray, the cursor is on the screen and the screen shows the text.
LEMMA OnTrack ==
  ASSUME ScreenInv, ~astray
  PROVE  Picture /\ TextInv /\ Painted /\ CursorInv /\ x \in 0 .. Cols - 1 /\ Cols \in Nat \ {0}
BY TerminalAssumption DEF ScreenInv, TermInv, TypeOK, Picture, CursorInv

\* kprint draws what is behind the text.
LEMMA PrintKeeps ==
  ASSUME ScreenInv, kprint_char, ~astray'
  PROVE  TextInv' /\ Painted' /\ CursorInv'
<1>1. Cols \in Nat \ {0} /\ 0 % Cols = 0 /\ Len(<<>>) = 0
  BY TerminalAssumption
<1>2. out \in Seq(Printable) /\ out # <<>> /\ out' = Tail(out)
  BY DEF ScreenInv, TermInv, TypeOK, Printable, kprint_char
<1>3. CASE Head(out) \in {"\n", "clear"}
  <2>1. TextInv' /\ Painted' /\ Last(text)' = <<>> /\ x' = 0
    <3>1. CASE Head(out) = "clear"
      BY <3>1, Cleared DEF kprint_char
    <3>2. CASE Head(out) = "\n"
      <4>1. NextRow(cell) /\ text' = LastOf(Rows, Append(text, <<>>)) /\ ~astray
        BY <3>2 DEF kprint_char
      <4> QED
        BY <4>1, OnTrack, AfterNewline
    <3> QED
      BY <1>3, <3>1, <3>2
  <2>2. Len(Last(text)') = 0
    BY <1>1, <2>1, Zenon
  <2> QED
    BY <1>1, <2>1, <2>2 DEF CursorInv, AtEnd
<1>4. CASE Head(out) = "\r"
  <2>1. x' = 0 /\ UNCHANGED <<cell, y, text>> /\ astray' = (astray \/ (x # 0 /\ ~EndsLine))
    BY <1>4 DEF kprint_char
  <2>2. ~astray /\ (x = 0 \/ EndsLine)
    <3>1. ~(astray \/ (x # 0 /\ ~EndsLine))
      BY <2>1, Zenon
    <3> QED
      BY <3>1, Zenon
  <2>3. Layout' = Layout
    BY <2>1 DEF Layout
  <2>4. TextInv' /\ Painted'
    BY <2>1, <2>2, <2>3, OnTrack DEF TextInv, Painted, Shows
  <2>5. AtEnd
    BY <1>4, <2>2, OnTrack DEF CursorInv
  <2>6. CursorInv'
    BY <1>1, <1>2, <2>1, <2>2, <2>5 DEF CursorInv, AtEnd, EndsLine
  <2> QED
    BY <2>4, <2>6
<1>5. CASE Head(out) \notin {"\n", "clear", "\r"}
  <2>1. /\ Head(out) \in Ink /\ draw(Head(out)) /\ ~astray
        /\ text' = LastLine(Append(Last(text), Head(out)))
    <3>1. Head(out) \in Printable
      BY <1>2, HeadTailProperties
    <3> QED
      BY <1>5, <3>1 DEF kprint_char, Printable, Ink
  <2>2. x = Len(Last(text)) % Cols
    BY <1>5, <2>1, OnTrack DEF CursorInv, AtEnd
  <2>3. /\ TextInv' /\ Painted' /\ x' = Len(Last(text)') % Cols
        /\ x \in 0 .. Cols - 1 /\ x' = IF x = Cols - 1 THEN 0 ELSE x + 1
    BY <2>1, <2>2, OnTrack, AfterGlyph
  <2>4. CursorInv'
    BY <1>1, <2>3 DEF CursorInv, AtEnd
  <2> QED
    BY <2>3, <2>4
<1> QED
  BY <1>3, <1>4, <1>5

\* The erasure of a character that is to the left of the cursor in its row.
LEMMA EraseKeeps ==
  ASSUME ScreenInv, line_erase, ~astray'
  PROVE  TextInv' /\ Painted' /\ CursorInv'
<1>1. ~astray /\ x # 0
  <2>1. astray' = (astray \/ x = 0)
    BY DEF line_erase
  <2>2. ~(astray \/ x = 0)
    BY <2>1, Zenon
  <2> QED
    BY <2>2, Zenon
<1>2. out = <<>> /\ x \in 1 .. Cols - 1
  BY <1>1, OnTrack DEF line_erase, Waits
<1>3. x = Len(Last(text)) % Cols
  BY <1>1, <1>2, OnTrack DEF CursorInv, AtEnd
<1>4. TextInv' /\ Painted' /\ x' = Len(Last(text)') % Cols /\ x' = x - 1
  BY <1>1, <1>2, <1>3, OnTrack, AfterErase
<1>5. CursorInv'
  BY <1>1, <1>2, <1>4, OnTrack DEF CursorInv, AtEnd
<1> QED
  BY <1>4, <1>5

\* A step that draws nothing and leaves the text as it is.
LEMMA SamePicture ==
  ASSUME ScreenInv, UNCHANGED <<screen, shown>>, out = <<>> \/ out' = out, ~astray'
  PROVE  TextInv' /\ Painted' /\ CursorInv'
<1>1. cell' = cell /\ x' = x /\ y' = y /\ text' = text /\ ~astray
  BY DEF screen, shown
<1>2. Layout' = Layout
  BY <1>1 DEF Layout
<1>3. TextInv' /\ Painted'
  BY <1>1, <1>2, OnTrack DEF TextInv, Painted, Shows
<1>4. CursorInv'
  BY <1>1, OnTrack DEF CursorInv, AtEnd
<1> QED
  BY <1>3, <1>4

\* Every key and every character printed keeps the picture.
LEMMA ScreenStep ==
  ASSUME ScreenInv, [Next]_vars
  PROVE  ScreenInv'
<1>1. TermInv'
  BY TermStep DEF ScreenInv
<1>2. SUFFICES ASSUME ~astray' PROVE TextInv' /\ Painted' /\ CursorInv'
  BY <1>1 DEF ScreenInv
<1>3. CASE kprint_char
  BY <1>2, <1>3, PrintKeeps
<1>4. CASE line_erase
  BY <1>2, <1>4, EraseKeeps
<1>5. CASE \E c \in Keys : Key(c)
  <2>1. PICK c \in Keys : name_char(c) \/ pass_char(c) \/ line_char(c)
    BY <1>5 DEF Key
  <2>2. UNCHANGED <<screen, shown>> /\ out = <<>>
    BY <2>1 DEF name_char, pass_char, line_char, Waits
  <2> QED
    BY <1>2, <2>2, SamePicture
<1>6. CASE name_erase \/ name_enter \/ pass_enter \/ line_enter
  <2>1. UNCHANGED <<screen, shown>> /\ out = <<>>
    BY <1>6 DEF name_erase, name_enter, pass_enter, line_enter, Waits
  <2> QED
    BY <1>2, <2>1, SamePicture
<1>7. CASE UNCHANGED vars
  <2>1. UNCHANGED <<screen, shown>> /\ out' = out
    BY <1>7 DEF vars
  <2> QED
    BY <1>2, <2>1, SamePicture
<1> QED
  BY <1>3, <1>4, <1>5, <1>6, <1>7 DEF Next

\* The empty screen before the first text.
LEMMA ScreenInit ==
  ASSUME Init
  PROVE  TextInv /\ Painted /\ CursorInv
<1>1. Rows \in Nat \ {0} /\ Cols \in Nat \ {0}
  BY TerminalAssumption
<1>2. TextInv /\ Last(text) = <<>>
  BY <1>1 DEF Init, TextInv, Last
<1>3. Layout = << <<>> >>
  <2>1. text = Append(<<>>, <<>>)
    BY DEF Init
  <2>2. <<>> \in Seq(Seq(Ink))
    OBVIOUS
  <2>3. AllRows(text) = << <<>> >>
    <3>1. AllRows(Append(<<>>, <<>>)) = Append(AllRows(<<>>), <<>>)
      BY <2>2, AllOfEmptyLine
    <3> QED
      BY <2>1, <3>1, AllOfNone
  <2>4. Len(<< <<>> >>) = 1
    OBVIOUS
  <2> QED
    BY <1>1, <2>3, <2>4, LayoutIs DEF LastOf
<1>4. Painted
  <2>1. PICK L : L = << <<>> >>
    OBVIOUS
  <2>2. Len(L) = 1 /\ L[1] = <<>> /\ Len(<<>>) = 0
    BY <2>1
  <2>3. ASSUME NEW k \in Pos
        PROVE  cell[k] = GlyphAt(L, k)
    <3>1. PICK i \in Nat, j \in Nat : i = k[1] + 1 /\ j = k[2] + 1 /\ i >= 1 /\ j >= 1 /\ j <= Rows
      BY Position
    <3>2. GlyphAt(L, k) = IF j <= Len(L) /\ i <= Len(L[j]) /\ L[j][i] # " " THEN {L[j][i]} ELSE {}
      BY <3>1 DEF GlyphAt
    <3>3. ~(j <= Len(L) /\ i <= Len(L[j]))
      BY <2>2, <3>1
    <3> QED
      BY <3>2, <3>3 DEF Init
  <2> QED
    BY <1>3, <2>1, <2>2, <2>3 DEF Painted, Shows, Init
<1>5. CursorInv
  <2>1. Len(Last(text)) = 0
    BY <1>2
  <2>2. 0 % Cols = 0
    BY <1>1
  <2> QED
    BY <1>1, <2>1, <2>2 DEF Init, CursorInv, AtEnd
<1> QED
  BY <1>2, <1>4, <1>5

\* However a text wraps, scrolls, is cleared or erased, every cell of the screen
\* is lit by the last text that is at its place and by nothing else, and the
\* password by none (kprintc, fb_scroll and the backspace of the line editor), for
\* every line, text and size of the screen, until an erasure in the first column or
\* a return within a line takes the cursor from the end of the text.
THEOREM TerminalShowsText == Spec => []ScreenShowsText
<1>1. Init => ScreenInv
  BY TermInit, ScreenInit DEF ScreenInv
<1>2. ScreenInv /\ [Next]_vars => ScreenInv'
  BY ScreenStep
<1>3. ScreenInv => ScreenShowsText
  <2> SUFFICES ASSUME ScreenInv, ~astray, NEW k \in Pos PROVE cell[k] = ShownAt(k)
    BY DEF ScreenShowsText
  <2>1. Shows(cell, Layout)
    BY DEF ScreenInv, Painted
  <2> QED
    BY <2>1 DEF Shows, GlyphAt, ShownAt
<1> QED
  BY <1>1, <1>2, <1>3, PTL DEF Spec
=============================================================================
