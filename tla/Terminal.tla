------------------------------ MODULE Terminal ------------------------------
(***************************************************************************)
(* The text console of kmain.c: the framebuffer text renderer, the login   *)
(* prompt, the line editor of kmain and the command history.               *)
(*                                                                         *)
(* The framebuffer is seen as cells of FONT_W x FONT_H pixels; a cell is   *)
(* the set of the glyphs whose pixels are lit in it, since draw_char lights *)
(* pixels and clears none.  kprint draws one character per step.  What a   *)
(* command prints is any member of Outputs; the commands themselves are in *)
(* other modules.                                                          *)
(***************************************************************************)
EXTENDS Integers, Sequences, SequencesExt

CONSTANTS Cols, Rows,   \* fb_width / FONT_W, fb_height / FONT_H
          Columns32,    \* 2^32 / FONT_W: cursor positions of fb_cursor_x
          LineMax,      \* 127
          NameMax,      \* MAX_USER_LEN - 1
          HistMax,      \* HIST_MAX
          Glyphs,       \* printable characters
          Typed,        \* those the user types
          PrintedMax,   \* bound: characters a login prompt's line may have for a further erasure
          BootText, LoginPrompt, PasswordPrompt, Incorrect, Welcome, Halting, Prompt,
          Outputs       \* what a command may print

Pos == (0 .. Cols - 1) \X (0 .. Rows - 1)
Lines == UNION {[1 .. n -> Typed] : n \in 0 .. LineMax}
Names == UNION {[1 .. n -> Typed] : n \in 0 .. NameMax}
Keys == Typed \cup {"BS", "\t"}

ASSUME TerminalAssumption ==
    /\ Cols \in Nat \ {0, 1} /\ Rows \in Nat \ {0} /\ Columns32 \in Nat /\ Columns32 > Cols + 1
    /\ LineMax \in Nat /\ NameMax \in Nat /\ HistMax \in Nat \ {0}
    /\ PrintedMax \in Nat /\ Typed \subseteq Glyphs
    /\ Glyphs \cap {"\n", "\r", "\t", "BS", "clear"} = {}
    /\ {BootText, LoginPrompt, PasswordPrompt, Incorrect, Welcome, Halting, Prompt} \cup Outputs
          \subseteq Seq(Glyphs \cup {"\n", "\r"})

VARIABLES cell,        \* the framebuffer
          x, y,        \* fb_cursor_x, fb_cursor_y in cells
          out,         \* what kprint has still to print before the next kinput
          mode,        \* "login", "password" (authenticate), "shell" or "halted"
          attempt,     \* of authenticate
          line,        \* line, name or pass, up to len
          hist, hist_count, hist_next,
          text,        \* history variable: the last Rows lines printed since the
                       \* last clear, less what was erased
          astray       \* history variable: since the last clear the cursor has left the
                       \* end of the text, by an erasure in column 0 or a return

screen == <<cell, x, y>>
history == <<hist, hist_count, hist_next>>
shown == <<text, astray>>
vars == <<screen, out, mode, attempt, line, history, shown>>

fb_clear == cell' = [k \in Pos |-> {}] /\ x' = 0 /\ y' = 0

Init == /\ cell = [k \in Pos |-> {}] /\ x = 0 /\ y = 0 /\ text = << <<>> >> /\ astray = FALSE
        /\ out = BootText \o LoginPrompt /\ mode = "login" /\ attempt = 0 /\ line = <<>>
        /\ hist = [i \in 0 .. HistMax - 1 |-> <<>>] /\ hist_count = 0 /\ hist_next = 0
-----------------------------------------------------------------------------
(* kprint *)

\* fb_putpixel leaves out what is outside of the screen.
Inside(cx, cy) == cx < Cols /\ cy < Rows
Lit(cs, c) == IF c # " " /\ Inside(x, y) THEN [cs EXCEPT ![<<x, y>>] = @ \cup {c}] ELSE cs

Scrolled_bug(cs) == [k \in Pos |-> IF k[2] + 1 < Rows THEN cs[<<k[1], k[2] + 1>>] ELSE cs[k]]
Scrolled(cs) == [k \in Pos |-> IF k[2] + 1 < Rows THEN cs[<<k[1], k[2] + 1>>] ELSE {}]

\* fb_cursor_x = 0, fb_cursor_y += FONT_H and fb_scroll.
NextRow_bug(cs) == x' = 0 /\ y' = y + 1 /\ cell' = cs
NextRow(cs) == /\ x' = 0
               /\ IF y + 1 < Rows THEN y' = y + 1 /\ cell' = cs
                                  ELSE y' = y /\ cell' = Scrolled(cs)

\* The cursor as it advances, in the width of fb_cursor_x.
Right == (x + 1) % Columns32
Wraps == (Right + 1) % Columns32 > Cols

draw(c) == IF Wraps THEN NextRow(Lit(cell, c))
                    ELSE cell' = Lit(cell, c) /\ x' = Right /\ UNCHANGED y

\* The lines that can still be on the screen.
LastOf(n, seq) == IF Len(seq) > n THEN SubSeq(seq, Len(seq) - n + 1, Len(seq)) ELSE seq
LastLine(l) == [text EXCEPT ![Len(text)] = l]

\* A return that a newline follows only ends the line.
EndsLine == Tail(out) # <<>> /\ Head(Tail(out)) = "\n"

kprint_char ==
    /\ out # <<>> /\ out' = Tail(out)
    /\ LET c == Head(out) IN
       CASE c = "clear" -> fb_clear /\ text' = << <<>> >> /\ astray' = FALSE
         [] c = "\n"    -> NextRow(cell) /\ text' = LastOf(Rows, Append(text, <<>>)) /\ UNCHANGED astray
         [] c = "\r"    -> x' = 0 /\ astray' = (astray \/ (x # 0 /\ ~EndsLine)) /\ UNCHANGED <<cell, y, text>>
         [] OTHER       -> draw(c) /\ text' = LastLine(Append(Last(text), c)) /\ UNCHANGED astray
    /\ UNCHANGED <<mode, attempt, line, history>>
-----------------------------------------------------------------------------
(* authenticate *)

Waits(m) == out = <<>> /\ mode = m

name_char(c) == /\ Waits("login") /\ c \in Typed
                /\ IF Len(line) < NameMax THEN line' = Append(line, c) /\ out' = <<c>>
                                          ELSE UNCHANGED <<line, out>>
                /\ UNCHANGED <<screen, mode, attempt, history, shown>>

\* kprintc('\b') erases nothing: it draws the glyph of character 8.
name_erase == /\ Waits("login") /\ line # <<>> /\ Len(Last(text)) < PrintedMax
              /\ line' = Front(line) /\ out' = <<"BS">>
              /\ UNCHANGED <<screen, mode, attempt, history, shown>>

name_enter == /\ Waits("login") /\ mode' = "password" /\ line' = <<>>
              /\ out' = <<"\n">> \o PasswordPrompt
              /\ UNCHANGED <<screen, attempt, history, shown>>

pass_char(c) == /\ Waits("password")
                /\ CASE c \in Typed -> line' = IF Len(line) < NameMax THEN Append(line, c) ELSE line
                     [] c = "BS"     -> line' = IF line = <<>> THEN line ELSE Front(line)
                     [] OTHER        -> UNCHANGED line
                /\ UNCHANGED <<screen, out, mode, attempt, history, shown>>

pass_enter == /\ Waits("password") /\ line' = <<>>
              /\ \/ mode' = "shell" /\ out' = <<"\n">> \o Welcome \o Prompt /\ UNCHANGED attempt
                 \/ /\ attempt' = attempt + 1
                    /\ IF attempt' < 3
                       THEN mode' = "login" /\ out' = <<"\n">> \o Incorrect \o LoginPrompt
                       ELSE mode' = "halted" /\ out' = <<"\n">> \o Incorrect \o Halting
              /\ UNCHANGED <<screen, history, shown>>
-----------------------------------------------------------------------------
(* The loop of kmain *)

line_char(c) == /\ Waits("shell") /\ c \in Typed
                /\ IF Len(line) < LineMax THEN line' = Append(line, c) /\ out' = <<c>>
                                          ELSE UNCHANGED <<line, out>>
                /\ UNCHANGED <<screen, mode, attempt, history, shown>>

Left == (x - 1) % Columns32
line_erase == /\ Waits("shell") /\ line # <<>> /\ line' = Front(line)
              /\ x' = Left /\ UNCHANGED y
              /\ cell' = IF Inside(Left, y) THEN [cell EXCEPT ![<<Left, y>>] = {}] ELSE cell
              /\ text' = LastLine(Front(Last(text))) /\ astray' = (astray \/ x = 0)
              /\ UNCHANGED <<out, mode, attempt, history>>

NextEntry_bug == (hist_next + 1) % (HistMax + 1)
NextEntry == (hist_next + 1) % HistMax
history_add == /\ hist' = [hist EXCEPT ![hist_next] = line]
               /\ hist_next' = NextEntry
               /\ hist_count' = IF hist_count < HistMax THEN hist_count + 1 ELSE hist_count

\* shell_line, then the prompt.
line_enter == /\ Waits("shell") /\ line' = <<>>
              /\ IF line = <<>> THEN out' = <<"\n">> \o Prompt /\ UNCHANGED history
                 ELSE /\ history_add
                      /\ \E o \in Outputs \cup { <<"clear">> } : out' = <<"\n">> \o o \o Prompt
              /\ UNCHANGED <<screen, mode, attempt, shown>>

Key(c) == \/ name_char(c) \/ pass_char(c) \/ line_char(c)
Next == \/ kprint_char
        \/ \E c \in Keys : Key(c)
        \/ name_erase \/ name_enter \/ pass_enter \/ line_erase \/ line_enter
Spec == Init /\ [][Next]_vars
-----------------------------------------------------------------------------
(* Properties *)

TypeOK == /\ cell \in [Pos -> SUBSET (Glyphs \cup {"BS"})]
          /\ x \in 0 .. Columns32 - 1 /\ y \in 0 .. Rows - 1
          /\ out \in Seq(Glyphs \cup {"\n", "\r", "BS", "clear"})
          /\ mode \in {"login", "password", "shell", "halted"} /\ attempt \in 0 .. 3
          /\ line \in Lines \cup Names /\ (mode = "shell" => line \in Lines)
          /\ hist \in [0 .. HistMax - 1 -> Lines]
          /\ hist_count \in 0 .. HistMax /\ hist_next \in 0 .. HistMax - 1

\* The rows the text takes: a line that fills a row goes on in the next one.
RowsOf(l) == [k \in 1 .. Len(l) \div Cols + 1 |->
                 SubSeq(l, (k - 1) * Cols + 1, IF k * Cols < Len(l) THEN k * Cols ELSE Len(l))]
Layout == LastOf(Rows, FlattenSeq([i \in DOMAIN text |-> RowsOf(text[i])]))
ShownAt(k) == IF /\ k[2] + 1 <= Len(Layout) /\ k[1] + 1 <= Len(Layout[k[2] + 1])
                 /\ Layout[k[2] + 1][k[1] + 1] # " "
              THEN {Layout[k[2] + 1][k[1] + 1]} ELSE {}

\* Until the cursor goes astray, and again from the next clear on, the screen
\* shows the last rows of what was printed and not erased in the line editor,
\* whatever wrapped, scrolled, was cleared or erased on the way, and the password
\* in none of them ("Scrolling, backspace, newline handling" and "Login prompt
\* with hidden password entry", README).
ScreenShowsText == ~astray => \A k \in Pos : cell[k] = ShownAt(k)

\* What cmd_history lists, the oldest first.
Start == IF hist_count < HistMax THEN 0 ELSE hist_next
Listing == [i \in 1 .. hist_count |-> hist[(Start + i - 1) % HistMax]]
\* Enter adds the line to the end of the listing, which keeps the last HistMax
\* of them in order; nothing else changes it.
HistoryIsLastLines == [][ Listing' = IF line_enter /\ line # <<>>
                                     THEN LastOf(HistMax, Append(Listing, line)) ELSE Listing ]_vars
=============================================================================
