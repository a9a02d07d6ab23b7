------------------------------- MODULE Readers -------------------------------
(***************************************************************************)
(* What head, tail and wc print of a file (kmain.c), as operators on its   *)
(* characters, and what they are documented to print.                      *)
(***************************************************************************)
EXTENDS Integers, Sequences, SequencesExt, FiniteSets

CONSTANTS BufMax,     \* what one f_read fetches for head and wc (511, 512)
          TailMax,    \* what tail looks at (4095)
          LinesMax    \* how many lines head and tail print (10)

ASSUME ReadersAssumption == {BufMax, TailMax, LinesMax} \subseteq Nat \ {0}

Blanks == {" ", "\n", "\t", "\r"}

\* The f_reads of a file, one after the other.
Reads(b) == [k \in 1 .. (Len(b) + BufMax - 1) \div BufMax |->
                SubSeq(b, (k - 1) * BufMax + 1, IF k * BufMax < Len(b) THEN k * BufMax ELSE Len(b))]

\* head returns at the last of its newlines, before it is printed.
HeadChar(h, c) == LET lines == IF c = "\n" THEN h.lines + 1 ELSE h.lines
                  IN IF h.lines >= LinesMax THEN h
                     ELSE [lines |-> lines, out |-> IF lines >= LinesMax THEN h.out ELSE Append(h.out, c)]
HeadRead(h, buf) == LET got[n \in 0 .. Len(buf)] == IF n = 0 THEN h ELSE HeadChar(got[n - 1], buf[n])
                    IN got[Len(buf)]
cmd_head(b) == LET reads == Reads(b)
                   got[n \in 0 .. Len(reads)] == IF n = 0 THEN [lines |-> 0, out |-> <<>>]
                                                 ELSE HeadRead(got[n - 1], reads[n])
               IN got[Len(reads)].out

\* tail looks for the newlines that end the line before its first one; the
\* file's last character is none of them.
TailFrom_bug(buf) == {i \in 1 .. Len(buf) : buf[i] = "\n"}
TailFrom(buf) == {i \in 1 .. Len(buf) - 1 : buf[i] = "\n"}
cmd_tail(b) ==
    LET buf   == IF Len(b) > TailMax THEN SubSeq(b, Len(b) - TailMax + 1, Len(b)) ELSE b
        ends  == TailFrom(buf)
        start == IF Cardinality(ends) < LinesMax THEN 1
                 ELSE 1 + CHOOSE i \in ends : Cardinality({j \in ends : j >= i}) = LinesMax
    IN SubSeq(buf, start, Len(buf))

WcChar(w, c) == [lines |-> IF c = "\n" THEN w.lines + 1 ELSE w.lines,
                 words |-> IF c \notin Blanks /\ ~w.in_word THEN w.words + 1 ELSE w.words,
                 in_word |-> c \notin Blanks]
WcFrom(w, buf) == LET got[n \in 0 .. Len(buf)] == IF n = 0 THEN w ELSE WcChar(got[n - 1], buf[n])
                  IN got[Len(buf)]
WcRead_bug(w, buf) == WcFrom([w EXCEPT !.in_word = FALSE], buf)
WcRead(w, buf) == WcFrom(w, buf)
cmd_wc(b) == LET reads == Reads(b)
                 got[n \in 0 .. Len(reads)] == IF n = 0 THEN [lines |-> 0, words |-> 0, in_word |-> FALSE]
                                               ELSE WcRead(got[n - 1], reads[n])
                 w == got[Len(reads)]
             IN <<w.lines, w.words, Len(b)>>
-----------------------------------------------------------------------------
Newlines(b, i, j) == Cardinality({k \in i .. j : b[k] = "\n"})

\* The longest beginning of b that ends before its LinesMax-th newline.
FirstLines(b) == LET n == CHOOSE n \in 0 .. Len(b) : /\ Newlines(b, 1, n) < LinesMax
                                                     /\ n < Len(b) => Newlines(b, 1, n + 1) >= LinesMax
                 IN SubSeq(b, 1, n)

\* The longest end of b that starts with a line and has LinesMax of them at most.
LastLines(b) == LET n == CHOOSE n \in 1 .. Len(b) + 1 :
                            /\ n = 1 \/ b[n - 1] = "\n"
                            /\ Newlines(b, n, Len(b) - 1) < LinesMax
                            /\ \A m \in 1 .. n - 1 : \/ ~(m = 1 \/ b[m - 1] = "\n")
                                                     \/ Newlines(b, m, Len(b) - 1) >= LinesMax
                IN SubSeq(b, n, Len(b))

Words(b) == Cardinality({i \in 1 .. Len(b) : b[i] \notin Blanks /\ (i = 1 \/ b[i - 1] \in Blanks)})
Counts(b) == <<Newlines(b, 1, Len(b)), Words(b), Len(b)>>
=============================================================================
