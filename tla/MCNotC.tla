------------------------------- MODULE MCNotC -------------------------------
(* Programs of up to four writes, more than source[], ca[] and the table of *)
(* strings hold, whole or with one token replaced or dropped.              *)
EXTENDS NotC, SequencesExt

T(kind) == [kind |-> kind, str |-> NoString]
Lit(s) == [kind |-> "string", str |-> s]
Stmt(s) == <<T("write"), T("("), Lit(s), T(")")>>
Prog(ss) == <<T("main"), T(":"), T("[")>>
            \o FlattenSeq([i \in 1 .. Len(ss) |-> Stmt(ss[i])]) \o <<T("]")>>
MCTexts == {<<"s">>, <<"t", "s">>, <<"s", "t", "s">>, <<"s", "t", "s", "t">>}
Whole == {Prog(ss) : ss \in MCTexts}
Wrong == {ReplaceAt(Prog(<<"s">>), i, T(k)) : i \in 1 .. 8, k \in {"other", "long"}}
Dropped == {RemoveAt(Prog(<<"s">>), i) : i \in 1 .. 8}
Longer == {Prog(<<"t", "s">>) \o [i \in 1 .. 8 |-> T("other")]}
MCSources == Whole \cup Wrong \cup Dropped \cup Longer

Hdr(c, n, o) == [magic |-> TRUE, code_len |-> c, strtab_len |-> n, strtab_off |-> o]
Push(n) == Word("PUSH", n)
MCForeign == {[hdr |-> Hdr(3, 0, 0), body |-> <<>>],                        \* code of another file
              [hdr |-> Hdr(8, 1, 2), body |-> <<Push(1), Word("WRITE", 0), StringCell("s")>>],
              [hdr |-> Hdr(2, 0, 2), body |-> <<Push(0), Push(0)>>],        \* too many, for the stack
              [hdr |-> Hdr(1, 0, 1), body |-> <<Word("WRITE", 0)>>],        \* and too few
              [hdr |-> Hdr(1, 3, 1), body |-> <<Word("other", 0), StringCell("s"), StringCell("s"), StringCell("t")>>],
              [hdr |-> Hdr(2, 2, 1), body |-> <<Push(0), Word("WRITE", 0), StringCell("s")>>],
              [hdr |-> Hdr(2, 1, -1), body |-> <<Push(0), Word("WRITE", 0)>>],  \* a table in the header
              [hdr |-> Hdr(9, 0, 0), body |-> <<>>]}
=============================================================================
