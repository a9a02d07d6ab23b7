-------------------------------- MODULE NotC --------------------------------
(***************************************************************************)
(* The NotC compiler, its bytecode files and their interpreter (notc.c)    *)
(* with the commands notc and run (kmain.c), for one source and its .ca    *)
(* file.  A source is a sequence of tokens: blanks between them do not     *)
(* matter to notc_compile.  In a .ca file a word of code and a string of   *)
(* the string table count as one cell each, and offsets begin behind the   *)
(* header.  The compiler's loop and the interpreter's are steps, so that   *)
(* their invariants can be stated.                                         *)
(***************************************************************************)
EXTENDS Integers, Sequences

CONSTANTS Strings, NoString,
          Sources,            \* the sources that are written
          Foreign,            \* .ca files that notc has not written
          SourceMax,          \* tokens that fit into source[]
          BufMax,             \* cells that fit into ca[] and data[], behind the header
          NOTC_MAX_CODE, NOTC_MAX_STRINGS, NOTC_MAX_STRING_LEN,
          KernelStack,        \* bytes of the stack that boot.asm reserves: 32768
          StackMax            \* 64

Kinds == {"main", ":", "[", "]", "write", "(", ")", "string",
          "long",     \* a string of NOTC_MAX_STRING_LEN - 1 characters or more
          "other",    \* any other text, such as a token that the end of source[] has cut
          "end"}
Tokens == [kind : Kinds, str : Strings \cup {NoString}]
Cells  == [op : {"HALT", "PUSH", "WRITE", "string", "other"}, arg : Nat, str : Strings \cup {NoString}]
Word(op, arg) == [op |-> op, arg |-> arg, str |-> NoString]
StringCell(s) == [op |-> "string", arg |-> 0, str |-> s]
\* A strtab_off of -1: the table begins within the header.
Headers == [magic : BOOLEAN, code_len : Nat, strtab_len : Nat, strtab_off : {-1} \cup Nat]
Files   == [hdr : Headers, body : Seq(Cells)]
NoHeader == [magic |-> FALSE, code_len |-> 0, strtab_len |-> 0, strtab_off |-> 0]

ASSUME NotCAssumption ==
    /\ {SourceMax, BufMax, NOTC_MAX_CODE, NOTC_MAX_STRINGS, NOTC_MAX_STRING_LEN, KernelStack} \subseteq Nat
    /\ StackMax \in Nat \ {0}
    /\ NoString \notin Strings
    /\ Sources \subseteq Seq({t \in Tokens : t.kind # "end" /\ (t.kind = "string" => t.str \in Strings)})
    /\ Foreign \subseteq {f \in Files : Len(f.body) <= BufMax}

VARIABLES pc,       \* "shell", "compile", "save", "run" or "overrun"
          written,  \* the source as it was written
          source,   \* the part of it that was read
          p,        \* the next token
          strings, code,
          file,     \* the .ca file
          origin,   \* "none", "whole" or "short" if notc wrote it, "foreign"
          text,     \* the strings that the source of the file writes
          data,     \* the buffer of run; nothing clears it
          prog,     \* the program that was loaded
          ip, stack,
          screen,   \* what the last run has printed
          result,   \* how it ended
          ran       \* the origin and the text of the file it was a run of

compiler == <<written, source, p, strings, code>>
stored   == <<file, origin, text>>
machine  == <<data, prog, ip, stack, screen, result, ran>>
vars     == <<pc, compiler, stored, machine>>

Init == /\ pc = "shell"
        /\ written = <<>> /\ source = <<>> /\ p = 1 /\ strings = <<>> /\ code = <<>>
        /\ file = [hdr |-> NoHeader, body |-> <<>>] /\ origin = "none" /\ text = <<>>
        /\ data = [i \in 1 .. BufMax |-> Word("HALT", 0)]
        /\ prog = [code |-> <<>>, strings |-> <<>>]
        /\ ip = 0 /\ stack = <<>> /\ screen = <<>> /\ result = "none"
        /\ ran = [origin |-> "none", text |-> <<>>]
-----------------------------------------------------------------------------
(* notc *)

\* The compiler's variables are gone when it returns.
Forgotten == written' = <<>> /\ source' = <<>> /\ p' = 1 /\ strings' = <<>> /\ code' = <<>>

Kind(i) == IF i \in DOMAIN source THEN source[i].kind ELSE "end"

\* f_read stores SourceMax tokens at most, and perhaps a part of the next one.
Cut(s) == IF Len(s) <= SourceMax THEN {s}
          ELSE {SubSeq(s, 1, SourceMax),
                Append(SubSeq(s, 1, SourceMax), [kind |-> "other", str |-> NoString])}

\* The bytes of code[], strings[] and string_lengths[], which are on the stack.
CompileFrame == 4 * NOTC_MAX_CODE + NOTC_MAX_STRINGS * (NOTC_MAX_STRING_LEN + 4)

\* Tables that the whole stack cannot hold reach into the memory below it, and
\* the first call of notc_compile writes there: nothing is known of what follows.
\* The frames of the callers, which take their part of the stack, are not counted.
notc_begin == /\ pc = "shell"
              /\ written' \in Sources
              /\ source' \in Cut(written')
              /\ p' = 1 /\ strings' = <<>> /\ code' = <<>>
              /\ pc' = IF CompileFrame <= KernelStack THEN "compile" ELSE "overrun"
              /\ UNCHANGED <<stored, machine>>

AtHeader == p = 1
HeaderHere == Kind(1) = "main" /\ Kind(2) = ":" /\ Kind(3) = "["
header == /\ pc = "compile" /\ AtHeader /\ HeaderHere
          /\ p' = 4
          /\ UNCHANGED <<pc, written, source, strings, code, stored, machine>>

\* Another string, and the two words that write it, fit.
RoomForWrite_bug == Len(strings) <= NOTC_MAX_STRINGS /\ Len(code) + 2 <= NOTC_MAX_CODE
RoomForWrite == Len(strings) < NOTC_MAX_STRINGS /\ Len(code) + 2 <= NOTC_MAX_CODE
WriteHere_bug == Kind(p) = "write" /\ Kind(p + 1) = "(" /\ Kind(p + 2) = "string"
WriteHere == /\ Kind(p) = "write" /\ Kind(p + 1) = "("
             /\ Kind(p + 2) = "string" /\ Kind(p + 3) = ")"
write_stmt == /\ pc = "compile" /\ ~AtHeader /\ WriteHere /\ RoomForWrite
              /\ p' = p + 4
              /\ strings' = Append(strings, source[p + 2].str)
              /\ code' = code \o <<Word("PUSH", Len(strings)), Word("WRITE", 0)>>
              /\ UNCHANGED <<pc, written, source, stored, machine>>

RoomForEnd_bug == Len(code) < NOTC_MAX_CODE /\ Len(code) + 1 + Len(strings) < BufMax
RoomForEnd == Len(code) < NOTC_MAX_CODE /\ Len(code) + 1 + Len(strings) <= BufMax
close == /\ pc = "compile" /\ ~AtHeader /\ Kind(p) = "]" /\ RoomForEnd
         /\ p' = p + 1
         /\ code' = Append(code, Word("HALT", 0))
         /\ pc' = "save"
         /\ UNCHANGED <<written, source, strings, stored, machine>>

\* Every other way out of notc_compile returns -1, and no file is touched.
compile_fail == /\ pc = "compile"
                /\ IF AtHeader THEN ~HeaderHere
                   ELSE ~(WriteHere /\ RoomForWrite) /\ ~(Kind(p) = "]" /\ RoomForEnd)
                /\ pc' = "shell" /\ Forgotten
                /\ UNCHANGED <<stored, machine>>

StringTable == [i \in 1 .. Len(strings) |-> StringCell(strings[i])]
Output == [hdr |-> [magic |-> TRUE, code_len |-> Len(code), strtab_len |-> Len(strings),
                    strtab_off |-> Len(code)],
           body |-> code \o StringTable]

\* f_write, whose count is not looked at: a full disk or a power failure keeps
\* a prefix, perhaps not even the header.
save == /\ pc = "save"
        /\ \/ file' = Output /\ origin' = "whole"
           \/ \E n \in 0 .. Len(Output.body) - 1 : file' = [Output EXCEPT !.body = SubSeq(@, 1, n)] /\ origin' = "short"
           \/ file' = [hdr |-> NoHeader, body |-> <<>>] /\ origin' = "short"
        /\ text' = strings
        /\ pc' = "shell" /\ Forgotten
        /\ UNCHANGED machine

\* f_open cannot create the output.
save_fails == /\ pc = "save"
              /\ pc' = "shell" /\ Forgotten
              /\ UNCHANGED <<stored, machine>>

\* Another file of that name.
replace == /\ pc = "shell"
           /\ file' \in Foreign /\ origin' = "foreign" /\ text' = <<>>
           /\ UNCHANGED <<pc, compiler, machine>>
-----------------------------------------------------------------------------
(* run *)

\* f_read overwrites the front of data[].
Read_bug(b) == [i \in 1 .. BufMax |-> IF i < Len(b) THEN b[i] ELSE data[i]]
Read(b) == [i \in 1 .. BufMax |-> IF i <= Len(b) THEN b[i] ELSE data[i]]

\* code_len is held against the program's limit and not against the file.
Loadable_bug(f) == f.hdr.magic /\ f.hdr.code_len <= NOTC_MAX_CODE
Loadable(f) == /\ f.hdr.magic
               /\ f.hdr.code_len <= NOTC_MAX_CODE
               /\ f.hdr.strtab_off + f.hdr.strtab_len <= Len(f.body)
LoadCode(d, n, stray) == [i \in 1 .. n |-> IF i <= BufMax THEN d[i] ELSE stray]

\* The table is strings only, as far as its cell i.
InStep(d, h, i) == \A j \in 1 .. i : h.strtab_off + j \in DOMAIN d /\ d[h.strtab_off + j].op = "string"

\* Each string says how long it is.  Where a table holds something else, the
\* lengths are out of step from there on: it ends early, when one of them leads
\* past its end, or whatever bytes follow are taken for strings.
LoadStrings(d, h) ==
    {s \in UNION {[1 .. n -> Strings \cup {NoString}] : n \in 0 .. NOTC_MAX_STRINGS} :
        /\ \A i \in 1 .. h.strtab_len :
               InStep(d, h, i) /\ i <= NOTC_MAX_STRINGS => i <= Len(s) /\ s[i] = d[h.strtab_off + i].str
        /\ InStep(d, h, h.strtab_len) => Len(s) <= h.strtab_len}

\* stray: what lies behind data[].
notc_load == /\ pc = "shell"
             /\ data' = Read(file.body)
             /\ IF Loadable(file)
                THEN /\ \E stray \in {Word("HALT", 0), Word("WRITE", 0)}, s \in LoadStrings(data', file.hdr) :
                            prog' = [code |-> LoadCode(data', file.hdr.code_len, stray), strings |-> s]
                     /\ ip' = 1 /\ stack' = <<>> /\ screen' = <<>> /\ result' = "running"
                     /\ pc' = "run"
                ELSE /\ screen' = <<>> /\ result' = "refused"
                     /\ UNCHANGED <<pc, prog, ip, stack>>
             /\ ran' = [origin |-> origin, text |-> text]
             /\ UNCHANGED <<compiler, stored>>

Op == prog.code[ip].op
Running == pc = "run" /\ ip \in DOMAIN prog.code
\* prog is not read again before notc_load has filled it.
Ends(how) == /\ result' = how /\ pc' = "shell"
             /\ ip' = 0 /\ stack' = <<>> /\ prog' = [code |-> <<>>, strings |-> <<>>]
             /\ UNCHANGED <<compiler, stored, data, screen, ran>>

run_push == /\ Running /\ Op = "PUSH" /\ Len(stack) < StackMax
            /\ stack' = Append(stack, prog.code[ip].arg)
            /\ ip' = ip + 1
            /\ UNCHANGED <<pc, compiler, stored, data, prog, screen, result, ran>>
Top == stack[Len(stack)]
CanWrite == stack # <<>> /\ Top < Len(prog.strings)
run_write == /\ Running /\ Op = "WRITE" /\ CanWrite
             /\ screen' = Append(screen, prog.strings[Top + 1])
             /\ stack' = SubSeq(stack, 1, Len(stack) - 1)
             /\ ip' = ip + 1
             /\ UNCHANGED <<pc, compiler, stored, data, prog, result, ran>>
run_end == /\ pc = "run" /\ (Running => Op = "HALT")
           /\ Ends("done")
run_error == /\ Running
             /\ \/ Op \notin {"HALT", "PUSH", "WRITE"}
                \/ Op = "PUSH" /\ Len(stack) >= StackMax
                \/ Op = "WRITE" /\ ~CanWrite
             /\ Ends("error")

Next == \/ notc_begin \/ header \/ write_stmt \/ close \/ compile_fail \/ save \/ save_fails
        \/ replace
        \/ notc_load \/ run_push \/ run_write \/ run_end \/ run_error
Spec == Init /\ [][Next]_vars
-----------------------------------------------------------------------------
(* Properties *)

\* notc_compile runs only on a stack that holds its tables, and then the tables
\* and the buffers hold what is put into them.
TypeOK == /\ pc \in {"shell", "compile", "save", "run", "overrun"}
          /\ pc \in {"compile", "save"} => CompileFrame <= KernelStack
          /\ source \in Seq(Tokens) /\ written \in Seq(Tokens) /\ p \in Nat \ {0}
          /\ strings \in Seq(Strings) /\ Len(strings) <= NOTC_MAX_STRINGS
          /\ code \in Seq(Cells) /\ Len(code) <= NOTC_MAX_CODE
          /\ file \in Files /\ Len(file.body) <= BufMax
          /\ origin \in {"none", "whole", "short", "foreign"} /\ text \in Seq(Strings)
          /\ data \in [1 .. BufMax -> Cells]
          /\ prog.code \in Seq(Cells) /\ Len(prog.code) <= NOTC_MAX_CODE
          /\ prog.strings \in Seq(Strings \cup {NoString}) /\ Len(prog.strings) <= NOTC_MAX_STRINGS
          /\ ip \in Nat /\ stack \in Seq(Nat) /\ Len(stack) <= StackMax
          /\ screen \in Seq(Strings \cup {NoString})
          /\ result \in {"none", "running", "done", "error", "refused"}
          /\ ran.origin \in {"none", "whole", "short", "foreign"} /\ ran.text \in Seq(Strings)

\* The grammar: main : [ write ( "..." ) ... ], and whatever comes after it.
KindAt(s, i) == IF i \in DOMAIN s THEN s[i].kind ELSE "end"
IsProgram(s, n) ==
    /\ KindAt(s, 1) = "main" /\ KindAt(s, 2) = ":" /\ KindAt(s, 3) = "["
    /\ \A i \in 1 .. n : /\ KindAt(s, 4 * i) = "write" /\ KindAt(s, 4 * i + 1) = "("
                         /\ KindAt(s, 4 * i + 2) = "string" /\ KindAt(s, 4 * i + 3) = ")"
    /\ KindAt(s, 4 * n + 4) = "]"
Written(s, n) == [i \in 1 .. n |-> s[4 * i + 2].str]

\* notc compiles a source: the call of notc_compile does not run over the end of
\* the kernel's stack into the memory below it.
CompilerStaysOnStack == pc # "overrun"

\* What notc writes is the program of the whole source, although source[] may
\* have held a part of it only.
CompilesTheSource ==
    pc = "save" => IsProgram(written, Len(strings)) /\ strings = Written(written, Len(strings))

\* A program is refused only if it is longer than one of the buffers.
Fits(n) == /\ 4 * n + 4 <= SourceMax /\ n <= NOTC_MAX_STRINGS
           /\ 2 * n + 1 <= NOTC_MAX_CODE /\ 3 * n + 1 <= BufMax
RefusesOnlyNonPrograms ==
    [][compile_fail => \A n \in 0 .. Len(written) : IsProgram(written, n) => ~Fits(n)]_vars

\* A file that was cut when it was stored never runs, whatever data[] held
\* (notc_load looks at the end of the string table, the last thing in a file).
ShortNeverRuns == ran.origin = "short" => result = "refused"

\* Running what notc compiled prints the strings of the source, each once and in
\* order, and ends without an error.
PrintsTheSource ==
    ran.origin = "whole" => /\ result \in {"running", "done"}
                            /\ screen = SubSeq(ran.text, 1, Len(screen))
                            /\ result = "done" => screen = ran.text
=============================================================================
