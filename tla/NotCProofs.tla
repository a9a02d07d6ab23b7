----------------------------- MODULE NotCProofs -----------------------------
(***************************************************************************)
(* Proofs about NotC, for every source, limit and foreign file: a compiled *)
(* program is the program of its source, a truncated one never runs, and a *)
(* program prints what its source says.  The invariant follows the strings *)
(* of a source through the compiler's tables, the .ca file and data[] into *)
(* the interpreter.                                                        *)
(***************************************************************************)
EXTENDS NotC, TLAPS

\* What was read is what was written, up to a token that was cut, and all of
\* what fits into source[].
Reading == /\ \A i \in DOMAIN source : source[i].kind = "string" => source[i].str \in Strings
           /\ \A i \in DOMAIN source : source[i].kind # "other" =>
                  i \in DOMAIN written /\ written[i] = source[i]
           /\ \A i \in DOMAIN written : i <= SourceMax =>
                  i \in DOMAIN source /\ source[i] = written[i]

\* The first n statements of the source.
Parsed(n) ==
    /\ Kind(1) = "main" /\ Kind(2) = ":" /\ Kind(3) = "["
    /\ \A i \in 1 .. n : /\ Kind(4 * i) = "write" /\ Kind(4 * i + 1) = "("
                         /\ Kind(4 * i + 2) = "string" /\ Kind(4 * i + 3) = ")"
                         /\ strings[i] = source[4 * i + 2].str

\* Two words of c for each of n statements.
Writes(c, n) == \A i \in 1 .. n : c[2 * i - 1] = Word("PUSH", i - 1) /\ c[2 * i] = Word("WRITE", 0)
Ended(c, n)  == Writes(c, n) /\ c[2 * n + 1] = Word("HALT", 0)

Compiling == pc = "compile" =>
    \/ p = 1 /\ strings = <<>> /\ code = <<>>
    \/ /\ p = 4 * Len(strings) + 4 /\ Parsed(Len(strings))
       /\ Len(code) = 2 * Len(strings) /\ Writes(code, Len(strings))
Saving == pc = "save" =>
    /\ Parsed(Len(strings)) /\ Kind(4 * Len(strings) + 4) = "]"
    /\ Len(code) = 2 * Len(strings) + 1 /\ Ended(code, Len(strings))
    /\ Len(code) + Len(strings) <= BufMax

\* The file of a program that writes the strings t.
IsFileOf(f, t) ==
    /\ f.hdr.magic /\ f.hdr.code_len = 2 * Len(t) + 1
    /\ f.hdr.strtab_off = 2 * Len(t) + 1 /\ f.hdr.strtab_len = Len(t)
    /\ Len(f.body) = 3 * Len(t) + 1
    /\ Ended(f.body, Len(t))
    /\ \A i \in 1 .. Len(t) : f.body[2 * Len(t) + 1 + i] = StringCell(t[i])
    /\ Len(t) <= NOTC_MAX_STRINGS /\ 2 * Len(t) + 1 <= NOTC_MAX_CODE
Storing == /\ origin = "whole" => IsFileOf(file, text)
           /\ origin = "short" => ~Loadable(file)

\* The interpreter between two instructions of such a program.
IsCodeOf(c, t)    == Len(c) = 2 * Len(t) + 1 /\ Ended(c, Len(t))
AreStringsOf(s, t) == Len(s) = Len(t) /\ \A i \in 1 .. Len(t) : s[i] = t[i]
Loaded(t) == IsCodeOf(prog.code, t) /\ AreStringsOf(prog.strings, t)
Between(t) == \E k \in 0 .. Len(t) :
                 /\ Len(screen) = k /\ screen = SubSeq(t, 1, k)
                 /\ \/ ip = 2 * k + 1 /\ stack = <<>>
                    \/ k < Len(t) /\ ip = 2 * k + 2 /\ stack = <<k>>
Executing == pc = "run" => /\ result = "running"
                           /\ ran.origin = "whole" => Loaded(ran.text) /\ Between(ran.text)

IInv == /\ TypeOK /\ Reading /\ Compiling /\ Saving /\ Storing /\ Executing
        /\ ShortNeverRuns /\ PrintsTheSource
-----------------------------------------------------------------------------
LEMMA CellTypes ==
    /\ \A a \in Nat : {Word("PUSH", a), Word("WRITE", a), Word("HALT", a)} \subseteq Cells
    /\ \A s \in Strings : StringCell(s) \in Cells
BY DEF Word, StringCell, Cells

LEMMA AppendOne ==
    ASSUME NEW S, NEW c \in Seq(S), NEW x \in S
    PROVE  /\ Append(c, x) \in Seq(S) /\ Len(Append(c, x)) = Len(c) + 1
           /\ \A i \in 1 .. Len(c) : Append(c, x)[i] = c[i]
           /\ Append(c, x)[Len(c) + 1] = x
OBVIOUS

LEMMA AppendTwo ==
    ASSUME NEW S, NEW c \in Seq(S), NEW x \in S, NEW y \in S, NEW d, d = c \o <<x, y>>
    PROVE  /\ d \in Seq(S) /\ Len(d) = Len(c) + 2 /\ \A i \in 1 .. Len(c) : d[i] = c[i]
           /\ d[Len(c) + 1] = x /\ d[Len(c) + 2] = y
<1> DEFINE two == <<x, y>>
<1>1. two \in Seq(S) /\ Len(two) = 2 /\ two[1] = x /\ two[2] = y
  OBVIOUS
<1>2. d = c \o two
  OBVIOUS
<1> HIDE DEF two
<1>3. d \in Seq(S) /\ Len(d) = Len(c) + 2 /\ \A i \in 1 .. Len(c) : d[i] = c[i]
  BY <1>1, <1>2
<1>4. d[Len(c) + 1] = two[1] /\ d[Len(c) + 2] = two[2]
  BY <1>1, <1>2
<1> QED
  BY <1>1, <1>3, <1>4

\* What is appended to a code does not change its words.
LEMMA WritesKept ==
    ASSUME NEW c, NEW d, NEW k \in Nat, Writes(c, k), \A i \in 1 .. 2 * k : d[i] = c[i]
    PROVE  Writes(d, k)
<1> SUFFICES ASSUME NEW i \in 1 .. k
             PROVE  d[2 * i - 1] = Word("PUSH", i - 1) /\ d[2 * i] = Word("WRITE", 0)
    BY DEF Writes
<1>1. 2 * i - 1 \in 1 .. 2 * k /\ 2 * i \in 1 .. 2 * k
  OBVIOUS
<1>2. d[2 * i - 1] = c[2 * i - 1] /\ d[2 * i] = c[2 * i]
  BY <1>1
<1> QED
  BY <1>2 DEF Writes

LEMMA WritesGrows ==
    ASSUME NEW c, NEW k \in Nat, Writes(c, k),
           c[2 * k + 1] = Word("PUSH", k), c[2 * k + 2] = Word("WRITE", 0)
    PROVE  Writes(c, k + 1)
<1> SUFFICES ASSUME NEW i \in 1 .. k + 1
             PROVE  c[2 * i - 1] = Word("PUSH", i - 1) /\ c[2 * i] = Word("WRITE", 0)
    BY DEF Writes
<1>1. CASE i \in 1 .. k
  BY <1>1 DEF Writes
<1>2. CASE i = k + 1
  <2>1. 2 * i - 1 = 2 * k + 1 /\ 2 * i = 2 * k + 2 /\ i - 1 = k
    BY <1>2
  <2> QED
    BY <2>1
<1> QED
  BY <1>1, <1>2

LEMMA Limits == /\ SourceMax \in Nat /\ BufMax \in Nat
                /\ NOTC_MAX_CODE \in Nat /\ NOTC_MAX_STRINGS \in Nat /\ StackMax \in Nat \ {0}
BY NotCAssumption

\* At the start there is no program.
LEMMA InitInv == Init => IInv
<1> SUFFICES ASSUME Init PROVE IInv
    OBVIOUS
<1>1. TypeOK
  <2>1. data \in [1 .. BufMax -> Cells]
    BY CellTypes DEF Init
  <2>2. NoHeader \in Headers
    BY DEF NoHeader, Headers
  <2>3. /\ file \in Files /\ Len(file.body) <= BufMax
        /\ prog.code \in Seq(Cells) /\ Len(prog.code) <= NOTC_MAX_CODE
        /\ prog.strings \in Seq(Strings \cup {NoString}) /\ Len(prog.strings) <= NOTC_MAX_STRINGS
        /\ ran.origin \in {"none", "whole", "short", "foreign"} /\ ran.text \in Seq(Strings)
    BY <2>2, Limits DEF Init, Files
  <2>4. /\ stack \in Seq(Nat) /\ Len(stack) <= StackMax
        /\ code \in Seq(Cells) /\ Len(code) <= NOTC_MAX_CODE
        /\ strings \in Seq(Strings) /\ Len(strings) <= NOTC_MAX_STRINGS
    BY Limits DEF Init
  <2>5. /\ pc = "shell" /\ source = <<>> /\ written = <<>> /\ p = 1 /\ origin = "none" /\ text = <<>>
        /\ ip = 0 /\ screen = <<>> /\ result = "none"
    BY DEF Init
  <2> QED
    BY <2>1, <2>3, <2>4, <2>5 DEF TypeOK
<1>2. Reading /\ Compiling /\ Saving /\ Storing /\ Executing /\ ShortNeverRuns /\ PrintsTheSource
  BY DEF Init, Reading, Compiling, Saving, Storing, Executing, ShortNeverRuns, PrintsTheSource
<1> QED
  BY <1>1, <1>2 DEF IInv

\* While nothing is compiled, the invariant says nothing about the compiler.
LEMMA ForgottenInv ==
    ASSUME Forgotten, pc' \notin {"compile", "save"}
    PROVE  Reading' /\ Compiling' /\ Saving'
BY DEF Forgotten, Reading, Compiling, Saving

LEMMA StoredSame ==
    ASSUME UNCHANGED stored, Storing
    PROVE  Storing'
BY DEF stored, Storing

LEMMA CompilerSame ==
    ASSUME UNCHANGED <<pc, compiler>>, Reading, Compiling, Saving
    PROVE  Reading' /\ Compiling' /\ Saving'
BY DEF compiler, Reading, Compiling, Saving, Parsed, Kind

LEMMA MachineSame ==
    ASSUME UNCHANGED machine, pc' # "run" \/ pc = "run", Executing, ShortNeverRuns, PrintsTheSource
    PROVE  Executing' /\ ShortNeverRuns' /\ PrintsTheSource'
BY DEF machine, Executing, ShortNeverRuns, PrintsTheSource, Loaded, Between
-----------------------------------------------------------------------------
(* The compiler *)

LEMMA CutIsPart ==
    ASSUME NEW s \in Sources, NEW c \in Cut(s)
    PROVE  /\ s \in Seq(Tokens) /\ c \in Seq(Tokens)
           /\ \A i \in DOMAIN c : /\ c[i].kind = "string" => c[i].str \in Strings
                                  /\ c[i].kind # "other" => i \in DOMAIN s /\ s[i] = c[i]
           /\ \A i \in DOMAIN s : i <= SourceMax => i \in DOMAIN c /\ c[i] = s[i]
<1> DEFINE other == [kind |-> "other", str |-> NoString]
<1>1. /\ s \in Seq(Tokens)
      /\ \A i \in DOMAIN s : s[i].kind = "string" => s[i].str \in Strings
  <2>1. s \in Seq({t \in Tokens : t.kind # "end" /\ (t.kind = "string" => t.str \in Strings)})
    BY NotCAssumption
  <2> QED
    BY <2>1
<1>2. CASE Len(s) <= SourceMax
  BY <1>1, <1>2 DEF Cut
<1>3. CASE Len(s) > SourceMax
  <2>1. SourceMax \in Nat /\ other \in Tokens
    BY Limits DEF Tokens, Kinds
  <2>2. c = SubSeq(s, 1, SourceMax) \/ c = Append(SubSeq(s, 1, SourceMax), other)
    BY <1>1, <1>3, <2>1 DEF Cut
  <2>3. /\ SubSeq(s, 1, SourceMax) \in Seq(Tokens) /\ Len(SubSeq(s, 1, SourceMax)) = SourceMax
        /\ \A i \in 1 .. SourceMax : i \in DOMAIN s /\ SubSeq(s, 1, SourceMax)[i] = s[i]
    BY <1>1, <1>3, <2>1
  <2>4. CASE c = SubSeq(s, 1, SourceMax)
    BY <1>1, <2>3, <2>4
  <2>5. CASE c = Append(SubSeq(s, 1, SourceMax), other)
    <3>1. c \in Seq(Tokens) /\ Len(c) = SourceMax + 1 /\ c[SourceMax + 1] = other
      BY <2>1, <2>3, <2>5
    <3>2. \A i \in 1 .. SourceMax : c[i] = s[i] /\ i \in DOMAIN s
      BY <2>1, <2>3, <2>5
    <3> QED
      BY <1>1, <2>1, <3>1, <3>2
  <2> QED
    BY <2>2, <2>4, <2>5
<1>4. Len(s) <= SourceMax \/ Len(s) > SourceMax
  BY <1>1, Limits
<1> QED
  BY <1>2, <1>3, <1>4

\* TypeOK, of the variables that the compiler's steps leave alone.
StoredType  == /\ file \in Files /\ Len(file.body) <= BufMax
               /\ origin \in {"none", "whole", "short", "foreign"} /\ text \in Seq(Strings)
CompilerType == /\ source \in Seq(Tokens) /\ written \in Seq(Tokens) /\ p \in Nat \ {0}
                /\ strings \in Seq(Strings) /\ Len(strings) <= NOTC_MAX_STRINGS
                /\ code \in Seq(Cells) /\ Len(code) <= NOTC_MAX_CODE
MachineType == /\ data \in [1 .. BufMax -> Cells]
               /\ prog.code \in Seq(Cells) /\ Len(prog.code) <= NOTC_MAX_CODE
               /\ prog.strings \in Seq(Strings \cup {NoString}) /\ Len(prog.strings) <= NOTC_MAX_STRINGS
               /\ ip \in Nat /\ stack \in Seq(Nat) /\ Len(stack) <= StackMax
               /\ screen \in Seq(Strings \cup {NoString})
               /\ result \in {"none", "running", "done", "error", "refused"}
               /\ ran.origin \in {"none", "whole", "short", "foreign"} /\ ran.text \in Seq(Strings)
LEMMA TypeParts ==
    TypeOK <=> /\ pc \in {"shell", "compile", "save", "run", "overrun"}
               /\ pc \in {"compile", "save"} => CompileFrame <= KernelStack
               /\ StoredType /\ CompilerType /\ MachineType
BY DEF TypeOK, StoredType, CompilerType, MachineType

LEMMA TypeSame ==
    /\ UNCHANGED stored /\ StoredType => StoredType'
    /\ UNCHANGED compiler /\ CompilerType => CompilerType'
    /\ UNCHANGED machine /\ MachineType => MachineType'
<1>1. UNCHANGED stored /\ StoredType => StoredType'
  BY DEF stored, StoredType
<1>2. UNCHANGED compiler /\ CompilerType => CompilerType'
  BY DEF compiler, CompilerType
<1>3. UNCHANGED machine /\ MachineType => MachineType'
  BY DEF machine, MachineType
<1> QED
  BY <1>1, <1>2, <1>3

LEMMA ForgottenType == Forgotten => CompilerType'
BY Limits DEF Forgotten, CompilerType

LEMMA StepBegin == IInv /\ notc_begin => IInv'
<1> SUFFICES ASSUME IInv, notc_begin PROVE IInv'
    OBVIOUS
<1>1. /\ written' \in Sources /\ source' \in Cut(written')
      /\ p' = 1 /\ strings' = <<>> /\ code' = <<>>
      /\ pc' = IF CompileFrame <= KernelStack THEN "compile" ELSE "overrun"
      /\ UNCHANGED stored /\ UNCHANGED machine
  BY DEF notc_begin
<1>2. TypeOK'
  <2>1. CompilerType'
    BY <1>1, CutIsPart, Limits DEF CompilerType
  <2> QED
    BY <1>1, <2>1, TypeParts, TypeSame DEF IInv, TypeOK, StoredType, CompilerType, MachineType
<1>3. Reading'
  BY <1>1, CutIsPart DEF Reading
<1>4. Compiling' /\ Saving'
  BY <1>1 DEF Compiling, Saving
<1> QED
  BY <1>1, <1>2, <1>3, <1>4, StoredSame, MachineSame DEF IInv

\* The steps of the compiler.
Compiles == /\ pc = "compile" /\ pc' \in {"compile", "save"}
            /\ UNCHANGED <<written, source>> /\ UNCHANGED stored /\ UNCHANGED machine
LEMMA CompilesInv ==
    ASSUME IInv, Compiles, CompilerType', Compiling', Saving'
    PROVE  IInv'
<1>1. TypeOK'
  BY TypeParts, TypeSame DEF IInv, Compiles, TypeOK, StoredType, CompilerType, MachineType
<1>2. Reading'
  BY DEF IInv, Reading, Compiles
<1> QED
  BY <1>1, <1>2, StoredSame, MachineSame DEF IInv, Compiles

LEMMA StepHeader == IInv /\ header => IInv'
<1> SUFFICES ASSUME IInv, header PROVE IInv'
    OBVIOUS
<1>1. /\ Compiles /\ pc' = "compile" /\ p = 1 /\ p' = 4 /\ HeaderHere
      /\ UNCHANGED <<strings, code>>
  BY DEF header, Compiles, AtHeader
<1>2. CompilerType /\ CompilerType'
  BY <1>1, TypeParts DEF IInv, Compiles, CompilerType
<1>3. strings = <<>> /\ code = <<>>
  BY <1>1, <1>2 DEF IInv, Compiling, Compiles, CompilerType
<1>4. Compiling' /\ Saving'
  BY <1>1, <1>3 DEF Compiling, Saving, Parsed, Writes, Kind, HeaderHere, Compiles
<1> QED
  BY <1>1, <1>2, <1>4, CompilesInv

\* Behind the header, the tables hold the statements before p.
LEMMA AtStatement ==
    ASSUME IInv, pc = "compile", ~AtHeader
    PROVE  /\ CompilerType /\ Len(strings) \in Nat /\ p = 4 * Len(strings) + 4
           /\ Parsed(Len(strings)) /\ Len(code) = 2 * Len(strings) /\ Writes(code, Len(strings))
BY TypeParts DEF IInv, Compiling, AtHeader, CompilerType

LEMMA StepWriteStmt == IInv /\ write_stmt => IInv'
<1> SUFFICES ASSUME IInv, write_stmt PROVE IInv'
    OBVIOUS
<1> DEFINE k == Len(strings)
<1>1. /\ Compiles /\ pc' = "compile" /\ ~AtHeader /\ WriteHere /\ RoomForWrite /\ p' = p + 4
      /\ strings' = Append(strings, source[p + 2].str)
      /\ code' = code \o <<Word("PUSH", k), Word("WRITE", 0)>>
  BY DEF write_stmt, Compiles
<1>2. /\ CompilerType /\ k \in Nat /\ p = 4 * k + 4
      /\ Parsed(k) /\ Len(code) = 2 * k /\ Writes(code, k)
  BY <1>1, AtStatement DEF Compiles
<1>3. source[p + 2].str \in Strings
  BY <1>1 DEF IInv, Reading, WriteHere, Kind
<1>4. /\ strings' \in Seq(Strings) /\ Len(strings') = k + 1
      /\ strings'[k + 1] = source[4 * k + 6].str /\ \A i \in 1 .. k : strings'[i] = strings[i]
  BY <1>1, <1>2, <1>3 DEF CompilerType
<1>5. /\ code' \in Seq(Cells) /\ Len(code') = 2 * k + 2 /\ \A i \in 1 .. 2 * k : code'[i] = code[i]
      /\ code'[2 * k + 1] = Word("PUSH", k) /\ code'[2 * k + 2] = Word("WRITE", 0)
  <2>1. code \in Seq(Cells) /\ Word("PUSH", k) \in Cells /\ Word("WRITE", 0) \in Cells
    BY <1>2, CellTypes DEF CompilerType
  <2>2. code' = code \o <<Word("PUSH", k), Word("WRITE", 0)>>
    BY <1>1
  <2>3. /\ code' \in Seq(Cells) /\ Len(code') = Len(code) + 2 /\ \A i \in 1 .. Len(code) : code'[i] = code[i]
        /\ code'[Len(code) + 1] = Word("PUSH", k) /\ code'[Len(code) + 2] = Word("WRITE", 0)
    <3> DEFINE x == Word("PUSH", k)  y == Word("WRITE", 0)
    <3> HIDE DEF x, y
    <3>1. code \in Seq(Cells) /\ x \in Cells /\ y \in Cells /\ code' = code \o <<x, y>>
      BY <2>1, <2>2 DEF x, y
    <3>2. /\ code' \in Seq(Cells) /\ Len(code') = Len(code) + 2 /\ \A i \in 1 .. Len(code) : code'[i] = code[i]
          /\ code'[Len(code) + 1] = x /\ code'[Len(code) + 2] = y
      BY <3>1, AppendTwo
    <3> QED
      BY <3>2 DEF x, y
  <2> QED
    BY <1>2, <2>3
<1>6. CompilerType'
  BY <1>1, <1>2, <1>4, <1>5, Limits, SMTT(60) DEF CompilerType, RoomForWrite, Compiles
<1>7. /\ (Kind(1) = "main" /\ Kind(2) = ":" /\ Kind(3) = "[")'
      /\ \A i \in 1 .. k + 1 : /\ (Kind(4 * i) = "write" /\ Kind(4 * i + 1) = "(")'
                               /\ (Kind(4 * i + 2) = "string" /\ Kind(4 * i + 3) = ")")'
                               /\ strings'[i] = source'[4 * i + 2].str
  <2>1. source' = source
    BY <1>1 DEF Compiles
  <2>2. ASSUME NEW i \in 1 .. k
        PROVE  /\ Kind(4 * i) = "write" /\ Kind(4 * i + 1) = "("
               /\ Kind(4 * i + 2) = "string" /\ Kind(4 * i + 3) = ")"
               /\ strings'[i] = source[4 * i + 2].str
    BY <1>2, <1>4 DEF Parsed
  <2>3. ASSUME NEW i, i = k + 1
        PROVE  /\ Kind(4 * i) = "write" /\ Kind(4 * i + 1) = "("
               /\ Kind(4 * i + 2) = "string" /\ Kind(4 * i + 3) = ")"
               /\ strings'[i] = source[4 * i + 2].str
    <3>1. 4 * i = p /\ 4 * i + 1 = p + 1 /\ 4 * i + 2 = p + 2 /\ 4 * i + 3 = p + 3 /\ 4 * i + 2 = 4 * k + 6
      BY <1>2, <2>3
    <3> QED
      BY <1>1, <1>4, <2>3, <3>1 DEF WriteHere
  <2>4. \A i \in 1 .. k + 1 : i \in 1 .. k \/ i = k + 1
    BY <1>2
  <2>5. \A i \in 1 .. k + 1 : /\ Kind(4 * i) = "write" /\ Kind(4 * i + 1) = "("
                              /\ Kind(4 * i + 2) = "string" /\ Kind(4 * i + 3) = ")"
                              /\ strings'[i] = source[4 * i + 2].str
    BY <2>2, <2>3, <2>4
  <2>6. Kind(1) = "main" /\ Kind(2) = ":" /\ Kind(3) = "["
    BY <1>2 DEF Parsed
  <2> QED
    BY <2>1, <2>5, <2>6 DEF Kind
<1>8. Writes(code', k + 1)
  BY <1>2, <1>5, WritesKept, WritesGrows
<1>9. Compiling' /\ Saving'
  <2>1. Len(strings') = k + 1 /\ p' = 4 * (k + 1) + 4 /\ Len(code') = 2 * (k + 1)
    BY <1>1, <1>2, <1>4, <1>5
  <2>2. Parsed(Len(strings))'
    BY <1>7, <2>1 DEF Parsed
  <2>3. Writes(code, Len(strings))'
    BY <1>8, <2>1 DEF Writes
  <2> QED
    BY <1>1, <2>1, <2>2, <2>3 DEF Compiling, Saving
<1> QED
  BY <1>1, <1>6, <1>9, CompilesInv

LEMMA StepClose == IInv /\ close => IInv'
<1> SUFFICES ASSUME IInv, close PROVE IInv'
    OBVIOUS
<1> DEFINE k == Len(strings)
<1>1. /\ Compiles /\ pc' = "save" /\ ~AtHeader /\ Kind(p) = "]" /\ RoomForEnd /\ p' = p + 1
      /\ strings' = strings /\ code' = Append(code, Word("HALT", 0))
  BY DEF close, Compiles
<1>2. /\ CompilerType /\ k \in Nat /\ p = 4 * k + 4
      /\ Parsed(k) /\ Len(code) = 2 * k /\ Writes(code, k)
  BY <1>1, AtStatement DEF Compiles
<1>3. /\ code' \in Seq(Cells) /\ Len(code') = 2 * k + 1 /\ code'[2 * k + 1] = Word("HALT", 0)
      /\ \A i \in 1 .. 2 * k : code'[i] = code[i]
  <2>1. code \in Seq(Cells) /\ Word("HALT", 0) \in Cells
    BY <1>2, CellTypes DEF CompilerType
  <2> QED
    BY <1>1, <1>2, <2>1, AppendOne, SMTT(60)
<1>4. CompilerType'
  BY <1>1, <1>2, <1>3, Limits DEF CompilerType, RoomForEnd, Compiles
<1>5. Parsed(k)' /\ (Kind(4 * k + 4) = "]")'
  BY <1>1, <1>2 DEF Parsed, Kind, Compiles
<1>6. Ended(code', k)
  BY <1>2, <1>3, WritesKept DEF Ended
<1>7. Compiling' /\ Saving'
  BY <1>1, <1>2, <1>3, <1>5, <1>6, Limits DEF Compiling, Saving, RoomForEnd
<1> QED
  BY <1>1, <1>4, <1>7, CompilesInv

\* When the compiler is done, it has forgotten its variables.
LEMMA StepFail == IInv /\ compile_fail => IInv'
<1> SUFFICES ASSUME IInv, compile_fail PROVE IInv'
    OBVIOUS
<1>1. pc' = "shell" /\ Forgotten /\ UNCHANGED stored /\ UNCHANGED machine
  BY DEF compile_fail
<1>2. TypeOK'
  BY <1>1, TypeParts, TypeSame, ForgottenType DEF IInv, TypeOK, StoredType, CompilerType, MachineType
<1> QED
  BY <1>1, <1>2, ForgottenInv, StoredSame, MachineSame DEF IInv
-----------------------------------------------------------------------------
(* The .ca file *)

LEMMA Concat ==
    ASSUME NEW S, NEW c \in Seq(S), NEW d \in Seq(S), NEW e, e = c \o d
    PROVE  /\ e \in Seq(S) /\ Len(e) = Len(c) + Len(d)
           /\ \A i \in 1 .. Len(c) : e[i] = c[i]
           /\ \A i \in 1 .. Len(d) : e[Len(c) + i] = d[i]
OBVIOUS

\* What notc_compile has in ca[] when it is done.
LEMMA OutputIsTheFile ==
    ASSUME IInv, pc = "save"
    PROVE  Output \in Files /\ Len(Output.body) <= BufMax /\ IsFileOf(Output, strings)
<1> DEFINE n == Len(strings)
<1>1. /\ CompilerType /\ n \in Nat /\ Len(code) = 2 * n + 1 /\ Ended(code, n)
      /\ Len(code) + n <= BufMax
  BY TypeParts DEF IInv, Saving, CompilerType
<1>2. StringTable \in Seq(Cells) /\ Len(StringTable) = n
  <2>1. \A i \in 1 .. n : StringCell(strings[i]) \in Cells
    BY <1>1, CellTypes DEF CompilerType
  <2>2. StringTable \in [1 .. n -> Cells]
    BY <2>1 DEF StringTable
  <2> QED
    BY <1>1, <2>2
<1>3. \A i \in 1 .. n : StringTable[i] = StringCell(strings[i])
  BY DEF StringTable
<1> DEFINE body == code \o StringTable
<1>4. /\ body \in Seq(Cells) /\ Len(body) = 3 * n + 1
      /\ \A i \in 1 .. 2 * n + 1 : body[i] = code[i]
      /\ \A i \in 1 .. n : body[2 * n + 1 + i] = StringTable[i]
  <2>1. code \in Seq(Cells)
    BY <1>1 DEF CompilerType
  <2>2. body = code \o StringTable
    OBVIOUS
  <2> HIDE DEF body
  <2>3. /\ body \in Seq(Cells) /\ Len(body) = Len(code) + Len(StringTable)
        /\ \A i \in 1 .. Len(code) : body[i] = code[i]
        /\ \A i \in 1 .. Len(StringTable) : body[Len(code) + i] = StringTable[i]
    <3> DEFINE tab == StringTable
    <3>1. tab \in Seq(Cells) /\ body = code \o tab
      BY <1>2, <2>2
    <3> HIDE DEF tab
    <3>2. /\ body \in Seq(Cells) /\ Len(body) = Len(code) + Len(tab)
          /\ \A i \in 1 .. Len(code) : body[i] = code[i]
          /\ \A i \in 1 .. Len(tab) : body[Len(code) + i] = tab[i]
      BY <2>1, <3>1, Concat
    <3> QED
      BY <3>2 DEF tab
  <2>4. Len(code) = 2 * n + 1 /\ Len(StringTable) = n
    BY <1>1, <1>2
  <2> QED
    BY <1>1, <2>3, <2>4
<1>5. /\ Output.body = body /\ Output.hdr \in Headers /\ Output.hdr.magic
      /\ Output.hdr.code_len = 2 * n + 1 /\ Output.hdr.strtab_off = 2 * n + 1 /\ Output.hdr.strtab_len = n
  BY <1>1 DEF Output, Headers
<1> HIDE DEF body
<1>6. Output \in Files
  <2>1. Output = [hdr |-> Output.hdr, body |-> body]
    BY <1>5 DEF Output
  <2> QED
    BY <1>4, <1>5, <2>1 DEF Files
<1>7. Ended(body, n)
  <2>1. Writes(body, n)
    BY <1>1, <1>4, WritesKept DEF Ended
  <2> QED
    BY <1>1, <1>4, <2>1 DEF Ended
<1>8. n <= NOTC_MAX_STRINGS /\ 2 * n + 1 <= NOTC_MAX_CODE
  BY <1>1 DEF CompilerType
<1>9. \A i \in 1 .. n : body[2 * n + 1 + i] = StringCell(strings[i])
  BY <1>3, <1>4
<1>10. Len(Output.body) = 3 * n + 1 /\ Len(Output.body) <= BufMax
  BY <1>1, <1>4, <1>5
<1>11. IsFileOf(Output, strings)
  BY <1>5, <1>7, <1>8, <1>9, <1>10 DEF IsFileOf
<1> QED
  BY <1>6, <1>10, <1>11

\* A part of it cannot be loaded.
LEMMA ShortFile ==
    ASSUME IInv, pc = "save", NEW m \in 0 .. Len(Output.body) - 1,
           NEW f, f = [Output EXCEPT !.body = SubSeq(@, 1, m)]
    PROVE  f \in Files /\ Len(f.body) <= BufMax /\ ~Loadable(f)
<1> DEFINE n == Len(strings)
<1>1. /\ Output \in Files /\ Len(Output.body) <= BufMax /\ IsFileOf(Output, strings) /\ n \in Nat
  BY OutputIsTheFile, TypeParts DEF IInv, CompilerType
<1>2. Output.body \in Seq(Cells) /\ Output = [hdr |-> Output.hdr, body |-> Output.body]
  BY <1>1 DEF Files
<1>3. f = [hdr |-> Output.hdr, body |-> SubSeq(Output.body, 1, m)]
  BY <1>2
<1>4. SubSeq(Output.body, 1, m) \in Seq(Cells) /\ Len(SubSeq(Output.body, 1, m)) = m
  BY <1>2
<1>5. f \in Files /\ f.hdr = Output.hdr /\ Len(f.body) = m
  BY <1>1, <1>3, <1>4 DEF Files
<1>6. f.hdr.strtab_off + f.hdr.strtab_len = Len(Output.body)
  BY <1>1, <1>5 DEF IsFileOf
<1> QED
  BY <1>1, <1>2, <1>5, <1>6, Limits DEF Loadable

LEMMA StepSave == IInv /\ save => IInv'
<1> SUFFICES ASSUME IInv, save PROVE IInv'
    OBVIOUS
<1>1. pc = "save" /\ pc' = "shell" /\ Forgotten /\ UNCHANGED machine /\ text' = strings
  BY DEF save
<1>2. strings \in Seq(Strings)
  BY DEF IInv, TypeOK
<1>3. StoredType' /\ Storing'
  <2>1. CASE file' = Output /\ origin' = "whole"
    BY <1>1, <1>2, <2>1, OutputIsTheFile DEF StoredType, Storing
  <2>2. CASE \E m \in 0 .. Len(Output.body) - 1 :
                file' = [Output EXCEPT !.body = SubSeq(@, 1, m)] /\ origin' = "short"
    BY <1>1, <1>2, <2>2, ShortFile DEF StoredType, Storing
  <2>3. CASE file' = [hdr |-> NoHeader, body |-> <<>>] /\ origin' = "short"
    <3>1. file' \in Files /\ Len(file'.body) = 0 /\ ~file'.hdr.magic
      BY <2>3 DEF Files, NoHeader, Headers
    <3> QED
      BY <1>1, <1>2, <2>3, <3>1, Limits DEF StoredType, Storing, Loadable
  <2> QED
    BY <2>1, <2>2, <2>3 DEF save
<1>4. TypeOK'
  BY <1>1, <1>3, TypeParts, TypeSame, ForgottenType DEF IInv, TypeOK, StoredType, CompilerType, MachineType
<1> QED
  BY <1>1, <1>3, <1>4, ForgottenInv, MachineSame DEF IInv

LEMMA StepSaveFails == IInv /\ save_fails => IInv'
<1> SUFFICES ASSUME IInv, save_fails PROVE IInv'
    OBVIOUS
<1>1. pc' = "shell" /\ Forgotten /\ UNCHANGED stored /\ UNCHANGED machine
  BY DEF save_fails
<1>2. TypeOK'
  BY <1>1, TypeParts, TypeSame, ForgottenType DEF IInv, TypeOK, StoredType, CompilerType, MachineType
<1> QED
  BY <1>1, <1>2, ForgottenInv, StoredSame, MachineSame DEF IInv

LEMMA StepReplace == IInv /\ replace => IInv'
<1> SUFFICES ASSUME IInv, replace PROVE IInv'
    OBVIOUS
<1>1. /\ file' \in Foreign /\ origin' = "foreign" /\ text' = <<>>
      /\ UNCHANGED pc /\ UNCHANGED compiler /\ UNCHANGED machine
  BY DEF replace
<1>2. StoredType' /\ Storing'
  <2>1. file' \in Files /\ Len(file'.body) <= BufMax
    BY <1>1, NotCAssumption
  <2> QED
    BY <1>1, <2>1 DEF StoredType, Storing
<1>3. TypeOK'
  BY <1>1, <1>2, TypeParts, TypeSame DEF IInv, TypeOK, StoredType, CompilerType, MachineType
<1> QED
  BY <1>1, <1>2, <1>3, CompilerSame, MachineSame DEF IInv
-----------------------------------------------------------------------------
(* The interpreter *)

\* A step of run leaves the compiler and the files alone.
Runs == pc' \in {"shell", "run"} /\ pc \in {"shell", "run"} /\ UNCHANGED compiler /\ UNCHANGED stored
LEMMA RunsInv ==
    ASSUME IInv, Runs, MachineType', Executing', ShortNeverRuns', PrintsTheSource'
    PROVE  IInv'
<1>1. TypeOK'
  BY TypeParts, TypeSame DEF IInv, Runs, TypeOK, StoredType, CompilerType, MachineType
<1>2. Reading' /\ Compiling' /\ Saving'
  BY DEF IInv, Runs, compiler, Reading, Compiling, Saving
<1> QED
  BY <1>1, <1>2, StoredSame DEF IInv, Runs

LEMMA Length == ASSUME NEW S, NEW m \in Nat, NEW q \in [1 .. m -> S]
                PROVE  q \in Seq(S) /\ Len(q) = m
OBVIOUS

LEMMA WholeIsLoadable ==
    ASSUME NEW f \in Files, NEW t \in Seq(Strings), IsFileOf(f, t)
    PROVE  Loadable(f)
BY DEF Loadable, IsFileOf

\* The whole file of a program is loaded as that program.
Whole(f, t) == f \in Files /\ Len(f.body) <= BufMax /\ t \in Seq(Strings) /\ IsFileOf(f, t)
Holds(d, f) == d \in [1 .. BufMax -> Cells] /\ \A i \in 1 .. Len(f.body) : d[i] = f.body[i]

LEMMA LoadsCode ==
    ASSUME NEW f, NEW t, Whole(f, t), NEW d, Holds(d, f), NEW stray,
           NEW c, c = LoadCode(d, f.hdr.code_len, stray)
    PROVE  IsCodeOf(c, t)
<1> DEFINE n == Len(t)
<1>1. /\ n \in Nat /\ f.hdr.code_len = 2 * n + 1 /\ Len(f.body) = 3 * n + 1 /\ Len(f.body) <= BufMax
      /\ Ended(f.body, n)
  BY DEF Whole, IsFileOf
<1>2. c = [i \in 1 .. 2 * n + 1 |-> d[i]]
  BY <1>1, Limits DEF LoadCode
<1>3. Len(c) = 2 * n + 1 /\ \A i \in 1 .. 2 * n + 1 : c[i] = f.body[i]
  <2>1. \A i \in 1 .. 2 * n + 1 : i \in 1 .. Len(f.body) /\ i \in 1 .. BufMax
    BY <1>1, Limits
  <2>2. \A i \in 1 .. 2 * n + 1 : c[i] = f.body[i] /\ d[i] \in Cells
    BY <1>2, <2>1 DEF Holds
  <2>3. c \in [1 .. 2 * n + 1 -> Cells] /\ 2 * n + 1 \in Nat
    BY <1>1, <1>2, <2>2
  <2>4. Len(c) = 2 * n + 1
    BY <2>3, Length
  <2> QED
    BY <2>2, <2>4
<1>4. Writes(c, n)
  BY <1>1, <1>3, WritesKept DEF Ended
<1> QED
  BY <1>1, <1>3, <1>4 DEF Ended, IsCodeOf

LEMMA LoadsStrings ==
    ASSUME NEW f, NEW t, Whole(f, t), NEW d, Holds(d, f), NEW s \in LoadStrings(d, f.hdr)
    PROVE  AreStringsOf(s, t)
<1> DEFINE n == Len(t)
<1>1. /\ n \in Nat /\ f.hdr.strtab_off = 2 * n + 1 /\ f.hdr.strtab_len = n /\ n <= NOTC_MAX_STRINGS
      /\ Len(f.body) = 3 * n + 1 /\ Len(f.body) <= BufMax
      /\ \A i \in 1 .. n : f.body[2 * n + 1 + i] = StringCell(t[i])
  BY DEF Whole, IsFileOf
<1>2. ASSUME NEW i \in 1 .. n
      PROVE  2 * n + 1 + i \in DOMAIN d /\ d[2 * n + 1 + i] = StringCell(t[i])
  <2>1. 2 * n + 1 + i \in 1 .. Len(f.body) /\ 2 * n + 1 + i \in 1 .. BufMax
    BY <1>1, Limits
  <2> QED
    BY <1>1, <2>1 DEF Holds
<1>3. ASSUME NEW i \in 1 .. n PROVE InStep(d, f.hdr, i)
  <2>1. \A j \in 1 .. i : j \in 1 .. n
    BY <1>1
  <2>2. \A j \in 1 .. n : StringCell(t[j]).op = "string"
    BY DEF StringCell
  <2>3. \A j \in 1 .. i : 2 * n + 1 + j \in DOMAIN d /\ d[2 * n + 1 + j].op = "string"
    BY <1>2, <2>1, <2>2
  <2> QED
    BY <1>1, <2>3 DEF InStep
<1>4. InStep(d, f.hdr, n)
  <2>1. CASE n = 0
    BY <2>1 DEF InStep
  <2>2. CASE n # 0
    BY <1>1, <1>3, <2>2
  <2> QED
    BY <2>1, <2>2
<1>5. \E m \in 0 .. NOTC_MAX_STRINGS : s \in [1 .. m -> Strings \cup {NoString}]
  BY DEF LoadStrings
<1>6. Len(s) \in Nat /\ Len(s) <= n
  <2>1. Len(s) \in Nat
    BY <1>5, Limits, Length
  <2> QED
    BY <1>1, <1>4, <2>1 DEF LoadStrings
<1>7. ASSUME NEW i \in 1 .. n PROVE i <= Len(s) /\ s[i] = t[i]
  <2>1. i \in 1 .. f.hdr.strtab_len /\ i <= NOTC_MAX_STRINGS
    BY <1>1, Limits
  <2>2. i <= Len(s) /\ s[i] = d[2 * n + 1 + i].str
    BY <1>1, <1>3, <2>1 DEF LoadStrings
  <2>3. StringCell(t[i]).str = t[i]
    BY DEF StringCell
  <2> QED
    BY <1>2, <2>2, <2>3
<1> QED
  BY <1>1, <1>6, <1>7 DEF AreStringsOf

\* Whatever the file, what is loaded fits into the tables.
LEMMA LoadTypes ==
    ASSUME NEW f \in Files, Len(f.body) <= BufMax, Loadable(f),
           NEW d \in [1 .. BufMax -> Cells], NEW stray \in Cells,
           NEW c, c = LoadCode(d, f.hdr.code_len, stray), NEW s \in LoadStrings(d, f.hdr)
    PROVE  /\ c \in Seq(Cells) /\ Len(c) <= NOTC_MAX_CODE
           /\ s \in Seq(Strings \cup {NoString}) /\ Len(s) <= NOTC_MAX_STRINGS
<1>1. f.hdr.code_len \in Nat
  BY DEF Files, Headers
<1>2. c \in [1 .. f.hdr.code_len -> Cells]
  BY <1>1, Limits DEF LoadCode
<1>3. c \in Seq(Cells) /\ Len(c) = f.hdr.code_len
  BY <1>1, <1>2, Length
<1>4. PICK m \in 0 .. NOTC_MAX_STRINGS : s \in [1 .. m -> Strings \cup {NoString}]
  BY DEF LoadStrings
<1>5. s \in Seq(Strings \cup {NoString}) /\ Len(s) = m
  BY <1>4, Limits, Length
<1> QED
  BY <1>3, <1>4, <1>5, Limits DEF Loadable

LEMMA StepLoad == IInv /\ notc_load => IInv'
<1> SUFFICES ASSUME IInv, notc_load PROVE IInv'
    OBVIOUS
<1>1. /\ Runs /\ data' = Read(file.body)
      /\ screen' = <<>> /\ ran' = [origin |-> origin, text |-> text]
      /\ result' = IF Loadable(file) THEN "running" ELSE "refused"
      /\ pc' = IF Loadable(file) THEN "run" ELSE "shell"
  BY DEF notc_load, Runs
<1>2. StoredType /\ MachineType /\ Storing
  BY TypeParts DEF IInv
<1>3. file \in Files /\ file.body \in Seq(Cells) /\ Len(file.body) <= BufMax /\ text \in Seq(Strings)
  BY <1>2 DEF StoredType, Files
<1>4. /\ data' \in [1 .. BufMax -> Cells]
      /\ \A i \in 1 .. Len(file.body) : data'[i] = file.body[i]
  BY <1>1, <1>2, <1>3, Limits DEF Read, MachineType
<1>5. /\ screen' \in Seq(Strings \cup {NoString}) /\ screen' = <<>>
      /\ result' \in {"none", "running", "done", "error", "refused"}
      /\ ran'.origin = origin /\ ran'.text = text
      /\ ran'.origin \in {"none", "whole", "short", "foreign"} /\ ran'.text \in Seq(Strings)
  BY <1>1, <1>2 DEF StoredType
<1>6. CASE Loadable(file)
  <2>1. PICK stray \in {Word("HALT", 0), Word("WRITE", 0)}, s \in LoadStrings(data', file.hdr) :
               prog' = [code |-> LoadCode(data', file.hdr.code_len, stray), strings |-> s]
    BY <1>6 DEF notc_load
  <2>2. stray \in Cells
    BY CellTypes
  <2>3. /\ prog'.code = LoadCode(data', file.hdr.code_len, stray)
        /\ prog'.strings \in LoadStrings(data', file.hdr)
        /\ ip' = 1 /\ stack' = <<>> /\ result' = "running" /\ pc' = "run"
    BY <1>1, <1>6, <2>1 DEF notc_load
  <2>4. /\ prog'.code \in Seq(Cells) /\ Len(prog'.code) <= NOTC_MAX_CODE
        /\ prog'.strings \in Seq(Strings \cup {NoString}) /\ Len(prog'.strings) <= NOTC_MAX_STRINGS
    BY <1>3, <1>4, <1>6, <2>2, <2>3, LoadTypes
  <2>5. MachineType'
    BY <1>4, <1>5, <2>3, <2>4, Limits DEF MachineType
  <2>6. ASSUME origin = "whole"
        PROVE  Loaded(text)' /\ Between(text)'
    <3>1. IsFileOf(file, text)
      BY <1>2, <2>6 DEF Storing
    <3>2. Whole(file, text) /\ Holds(data', file)
      BY <1>3, <1>4, <3>1 DEF Whole, Holds
    <3>3. text' = text
      BY <1>1 DEF Runs, stored
    <3>4. Loaded(text)'
      <4>1. IsCodeOf(prog'.code, text)
        BY <2>3, <3>2, LoadsCode
      <4>2. AreStringsOf(prog'.strings, text)
        BY <2>3, <3>2, LoadsStrings
      <4> QED
        BY <3>3, <4>1, <4>2 DEF Loaded, IsCodeOf, AreStringsOf, Ended, Writes
    <3>5. 0 \in 0 .. Len(text) /\ Len(screen') = 0 /\ screen' = SubSeq(text, 1, 0) /\ ip' = 2 * 0 + 1
      BY <1>3, <1>5, <2>3
    <3> QED
      BY <2>3, <3>3, <3>4, <3>5 DEF Between
  <2>7. Executing'
    BY <1>1, <1>5, <2>3, <2>6 DEF Executing, Loaded, Between, Runs, stored
  <2>8. ShortNeverRuns'
    BY <1>2, <1>5, <1>6 DEF ShortNeverRuns, Storing
  <2>9. PrintsTheSource'
    <3>1. screen' = SubSeq(ran'.text, 1, Len(screen'))
      BY <1>5
    <3> QED
      BY <2>3, <3>1 DEF PrintsTheSource
  <2> QED
    BY <1>1, <2>5, <2>7, <2>8, <2>9, RunsInv
<1>7. CASE ~Loadable(file)
  <2>1. result' = "refused" /\ pc' = "shell" /\ UNCHANGED <<prog, ip, stack>>
    BY <1>1, <1>7 DEF notc_load
  <2>2. MachineType'
    BY <1>2, <1>4, <1>5, <2>1 DEF MachineType
  <2>3. ran'.origin # "whole"
    <3>1. ASSUME origin = "whole" PROVE FALSE
      <4>1. IsFileOf(file, text)
        BY <1>2, <3>1 DEF Storing
      <4>2. Loadable(file)
        BY <1>3, <4>1, WholeIsLoadable
      <4> QED
        BY <1>7, <4>2
    <3> QED
      BY <1>5, <3>1
  <2>4. Executing' /\ ShortNeverRuns' /\ PrintsTheSource'
    BY <2>1, <2>3 DEF Executing, ShortNeverRuns, PrintsTheSource
  <2> QED
    BY <1>1, <2>2, <2>4, RunsInv
<1> QED
  BY <1>6, <1>7

LEMMA CutLast ==
    ASSUME NEW S, NEW q \in Seq(S), Len(q) # 0
    PROVE  SubSeq(q, 1, Len(q) - 1) \in Seq(S) /\ Len(SubSeq(q, 1, Len(q) - 1)) = Len(q) - 1
OBVIOUS

\* A program from a whole file is at a PUSH, at its WRITE or at the end.
AtPush(t, k)  == k < Len(t) /\ ip = 2 * k + 1 /\ stack = <<>> /\ Op = "PUSH" /\ prog.code[ip].arg = k
AtWrite(t, k) == /\ k < Len(t) /\ ip = 2 * k + 2 /\ stack = <<k>> /\ Op = "WRITE"
                 /\ CanWrite /\ Top = k /\ prog.strings[k + 1] = t[k + 1]
AtEnd(t, k)   == k = Len(t) /\ Op = "HALT"
LEMMA AtInstruction ==
    ASSUME IInv, pc = "run", ran.origin = "whole"
    PROVE  /\ Running /\ ran.text \in Seq(Strings)
           /\ \E k \in 0 .. Len(ran.text) :
                 /\ Len(screen) = k /\ screen = SubSeq(ran.text, 1, k)
                 /\ AtPush(ran.text, k) \/ AtWrite(ran.text, k) \/ AtEnd(ran.text, k)
<1> DEFINE t == ran.text
<1>1. t \in Seq(Strings) /\ prog.code \in Seq(Cells)
  BY TypeParts DEF IInv, MachineType
<1>2. /\ Len(prog.code) = 2 * Len(t) + 1 /\ Ended(prog.code, Len(t))
      /\ Len(prog.strings) = Len(t) /\ \A i \in 1 .. Len(t) : prog.strings[i] = t[i]
      /\ Between(t)
  BY DEF IInv, Executing, Loaded, IsCodeOf, AreStringsOf
<1>3. PICK k \in 0 .. Len(t) :
         /\ Len(screen) = k /\ screen = SubSeq(t, 1, k)
         /\ \/ ip = 2 * k + 1 /\ stack = <<>>
            \/ k < Len(t) /\ ip = 2 * k + 2 /\ stack = <<k>>
  BY <1>2 DEF Between
<1>4. ip \in DOMAIN prog.code
  BY <1>1, <1>2, <1>3
<1>5. ASSUME k < Len(t), ip = 2 * k + 1, stack = <<>>
      PROVE  AtPush(t, k)
  <2>1. k + 1 \in 1 .. Len(t) /\ 2 * (k + 1) - 1 = ip /\ k + 1 - 1 = k
    BY <1>1, <1>5
  <2>2. prog.code[ip] = Word("PUSH", k)
    BY <1>2, <2>1 DEF Ended, Writes
  <2>3. Op = "PUSH" /\ prog.code[ip].arg = k
    BY <2>2 DEF Op, Word
  <2> QED
    BY <1>5, <2>3 DEF AtPush
<1>6. ASSUME k < Len(t), ip = 2 * k + 2, stack = <<k>>
      PROVE  AtWrite(t, k)
  <2>1. k + 1 \in 1 .. Len(t) /\ 2 * (k + 1) = ip
    BY <1>1, <1>6
  <2>2. prog.code[ip] = Word("WRITE", 0) /\ prog.strings[k + 1] = t[k + 1]
    BY <1>2, <2>1 DEF Ended, Writes
  <2>3. stack # <<>> /\ Top = k /\ k < Len(prog.strings)
    BY <1>2, <1>6 DEF Top
  <2>4. Op = "WRITE"
    BY <2>2 DEF Op, Word
  <2> QED
    BY <1>6, <2>2, <2>3, <2>4 DEF AtWrite, CanWrite
<1>7. ASSUME k = Len(t), ip = 2 * k + 1
      PROVE  AtEnd(t, k)
  <2>1. prog.code[ip] = Word("HALT", 0)
    BY <1>2, <1>7 DEF Ended
  <2>2. Op = "HALT"
    BY <2>1 DEF Op, Word
  <2> QED
    BY <1>7, <2>2 DEF AtEnd
<1>8. AtPush(t, k) \/ AtWrite(t, k) \/ AtEnd(t, k)
  BY <1>1, <1>3, <1>5, <1>6, <1>7
<1> QED
  BY <1>1, <1>3, <1>4, <1>8 DEF Running

\* What was cut does not get this far.
LEMMA RunningIsNotShort == IInv /\ pc = "run" => ran.origin # "short" /\ result = "running"
BY DEF IInv, Executing, ShortNeverRuns

LEMMA StepPush == IInv /\ run_push => IInv'
<1> SUFFICES ASSUME IInv, run_push PROVE IInv'
    OBVIOUS
<1>1. /\ Runs /\ pc = "run" /\ pc' = "run" /\ Running /\ Op = "PUSH" /\ Len(stack) < StackMax
      /\ stack' = Append(stack, prog.code[ip].arg) /\ ip' = ip + 1
      /\ UNCHANGED <<data, prog, screen, result, ran>>
  BY DEF run_push, Runs, Running
<1>2. MachineType
  BY TypeParts DEF IInv
<1>3. MachineType'
  <2>1. prog.code[ip].arg \in Nat
    <3>1. prog.code[ip] \in Cells
      BY <1>1, <1>2 DEF MachineType, Running
    <3> QED
      BY <3>1 DEF Cells
  <2>2. stack' \in Seq(Nat) /\ Len(stack') = Len(stack) + 1 /\ ip' \in Nat /\ Len(stack) \in Nat
    BY <1>1, <1>2, <2>1 DEF MachineType
  <2> QED
    BY <1>1, <1>2, <2>2, Limits DEF MachineType
<1>4. ShortNeverRuns' /\ PrintsTheSource'
  BY <1>1 DEF IInv, ShortNeverRuns, PrintsTheSource
<1>5. ASSUME ran.origin = "whole" PROVE Between(ran.text)'
  <2>1. PICK k \in 0 .. Len(ran.text) :
           /\ Len(screen) = k /\ screen = SubSeq(ran.text, 1, k)
           /\ AtPush(ran.text, k) \/ AtWrite(ran.text, k) \/ AtEnd(ran.text, k)
    BY <1>1, <1>5, AtInstruction
  <2>2. AtPush(ran.text, k)
    BY <1>1, <2>1 DEF AtWrite, AtEnd
  <2>3. ip' = 2 * k + 2 /\ stack' = <<k>> /\ k < Len(ran.text)
    BY <1>1, <2>2 DEF AtPush
  <2> QED
    BY <1>1, <2>1, <2>3 DEF Between
<1>6. Executing'
  BY <1>1, <1>5, RunningIsNotShort DEF IInv, Executing, Loaded
<1> QED
  BY <1>1, <1>3, <1>4, <1>6, RunsInv

LEMMA OneMore ==
    ASSUME NEW S, NEW t \in Seq(S), NEW k \in Nat, k < Len(t)
    PROVE  Append(SubSeq(t, 1, k), t[k + 1]) = SubSeq(t, 1, k + 1)
OBVIOUS

LEMMA StepWrite == IInv /\ run_write => IInv'
<1> SUFFICES ASSUME IInv, run_write PROVE IInv'
    OBVIOUS
<1>1. /\ Runs /\ pc = "run" /\ pc' = "run" /\ Running /\ Op = "WRITE" /\ CanWrite
      /\ screen' = Append(screen, prog.strings[Top + 1])
      /\ stack' = SubSeq(stack, 1, Len(stack) - 1) /\ ip' = ip + 1
      /\ UNCHANGED <<data, prog, result, ran>>
  BY DEF run_write, Runs, Running
<1>2. MachineType
  BY TypeParts DEF IInv
<1>3. MachineType'
  <2>1. Len(stack) \in Nat \ {0} /\ Top \in Nat /\ Top + 1 \in 1 .. Len(prog.strings)
    BY <1>1, <1>2 DEF MachineType, CanWrite, Top
  <2>2. prog.strings[Top + 1] \in Strings \cup {NoString}
    BY <1>2, <2>1 DEF MachineType
  <2>3. screen' \in Seq(Strings \cup {NoString}) /\ ip' \in Nat
    BY <1>1, <1>2, <2>2 DEF MachineType
  <2>4. stack' \in Seq(Nat) /\ Len(stack') = Len(stack) - 1
    BY <1>1, <1>2, <2>1, CutLast DEF MachineType
  <2>5. Len(stack') <= StackMax
    BY <1>2, <2>1, <2>4, Limits DEF MachineType
  <2>6. UNCHANGED <<data, prog, result, ran>>
    BY <1>1
  <2> QED
    BY <1>2, <2>3, <2>4, <2>5, <2>6 DEF MachineType
<1>4. ShortNeverRuns' /\ result' = "running"
  BY <1>1, RunningIsNotShort DEF IInv, ShortNeverRuns
<1>5. ASSUME ran.origin = "whole"
      PROVE  Between(ran.text)' /\ screen' = SubSeq(ran.text, 1, Len(screen'))
  <2>1. PICK k \in 0 .. Len(ran.text) :
           /\ Len(screen) = k /\ screen = SubSeq(ran.text, 1, k)
           /\ AtPush(ran.text, k) \/ AtWrite(ran.text, k) \/ AtEnd(ran.text, k)
    BY <1>1, <1>5, AtInstruction
  <2>2. AtWrite(ran.text, k)
    BY <1>1, <2>1 DEF AtPush, AtEnd
  <2>3. ran.text \in Seq(Strings) /\ k \in Nat /\ k + 1 \in 0 .. Len(ran.text)
    BY <1>2, <2>1, <2>2 DEF AtWrite, MachineType
  <2>4. screen' = SubSeq(ran.text, 1, k + 1)
    BY <1>1, <2>1, <2>2, <2>3, OneMore DEF AtWrite
  <2>5. Len(screen') = k + 1
    BY <1>1, <1>2, <2>1 DEF MachineType
  <2>6. ip' = 2 * (k + 1) + 1 /\ stack' = <<>>
    BY <1>1, <2>2, <2>3 DEF AtWrite
  <2> QED
    BY <1>1, <2>3, <2>4, <2>5, <2>6 DEF Between
<1>6. Executing' /\ PrintsTheSource'
  BY <1>1, <1>4, <1>5 DEF IInv, Executing, Loaded, PrintsTheSource
<1> QED
  BY <1>1, <1>3, <1>4, <1>6, RunsInv

\* What both ways out of the interpreter's loop leave behind.
LEMMA EndsInv ==
    ASSUME IInv, pc = "run", NEW how \in {"done", "error"}, Ends(how),
           ran.origin = "whole" => how = "done" /\ screen = ran.text
    PROVE  IInv'
<1>1. /\ Runs /\ pc' = "shell" /\ result' = how /\ ip' = 0 /\ stack' = <<>>
      /\ prog' = [code |-> <<>>, strings |-> <<>>] /\ UNCHANGED <<data, screen, ran>>
  BY DEF Ends, Runs
<1>2. MachineType'
  <2>1. MachineType
    BY TypeParts DEF IInv
  <2>2. /\ prog'.code \in Seq(Cells) /\ Len(prog'.code) <= NOTC_MAX_CODE
        /\ prog'.strings \in Seq(Strings \cup {NoString}) /\ Len(prog'.strings) <= NOTC_MAX_STRINGS
        /\ ip' \in Nat /\ stack' \in Seq(Nat) /\ Len(stack') <= StackMax
    BY <1>1, Limits
  <2> QED
    BY <1>1, <2>1, <2>2 DEF MachineType
<1>3. Executing' /\ ShortNeverRuns' /\ PrintsTheSource'
  <2>1. PrintsTheSource /\ ran.origin # "short"
    BY RunningIsNotShort DEF IInv
  <2> QED
    BY <1>1, <2>1 DEF Executing, ShortNeverRuns, PrintsTheSource
<1> QED
  BY <1>1, <1>2, <1>3, RunsInv

LEMMA StepEnd == IInv /\ run_end => IInv'
<1> SUFFICES ASSUME IInv, run_end PROVE IInv'
    OBVIOUS
<1>1. pc = "run" /\ (Running => Op = "HALT") /\ Ends("done")
  BY DEF run_end
<1>2. ASSUME ran.origin = "whole" PROVE screen = ran.text
  <2>1. ran.text \in Seq(Strings) /\ \E k \in 0 .. Len(ran.text) :
           screen = SubSeq(ran.text, 1, k) /\ AtEnd(ran.text, k)
    BY <1>1, <1>2, AtInstruction DEF AtPush, AtWrite
  <2> QED
    BY <2>1 DEF AtEnd
<1> QED
  BY <1>1, <1>2, EndsInv

LEMMA StepError == IInv /\ run_error => IInv'
<1> SUFFICES ASSUME IInv, run_error PROVE IInv'
    OBVIOUS
<1>1. pc = "run" /\ Ends("error")
  BY DEF run_error, Running
<1>2. ran.origin # "whole"
  <2> SUFFICES ASSUME ran.origin = "whole" PROVE FALSE
      OBVIOUS
  <2>1. \E k \in 0 .. Len(ran.text) :
           AtPush(ran.text, k) \/ AtWrite(ran.text, k) \/ AtEnd(ran.text, k)
    BY <1>1, AtInstruction
  <2> QED
    BY <2>1, Limits DEF run_error, AtPush, AtWrite, AtEnd
<1> QED
  BY <1>1, <1>2, EndsInv
-----------------------------------------------------------------------------
(* Results *)

LEMMA StutterInv == IInv /\ UNCHANGED vars => IInv'
<1> SUFFICES ASSUME IInv, UNCHANGED vars PROVE IInv'
    OBVIOUS
<1>1. UNCHANGED <<pc, compiler>> /\ UNCHANGED stored /\ UNCHANGED machine
  BY DEF vars
<1>2. TypeOK'
  BY <1>1, TypeParts, TypeSame DEF IInv, TypeOK, StoredType, CompilerType, MachineType
<1> QED
  BY <1>1, <1>2, CompilerSame, StoredSame, MachineSame DEF IInv

LEMMA StepInv == IInv /\ [Next]_vars => IInv'
BY StepBegin, StepHeader, StepWriteStmt, StepClose, StepFail, StepSave, StepSaveFails, StepReplace,
   StepLoad, StepPush, StepWrite, StepEnd, StepError, StutterInv DEF Next

\* Every step of notc and of run keeps the invariant.
THEOREM NotCInvariant == Spec => []IInv
BY InitInv, StepInv, PTL DEF Spec

\* For all limits and every stack: notc_compile runs only on a stack that holds
\* its tables, and then they, ca[], data[], prog and the interpreter's stack hold
\* what is put into them, whatever the sources and the .ca files are.
THEOREM NotCTypeCorrect == Spec => []TypeOK
<1>1. IInv => TypeOK
  BY DEF IInv
<1> QED
  BY <1>1, NotCInvariant, PTL

\* What is read as a kind of token was written as one.
LEMMA KindIsWritten ==
    ASSUME Reading, NEW i \in Nat, Kind(i) \notin {"end", "other"}
    PROVE  i \in DOMAIN source /\ KindAt(written, i) = Kind(i) /\ written[i] = source[i]
BY DEF Reading, Kind, KindAt

\* notc compiles the whole source or nothing: when it saves a program, that is
\* the program of what was written, and none of its statements is missing,
\* although a long source is cut when it is read.
THEOREM NotCCompilesTheSource == Spec => []CompilesTheSource
<1>1. IInv => CompilesTheSource
  <2> SUFFICES ASSUME IInv, pc = "save"
               PROVE  IsProgram(written, Len(strings)) /\ strings = Written(written, Len(strings))
      BY DEF CompilesTheSource
  <2> DEFINE n == Len(strings)
  <2>1. /\ Reading /\ Parsed(n) /\ Kind(4 * n + 4) = "]" /\ n \in Nat /\ strings \in Seq(Strings)
    BY TypeParts DEF IInv, Saving, CompilerType
  <2>2. ASSUME NEW i \in 1 .. n
        PROVE  /\ KindAt(written, 4 * i) = "write" /\ KindAt(written, 4 * i + 1) = "("
               /\ KindAt(written, 4 * i + 2) = "string" /\ KindAt(written, 4 * i + 3) = ")"
               /\ strings[i] = written[4 * i + 2].str
    <3>1. /\ Kind(4 * i) = "write" /\ Kind(4 * i + 1) = "("
          /\ Kind(4 * i + 2) = "string" /\ Kind(4 * i + 3) = ")"
          /\ strings[i] = source[4 * i + 2].str
      BY <2>1 DEF Parsed
    <3>2. {4 * i, 4 * i + 1, 4 * i + 2, 4 * i + 3} \subseteq Nat
      BY <2>1
    <3> QED
      BY <2>1, <3>1, <3>2, KindIsWritten
  <2>3. KindAt(written, 1) = "main" /\ KindAt(written, 2) = ":" /\ KindAt(written, 3) = "["
    BY <2>1, KindIsWritten DEF Parsed
  <2>4. KindAt(written, 4 * n + 4) = "]"
    BY <2>1, KindIsWritten
  <2>5. IsProgram(written, n)
    BY <2>2, <2>3, <2>4 DEF IsProgram
  <2>6. strings = [i \in 1 .. n |-> strings[i]]
    BY <2>1
  <2>7. strings = Written(written, n)
    BY <2>2, <2>6 DEF Written
  <2> QED
    BY <2>5, <2>7
<1> QED
  BY <1>1, NotCInvariant, PTL

\* A program that fits into the buffers has been read to its end.
LEMMA FittingIsRead ==
    ASSUME Reading, written \in Seq(Tokens), NEW n \in Nat, IsProgram(written, n), Fits(n)
    PROVE  /\ \A i \in 1 .. 4 * n + 4 : KindAt(written, i) # "end" => Kind(i) = KindAt(written, i)
           /\ Kind(1) = "main" /\ Kind(2) = ":" /\ Kind(3) = "["
           /\ \A i \in 1 .. n : /\ Kind(4 * i) = "write" /\ Kind(4 * i + 1) = "("
                                /\ Kind(4 * i + 2) = "string" /\ Kind(4 * i + 3) = ")"
           /\ Kind(4 * n + 4) = "]"
<1>1. \A i \in 1 .. 4 * n + 4 : KindAt(written, i) # "end" => Kind(i) = KindAt(written, i)
  <2> SUFFICES ASSUME NEW i \in 1 .. 4 * n + 4, KindAt(written, i) # "end"
               PROVE  Kind(i) = KindAt(written, i)
    OBVIOUS
  <2>1. i \in DOMAIN written /\ i <= SourceMax
    BY Limits DEF KindAt, Fits
  <2> QED
    BY <2>1 DEF Reading, Kind, KindAt
<1>2. Kind(1) = "main" /\ Kind(2) = ":" /\ Kind(3) = "[" /\ Kind(4 * n + 4) = "]"
  <2>1. {1, 2, 3, 4 * n + 4} \subseteq 1 .. 4 * n + 4
    OBVIOUS
  <2> QED
    BY <1>1, <2>1 DEF IsProgram
<1>3. ASSUME NEW i \in 1 .. n
      PROVE  /\ Kind(4 * i) = "write" /\ Kind(4 * i + 1) = "("
             /\ Kind(4 * i + 2) = "string" /\ Kind(4 * i + 3) = ")"
  <2>1. {4 * i, 4 * i + 1, 4 * i + 2, 4 * i + 3} \subseteq 1 .. 4 * n + 4
    OBVIOUS
  <2> QED
    BY <1>1, <2>1 DEF IsProgram
<1> QED
  BY <1>1, <1>2, <1>3

\* notc refuses nothing but what is not a program or is too long for one of its
\* buffers: a program that fits is parsed to its ']', and every room it asks
\* for on the way is there.
THEOREM NotCRefusesOnlyNonPrograms == Spec => RefusesOnlyNonPrograms
<1>1. IInv /\ [Next]_vars =>
        [compile_fail => \A n \in 0 .. Len(written) : IsProgram(written, n) => ~Fits(n)]_vars
  <2> SUFFICES ASSUME IInv, compile_fail, NEW n \in 0 .. Len(written),
                      IsProgram(written, n), Fits(n)
               PROVE  FALSE
    OBVIOUS
  <2> DEFINE k == Len(strings)
  <2>1. /\ pc = "compile" /\ Reading /\ CompilerType /\ n \in Nat
        /\ IF AtHeader THEN ~HeaderHere
           ELSE ~(WriteHere /\ RoomForWrite) /\ ~(Kind(p) = "]" /\ RoomForEnd)
    BY TypeParts DEF IInv, compile_fail, CompilerType
  <2>2. /\ Kind(1) = "main" /\ Kind(2) = ":" /\ Kind(3) = "[" /\ Kind(4 * n + 4) = "]"
        /\ \A i \in 1 .. n : /\ Kind(4 * i) = "write" /\ Kind(4 * i + 1) = "("
                             /\ Kind(4 * i + 2) = "string" /\ Kind(4 * i + 3) = ")"
    BY <2>1, FittingIsRead DEF CompilerType
  <2>3. ~AtHeader
    BY <2>1, <2>2 DEF HeaderHere
  <2>4. /\ k \in Nat /\ p = 4 * k + 4 /\ Len(code) = 2 * k
        /\ \A i \in 1 .. k : Kind(4 * i) = "write"
    BY <2>1, <2>3, AtStatement DEF Parsed
  <2>5. k <= n
    <3>1. k > n => n + 1 \in 1 .. k /\ 4 * (n + 1) = 4 * n + 4
      BY <2>1, <2>4
    <3>2. k > n => Kind(4 * n + 4) = "write"
      BY <2>4, <3>1
    <3> QED
      BY <2>1, <2>2, <2>4, <3>2
  <2>6. CASE k < n
    <3>1. k + 1 \in 1 .. n /\ 4 * (k + 1) = p /\ {p, p + 1, p + 2, p + 3} \subseteq Nat
      BY <2>1, <2>4, <2>6
    <3>2. WriteHere
      BY <2>2, <3>1 DEF WriteHere
    <3>3. RoomForWrite
      BY <2>1, <2>4, <2>6, Limits DEF RoomForWrite, Fits
    <3> QED
      BY <2>1, <2>3, <3>2, <3>3
  <2>7. CASE k = n
    <3>1. RoomForEnd
      BY <2>1, <2>4, <2>7, Limits DEF RoomForEnd, Fits
    <3> QED
      BY <2>1, <2>2, <2>3, <2>4, <2>7, <3>1
  <2> QED
    BY <2>1, <2>4, <2>5, <2>6, <2>7
<1> QED
  BY <1>1, NotCInvariant, PTL DEF Spec, RefusesOnlyNonPrograms

\* A .ca file that was stored in part is refused: nothing of the program before
\* it in data[] is run in its place.
THEOREM NotCShortNeverRuns == Spec => []ShortNeverRuns
<1>1. IInv => ShortNeverRuns
  BY DEF IInv
<1> QED
  BY <1>1, NotCInvariant, PTL

\* run prints the strings of the source that notc has compiled, in their order,
\* all of them when it is done, and never an error.
THEOREM NotCPrintsTheSource == Spec => []PrintsTheSource
<1>1. IInv => PrintsTheSource
  BY DEF IInv
<1> QED
  BY <1>1, NotCInvariant, PTL
=============================================================================
