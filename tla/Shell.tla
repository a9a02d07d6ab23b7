-------------------------------- MODULE Shell --------------------------------
(***************************************************************************)
(* The shell of kmain.c between the line editor and FatFs: shell_line,     *)
(* which finds a redirection and takes a line apart, path_join, the        *)
(* working directory, and the commands on files.  A line and a path are    *)
(* sequences of symbols: a blank, ">", "/", ".", "..", the name of a       *)
(* command or a file, or a piece of text.  The volume is a tree of files,  *)
(* which is what the module Volume implements.  Commands that change and   *)
(* show nothing of it (help, ls, date, ...) and those on users are left    *)
(* out, and so are messages other than an error.                           *)
(***************************************************************************)
EXTENDS Readers

CONSTANTS Typed, ShortName, Invalid,   \* as in FatFs
          SymbolLen,   \* how many characters a symbol of a path has
          PathMax,     \* sizeof of every resolved path (256)
          SegMax,      \* size of segs[] (128)
          Lines,       \* the lines that are entered, each with what was meant by it
                       \* and the parts it is written of
          Paths, Texts,\* what FileTree's commands are about
          Prepared     \* the trees there may be, and how many lines are entered then

\* What a line is made of.
Symbols == DOMAIN SymbolLen
ASSUME ShellAssumption == /\ DOMAIN ShortName = Typed /\ Invalid \notin Typed
                          /\ {PathMax, SegMax} \subseteq Nat /\ PathMax > 2
                          /\ SymbolLen \in [Symbols -> Nat \ {0}]
                          /\ {"/", "\n"} \subseteq Symbols /\ SymbolLen["/"] = 1
                          /\ \A x \in Lines : x.line \in Seq(Symbols)
                          /\ \A t \in DOMAIN Prepared : Prepared[t] \in Nat

VARIABLES tree,        \* the node at each path, as in FileTree
          cwd,         \* as it is typed
          fs_mounted,
          screen,      \* what the last line has printed: characters and numbers
          said,        \* what was meant by it
          entered      \* how many lines are still entered

vars == <<tree, cwd, fs_mounted, screen, said, entered>>

FT == INSTANCE FileTree WITH durable <- tree, Trees <- DOMAIN Prepared
-----------------------------------------------------------------------------
(* Paths *)

\* The segments of a path, each a sequence of symbols: what is found so far, and
\* whether the last of it may go on.
SegChar(r, c) == IF c = "/" THEN [segs |-> r.segs, open |-> FALSE]
                 ELSE [segs |-> IF r.open THEN Append(Front(r.segs), Append(Last(r.segs), c))
                                          ELSE Append(r.segs, <<c>>),
                       open |-> TRUE]
Segments(path) == LET got[n \in 0 .. Len(path)] ==
                          IF n = 0 THEN [segs |-> <<>>, open |-> FALSE] ELSE SegChar(got[n - 1], path[n])
                  IN got[Len(path)].segs

\* path_join's stack of segments.
PopSeg_bug(segs) == IF Len(segs) > 1 THEN Front(segs) ELSE segs
PopSeg(segs) == IF Len(segs) > 0 THEN Front(segs) ELSE segs
TakeSeg(segs, seg) == CASE seg = <<".">>  -> segs
                        [] seg = <<"..">> -> PopSeg(segs)
                        [] seg \notin {<<".">>, <<"..">>} /\ Len(segs) < SegMax -> Append(segs, seg)
                        [] OTHER -> segs

Taken(ins) == LET taken[n \in 0 .. Len(ins)] ==
                      IF n = 0 THEN <<>> ELSE TakeSeg(taken[n - 1], ins[n])
              IN taken[Len(ins)]

Length(path) == LET upto[n \in 0 .. Len(path)] ==
                        IF n = 0 THEN 0 ELSE upto[n - 1] + SymbolLen[path[n]]
                IN upto[Len(path)]
Slashed(segs) == FlattenSeq([i \in DOMAIN segs |-> segs[i] \o <<"/">>])

\* How many of the segments get into out[].
FitsBehind_bug(off, seg) == off + Length(seg) < PathMax
FitsBehind(off, seg) == off + Length(seg) + 2 < PathMax
Fitting(segs) == CHOOSE n \in 0 .. Len(segs) :
                    /\ \A i \in 1 .. n : FitsBehind(1 + Length(Slashed(SubSeq(segs, 1, i - 1))), segs[i])
                    /\ n < Len(segs) => ~FitsBehind(1 + Length(Slashed(SubSeq(segs, 1, n))), segs[n + 1])

Joined(base, in) == IF in # <<>> /\ in[1] = "/" THEN in
                    ELSE IF Last(base) = "/" THEN base \o in ELSE base \o <<"/">> \o in
path_join(base, in) ==
    LET segs == Taken(Segments(Joined(base, in)))
        n    == Fitting(segs)
        out  == Slashed(SubSeq(segs, 1, n))
    IN <<"/">> \o (IF n = Len(segs) /\ n > 0 THEN Front(out) ELSE out)

\* FatFs takes a path up to the first blank, and "/" and a blank for no path.
UpToBlank(path) == SubSeq(path, 1, (CHOOSE n \in 0 .. Len(path) :
                       /\ \A i \in 1 .. n : path[i] # " "
                       /\ n < Len(path) => path[n + 1] = " "))
Short(seg) == IF Len(seg) = 1 /\ seg[1] \in Typed THEN ShortName[seg[1]] ELSE Invalid
follow_path(path) == LET p == UpToBlank(path) segs == Segments(p)
                     IN IF segs = <<>> /\ p # path THEN <<Invalid>>
                        ELSE [i \in DOMAIN segs |-> Short(segs[i])]
-----------------------------------------------------------------------------
(* FatFs: what its calls make of a tree *)

IsDir(p)  == p \in DOMAIN tree /\ tree[p].dir
IsFile(p) == p \in DOMAIN tree /\ ~tree[p].dir
HasPlace_bug(p) == p # <<>> /\ Last(p) # Invalid /\ Front(p) \in DOMAIN tree
HasPlace(p) == p # <<>> /\ Last(p) # Invalid /\ IsDir(Front(p))

f_mkdir(p)  == IF HasPlace(p) /\ p \notin DOMAIN tree THEN FT!With(p, FT!DirNode) ELSE tree
f_unlink_bug(p) == IF p # <<>> /\ p \in DOMAIN tree THEN FT!Without({p}) ELSE tree
f_unlink(p) == IF p # <<>> /\ p \in DOMAIN tree /\ FT!Under(p) = {p} THEN FT!Without({p}) ELSE tree
f_rename(p, q) ==
    IF p # <<>> /\ p \in DOMAIN tree /\ HasPlace(q) /\ q \notin DOMAIN tree
    THEN [r \in (DOMAIN tree \ FT!Under(p)) \cup {FT!Moved(p, q, s) : s \in FT!Under(p)} |->
             IF IsPrefix(q, r) THEN tree[FT!Moved(q, p, r)] ELSE tree[r]]
    ELSE tree

Contents(p) == IF IsFile(p) THEN tree[p].data ELSE <<>>
\* f_open for writing, the f_writes and f_close.
Stored(p, data) == IF HasPlace(p) /\ ~IsDir(p) THEN FT!With(p, FT!FileNode(data)) ELSE tree
-----------------------------------------------------------------------------
(* Lines *)

Rest(s, n) == SubSeq(s, n, Len(s))
\* while (*arg == ' ') arg++
Trimmed(s) == LET n == CHOOSE n \in 0 .. Len(s) : /\ \A i \in 1 .. n : s[i] = " "
                                                  /\ n < Len(s) => s[n + 1] # " "
              IN Rest(s, n + 1)
TrimmedEnd(s) == Reverse(Trimmed(Reverse(s)))
str_prefix(line, p) == IsPrefix(p, line)

\* The first word of arg and what comes after it.
Word(arg) == SelectInSeq(arg, LAMBDA x : x = " ")
FirstWord(arg) == IF Word(arg) = 0 THEN arg ELSE SubSeq(arg, 1, Word(arg) - 1)
AfterWord(arg) == IF Word(arg) = 0 THEN <<>> ELSE Rest(arg, Word(arg))

\* The scan for '>' stops before the last character.
gt(line) == SelectInSeq(Front(line), LAMBDA x : x = ">")
Appends_bug(line) == FALSE
Appends(line) == line[gt(line) + 1] = ">"

Nothing == [text |-> <<>>, counts |-> <<>>]
Printed(text) == [text |-> text, counts |-> <<>>]
Error == Printed(<<"error">>)

Init == /\ tree \in DOMAIN Prepared
        /\ cwd = <<"/">> /\ fs_mounted = TRUE /\ screen = Nothing
        /\ said = [cmd |-> "none"] /\ entered = Prepared[tree]

\* Every command but cd: what it leaves as the tree and on the screen.
Does(t, out) == tree' = t /\ screen' = out /\ UNCHANGED <<cwd, fs_mounted>>

\* A line of the command name, and its argument.
Is(line, name) == str_prefix(line, <<name, " ">>)
ArgOf(line) == Trimmed(Rest(line, 3))

\* A command on the file that its argument names, up to the end of the line.
Operand(line) == follow_path(path_join(cwd, ArgOf(line)))
OnFile(line, t, out) == IF fs_mounted /\ ArgOf(line) # <<>> THEN Does(t, out) ELSE Does(tree, Error)
cmd_mkdir(line) == Is(line, "mkdir") /\ OnFile(line, f_mkdir(Operand(line)), Nothing)
cmd_rmdir(line) == Is(line, "rmdir") /\ OnFile(line, f_unlink(Operand(line)), Nothing)
cmd_rm(line)    == Is(line, "rm") /\ OnFile(line, f_unlink(Operand(line)), Nothing)
Touched(p) == Stored(p, Contents(p))
cmd_touch(line) == Is(line, "touch") /\ OnFile(line, Touched(Operand(line)), Nothing)

\* cat, head, tail and wc.
OfFile(line, out) == OnFile(line, tree, IF IsFile(Operand(line)) THEN out ELSE Error)
Read(line) == tree[Operand(line)].data
cmd_cat(line)  == Is(line, "cat") /\ OfFile(line, Printed(Read(line)))
head_file(line) == Is(line, "head") /\ OfFile(line, Printed(cmd_head(Read(line))))
tail_file(line) == Is(line, "tail") /\ OfFile(line, Printed(cmd_tail(Read(line))))
wc_file(line)  == Is(line, "wc") /\ OfFile(line, [text |-> <<>>, counts |-> cmd_wc(Read(line))])

\* A file and a text.
File(line) == follow_path(path_join(cwd, FirstWord(ArgOf(line))))
Text(line) == Append(Trimmed(AfterWord(ArgOf(line))), "\n")
Stores(line, t) == IF fs_mounted /\ AfterWord(ArgOf(line)) # <<>> THEN Does(t, Nothing) ELSE Does(tree, Error)
cmd_write(line)  == Is(line, "write") /\ Stores(line, Stored(File(line), Text(line)))
cmd_append(line) == Is(line, "append") /\ Stores(line, Stored(File(line), Contents(File(line)) \o Text(line)))

\* Two paths.  No file is copied onto itself and no directory moved below itself
\* here (Volume).
SecondWord(line) == FirstWord(Trimmed(AfterWord(ArgOf(line))))
Target(line) == follow_path(path_join(cwd, SecondWord(line)))
Moves(line, apart, t) == IF fs_mounted /\ FirstWord(ArgOf(line)) # <<>> /\ SecondWord(line) # <<>>
                         THEN apart /\ Does(t, Nothing) ELSE Does(tree, Error)
Copied(p, q) == IF IsFile(p) THEN Stored(q, tree[p].data) ELSE tree
cmd_cp(line) == /\ Is(line, "cp")
                /\ Moves(line, IsFile(File(line)) => File(line) # Target(line),
                         Copied(File(line), Target(line)))
cmd_mv(line) == /\ Is(line, "mv")
                /\ Moves(line, IsDir(File(line)) => ~IsPrefix(File(line), Target(line)),
                         f_rename(File(line), Target(line)))

cmd_echo(line) == str_prefix(line, <<"echo", " ">>) /\ Does(tree, Printed(Append(Rest(line, 3), "\n")))
cmd_pwd(line)  == str_prefix(line, <<"pwd">>) /\ Does(tree, Printed(Append(cwd, "\n")))
cmd_mount(line) == /\ str_prefix(line, <<"mount">>)
                   /\ fs_mounted' = TRUE /\ screen' = Nothing /\ UNCHANGED <<tree, cwd>>
cmd_umount(line) == /\ str_prefix(line, <<"umount">>)
                    /\ fs_mounted' = FALSE /\ screen' = Nothing /\ UNCHANGED <<tree, cwd>>

\* cd needs no blank before its argument.
cmd_cd(line) ==
    /\ str_prefix(line, <<"cd">>)
    /\ LET arg      == Trimmed(Rest(line, 2))
           resolved == path_join(cwd, IF arg = <<>> THEN <<"/">> ELSE arg)
           ok       == fs_mounted /\ IsDir(follow_path(resolved))
       IN /\ cwd' = IF ok THEN resolved ELSE cwd
          /\ screen' = IF ok THEN Nothing ELSE Error
    /\ UNCHANGED <<tree, fs_mounted>>

Redirected(line) == TrimmedEnd(SubSeq(line, 1, gt(line) - 1))
Echoed(line) == Append(Rest(Redirected(line), 3), "\n")
redirect(line) ==
    LET from == gt(line) + (IF Appends(line) THEN 2 ELSE 1)
        file == TrimmedEnd(Trimmed(Rest(line, from)))
        text == Echoed(line)
        p    == follow_path(path_join(cwd, file))
    IN IF str_prefix(Redirected(line), <<"echo", " ">>) /\ fs_mounted
       THEN Does(Stored(p, IF Appends(line) THEN Contents(p) \o text ELSE text), Nothing)
       ELSE Does(tree, Error)

Commands == {"mkdir", "rmdir", "rm", "touch", "cat", "head", "tail", "wc", "write", "append",
             "cp", "mv", "echo"}
Known(line) == \/ line[1] \in {"pwd", "mount", "umount", "cd"}
               \/ line[1] \in Commands /\ Len(line) > 1 /\ line[2] = " "
unknown(line) == ~Known(line) /\ Does(tree, Error)

command(line) == \/ cmd_mkdir(line) \/ cmd_rmdir(line) \/ cmd_rm(line) \/ cmd_touch(line)
                 \/ cmd_cat(line) \/ head_file(line) \/ tail_file(line) \/ wc_file(line)
                 \/ cmd_write(line) \/ cmd_append(line)
                 \/ cmd_cp(line) \/ cmd_mv(line) \/ cmd_echo(line) \/ cmd_pwd(line)
                 \/ cmd_mount(line) \/ cmd_umount(line) \/ cmd_cd(line) \/ unknown(line)
shell_line(line) == IF gt(line) # 0 THEN redirect(line) ELSE command(line)

Next == \E x \in Lines : /\ entered > 0
                         /\ shell_line(x.line)
                         /\ said' = x.said /\ entered' = entered - 1
Spec == Init /\ [][Next]_vars
-----------------------------------------------------------------------------
(* Properties *)

\* The tree is one, and a resolved path fits into the buffer it is stored in.
TypeOK == /\ <<>> \in DOMAIN tree
          /\ \A p \in DOMAIN tree : p # <<>> => IsDir(Front(p))
          /\ cwd[1] = "/" /\ Length(cwd) < PathMax
          /\ fs_mounted \in BOOLEAN /\ entered \in Nat

\* What is meant by a line: a command, its paths (absolute or not, and their
\* names), a text, whether it is to be appended, and how many blanks end the path
\* of a command that takes the rest of the line for one.  Walk goes from name to
\* name, without path_join's strings.
WalkTo(here, x) == CASE x = "." -> here
                     [] x = ".." -> (IF here = <<>> THEN here ELSE Front(here))
                     [] x \notin {".", ".."} -> Append(here, ShortName[x])
Walk(at, names) == LET came[n \in 0 .. Len(names)] ==
                           IF n = 0 THEN at ELSE WalkTo(came[n - 1], names[n])
                   IN came[Len(names)]
Here == follow_path(cwd)
Meant(arg) == Walk(IF arg.abs THEN <<>> ELSE Here, arg.names)

\* What the properties do not speak of: a line that is not a command with its
\* arguments, a working directory with a blank in it, and a path that path_join
\* cuts (the length of cwd is counted for an absolute path too).
LengthOf(names) == LET upto[n \in 0 .. Len(names)] ==
                           IF n = 0 THEN 0
                           ELSE upto[n - 1] + (IF names[n] \in Typed THEN SymbolLen[names[n]] + 1 ELSE 0)
                   IN upto[Len(names)]
Clear(s) == /\ s.cmd \notin {"none", "other"}
            /\ " " \notin ToSet(cwd)
            /\ \A i \in DOMAIN s.args : Length(cwd) + LengthOf(s.args[i].names) + s.blanks + 2 < PathMax

\* A line with '>' is refused, if it is not an echo, and so is a redirected echo
\* without a text.
Refused(s) == IF s.cmd = "echo" THEN s.text = <<>> ELSE ">" \in ToSet(s.text)
TreeAfter(s) ==
    LET p == Meant(s.args[1])
        q == Meant(s.args[2])
        t == Append(s.text, "\n")
    IN CASE s.cmd = "mkdir" -> f_mkdir(p)
         [] s.cmd \in {"rm", "rmdir"} -> f_unlink(p)
         [] s.cmd = "touch" -> Stored(p, Contents(p))
         [] s.cmd \in {"write", "echo"} /\ ~s.append -> Stored(p, t)
         [] s.cmd \in {"append", "echo"} /\ s.append -> Stored(p, Contents(p) \o t)
         [] s.cmd = "cp" -> IF IsFile(p) THEN Stored(q, tree[p].data) ELSE tree
         [] s.cmd = "mv" -> f_rename(p, q)
         [] OTHER -> tree

\* A line changes the tree as its command, carried out on the files it names,
\* would: whatever blanks, slashes, dots and redirections it is written with
\* (shell_line, path_join, and the taking apart of arguments in cmd_*).
DoesAsSaid ==
    [][Clear(said') => tree' = IF fs_mounted /\ ~Refused(said') THEN TreeAfter(said') ELSE tree]_vars

\* cd goes to the directory it names, if it is one, and nothing else moves the
\* working directory.
GoesAsSaid ==
    [][Clear(said') =>
        follow_path(cwd') = IF said'.cmd = "cd" /\ fs_mounted /\ IsDir(Meant(said'.args[1]))
                            THEN Meant(said'.args[1]) ELSE Here]_vars

\* In a working directory that was removed, or that another file has taken the
\* place of, a relative name that does not lead out of it changes nothing.
Within(arg) == ~arg.abs /\ arg.names # <<>> /\ {".", ".."} \cap ToSet(arg.names) = {}
StaleCwdIsHarmless ==
    [][(Clear(said') /\ ~IsDir(Here) /\ \A i \in DOMAIN said'.args : Within(said'.args[i]))
            => tree' = tree]_vars

\* head and tail print the first and the last lines of the file they are given,
\* across the reads it takes, if tail's buffer holds it.
ShowsLines ==
    [][Clear(said') /\ fs_mounted /\ said'.cmd \in {"head", "tail"} =>
        LET p == Meant(said'.args[1])
        IN IsFile(p) =>
            IF said'.cmd = "head" THEN screen'.text = FirstLines(tree[p].data)
            ELSE IF Len(tree[p].data) <= TailMax THEN screen'.text = LastLines(tree[p].data)
            ELSE IsSuffix(screen'.text, LastLines(tree[p].data))]_vars

\* wc counts the words of the whole file, also those that lie in two reads.
CountsWords ==
    [][Clear(said') /\ fs_mounted /\ said'.cmd = "wc" =>
        LET p == Meant(said'.args[1])
        IN IsFile(p) => screen'.counts = Counts(tree[p].data)]_vars

\* Every line is a command of a tree of files, or changes nothing.
ImplementsFileTree == FT!Spec
-----------------------------------------------------------------------------
(* What the volume and FileTree's constants are, for the proofs *)

Names == {ShortName[x] : x \in Typed} \ {Invalid}
Nodes == [dir : BOOLEAN, data : Seq(Symbols)]
IsVolume(t) == DOMAIN t \subseteq Seq(Names) /\ t \in [DOMAIN t -> Nodes] /\ FT!IsTree(t)
Volumes == \A t \in DOMAIN Prepared : IsVolume(t)

\* Every path whose names, with a slash each, a resolved path has room for.
AllPaths == /\ Paths \subseteq Seq(Names)
            /\ \A n \in 0 .. PathMax : 2 * n < PathMax => [1 .. n -> Names] \subseteq Paths

\* Every text that a line stores.
AllTexts == /\ \A x \in Lines : Echoed(x.line) \in Texts \/ gt(x.line) = 0
                                \/ ~str_prefix(Redirected(x.line), <<"echo", " ">>)
            /\ \A x \in Lines : Text(x.line) \in Texts \/ gt(x.line) # 0
                                \/ ~(Is(x.line, "write") \/ Is(x.line, "append"))

\* What a name may be, and segs[] is not full before the path is (256 and 128).
Alphabet == /\ {".", "..", " ", ">"} \subseteq Symbols
            /\ Typed \subseteq Symbols \ {"/", ".", "..", " ", ">"}
            /\ PathMax <= 2 * SegMax

\* How a path is written: with any slashes between its names, and dots as names.
NameSet == Typed \cup {".", ".."}
Segged(names) == [i \in DOMAIN names |-> <<names[i]>>]
Spells(s, arg) == /\ s # <<>> /\ s \in Seq(NameSet \cup {"/"}) /\ arg.names \in Seq(NameSet)
                  /\ arg.abs = (s[1] = "/")
                  /\ Segments(s) = Segged(arg.names)

\* How a line is written of its parts, of which any of the gaps may be empty, but
\* for the one that ends a word.
Gaps == Seq({" "})
Opening(cmd) == <<cmd, " ">>
Shown == {"mkdir", "rmdir", "rm", "touch", "cat", "head", "tail", "wc", "cd"}
OnePath(x) ==
    LET s == x.said  p == x.parts
    IN /\ s.cmd \in Shown /\ s.text = <<>> /\ DOMAIN s.args = {1}
       /\ {p.lead, p.trail} \subseteq Gaps /\ s.blanks = Length(p.trail)
       /\ Spells(p.path, s.args[1]) /\ (p.trail # <<>> => Last(p.path) \in Typed)
       /\ x.line = (IF s.cmd = "cd" THEN <<"cd">> ELSE Opening(s.cmd)) \o (p.lead \o (p.path \o p.trail))
BareCd(x) == /\ x.said.cmd = "cd" /\ x.said.text = <<>> /\ DOMAIN x.said.args = {1} /\ x.said.blanks = 0
             /\ x.said.args[1] = [abs |-> TRUE, names |-> <<>>]
             /\ x.parts.lead \in Gaps /\ x.line = <<"cd">> \o x.parts.lead
TwoPaths(x) ==
    LET s == x.said  p == x.parts
    IN /\ s.cmd \in {"cp", "mv"} /\ s.text = <<>> /\ DOMAIN s.args = {1, 2} /\ s.blanks = 0
       /\ {p.lead, p.gap} \subseteq Gaps /\ p.gap # <<>>
       /\ Spells(p.path, s.args[1]) /\ Spells(p.path2, s.args[2])
       /\ p.rest \in Seq(Symbols \ {">"}) /\ (p.rest # <<>> => p.rest[1] = " ")
       /\ x.line = Opening(s.cmd) \o (p.lead \o (p.path \o (p.gap \o (p.path2 \o p.rest))))
\* A last '>' is a text's.
PathAndText(x) ==
    LET s == x.said  p == x.parts
    IN /\ s.cmd \in {"write", "append"} /\ s.append = (s.cmd = "append")
       /\ DOMAIN s.args = {1} /\ s.blanks = 0
       /\ {p.lead, p.gap} \subseteq Gaps /\ p.gap # <<>>
       /\ Spells(p.path, s.args[1])
       /\ s.text \in Seq(Symbols) /\ (s.text # <<>> => s.text[1] # " ")
       /\ ">" \in ToSet(s.text) => ">" \in ToSet(Front(s.text))
       /\ x.line = Opening(s.cmd) \o (p.lead \o (p.path \o (p.gap \o s.text)))
TextAndPath(x) ==
    LET s == x.said  p == x.parts
    IN /\ s.cmd = "echo" /\ s.append \in BOOLEAN /\ DOMAIN s.args = {1} /\ s.blanks = 0
       /\ {p.lead, p.gap, p.trail} \subseteq Gaps
       /\ Spells(p.path, s.args[1])
       /\ s.text \in Seq(Symbols \ {">"}) /\ (s.text # <<>> => Last(s.text) # " ")
       /\ x.line = Opening("echo") \o (s.text \o (p.gap \o
                       ((IF s.append THEN <<">", ">">> ELSE <<">">>) \o (p.lead \o (p.path \o p.trail)))))

\* Each line is written as what was meant by it says.
Faithful == \A x \in Lines : \/ x.said.cmd \in {"none", "other"}
                             \/ OnePath(x) \/ BareCd(x) \/ TwoPaths(x) \/ PathAndText(x) \/ TextAndPath(x)
=============================================================================
