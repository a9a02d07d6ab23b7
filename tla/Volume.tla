------------------------------- MODULE Volume -------------------------------
(***************************************************************************)
(* The file commands of the shell (kmain.c) on a FAT32 volume, and power   *)
(* failures.  A command runs on the buffered volume vol at once, as nothing*)
(* else runs until it returns; the sectors it writes wait in pending and   *)
(* reach the disk one by one, so that power can fail between any two.      *)
(* Arguments are paths that path_join has resolved.                        *)
(***************************************************************************)
EXTENDS FatFs, FiniteSets

CONSTANTS Paths,        \* the paths that are typed
          Texts,        \* the texts that are typed, without their newline
          Prepared,     \* what the disk may hold to begin with, and how many commands
                        \* are given then
          CatMax,       \* what one f_read fetches for cat (511)
          TailMax,      \* what tail looks at (4095)
          Careful       \* no file is copied onto itself, no directory moved below itself

ASSUME VolumeAssumption == /\ Careful \in BOOLEAN /\ {CatMax, TailMax} \subseteq Nat \ {0}
                           /\ \A d \in DOMAIN Prepared : Prepared[d] \in Nat
                           /\ \A p \in Paths : p \in Seq(Typed)

VARIABLES vol,         \* fatfs, and the disk as it is once pending has been written
          disk,        \* what the disk holds
          pending,     \* the sectors still to be written
          fs_mounted,
          commands,    \* how many are still to be given
          doing,       \* what pending is part of
          tree,        \* the files and directories that the commands show
          durable,     \* those there were before pending
          whole        \* nothing was lost to a power failure or an unmount so far

vars == <<vol, disk, pending, fs_mounted, commands, doing, tree, durable, whole>>
-----------------------------------------------------------------------------
(* What a disk d holds *)

Logical(v) == IF v.wflag THEN [v.disk EXCEPT ![v.winsect] = v.win] ELSE v.disk
Fat(d, c)  == d[FatSect(c)].next[c]
FreeOf(d)  == {c \in Clusters : Fat(d, c) = 0}

RECURSIVE Chain(_, _)
Chain(d, c) == IF c \in Clusters THEN <<c>> \o Chain(d, Fat(d, c)) ELSE <<>>

Sectors(d, c) ==
    LET Of(ch) == [i \in 1 .. Len(ch) * csize |-> clst2sect(ch[(i - 1) \div csize + 1], (i - 1) % csize)]
    IN Of(Chain(d, c))

\* The entries of the directory at c, up to the first one never used.
Slots(d, c) ==
    LET Slot1(s, i) == [at |-> <<s, i>>, e |-> IF "ents" \in DOMAIN d[s] THEN d[s].ents[i] ELSE End]
        Of(sects) == [n \in 1 .. Len(sects) * DirPer |->
                         Slot1(sects[(n - 1) \div DirPer + 1], (n - 1) % DirPer)]
    IN Of(Sectors(d, c))
EntsOf(d, c) ==
    LET Used(all) == {n \in DOMAIN all : /\ \A i \in 1 .. n : all[i].e # End
                                         /\ all[n].e.name \notin {Deleted, ".", ".."}}
        Of(all) == {all[n] : n \in Used(all)}
    IN Of(Slots(d, c))

\* Everything below the directory at c, with its path and its directory.
RECURSIVE Below(_, _, _)
Below(d, c, path) ==
    UNION {{[path |-> Append(path, x.e.name), in |-> c, at |-> x.at, e |-> x.e]}
           \cup (IF x.e.dir THEN Below(d, x.e.cl, Append(path, x.e.name)) ELSE {}) : x \in EntsOf(d, c)}
All(d) == Below(d, Root, <<>>)

Content(d, e) == LET Of(sects) == [i \in 1 .. e.size |-> d[sects[(i - 1) \div SS + 1]].bytes[(i - 1) % SS]]
                 IN Of(Sectors(d, e.cl))
DirNode     == [dir |-> TRUE, data |-> <<>>]
FileNode(b) == [dir |-> FALSE, data |-> b]
NodeOf(d, e) == IF e.dir THEN DirNode ELSE FileNode(Content(d, e))
Tree(d) == LET Of(all) == [p \in {<<>>} \cup {x.path : x \in all} |->
                              IF p = <<>> THEN DirNode ELSE NodeOf(d, (CHOOSE x \in all : x.path = p).e)]
           IN Of(All(d))
-----------------------------------------------------------------------------
(* A volume as mkfs.fat leaves it *)

Formatted ==
    LET fat(k) == [next |-> [c \in {n \in 0 .. n_fatent - 1 : n \div FatPer = k} |->
                                IF c <= Root THEN EOC ELSE 0]]
        data == {clst2sect(c, i) : c \in Clusters, i \in 0 .. csize - 1}
    IN [s \in {Info} \cup {FatSect(c) : c \in 0 .. n_fatent - 1} \cup data |->
           CASE s = Info -> [free |-> n_fatent - 3, last |-> Root]
             [] s[1] = "fat" -> fat(s[2])
             [] s[1] = "data" /\ s[2] = Root -> ZeroSector
             [] OTHER -> [bytes |-> ZeroBytes]]

Idle == [cmd |-> "none", path |-> <<>>, node |-> DirNode]

\* kmain mounts the volume before anything else.
Init == /\ disk \in DOMAIN Prepared
        /\ vol = mount_volume(disk)
        /\ pending = <<>> /\ fs_mounted = TRUE /\ commands = Prepared[disk]
        /\ doing = Idle /\ tree = Tree(disk) /\ durable = tree /\ whole = TRUE
-----------------------------------------------------------------------------
(* The commands.  what: what is at path when the command could do all of it *)

Ready == pending = <<>> /\ commands > 0
Command(w, what) ==
    /\ Ready /\ fs_mounted
    /\ vol' = [w EXCEPT !.log = <<>>]
    /\ pending' = w.log
    /\ commands' = commands - 1
    /\ doing' = IF w.log = <<>> THEN Idle ELSE what
    /\ tree' = Tree(Logical(vol'))
    /\ durable' = IF w.log = <<>> THEN tree' ELSE tree
    /\ UNCHANGED <<disk, fs_mounted, whole>>

Short(path) == [i \in 1 .. Len(path) |-> ShortName[path[i]]]
Asked(cmd, path, node) == [cmd |-> cmd, path |-> Short(path), node |-> node]
Exists(path) == Short(path) \in DOMAIN tree
IsFile(path) == Exists(path) /\ ~tree[Short(path)].dir
DataAt(path) == IF IsFile(path) THEN tree[Short(path)].data ELSE <<>>

Touch(o) == IF o.res = "OK" THEN f_close(o.v, o.f) ELSE o.v
touched(v, p) == Touch(f_open(v, p, "always"))

\* write and append.  The results of f_write are not looked at.
Close(n) == f_close(n.v, n.f)
EndLine(t) == Close(f_write(t.v, t.f, <<"\n">>))
WriteTo(o, text) == IF o.res = "OK" THEN EndLine(f_write(o.v, o.f, text)) ELSE o.v
written(v, p, mode, text) == WriteTo(f_open(v, p, mode), text)

\* file_buffer is one sector.  fi is open while fo is created and written.
RECURSIVE CopyLoop(_, _, _)
CopyOn(w, r, fo) == IF w.res # "OK" \/ w.f.ptr - fo.ptr # Len(r.b) THEN w ELSE CopyLoop(w.v, r.f, w.f)
CopyPart(r, fo) == IF r.res # "OK" \/ r.b = <<>> THEN [v |-> r.v, f |-> fo]
                   ELSE CopyOn(f_write(r.v, fo, r.b), r, fo)
CopyLoop(v, fi, fo) == CopyPart(f_read(v, fi, SS), fo)
CopyTo(i, o) == IF o.res = "OK" THEN Close(CopyLoop(o.v, i.f, o.f)) ELSE o.v
CopyFrom(i, q) == IF i.res = "OK" THEN CopyTo(i, f_open(i.v, q, "create")) ELSE i.v
copied(v, p, q) == CopyFrom(f_open(v, p, "read"), q)

cmd_mkdir(p) == Command(f_mkdir(vol, p), Asked("mkdir", p, DirNode))
cmd_rm(p)    == Command(f_unlink(vol, p), Asked("rm", p, DirNode))
cmd_rmdir(p) == Command(f_unlink(vol, p), Asked("rmdir", p, DirNode))
cmd_touch(p) == Command(touched(vol, p), Asked("touch", p, FileNode(<<>>)))
cmd_write(p, text) == Command(written(vol, p, "create", text),
                              Asked("write", p, FileNode(Append(text, "\n"))))
cmd_append(p, text) == Command(written(vol, p, "append", text),
                               Asked("append", p, FileNode(DataAt(p) \o Append(text, "\n"))))
cmd_cp(p, q) == /\ Careful /\ IsFile(p) => Short(p) # Short(q)
                /\ Command(copied(vol, p, q),
                           IF IsFile(p) THEN Asked("cp", q, FileNode(DataAt(p))) ELSE Idle)
cmd_mv(p, q) ==
    /\ Careful /\ Exists(p) => ~IsStrictPrefix(Short(p), Short(q))
    /\ Command(f_rename(vol, p, q), IF Exists(p) THEN Asked("mv", q, tree[Short(p)]) ELSE Idle)

cmd_stat == Command(f_getfree(vol), Idle)

\* ls of the directory at p, cat (head, wc and hexdump read as it does) and tail:
\* out is what they read.  A dirty window is written when they read another
\* sector into it.
Listing(l) == [v |-> l.v, out |-> l.ents]
ListAt(o) == IF o.res = "OK" THEN Listing(f_readdirs(o.v, o.dp)) ELSE [v |-> o.v, out |-> <<"error">>]
listed(v, p) == ListAt(f_opendir(v, p))

RECURSIVE CatLoop(_, _)
CatOn(r, more) == [more EXCEPT !.out = r.b \o @]
CatPart(r) == IF r.res # "OK" \/ r.b = <<>> THEN [v |-> r.v, out |-> <<>>] ELSE CatOn(r, CatLoop(r.v, r.f))
CatLoop(v, f) == CatPart(f_read(v, f, CatMax))
CatOf(o) == IF o.res = "OK" THEN CatLoop(o.v, o.f) ELSE [v |-> o.v, out |-> <<"error">>]
catted(v, p) == CatOf(f_open(v, p, "read"))

\* tail reads the last TailMax characters.
LastPart(f) == IF f.size > TailMax THEN f.size - TailMax ELSE 0
Sought(v, f) == IF LastPart(f) = 0 THEN Open(v, f) ELSE f_lseek(v, f, LastPart(f))
TailPart(r) == [v |-> r.v, out |-> r.b]
TailIn(o) == TailPart(f_read(o.v, o.f, TailMax))
TailOf(o) == IF o.res = "OK" THEN TailIn(Sought(o.v, o.f)) ELSE [v |-> o.v, out |-> <<"error">>]
tailed(v, p) == TailOf(f_open(v, p, "read"))

ReadAt(v, p) == {listed(v, p).v, catted(v, p).v, tailed(v, p).v}
cmd_read == Ready /\ \E w \in UNION {ReadAt(vol, p) : p \in Paths} : Command(w, Idle)

\* f_mount(NULL) forgets the volume; a dirty window is not written.
cmd_umount == /\ Ready /\ fs_mounted
              /\ fs_mounted' = FALSE
              /\ whole' = (whole /\ ~vol.wflag)
              /\ vol' = mount_volume(disk)
              /\ commands' = commands - 1
              /\ tree' = Tree(disk) /\ durable' = tree'
              /\ UNCHANGED <<disk, pending, doing>>
cmd_mount == /\ Ready /\ ~fs_mounted
             /\ fs_mounted' = TRUE
             /\ vol' = mount_volume(disk)
             /\ commands' = commands - 1
             /\ UNCHANGED <<disk, pending, doing, tree, durable, whole>>
-----------------------------------------------------------------------------
(* The disk *)

store == /\ pending # <<>>
         /\ disk' = [disk EXCEPT ![Head(pending)[1]] = Head(pending)[2]]
         /\ pending' = Tail(pending)
         /\ IF Len(pending) = 1 THEN doing' = Idle /\ durable' = tree ELSE UNCHANGED <<doing, durable>>
         /\ UNCHANGED <<vol, fs_mounted, commands, tree, whole>>

\* The two times at which a power failure damages the volume: f_rename has
\* written the new entry and not the old one, and dir_next has stretched a
\* directory by a cluster that dir_clear has not cleared.
Renaming == doing.cmd = "mv" /\ Cardinality(All(disk)) > Cardinality(DOMAIN durable) - 1
DirSectors(d) == UNION {ToSet(Sectors(d, c)) : c \in {Root} \cup {x.e.cl : x \in {y \in All(d) : y.e.dir}}}
Stretching == \E i \in DOMAIN pending : /\ pending[i][2] = ZeroSector
                                        /\ pending[i][1] \in DirSectors(disk)

\* Power fails, and the machine boots.
power_cycle == /\ ~Renaming /\ ~Stretching
               /\ vol' = mount_volume(disk)
               /\ pending' = <<>> /\ fs_mounted' = TRUE /\ doing' = Idle
               /\ tree' = Tree(disk) /\ durable' = tree'
               /\ whole' = (whole /\ pending = <<>> /\ ~vol.wflag)
               /\ UNCHANGED <<disk, commands>>

Next == \/ \E p \in Paths : cmd_mkdir(p) \/ cmd_rm(p) \/ cmd_rmdir(p) \/ cmd_touch(p)
        \/ \E p \in Paths, text \in Texts : cmd_write(p, text) \/ cmd_append(p, text)
        \/ \E p, q \in Paths : cmd_cp(p, q) \/ cmd_mv(p, q)
        \/ cmd_read \/ cmd_stat \/ cmd_umount \/ cmd_mount
        \/ store \/ power_cycle
Spec == Init /\ [][Next]_vars
-----------------------------------------------------------------------------
(* Properties *)

NameType == {"", ".", "..", Deleted} \cup {ShortName[n] : n \in Typed}
EntType == [name : NameType, dir : BOOLEAN, cl : {0} \cup Clusters, size : Nat]
HasType(d) == \A s \in DOMAIN d :
                  CASE s = Info -> d[s].free \in Nat /\ d[s].last \in 0 .. n_fatent
                    [] s[1] = "fat" -> \A c \in DOMAIN d[s].next : d[s].next[c] \in 0 .. n_fatent
                    [] "ents" \in DOMAIN d[s] -> \A i \in 0 .. DirPer - 1 : d[s].ents[i] \in EntType
                    [] OTHER -> \A i \in 0 .. SS - 1 : d[s].bytes[i] \in STRING

\* The sectors, the window and the free count are of the shapes that ff.c reads
\* in them.
TypeOK == /\ HasType(disk) /\ HasType(Logical(vol)) /\ vol.free \in 0 .. n_fatent - 2 \cup {Unknown}
          /\ {fs_mounted, whole} \subseteq BOOLEAN
          /\ commands \in Nat

OneOwner(d) ==
    LET Apart(own) == \A x, y \in DOMAIN own : /\ x.at # y.at => own[x] \cap own[y] = {}
                                              /\ Root \notin own[x]
    IN Apart([x \in All(d) |-> ToSet(Chain(d, x.e.cl))])
ChainsReach(d) ==
    \A x \in All(d) : LET ch == Chain(d, x.e.cl) IN
        /\ ch # <<>> => Fat(d, Last(ch)) >= n_fatent
        /\ Len(ch) * csize * SS >= x.e.size
        /\ x.e.dir => ch # <<>>
DotsRight(d) ==
    \A x \in All(d) : x.e.dir =>
        LET s == d[clst2sect(x.e.cl, 0)].ents
        IN /\ s[0] = [End EXCEPT !.name = ".", !.dir = TRUE, !.cl = x.e.cl]
           /\ s[1] = [End EXCEPT !.name = "..", !.dir = TRUE, !.cl = IF x.in = Root THEN 0 ELSE x.in]
NamesDiffer(d) == \A x, y \in All(d) : x.path = y.path => x.at = y.at

\* Whatever part of a command's writes has reached the disk, no cluster belongs
\* to two files, every chain ends and is as long as its file, and every
\* directory is linked with the one it is in (ff.c: the order in which FAT,
\* directory and data are written).
CrashSafe == \/ Renaming \/ Stretching
             \/ /\ \A s \in DirSectors(disk) : "ents" \in DOMAIN disk[s]
                /\ OneOwner(disk) /\ ChainsReach(disk) /\ DotsRight(disk) /\ NamesDiffer(disk)

\* While nothing has been lost to a power failure, every cluster that the FAT
\* says is in use belongs to a file or a directory, and the free count is exact
\* (remove_chain, create_chain and the failure paths of f_mkdir and f_open).
NothingLost ==
    whole /\ pending = <<>> =>
        LET d == Logical(vol)
        IN /\ Clusters \ FreeOf(d) =
                  UNION {ToSet(Chain(d, c)) : c \in {Root} \cup {x.e.cl : x \in All(d)}}
           /\ vol.free \in {Cardinality(FreeOf(d)), Unknown}

\* A command that could do what it was asked for does so, unless it needed a
\* cluster and none was left (kmain.c looks at no f_write result, so nothing
\* else would tell).
Possible == /\ doing.path # <<>> /\ Last(doing.path) # Invalid
            /\ Front(doing.path) \in DOMAIN durable /\ durable[Front(doing.path)].dir
            /\ IF doing.cmd \in {"mkdir", "mv"} THEN doing.path \notin DOMAIN durable
                                      ELSE (doing.path \in DOMAIN durable => ~durable[doing.path].dir)
DoneUnlessFull ==
    (whole /\ doing.cmd \in {"mkdir", "touch", "write", "append", "cp", "mv"} /\ Possible) =>
        \/ doing.path \in DOMAIN tree /\ (doing.cmd # "touch" => tree[doing.path] = doing.node)
        \/ Cardinality(FreeOf(Logical(vol))) <= (IF doing.cmd = "mkdir" THEN 1 ELSE 0)

\* ls lists the names of a directory, each once, cat prints a file from its first
\* byte to its last, and tail finds the end of it, whatever the window holds and
\* wherever the clusters lie (listed, catted and tailed, by f_readdir, f_read
\* and f_lseek, if they come next).
Names(p) == {q \in DOMAIN tree : q # <<>> /\ Front(q) = p}
ListsRight(ls, p) == /\ Len(ls) = Cardinality(Names(p))
                     /\ {Append(p, ls[i].name) : i \in DOMAIN ls} = Names(p)
                     /\ \A i \in DOMAIN ls : ls[i].dir = tree[Append(p, ls[i].name)].dir
EndOf(data) == IF Len(data) <= TailMax THEN data ELSE SubSeq(data, Len(data) - TailMax + 1, Len(data))
ShowsTheTree ==
    Ready /\ fs_mounted =>
        \A p \in Paths :
            /\ IF Exists(p) /\ tree[Short(p)].dir THEN ListsRight(listed(vol, p).out, Short(p))
                                                  ELSE listed(vol, p).out = <<"error">>
            /\ catted(vol, p).out = IF IsFile(p) THEN DataAt(p) ELSE <<"error">>
            /\ tailed(vol, p).out = IF IsFile(p) THEN EndOf(DataAt(p)) ELSE <<"error">>

\* The commands and the power failures are those of a tree of files.
Abstract == INSTANCE FileTree
            WITH Paths <- {Short(p) : p \in Paths},
                 Texts <- {Append(t, "\n") : t \in Texts},
                 Trees <- {Tree(d) : d \in DOMAIN Prepared}
ImplementsFileTree == Abstract!Spec
=============================================================================
