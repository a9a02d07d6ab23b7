------------------------------- MODULE FatFs -------------------------------
(***************************************************************************)
(* The part of FatFs (ff.c, as ffconf.h configures it) that the shell's    *)
(* file commands use, on a FAT32 volume.  A volume is a record v:          *)
(*   disk                  what every sector holds;                        *)
(*   win, winsect, wflag   the window, the one buffered sector of FAT,     *)
(*                         directory or FSInfo, and whether it is dirty;   *)
(*   free, last, fsi       free_clst, last_clst, and fsi_flag = 1;         *)
(*   log                   the sectors written, in order.                  *)
(* A function of ff.c is an operator from a volume to a record with the    *)
(* volume it leaves as v, and the FRESULT or the cluster it returns.  The  *)
(* log lets a crash come after any of the writes.                          *)
(*                                                                         *)
(* Left out: the second copy of the FAT (written after the first and never *)
(* read), dates, attributes other than AM_DIR, volume labels, the limit of *)
(* 2 MiB for a directory, and errors of the disk (see Ata).                *)
(***************************************************************************)
EXTENDS Integers, Sequences, SequencesExt

CONSTANTS n_fatent,   \* clusters are 2 .. n_fatent - 1
          csize,      \* sectors of a cluster
          SS,         \* bytes of a sector (512)
          FatPer,     \* FAT entries of a sector (128)
          DirPer,     \* directory entries of a sector (16)
          Typed,      \* the names that are typed
          ShortName,  \* what create_name makes of each: its 8.3 name
          Invalid     \* or that it has none

ASSUME FatFsAssumption == /\ n_fatent \in Nat /\ n_fatent > 2
                          /\ {csize, SS, FatPer, DirPer} \subseteq Nat \ {0} /\ DirPer > 1
                          /\ DOMAIN ShortName = Typed

Clusters == 2 .. n_fatent - 1
Root     == 2           \* dirbase
EOC      == n_fatent    \* any value >= n_fatent ends a chain
Unknown  == n_fatent    \* no count of free clusters: any value > n_fatent - 2

Info           == <<"info">>
FatSect(c)     == <<"fat", c \div FatPer>>
clst2sect(c, i) == <<"data", c, i>>

\* A directory entry; the first byte of a name says whether it is in use.
End     == [name |-> "", dir |-> FALSE, cl |-> 0, size |-> 0]
Deleted == "deleted"
ZeroSector == [ents |-> [i \in 0 .. DirPer - 1 |-> End]]
ZeroBytes  == [i \in 0 .. SS - 1 |-> ""]
-----------------------------------------------------------------------------
(* The window *)

disk_write(v, s, x) == [v EXCEPT !.disk[s] = x, !.log = Append(@, <<s, x>>)]

sync_window(v) == IF v.wflag THEN disk_write([v EXCEPT !.wflag = FALSE], v.winsect, v.win)
                             ELSE v

move_window(v, s) ==
    IF s = v.winsect THEN v
    ELSE LET Load(w) == [w EXCEPT !.win = w.disk[s], !.winsect = s]
         IN Load(sync_window(v))

\* CTRL_SYNC does nothing (diskio.c).
sync_fs(v) ==
    LET Put(w, x) == disk_write([w EXCEPT !.fsi = FALSE, !.win = x, !.winsect = Info], Info, x)
        FSInfo(w) == IF w.fsi THEN Put(w, [free |-> w.free, last |-> w.last]) ELSE w
    IN FSInfo(sync_window(v))

\* mount_volume: the count and the hint come from FSInfo, and whatever the
\* window of an earlier mount held is forgotten.
mount_volume(disk) == [disk |-> disk, win |-> disk[Info], winsect |-> Info, wflag |-> FALSE,
                       free |-> disk[Info].free, last |-> disk[Info].last, fsi |-> FALSE,
                       log |-> <<>>]
-----------------------------------------------------------------------------
(* The FAT *)

get_fat(v, c) ==
    IF c \notin Clusters THEN [v |-> v, val |-> 1]
    ELSE LET Entry(w) == [v |-> w, val |-> w.win.next[c]] IN Entry(move_window(v, FatSect(c)))

put_fat(v, c, x) == [move_window(v, FatSect(c)) EXCEPT !.win.next[c] = x, !.wflag = TRUE]

FreeCount_bug(v) == [v EXCEPT !.free = @ + 1, !.fsi = TRUE]   \* also when it is unknown
FreeCount(v) == IF v.free < n_fatent - 2 THEN [v EXCEPT !.free = @ + 1, !.fsi = TRUE] ELSE v
TakeCount(v) == IF v.free \in 1 .. n_fatent - 2 THEN [v EXCEPT !.free = @ - 1, !.fsi = TRUE]
                                                ELSE v

\* frees the first cluster only
remove_chain_bug(v, c) == [v |-> FreeCount(put_fat(v, c, 0)), res |-> "OK"]
RECURSIVE remove_chain(_, _)
Freed(w, next) == IF next >= n_fatent THEN [v |-> w, res |-> "OK"] ELSE remove_chain(w, next)
FreeLink(c, g) == CASE g.val = 0 -> [v |-> g.v, res |-> "OK"]
                    [] g.val = 1 -> [v |-> g.v, res |-> "INT_ERR"]
                    [] OTHER -> Freed(FreeCount(put_fat(g.v, c, 0)), g.val)
remove_chain(v, c) == FreeLink(c, get_fat(v, c))

\* ends at the end of the volume
FreeAfter_bug(v, c, start) ==
    LET frees == {n \in Clusters : n > c /\ get_fat(v, n).val = 0}
    IN [v |-> v, c |-> IF frees = {} THEN 0 ELSE CHOOSE n \in frees : \A k \in frees : n <= k]

\* The search of create_chain: the first free cluster after c, once round the
\* volume up to the cluster the search began at; 0 if there is none.
Following(c) == IF c + 1 >= n_fatent THEN 2 ELSE c + 1
RECURSIVE FreeAfter(_, _, _)
LookAt(g, n, start) == CASE g.val = 0 -> [v |-> g.v, c |-> n]
                         [] g.val # 0 /\ n = start -> [v |-> g.v, c |-> 0]
                         [] OTHER -> FreeAfter(g.v, n, start)
FreeAfter(v, c, start) ==
    IF c + 1 >= n_fatent /\ start < 2 THEN [v |-> v, c |-> 0]
    ELSE LookAt(get_fat(v, Following(c)), Following(c), start)

\* Where the search for a cluster of a new chain, or for one that continues a
\* chain but not in the cluster next to it, begins.
Hint(v, otherwise) == IF v.last \in Clusters THEN v.last ELSE otherwise

Search(v, hint) == FreeAfter(v, hint, hint)
Beside(c, g) == IF g.val = 0 THEN [v |-> g.v, c |-> Following(c)] ELSE Search(g.v, Hint(g.v, c))
FreeCluster(v, c) == IF c = 0 THEN Search(v, Hint(v, 1)) ELSE Beside(c, get_fat(v, Following(c)))

Linked(v, c, n) == IF c = 0 THEN v ELSE put_fat(v, c, n)
Taken(v, c, n) == [v |-> TakeCount([Linked(v, c, n) EXCEPT !.last = n]), c |-> n]
Extended(c, new) == IF new.c = 0 THEN new ELSE Taken(put_fat(new.v, new.c, EOC), c, new.c)
NextInChain(c, own) == CASE own.val < 2 -> [v |-> own.v, c |-> 1]
                         [] own.val \in Clusters -> [v |-> own.v, c |-> own.val]
                         [] own.val >= n_fatent /\ own.v.free = 0 -> [v |-> own.v, c |-> 0]
                         [] OTHER -> Extended(c, FreeCluster(own.v, c))

\* The cluster after c in its chain, a new one if c is the last; with c = 0 the
\* first of a new chain.  0: the volume is full; 1: the chain is broken.
create_chain(v, c) == NextInChain(c, IF c = 0 THEN [v |-> v, val |-> EOC] ELSE get_fat(v, c))
-----------------------------------------------------------------------------
(* Directories: dp is a position, the ptr-th entry, in cluster clust *)

dir_sdi(sclust, fn) == LET c == IF sclust = 0 THEN Root ELSE sclust
                       IN [sclust |-> sclust, fn |-> fn, clust |-> c, ptr |-> 0]
Sect(dp)   == clst2sect(dp.clust, (dp.ptr \div DirPer) % csize)
Slot(dp)   == dp.ptr % DirPer
Ent(v, dp) == v.win.ents[Slot(dp)]
PutEnt(v, dp, e) == [v EXCEPT !.win.ents[Slot(dp)] = e, !.wflag = TRUE]
At(v, dp, r) == [v |-> v, dp |-> dp, res |-> r]

dir_clear(v, c) ==
    LET Clear(u, i) == disk_write(u, clst2sect(c, i - 1), ZeroSector)
    IN FoldLeft(Clear, [sync_window(v) EXCEPT !.win = ZeroSector, !.winsect = clst2sect(c, 0)],
                [i \in 1 .. csize |-> i])

Into(dp, c) == [dp EXCEPT !.ptr = @ + 1, !.clust = c]
Stretched(dp, n) == CASE n.c = 0 -> At(n.v, dp, "DENIED")
                      [] n.c = 1 -> At(n.v, dp, "INT_ERR")
                      [] OTHER -> At(dir_clear(n.v, n.c), Into(dp, n.c), "OK")
NextCluster(dp, stretch, g) ==
    CASE g.val < 2 -> At(g.v, dp, "INT_ERR")
      [] g.val \in Clusters -> At(g.v, Into(dp, g.val), "OK")
      [] OTHER -> IF stretch THEN Stretched(dp, create_chain(g.v, dp.clust))
                  ELSE At(g.v, dp, "NO_FILE")
dir_next(v, dp, stretch) ==
    IF (dp.ptr + 1) % (DirPer * csize) # 0 THEN At(v, Into(dp, dp.clust), "OK")
    ELSE NextCluster(dp, stretch, get_fat(v, dp.clust))

\* The next entry that ends the search, from dp on: dir_find's, dir_read's and
\* dir_alloc's.
Wanted(kind, dp, e) == CASE kind = "find" -> e = End \/ e.name = dp.fn
                         [] kind = "read" -> e = End \/ e.name \notin {Deleted, ".", ".."}
                         [] kind = "alloc" -> e.name \in {"", Deleted}
RECURSIVE Scan(_, _, _)
Onward(kind, n) == IF n.res = "OK" THEN Scan(kind, n.v, n.dp) ELSE n
AtEntry(kind, w, dp, e) ==
    CASE ~Wanted(kind, dp, e) -> Onward(kind, dir_next(w, dp, kind = "alloc"))
      [] Wanted(kind, dp, e) /\ kind # "alloc" /\ e = End -> At(w, dp, "NO_FILE")
      [] OTHER -> At(w, dp, "OK")
InWindow(kind, w, dp) == AtEntry(kind, w, dp, Ent(w, dp))
Scan(kind, v, dp) == InWindow(kind, move_window(v, Sect(dp)), dp)

dir_find(v, dp)  == Scan("find", v, dp)
dir_read(v, dp)  == Scan("read", v, dp)
dir_alloc(v, dp) == Scan("alloc", v, dp)

Entered(v, dp) == At(PutEnt(v, dp, [End EXCEPT !.name = dp.fn]), dp, "OK")
Allocated(a) == IF a.res = "OK" THEN Entered(move_window(a.v, Sect(a.dp)), a.dp) ELSE a
dir_register(v, dp) == Allocated(dir_alloc(v, dir_sdi(dp.sclust, dp.fn)))

Marked(v, dp) == PutEnt(v, dp, [Ent(v, dp) EXCEPT !.name = Deleted])
dir_remove_bug(v, dp) == PutEnt(move_window(v, Sect(dp)), dp, End)   \* as if never used
dir_remove(v, dp) == Marked(move_window(v, Sect(dp)), dp)

\* follow_path, from the directory at sclust.  The names are taken one by one:
\* a later name without an 8.3 form is not looked at before the one in front
\* of it is found.
RECURSIVE Follow(_, _, _)
NoPath(f) == [f EXCEPT !.res = "NO_PATH"]
Enter(path, f, e) == IF e.dir THEN Follow(f.v, e.cl, Tail(path)) ELSE NoPath(f)
Segment(path, f) == CASE Len(path) > 1 /\ f.res = "OK" -> Enter(path, f, Ent(f.v, f.dp))
                      [] Len(path) > 1 /\ f.res = "NO_FILE" -> NoPath(f)
                      [] OTHER -> f
Lookup(v, dp) == IF dp.fn = Invalid THEN At(v, dp, "INVALID_NAME") ELSE dir_find(v, dp)
Follow(v, sclust, path) == Segment(path, Lookup(v, dir_sdi(sclust, ShortName[Head(path)])))

\* The root has no entry: NS_NONAME.
follow_path(v, path) == IF path = <<>> THEN At(v, dir_sdi(0, ""), "OK") ELSE Follow(v, 0, path)
Named(path, p) == IF path = <<>> THEN [p EXCEPT !.res = "INVALID_NAME"] ELSE p
-----------------------------------------------------------------------------
(* Files: f is the FIL, with its own buffer of one sector *)

Truncated_bug(v, dp) ==   \* frees the chain before the entry lets go of it
    LET Emptied(w, e) == At(PutEnt(w, dp, [e EXCEPT !.dir = FALSE, !.cl = 0, !.size = 0]), dp, "OK")
    IN Emptied(move_window(remove_chain(v, Ent(v, dp).cl).v, Sect(dp)), Ent(v, dp))

Released(dp, cl, r) ==
    IF r.res = "OK" THEN At([move_window(r.v, Sect(dp)) EXCEPT !.last = cl - 1], dp, "OK")
    ELSE At(r.v, dp, r.res)
Emptied(v, dp, cl) == IF cl = 0 THEN At(v, dp, "OK") ELSE Released(dp, cl, remove_chain(v, cl))
Truncated(v, dp) ==   \* FA_CREATE_ALWAYS, and every new file
    Emptied(PutEnt(v, dp, [Ent(v, dp) EXCEPT !.dir = FALSE, !.cl = 0, !.size = 0]), dp, Ent(v, dp).cl)

\* The cluster that holds the last of a file's first size bytes.
RECURSIVE LastCluster(_, _, _)
OneOn(g, size) == LastCluster(g.v, g.val, size - csize * SS)
LastCluster(v, c, size) == IF size <= csize * SS THEN [v |-> v, c |-> c] ELSE OneOn(get_fat(v, c), size)

Off(f)  == f.ptr % SS
SectorOf(c, ptr) == clst2sect(c, (ptr \div SS) % csize)
Open(v, f) == [v |-> v, f |-> f, res |-> "OK"]
Buffered(v, f, s) == Open(v, [f EXCEPT !.sect = s, !.buf = v.disk[s].bytes])
AtPtr(v, f) == IF Off(f) = 0 THEN Open(v, f) ELSE Buffered(v, f, SectorOf(f.clust, f.ptr))
Seek(l, f, ofs) == AtPtr(l.v, [f EXCEPT !.ptr = ofs, !.clust = l.c])
Opened(v, dp, mode, created) ==
    LET e == Ent(v, dp)
        f == [dir |-> Sect(dp), slot |-> Slot(dp), sclust |-> e.cl, size |-> e.size, ptr |-> 0,
              clust |-> 0, sect |-> <<>>, buf |-> ZeroBytes, dirty |-> FALSE, modified |-> created]
    IN IF mode # "append" \/ e.size = 0 THEN Open(v, f) ELSE Seek(LastCluster(v, e.cl, e.size), f, e.size)

\* mode: "read", "create" (FA_CREATE_ALWAYS), "always" (FA_OPEN_ALWAYS) or
\* "append" (FA_OPEN_APPEND).
Fails(p, r) == [v |-> p.v, f |-> <<>>, res |-> r]
OpenThere(p, mode, created) == IF p.res = "OK" THEN Opened(p.v, p.dp, mode, created) ELSE Fails(p, p.res)
Created(reg, mode) == IF reg.res = "OK" THEN OpenThere(Truncated(reg.v, reg.dp), mode, TRUE)
                      ELSE Fails(reg, reg.res)
OpenOld(p, mode, isdir) == CASE isdir -> Fails(p, IF mode = "read" THEN "NO_FILE" ELSE "DENIED")
                             [] ~isdir /\ mode = "create" -> Created(p, mode)
                             [] OTHER -> OpenThere(p, mode, FALSE)
OpenNew(p, mode) == IF mode = "read" THEN Fails(p, "NO_FILE") ELSE Created(dir_register(p.v, p.dp), mode)
OpenAt(p, mode) == CASE p.res = "OK" -> OpenOld(p, mode, Ent(p.v, p.dp).dir)
                     [] p.res = "NO_FILE" -> OpenNew(p, mode)
                     [] OTHER -> Fails(p, p.res)
f_open(v, path, mode) == OpenAt(Named(path, follow_path(v, path)), mode)

FlushBuf(v, f) == IF f.dirty THEN disk_write(v, f.sect, [bytes |-> f.buf]) ELSE v
Least(a, b) == IF a <= b THEN a ELSE b

\* f_write.  Files are only extended (they are opened empty or at their end),
\* so no sector is read before it is written.  A full volume ends it with FR_OK.
RECURSIVE f_write(_, _, _)
Part(f, b) == Least(SS - Off(f), Len(b))   \* what goes into the sector at ptr
Filled(f, b) == [i \in 0 .. SS - 1 |->
                    IF i \in Off(f) .. Off(f) + Part(f, b) - 1 THEN b[i - Off(f) + 1] ELSE f.buf[i]]
Went(f, k) == [f EXCEPT !.ptr = @ + k, !.size = f.ptr + k]
Through(v, f, b, sect) == [v |-> disk_write(v, sect, [bytes |-> Filled(f, b)]),
                           f |-> Went([f EXCEPT !.dirty = FALSE], SS)]
IntoBuf(v, f, b, sect) ==
    [v |-> v, f |-> Went([f EXCEPT !.sect = sect, !.buf = Filled(f, b), !.dirty = TRUE], Part(f, b))]
PutPart(v, f, b) == IF Part(f, b) = SS THEN Through(v, f, b, SectorOf(f.clust, f.ptr))
                    ELSE IntoBuf(v, f, b, SectorOf(f.clust, f.ptr))
WriteRest(p, b) == f_write(p.v, p.f, b)
WriteIn(f, b, n) ==
    CASE n.c = 0 -> [v |-> n.v, f |-> [f EXCEPT !.modified = TRUE], res |-> "OK"]
      [] n.c = 1 -> [v |-> n.v, f |-> f, res |-> "INT_ERR"]
      [] OTHER -> WriteRest(PutPart(IF Off(f) = 0 THEN FlushBuf(n.v, f) ELSE n.v,
                                    [f EXCEPT !.clust = n.c, !.sclust = IF @ = 0 THEN n.c ELSE @], b),
                            SubSeq(b, Part(f, b) + 1, Len(b)))
InCluster(f) == Off(f) # 0 \/ (f.ptr \div SS) % csize # 0   \* not at the start of one
ClusterFor(v, f) == CASE InCluster(f) -> [v |-> v, c |-> f.clust]
                      [] f.ptr = 0 /\ f.sclust # 0 -> [v |-> v, c |-> f.sclust]
                      [] OTHER -> create_chain(v, IF f.ptr = 0 THEN 0 ELSE f.clust)
f_write(v, f, b) == IF b = <<>> THEN [v |-> v, f |-> [f EXCEPT !.modified = TRUE], res |-> "OK"]
                    ELSE WriteIn(f, b, ClusterFor(v, f))

\* f_read of n bytes, which it returns as b.
RECURSIVE f_read(_, _, _)
Behind(bytes, off, k, more) == [more EXCEPT !.b = [i \in 1 .. k |-> bytes[off + i - 1]] \o @]
SectorIn(v, f, c) == IF Off(f) = 0 THEN v.disk[SectorOf(c, f.ptr)].bytes ELSE f.buf
ReadIn(f, left, k, g) ==
    IF g.val \notin Clusters THEN [v |-> g.v, f |-> f, b |-> <<>>, res |-> "INT_ERR"]
    ELSE Behind(SectorIn(g.v, f, g.val), Off(f), k,
                f_read(g.v, [f EXCEPT !.ptr = @ + k, !.clust = g.val, !.buf = SectorIn(g.v, f, g.val)], left - k))
ClusterOf_bug(v, f) ==   \* stays in the first cluster
    [v |-> v, val |-> IF ~InCluster(f) /\ f.ptr = 0 THEN f.sclust ELSE f.clust]
ClusterOf(v, f) == CASE InCluster(f) -> [v |-> v, val |-> f.clust]
                     [] ~InCluster(f) /\ f.ptr = 0 -> [v |-> v, val |-> f.sclust]
                     [] OTHER -> get_fat(v, f.clust)
ReadLeft(v, f, left) == IF left = 0 THEN [v |-> v, f |-> f, b |-> <<>>, res |-> "OK"]
                        ELSE ReadIn(f, left, Least(SS - Off(f), left), ClusterOf(v, f))
f_read(v, f, n) == ReadLeft(v, f, Least(n, f.size - f.ptr))

\* f_lseek of a file that is open for reading and was not read, to ofs > 0.
f_lseek(v, f, ofs) == Seek(LastCluster(v, f.sclust, ofs), f, ofs)

SizeSet(v, f) == [v EXCEPT !.win.ents[f.slot].cl = f.sclust, !.win.ents[f.slot].size = f.size,
                           !.wflag = TRUE]
f_close(v, f) == IF f.modified THEN sync_fs(SizeSet(move_window(FlushBuf(v, f), f.dir), f)) ELSE v
-----------------------------------------------------------------------------
(* Whole operations on paths *)

Gone(r) == IF r.res = "OK" THEN sync_fs(r.v) ELSE r.v
Removed(v, cl) == IF cl = 0 THEN sync_fs(v) ELSE Gone(remove_chain(v, cl))
RemoveIfEmpty(d, dp, e) == IF e.dir /\ d.res # "NO_FILE" THEN d.v ELSE Removed(dir_remove(d.v, dp), e.cl)
UnlinkEntry(p, e) == RemoveIfEmpty(IF e.dir THEN dir_read(p.v, dir_sdi(e.cl, "")) ELSE p, p.dp, e)
UnlinkAt(p) == IF p.res = "OK" THEN UnlinkEntry(p, Ent(p.v, p.dp)) ELSE p.v
f_unlink(v, path) == UnlinkAt(Named(path, follow_path(v, path)))

Dot(name, c) == [End EXCEPT !.name = name, !.dir = TRUE, !.cl = c]
DotsIn(v, c, up) == [v EXCEPT !.win.ents[0] = Dot(".", c), !.win.ents[1] = Dot("..", up), !.wflag = TRUE]
EnterDir(reg, c) ==
    IF reg.res # "OK" THEN remove_chain(reg.v, c).v
    ELSE sync_fs(PutEnt(reg.v, reg.dp, [Ent(reg.v, reg.dp) EXCEPT !.cl = c, !.dir = TRUE]))
NewDir(n, dp) == IF n.c < 2 THEN n.v
                 ELSE EnterDir(dir_register(DotsIn(dir_clear(n.v, n.c), n.c, dp.sclust), dp), n.c)
MkdirAt(p) == IF p.res = "NO_FILE" THEN NewDir(create_chain(p.v, 0), p.dp) ELSE p.v
f_mkdir(v, path) == MkdirAt(Named(path, follow_path(v, path)))

\* f_rename writes the new entry before it deletes the old one.  A name that
\* exists already is refused, unless it is the entry that is renamed.
Upward(v, cl) == [v EXCEPT !.win.ents[1].cl = cl, !.wflag = TRUE]
Relinked(v, p, q, e) == IF e.dir /\ p.dp.sclust # q.dp.sclust
                        THEN Upward(move_window(v, clst2sect(e.cl, 0)), q.dp.sclust) ELSE v
RenameTo(reg, p, q, e) ==
    IF reg.res # "OK" THEN reg.v
    ELSE sync_fs(dir_remove(Relinked(PutEnt(reg.v, reg.dp, [e EXCEPT !.name = q.dp.fn]), p, q, e), p.dp))
Same(p, q) == q.res = "OK" /\ q.dp.sclust = p.dp.sclust /\ q.dp.ptr = p.dp.ptr
RenameAs(p, e, q) == IF q.res = "NO_FILE" \/ Same(p, q) THEN RenameTo(dir_register(q.v, q.dp), p, q, e)
                     ELSE q.v
RenameFrom(p, new) ==
    IF p.res # "OK" THEN p.v
    ELSE RenameAs(p, Ent(p.v, p.dp),
                  IF new = <<>> THEN At(p.v, dir_sdi(0, p.dp.fn), "OK") ELSE follow_path(p.v, new))
f_rename(v, old, new) == RenameFrom(Named(old, follow_path(v, old)), new)

\* f_opendir, and f_readdir until it returns no name.  An open directory is a
\* position; an error ends the listing.
EnterAt(p, e) == IF e.dir THEN At(p.v, dir_sdi(e.cl, ""), "OK") ELSE NoPath(p)
OpenDirAt(path, p) == CASE p.res = "NO_FILE" -> NoPath(p)
                        [] p.res \notin {"OK", "NO_FILE"} \/ path = <<>> -> p
                        [] OTHER -> EnterAt(p, Ent(p.v, p.dp))
f_opendir(v, path) == OpenDirAt(path, follow_path(v, path))

RECURSIVE f_readdirs(_, _)
Listed(e, more) == [more EXCEPT !.ents = <<[name |-> e.name, dir |-> e.dir]>> \o @]
NextListed(e, n) == Listed(e, IF n.res = "OK" THEN f_readdirs(n.v, n.dp) ELSE [v |-> n.v, ents |-> <<>>])
ThisListed(r) == IF r.res = "OK" THEN NextListed(Ent(r.v, r.dp), dir_next(r.v, r.dp, FALSE))
                 ELSE [v |-> r.v, ents |-> <<>>]
f_readdirs(v, dp) == ThisListed(dir_read(v, dp))

\* stat: f_getfree counts the free clusters if no count is known.
RECURSIVE CountFree(_, _, _)
Counted(g, c, k) == CountFree(g.v, c + 1, IF g.val = 0 THEN k + 1 ELSE k)
CountFree(v, c, k) == IF c >= n_fatent THEN [v EXCEPT !.free = k, !.fsi = TRUE]
                      ELSE Counted(get_fat(v, c), c, k)
f_getfree(v) == IF v.free <= n_fatent - 2 THEN v ELSE CountFree(v, 2, 0)
=============================================================================
