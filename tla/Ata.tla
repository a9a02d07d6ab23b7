-------------------------------- MODULE Ata --------------------------------
(***************************************************************************)
(* diskio.c and the PIO driver ide.c, with the drive behind them.          *)
(*                                                                         *)
(* The drive is external: it is modelled as the emulated drive of the      *)
(* README's QEMU command line behaves.  It shows BSY or DRQ while it has a *)
(* command, and while it shows either it ignores what is written to its    *)
(* command block.  The driver polls its status register; a transfer of the *)
(* 256 words of a sector is one step, for the drive does nothing else      *)
(* while it shows DRQ.                                                     *)
(***************************************************************************)
EXTENDS Integers, Sequences

CONSTANTS NSectors,    \* sectors of the drive
          Data,        \* what a sector can hold
          MaxCount,    \* the longest request (FatFs: the sectors of a cluster)
          MaxChunk,    \* sectors per command (255)
          Lba28,       \* addresses a command can name (2^28)
          Slow,        \* may the drive take longer than 100000 polls?
          ReadErrors, WriteErrors, \* may a sector be unreadable, unwritable?
          WriteCache,  \* does the drive hold written sectors in a volatile cache?
          NoData, NoRequest

Sectors == 0 .. NSectors - 1
Buffers == UNION {[1 .. n -> Data] : n \in 1 .. MaxCount}

ASSUME AtaAssumption ==
    /\ NSectors \in Nat \ {0} /\ MaxCount \in Nat \ {0} /\ MaxChunk \in Nat \ {0}
    /\ Lba28 \in Nat /\ NSectors <= Lba28
    /\ {Slow, ReadErrors, WriteErrors, WriteCache} \subseteq BOOLEAN
    /\ Data # {} /\ NoData \notin Data
    /\ NoRequest \notin [op : {"read", "write"}, lba : Sectors, buf : Buffers]

VARIABLES disk,    \* what a read of each sector returns
          media,   \* what it holds when the power fails
          status,  \* "ready", "busy" (BSY) or "drq" (DRQ)
          err,     \* ERR
          cmd,     \* the command the drive works on
          at, left,\* its next sector and how many it has still to move
          hold,    \* a sector it was given and has not stored
          pc,      \* where the driver is
          op,      \* what was asked
          first,   \* the first sector asked for
          lba, count, s, \* the driver's variables of the same names
          p,       \* how many sectors of the buffer it has been through
          buf,     \* the caller's buffer
          result   \* the DRESULT of the last request

drive == <<disk, media, status, err, cmd, at, left, hold>>
driver == <<pc, op, first, lba, count, s, p, buf, result>>
vars == <<drive, driver>>

Init == /\ disk \in [Sectors -> Data] /\ media = disk
        /\ status = "ready" /\ err = FALSE /\ cmd = "none" /\ at = 0 /\ left = 0 /\ hold = NoData
        /\ pc = "idle" /\ op = "read" /\ first = 0 /\ lba = 0 /\ count = 0 /\ s = 0 /\ p = 0
        /\ buf = <<>> /\ result = "RES_OK"
-----------------------------------------------------------------------------
(* The drive *)

\* Writing the command register.
Command(c, sector, n) ==
    IF status = "ready"
    THEN /\ cmd' = c /\ at' = sector % Lba28 /\ left' = n
         /\ status' = "busy" /\ err' = FALSE
         /\ UNCHANGED <<disk, media, hold>>
    ELSE UNCHANGED drive

\* The drive has moved a sector; more of the command, or the end of it.
Moved == /\ left' = left - 1
         /\ IF left > 1 THEN at' = at + 1 /\ status' = "busy" /\ UNCHANGED cmd
                        ELSE status' = "ready" /\ cmd' = "none" /\ UNCHANGED at

Abort == status' = "ready" /\ cmd' = "none" /\ err' = TRUE /\ hold' = NoData

DriveFetches == /\ status = "busy" /\ cmd = "read"
                /\ \/ status' = "drq" /\ UNCHANGED <<err, cmd, hold>>
                   \/ ReadErrors /\ Abort
                /\ UNCHANGED <<disk, media, at, left, driver>>

DriveAccepts == /\ status = "busy" /\ cmd = "write" /\ hold = NoData
                /\ status' = "drq"
                /\ UNCHANGED <<disk, media, err, cmd, at, left, hold, driver>>

DriveStores == /\ status = "busy" /\ cmd = "write" /\ hold # NoData
               /\ \/ /\ disk' = [disk EXCEPT ![at] = hold]
                     /\ media' = IF WriteCache THEN media ELSE disk'
                     /\ hold' = NoData /\ Moved /\ UNCHANGED err
                  \/ WriteErrors /\ Abort /\ UNCHANGED <<disk, media, at, left>>
               /\ UNCHANGED driver

DriveFlushes == /\ status = "busy" /\ cmd = "flush"
                /\ media' = disk /\ status' = "ready" /\ cmd' = "none"
                /\ UNCHANGED <<disk, err, at, left, hold, driver>>

Drive == DriveFetches \/ DriveAccepts \/ DriveStores \/ DriveFlushes
-----------------------------------------------------------------------------
(* The driver *)

Chunk_bug == count
Chunk == IF count > MaxChunk THEN MaxChunk ELSE count

\* disk_read and disk_write call ide_read_sectors and ide_write_sectors.
disk_request(o, l, b) ==
    /\ pc = "idle" /\ l + Len(b) <= NSectors
    /\ pc' = "wait_bsy" /\ op' = o /\ first' = l /\ lba' = l /\ count' = Len(b) /\ buf' = b
    /\ p' = 0 /\ UNCHANGED <<drive, s, result>>

Return(r) == pc' = "idle" /\ result' = r

\* ata_wait_bsy has seen BSY clear: address, count and command go out.
issue == /\ pc = "wait_bsy" /\ status # "busy"
         /\ Command(op, lba, Chunk)
         /\ pc' = "wait_drq" /\ s' = 0
         /\ UNCHANGED <<op, first, lba, count, p, buf, result>>

wait_drq_error == /\ pc = "wait_drq" /\ err
                  /\ Return("RES_ERROR")
                  /\ UNCHANGED <<drive, op, first, lba, count, s, p, buf>>

\* 100000 polls went by: sure when the drive has nothing to do, possible when
\* it is slow to fetch or to store a sector.  The command stays with the drive.
Stalls == Slow /\ status = "busy" /\ (cmd = "write" => hold # NoData)
GivesUp_bug == Stalls
GivesUp == status = "ready" \/ Stalls
wait_drq_gives_up == /\ pc = "wait_drq" /\ ~err /\ GivesUp
                     /\ Return("RES_ERROR")
                     /\ UNCHANGED <<drive, op, first, lba, count, s, p, buf>>

NextLba_bug == lba
NextLba == lba + Chunk
\* On to the next chunk, or done.
NextChunk == /\ lba' = NextLba /\ count' = count - Chunk
             /\ IF count > Chunk THEN pc' = "wait_bsy" /\ UNCHANGED result ELSE Return("RES_OK")
LastOfChunk_bug == s + 2 >= Chunk
LastOfChunk == s + 1 >= Chunk

\* 256 words in.  A drive that waits for data to write gives nothing of use.
read_sector ==
    /\ pc = "wait_drq" /\ ~err /\ status = "drq" /\ op = "read"
    /\ \E d \in Data : /\ cmd = "read" => d = disk[at]
                       /\ buf' = [buf EXCEPT ![p + 1] = d]
    /\ p' = p + 1 /\ s' = s + 1
    /\ IF cmd = "read" THEN Moved /\ UNCHANGED <<disk, media, err, hold>> ELSE UNCHANGED drive
    /\ IF LastOfChunk THEN NextChunk ELSE UNCHANGED <<pc, lba, count, result>>
    /\ UNCHANGED <<op, first>>

\* 256 words out.  A drive that has data to give takes none.
write_sector ==
    /\ pc = "wait_drq" /\ ~err /\ status = "drq" /\ op = "write"
    /\ IF cmd = "write"
       THEN hold' = buf[p + 1] /\ status' = "busy" /\ UNCHANGED <<disk, media, err, cmd, at, left>>
       ELSE UNCHANGED drive
    /\ p' = p + 1 /\ s' = s + 1
    /\ pc' = IF LastOfChunk THEN "flush" ELSE "wait_drq"
    /\ UNCHANGED <<op, first, lba, count, buf, result>>

\* FLUSH CACHE goes out as soon as the last word has, with no wait for BSY.
flush == /\ pc = "flush" /\ Command("flush", 0, 0)
         /\ pc' = "flushed"
         /\ UNCHANGED <<op, first, lba, count, s, p, buf, result>>

\* ata_wait_bsy again; the status it ends with is not looked at.
flushed == /\ pc = "flushed" /\ status # "busy"
           /\ NextChunk
           /\ UNCHANGED <<drive, op, first, s, p, buf>>

Driver == \/ issue \/ wait_drq_error \/ wait_drq_gives_up
          \/ read_sector \/ write_sector \/ flush \/ flushed
Next == \/ Drive \/ Driver
        \/ \E o \in {"read", "write"}, l \in Sectors, b \in Buffers : disk_request(o, l, b)

Spec == Init /\ [][Next]_vars
\* The kernel runs on, and the drive gets on with its command.
FairSpec == Spec /\ WF_vars(Driver) /\ WF_vars(Drive)
-----------------------------------------------------------------------------
(* Properties *)

TypeOK == /\ disk \in [Sectors -> Data] /\ media \in [Sectors -> Data]
          /\ status \in {"ready", "busy", "drq"} /\ err \in BOOLEAN
          /\ cmd \in {"none", "read", "write", "flush"}
          /\ at \in Sectors /\ left \in 0 .. MaxChunk /\ hold \in Data \cup {NoData}
          /\ pc \in {"idle", "wait_bsy", "wait_drq", "flush", "flushed"}
          /\ op \in {"read", "write"} /\ first \in Sectors
          /\ lba \in 0 .. NSectors /\ count \in 0 .. MaxCount /\ s \in 0 .. MaxChunk
          /\ p \in 0 .. Len(buf) /\ buf \in Buffers \cup {<<>>}
          /\ result \in {"RES_OK", "RES_ERROR"}

\* The driver is what FatFs takes it for: RES_OK of a read means that the buffer
\* is what the sectors hold, of a write that the sectors hold the buffer, and no
\* sector outside of the request changes.
Given == IF op = "write" THEN buf ELSE [i \in DOMAIN buf |-> CHOOSE d \in Data : TRUE]
Promise == INSTANCE BlockDevice WITH
              request <- IF pc = "idle" THEN NoRequest ELSE [op |-> op, lba |-> first, buf |-> Given],
              buffer  <- IF pc = "idle" /\ op = "read" /\ result = "RES_OK" THEN buf ELSE <<>>
ImplementsBlockDevice == Promise!Spec

\* Whenever the driver sees DRQ, the drive is at the sector the driver is at,
\* with the command the driver gave it.
InStep == pc = "wait_drq" /\ status = "drq" => cmd = op /\ at = lba + s

\* No request waits for ever on a drive that gets on with its commands,
\* whatever sectors are bad.
EveryRequestReturns == pc # "idle" ~> pc = "idle"

\* A write that returned RES_OK, after "flushed" on the serial line, survives a
\* power failure.
OkWriteIsDurable == [][ (pc = "flushed" /\ pc' = "idle" /\ result' = "RES_OK")
                         => \A i \in DOMAIN buf : media[first + i - 1] = buf[i] ]_vars
=============================================================================
