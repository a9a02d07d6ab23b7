----------------------------- MODULE AtaProofs -----------------------------
(***************************************************************************)
(* Theorems about Ata.tla, for every size of the drive, of a request and   *)
(* of a command, and for unreadable sectors.                               *)
(***************************************************************************)
EXTENDS Ata, TLAPS

\* The sector the drive was given last is not on the disk yet.
Storing == status = "busy" /\ cmd = "write" /\ hold # NoData

\* Where the drive and the driver are, relative to each other.
DriveInv ==
    /\ status = "ready" <=> cmd = "none"
    /\ hold # NoData => Storing
    /\ status = "drq" => cmd \in {"read", "write"}
    /\ pc \in {"idle", "wait_bsy"} => status = "ready"
    /\ pc = "wait_drq" =>
         \/ status = "ready" /\ err
         \/ /\ ~err /\ cmd = op /\ s < Chunk
            /\ IF Storing THEN s > 0 /\ at = lba + s - 1 /\ left = Chunk - s + 1
                          ELSE at = lba + s /\ left = Chunk - s
    /\ pc \in {"flush", "flushed"} =>
         /\ op = "write" /\ s = Chunk
         /\ Storing => at = lba + s - 1 /\ left = 1
         /\ cmd = "write" => Storing
         /\ cmd = "flush" => pc = "flushed"
         /\ status # "drq" /\ cmd # "read"

\* The driver's variables count the same thing.
DriverInv ==
    pc # "idle" =>
       /\ buf \in Buffers /\ first + Len(buf) <= NSectors
       /\ count \in 1 .. Len(buf) /\ lba = first + Len(buf) - count
       /\ p = Len(buf) - count + (IF pc = "wait_bsy" THEN 0 ELSE s)

AtaInv == TypeOK /\ DriveInv /\ DriverInv

\* What the buffer and the disk have in common so far.
DataInv ==
    pc # "idle" =>
       /\ op = "read" => \A i \in 1 .. p : buf[i] = disk[first + i - 1]
       /\ op = "write" => /\ Storing => hold = buf[p]
                          /\ \A i \in 1 .. (IF Storing THEN p - 1 ELSE p) : disk[first + i - 1] = buf[i]
                          /\ pc = "wait_drq" => status # "ready"

-----------------------------------------------------------------------------
\* A buffer is a sequence of 1 to MaxCount sectors, and stays one when a
\* sector of it is overwritten.
LEMMA BufferFacts ==
  ASSUME NEW b \in Buffers
  PROVE  /\ Len(b) \in 1 .. MaxCount /\ DOMAIN b = 1 .. Len(b) /\ b \in Seq(Data)
         /\ \A i \in 1 .. Len(b) : b[i] \in Data
         /\ \A i \in 1 .. Len(b), d \in Data :
               LET c == [b EXCEPT ![i] = d] IN
               c \in Buffers /\ Len(c) = Len(b) /\ \A j \in 1 .. Len(b) : c[j] = IF j = i THEN d ELSE b[j]
<1>1. PICK n \in 1 .. MaxCount : b \in [1 .. n -> Data]
  BY DEF Buffers
<1>2. b \in Seq(Data) /\ Len(b) = n
  BY <1>1, AtaAssumption
<1>3. ASSUME NEW i \in 1 .. n, NEW d \in Data
      PROVE  LET c == [b EXCEPT ![i] = d] IN
             c \in Buffers /\ Len(c) = n /\ \A j \in 1 .. n : c[j] = IF j = i THEN d ELSE b[j]
  <2> DEFINE c == [b EXCEPT ![i] = d]
  <2>1. c \in [1 .. n -> Data] /\ \A j \in 1 .. n : c[j] = IF j = i THEN d ELSE b[j]
    BY <1>1
  <2> HIDE DEF c
  <2>2. c \in Seq(Data) /\ Len(c) = n
    BY <2>1, AtaAssumption
  <2>3. c \in Buffers
    BY <2>1 DEF Buffers
  <2> QED
    BY <2>1, <2>2, <2>3 DEF c
<1> QED
  BY <1>1, <1>2, <1>3

\* A command never has more sectors than the request has left, nor than
\* MaxChunk, and always has one.
LEMMA ChunkBounds ==
  ASSUME NEW c \in 1 .. MaxCount, count = c
  PROVE  Chunk \in 1 .. MaxChunk /\ Chunk <= count
BY AtaAssumption DEF Chunk

-----------------------------------------------------------------------------
(* The drive's steps *)

LEMMA FetchKeeps ==
  ASSUME AtaInv, DriveFetches
  PROVE  AtaInv'
<1>1. pc' = pc /\ op' = op /\ first' = first /\ lba' = lba /\ count' = count /\ s' = s /\ p' = p
      /\ buf' = buf /\ result' = result /\ disk' = disk /\ media' = media /\ at' = at /\ left' = left
  BY DEF DriveFetches, driver
<1>2. status = "busy" /\ cmd = "read" /\ hold = NoData
  BY DEF DriveFetches, AtaInv, DriveInv, Storing
<1>3. \/ status' = "drq" /\ err' = err /\ cmd' = cmd /\ hold' = hold
      \/ status' = "ready" /\ err' = TRUE /\ cmd' = "none" /\ hold' = NoData
  BY DEF DriveFetches, Abort
<1>4. TypeOK'
  BY <1>1, <1>2, <1>3 DEF AtaInv, TypeOK
<1>5. DriveInv'
  BY <1>1, <1>2, <1>3 DEF AtaInv, DriveInv, Storing, Chunk
<1>6. DriverInv'
  BY <1>1 DEF AtaInv, DriverInv
<1> QED
  BY <1>4, <1>5, <1>6 DEF AtaInv

LEMMA AcceptKeeps ==
  ASSUME AtaInv, DriveAccepts
  PROVE  AtaInv'
<1>1. pc' = pc /\ op' = op /\ first' = first /\ lba' = lba /\ count' = count /\ s' = s /\ p' = p
      /\ buf' = buf /\ result' = result /\ disk' = disk /\ media' = media /\ at' = at /\ left' = left
      /\ err' = err /\ cmd' = cmd /\ hold' = hold
  BY DEF DriveAccepts, driver
<1>2. status = "busy" /\ cmd = "write" /\ hold = NoData /\ status' = "drq"
  BY DEF DriveAccepts
<1>3. TypeOK'
  BY <1>1, <1>2 DEF AtaInv, TypeOK
<1>4. DriveInv'
  BY <1>1, <1>2 DEF AtaInv, DriveInv, Storing, Chunk
<1>5. DriverInv'
  BY <1>1 DEF AtaInv, DriverInv
<1> QED
  BY <1>3, <1>4, <1>5 DEF AtaInv

LEMMA StoreKeeps ==
  ASSUME AtaInv, DriveStores
  PROVE  AtaInv'
<1>1. pc' = pc /\ op' = op /\ first' = first /\ lba' = lba /\ count' = count /\ s' = s /\ p' = p
      /\ buf' = buf /\ result' = result
  BY DEF DriveStores, driver
<1>2. status = "busy" /\ cmd = "write" /\ hold # NoData /\ Storing
  BY DEF DriveStores, Storing
<1>3. CASE Abort /\ disk' = disk /\ media' = media /\ at' = at /\ left' = left
  <2>1. TypeOK'
    BY <1>1, <1>3 DEF AtaInv, TypeOK, Abort
  <2>2. DriveInv'
    BY <1>1, <1>2, <1>3 DEF AtaInv, DriveInv, Storing, Chunk, Abort
  <2>3. DriverInv'
    BY <1>1 DEF AtaInv, DriverInv
  <2> QED
    BY <2>1, <2>2, <2>3 DEF AtaInv
<1>4. CASE disk' = [disk EXCEPT ![at] = hold] /\ media' = (IF WriteCache THEN media ELSE disk')
           /\ hold' = NoData /\ Moved /\ err' = err
  <2>1. /\ pc \in {"wait_drq", "flush", "flushed"} /\ count \in 1 .. MaxCount /\ count \in 1 .. Len(buf)
        /\ lba = first + Len(buf) - count /\ first + Len(buf) <= NSectors /\ Len(buf) \in Nat
    BY <1>2, BufferFacts DEF AtaInv, DriveInv, DriverInv, TypeOK
  <2>2. Chunk \in 1 .. MaxChunk /\ Chunk <= count
    BY <2>1, ChunkBounds
  <2>3. /\ s > 0 /\ at = lba + s - 1 /\ left = Chunk - s + 1 /\ s <= Chunk
        /\ pc # "wait_drq" => left = 1
    <3>1. CASE pc = "wait_drq"
      BY <1>2, <2>1, <2>2, <3>1 DEF AtaInv, DriveInv, TypeOK
    <3>2. CASE pc # "wait_drq"
      BY <1>2, <2>1, <2>2, <3>2 DEF AtaInv, DriveInv, TypeOK
    <3> QED
      BY <3>1, <3>2
  <2>4. Chunk' = Chunk
    BY <1>1 DEF Chunk
  <2>5. /\ left' = left - 1
        /\ \/ left > 1 /\ at' = at + 1 /\ status' = "busy" /\ cmd' = cmd
           \/ left = 1 /\ at' = at /\ status' = "ready" /\ cmd' = "none"
    BY <1>4, <2>2, <2>3 DEF Moved, AtaInv, TypeOK
  <2>6. at \in Sectors /\ at' \in Sectors /\ left' \in 0 .. MaxChunk
    BY <2>1, <2>2, <2>3, <2>5, AtaAssumption DEF AtaInv, TypeOK, Sectors
  <2>7. TypeOK'
    BY <1>1, <1>2, <1>4, <2>5, <2>6 DEF AtaInv, TypeOK
  <2>8. DriveInv'
    BY <1>1, <1>2, <1>4, <2>1, <2>2, <2>3, <2>4, <2>5 DEF AtaInv, DriveInv, Storing, TypeOK
  <2>9. DriverInv'
    BY <1>1 DEF AtaInv, DriverInv
  <2> QED
    BY <2>7, <2>8, <2>9 DEF AtaInv
<1> QED
  BY <1>3, <1>4 DEF DriveStores

LEMMA FlushKeeps ==
  ASSUME AtaInv, DriveFlushes
  PROVE  AtaInv'
<1>1. pc' = pc /\ op' = op /\ first' = first /\ lba' = lba /\ count' = count /\ s' = s /\ p' = p
      /\ buf' = buf /\ result' = result /\ disk' = disk /\ at' = at /\ left' = left
      /\ err' = err /\ hold' = hold /\ media' = disk
  BY DEF DriveFlushes, driver
<1>2. status = "busy" /\ cmd = "flush" /\ status' = "ready" /\ cmd' = "none"
  BY DEF DriveFlushes
<1>3. TypeOK'
  BY <1>1, <1>2 DEF AtaInv, TypeOK
<1>4. DriveInv'
  BY <1>1, <1>2 DEF AtaInv, TypeOK, DriveInv, Storing, Chunk
<1>5. DriverInv'
  BY <1>1 DEF AtaInv, DriverInv
<1> QED
  BY <1>3, <1>4, <1>5 DEF AtaInv

-----------------------------------------------------------------------------
(* The driver's steps *)

LEMMA RequestKeeps ==
  ASSUME AtaInv, NEW o \in {"read", "write"}, NEW l \in Sectors, NEW b \in Buffers,
         disk_request(o, l, b)
  PROVE  AtaInv'
<1>1. /\ pc = "idle" /\ l + Len(b) <= NSectors /\ pc' = "wait_bsy" /\ op' = o /\ first' = l /\ lba' = l
      /\ count' = Len(b) /\ buf' = b /\ p' = 0 /\ s' = s /\ result' = result
  BY DEF disk_request
<1>2. /\ disk' = disk /\ media' = media /\ status' = status /\ err' = err /\ cmd' = cmd
      /\ at' = at /\ left' = left /\ hold' = hold
  BY DEF disk_request, drive
<1>3. Len(b) \in 1 .. MaxCount
  BY BufferFacts
<1>4. TypeOK'
  BY <1>1, <1>2, <1>3, AtaAssumption DEF AtaInv, TypeOK, Sectors
<1>5. DriveInv'
  BY <1>1, <1>2 DEF AtaInv, DriveInv, Storing
<1>6. DriverInv'
  BY <1>1, <1>3, AtaAssumption DEF DriverInv, Sectors
<1> QED
  BY <1>4, <1>5, <1>6 DEF AtaInv

LEMMA IssueKeeps ==
  ASSUME AtaInv, issue
  PROVE  AtaInv'
<1>1. /\ pc = "wait_bsy" /\ pc' = "wait_drq" /\ s' = 0 /\ op' = op /\ first' = first /\ lba' = lba
      /\ count' = count /\ p' = p /\ buf' = buf /\ result' = result
  BY DEF issue
<1>2. status = "ready" /\ hold = NoData
  BY <1>1 DEF AtaInv, DriveInv, Storing
<1>3. /\ count \in 1 .. MaxCount /\ count \in 1 .. Len(buf) /\ lba = first + Len(buf) - count
      /\ first + Len(buf) <= NSectors /\ Len(buf) \in Nat
  BY <1>1, BufferFacts DEF AtaInv, DriverInv, TypeOK
<1>4. Chunk \in 1 .. MaxChunk /\ Chunk <= count /\ Chunk' = Chunk
  BY <1>1, <1>3, ChunkBounds DEF Chunk
<1>5. lba \in Sectors /\ lba % Lba28 = lba
  BY <1>3, AtaAssumption, SMTT(60) DEF AtaInv, TypeOK, Sectors
<1>6. /\ cmd' = op /\ at' = lba /\ left' = Chunk /\ status' = "busy" /\ err' = FALSE
      /\ disk' = disk /\ media' = media /\ hold' = hold
  BY <1>2, <1>5 DEF issue, Command
<1>7. TypeOK'
  <2>1. /\ disk' \in [Sectors -> Data] /\ media' \in [Sectors -> Data] /\ err' \in BOOLEAN
        /\ status' \in {"ready", "busy", "drq"} /\ cmd' \in {"none", "read", "write", "flush"}
    BY <1>6 DEF AtaInv, TypeOK
  <2>2. at' \in Sectors /\ left' \in 0 .. MaxChunk /\ hold' \in Data \cup {NoData} /\ s' \in 0 .. MaxChunk
    BY <1>1, <1>4, <1>5, <1>6, AtaAssumption DEF AtaInv, TypeOK
  <2> QED
    BY <1>1, <2>1, <2>2 DEF AtaInv, TypeOK
<1>8. DriveInv'
  BY <1>1, <1>2, <1>4, <1>5, <1>6 DEF AtaInv, TypeOK, DriveInv, Storing, Sectors
<1>9. DriverInv'
  BY <1>1 DEF AtaInv, DriverInv, TypeOK
<1> QED
  BY <1>7, <1>8, <1>9 DEF AtaInv

\* Only an error ends the wait for DRQ early: a command the drive has taken is
\* not given up while the drive is not slow.
LEMMA WaitKeeps ==
  ASSUME AtaInv, ~Slow, wait_drq_error \/ wait_drq_gives_up
  PROVE  AtaInv'
<1>1. /\ pc = "wait_drq" /\ pc' = "idle" /\ result' = "RES_ERROR" /\ op' = op /\ first' = first
      /\ lba' = lba /\ count' = count /\ s' = s /\ p' = p /\ buf' = buf
      /\ err \/ GivesUp
  BY DEF wait_drq_error, wait_drq_gives_up, Return
<1>2. /\ disk' = disk /\ media' = media /\ status' = status /\ err' = err /\ cmd' = cmd
      /\ at' = at /\ left' = left /\ hold' = hold
  BY DEF wait_drq_error, wait_drq_gives_up, drive
<1>3. status = "ready"
  BY <1>1 DEF AtaInv, DriveInv, GivesUp, Stalls
<1>4. TypeOK'
  BY <1>1, <1>2 DEF AtaInv, TypeOK
<1>5. DriveInv'
  BY <1>1, <1>2, <1>3 DEF AtaInv, DriveInv, Storing
<1>6. DriverInv'
  BY <1>1 DEF DriverInv
<1> QED
  BY <1>4, <1>5, <1>6 DEF AtaInv

\* In a transfer the driver's place in the request is within its bounds.
LEMMA Within ==
  ASSUME AtaInv, pc # "idle"
  PROVE  /\ buf \in Buffers /\ Len(buf) \in 1 .. MaxCount /\ first \in Nat /\ first + Len(buf) <= NSectors
         /\ count \in 1 .. Len(buf) /\ lba = first + Len(buf) - count
         /\ Chunk \in 1 .. MaxChunk /\ Chunk <= count /\ s \in 0 .. MaxChunk
         /\ pc # "wait_bsy" => p = Len(buf) - count + s
<1>1. /\ buf \in Buffers /\ first + Len(buf) <= NSectors /\ count \in 1 .. Len(buf)
      /\ lba = first + Len(buf) - count
      /\ pc # "wait_bsy" => p = Len(buf) - count + s
  BY DEF AtaInv, DriverInv
<1>2. Len(buf) \in 1 .. MaxCount
  BY <1>1, BufferFacts
<1>3. Chunk \in 1 .. MaxChunk /\ Chunk <= count
  BY <1>1, <1>2, ChunkBounds, AtaAssumption
<1>4. first \in Nat /\ s \in 0 .. MaxChunk
  BY DEF AtaInv, TypeOK, Sectors
<1> QED
  BY <1>1, <1>2, <1>3, <1>4

\* At DRQ the drive has the driver's command and is at the driver's sector.
LEMMA AtDrq ==
  ASSUME AtaInv, pc = "wait_drq", status = "drq"
  PROVE  /\ ~err /\ cmd = op /\ s < Chunk /\ at = lba + s /\ left = Chunk - s /\ hold = NoData
BY DEF AtaInv, DriveInv, Storing

LEMMA ReadKeeps ==
  ASSUME AtaInv, read_sector
  PROVE  AtaInv'
<1>1. /\ pc = "wait_drq" /\ status = "drq" /\ op = "read" /\ p' = p + 1 /\ s' = s + 1
      /\ op' = op /\ first' = first
  BY DEF read_sector
<1>2. /\ ~err /\ cmd = "read" /\ s < Chunk /\ at = lba + s /\ left = Chunk - s /\ hold = NoData
  BY <1>1, AtDrq
<1>3. /\ buf \in Buffers /\ Len(buf) \in 1 .. MaxCount /\ first \in Nat /\ first + Len(buf) <= NSectors
      /\ count \in 1 .. Len(buf) /\ lba = first + Len(buf) - count
      /\ Chunk \in 1 .. MaxChunk /\ Chunk <= count /\ s \in 0 .. MaxChunk
      /\ p = Len(buf) - count + s
  BY <1>1, Within
<1>4. PICK d \in Data : d = disk[at] /\ buf' = [buf EXCEPT ![p + 1] = d]
  BY <1>2 DEF read_sector
<1>5. p + 1 \in 1 .. Len(buf)
  BY <1>2, <1>3
<1>6. buf' \in Buffers /\ Len(buf') = Len(buf)
  <2>1. \A i \in 1 .. Len(buf), e \in Data :
           [buf EXCEPT ![i] = e] \in Buffers /\ Len([buf EXCEPT ![i] = e]) = Len(buf)
    BY <1>3, BufferFacts
  <2> QED
    BY <1>4, <1>5, <2>1
<1>7. /\ disk' = disk /\ media' = media /\ err' = err /\ hold' = hold /\ left' = left - 1
      /\ \/ left > 1 /\ at' = at + 1 /\ status' = "busy" /\ cmd' = cmd
         \/ left = 1 /\ at' = at /\ status' = "ready" /\ cmd' = "none"
  BY <1>2, <1>3 DEF read_sector, Moved
<1>8. CASE s + 1 < Chunk
  <2>1. pc' = pc /\ lba' = lba /\ count' = count /\ result' = result
    BY <1>2, <1>3, <1>8 DEF read_sector, LastOfChunk
  <2>2. Chunk' = Chunk
    BY <2>1 DEF Chunk
  <2>3. left > 1 /\ at + 1 \in Sectors
    BY <1>2, <1>3, <1>8, AtaAssumption DEF Sectors
  <2>4. TypeOK'
    <3>1. /\ disk' \in [Sectors -> Data] /\ media' \in [Sectors -> Data] /\ err' \in BOOLEAN
          /\ status' \in {"ready", "busy", "drq"} /\ cmd' \in {"none", "read", "write", "flush"}
      BY <1>7 DEF AtaInv, TypeOK
    <3>2. at' \in Sectors /\ left' \in 0 .. MaxChunk /\ hold' \in Data \cup {NoData} /\ s' \in 0 .. MaxChunk
      BY <1>1, <1>2, <1>3, <1>7, <1>8, <2>3, AtaAssumption DEF AtaInv, TypeOK
    <3>3. p' \in 0 .. Len(buf') /\ buf' \in Buffers
      BY <1>1, <1>3, <1>5, <1>6
    <3> QED
      BY <1>1, <2>1, <3>1, <3>2, <3>3 DEF AtaInv, TypeOK
  <2>5. DriveInv'
    BY <1>1, <1>2, <1>3, <1>7, <1>8, <2>1, <2>2, <2>3 DEF DriveInv, Storing
  <2>6. DriverInv'
    BY <1>1, <1>3, <1>6, <2>1 DEF DriverInv
  <2> QED
    BY <2>4, <2>5, <2>6 DEF AtaInv
<1>9. CASE s + 1 = Chunk
  <2>1. /\ lba' = lba + Chunk /\ count' = count - Chunk
        /\ \/ count > Chunk /\ pc' = "wait_bsy" /\ result' = result
           \/ count = Chunk /\ pc' = "idle" /\ result' = "RES_OK"
    BY <1>2, <1>3, <1>9 DEF read_sector, LastOfChunk, NextChunk, NextLba, Return
  <2>2. left = 1
    BY <1>2, <1>3, <1>9
  <2>4. TypeOK'
    <3>1. /\ disk' \in [Sectors -> Data] /\ media' \in [Sectors -> Data] /\ err' \in BOOLEAN
          /\ status' \in {"ready", "busy", "drq"} /\ cmd' \in {"none", "read", "write", "flush"}
      BY <1>7 DEF AtaInv, TypeOK
    <3>2. at' \in Sectors /\ left' \in 0 .. MaxChunk /\ hold' \in Data \cup {NoData} /\ s' \in 0 .. MaxChunk
      <4>1. s' \in 0 .. MaxChunk /\ left' \in 0 .. MaxChunk
        BY <1>1, <1>3, <1>7, <1>9, <2>2, AtaAssumption
      <4> QED
        BY <1>7, <2>2, <4>1 DEF AtaInv, TypeOK
    <3>3. lba' \in 0 .. NSectors /\ count' \in 0 .. MaxCount
      BY <1>3, <2>1, AtaAssumption
    <3>4. pc' \in {"idle", "wait_bsy"} /\ result' \in {"RES_OK", "RES_ERROR"}
      BY <2>1 DEF AtaInv, TypeOK
    <3>5. p' \in 0 .. Len(buf') /\ buf' \in Buffers
      BY <1>1, <1>3, <1>5, <1>6
    <3> QED
      BY <1>1, <3>1, <3>2, <3>3, <3>4, <3>5 DEF AtaInv, TypeOK
  <2>5. DriveInv'
    BY <1>1, <1>2, <1>7, <2>1, <2>2 DEF DriveInv, Storing
  <2>6. DriverInv'
    BY <1>1, <1>3, <1>6, <1>9, <2>1 DEF DriverInv
  <2> QED
    BY <2>4, <2>5, <2>6 DEF AtaInv
<1> QED
  BY <1>2, <1>3, <1>8, <1>9

LEMMA WriteKeeps ==
  ASSUME AtaInv, write_sector
  PROVE  AtaInv'
<1>1. /\ pc = "wait_drq" /\ status = "drq" /\ op = "write" /\ p' = p + 1 /\ s' = s + 1
      /\ op' = op /\ first' = first /\ lba' = lba /\ count' = count /\ buf' = buf /\ result' = result
      /\ pc' = IF LastOfChunk THEN "flush" ELSE "wait_drq"
  BY DEF write_sector
<1>2. /\ ~err /\ cmd = "write" /\ s < Chunk /\ at = lba + s /\ left = Chunk - s /\ hold = NoData
  BY <1>1, AtDrq
<1>3. /\ buf \in Buffers /\ Len(buf) \in 1 .. MaxCount /\ first \in Nat /\ first + Len(buf) <= NSectors
      /\ count \in 1 .. Len(buf) /\ lba = first + Len(buf) - count
      /\ Chunk \in 1 .. MaxChunk /\ Chunk <= count /\ s \in 0 .. MaxChunk
      /\ p = Len(buf) - count + s
  BY <1>1, Within
<1>4. /\ hold' = buf[p + 1] /\ status' = "busy" /\ disk' = disk /\ media' = media /\ err' = err
      /\ cmd' = cmd /\ at' = at /\ left' = left
  BY <1>2 DEF write_sector
<1>5. p + 1 \in 1 .. Len(buf) /\ buf[p + 1] \in Data /\ hold' # NoData
  BY <1>2, <1>3, <1>4, BufferFacts, AtaAssumption
<1>6. Chunk' = Chunk
  BY <1>1 DEF Chunk
<1>7. TypeOK'
  <2>1. /\ disk' \in [Sectors -> Data] /\ media' \in [Sectors -> Data] /\ err' \in BOOLEAN
        /\ status' \in {"ready", "busy", "drq"} /\ cmd' \in {"none", "read", "write", "flush"}
        /\ at' \in Sectors /\ left' \in 0 .. MaxChunk /\ hold' \in Data \cup {NoData}
    BY <1>4, <1>5 DEF AtaInv, TypeOK
  <2>2. s' \in 0 .. MaxChunk
    BY <1>1, <1>2, <1>3, AtaAssumption
  <2>3. p' \in 0 .. Len(buf')
    BY <1>1, <1>3, <1>5
  <2>4. pc' \in {"flush", "wait_drq"}
    BY <1>1
  <2> QED
    BY <1>1, <2>1, <2>2, <2>3, <2>4 DEF AtaInv, TypeOK
<1>8. DriveInv'
  <2>1. status' = "busy" /\ cmd' = "write" /\ hold' # NoData /\ op' = "write"
    BY <1>1, <1>2, <1>4, <1>5
  <2>2. CASE s + 1 < Chunk
    <3>1. pc' = "wait_drq"
      BY <1>1, <1>3, <2>2, AtaAssumption DEF LastOfChunk
    <3>2. s' > 0 /\ at' = lba' + s' - 1 /\ left' = Chunk' - s' + 1 /\ s' < Chunk'
      BY <1>1, <1>2, <1>3, <1>4, <1>6, <2>2, AtaAssumption, SMTT(60)
    <3> QED
      BY <1>2, <1>4, <2>1, <3>1, <3>2 DEF DriveInv, Storing
  <2>3. CASE s + 1 = Chunk
    <3>1. pc' = "flush"
      BY <1>1, <1>3, <2>3, AtaAssumption DEF LastOfChunk
    <3>2. s' = Chunk' /\ at' = lba' + s' - 1 /\ left' = 1
      BY <1>1, <1>2, <1>3, <1>4, <1>6, <2>3, AtaAssumption, SMTT(60)
    <3> QED
      BY <2>1, <3>1, <3>2 DEF DriveInv, Storing
  <2> QED
    BY <1>2, <1>3, <2>2, <2>3, AtaAssumption
<1>9. DriverInv'
  BY <1>1, <1>3 DEF DriverInv
<1> QED
  BY <1>7, <1>8, <1>9 DEF AtaInv

LEMMA FlushIssueKeeps ==
  ASSUME AtaInv, flush
  PROVE  AtaInv'
<1>1. /\ pc = "flush" /\ pc' = "flushed" /\ op' = op /\ first' = first /\ lba' = lba /\ count' = count
      /\ s' = s /\ p' = p /\ buf' = buf /\ result' = result
  BY DEF flush
<1>2. Chunk' = Chunk
  BY <1>1 DEF Chunk
<1>3. CASE status = "ready"
  <2>1. /\ cmd' = "flush" /\ at' = 0 /\ left' = 0 /\ status' = "busy" /\ err' = FALSE
        /\ disk' = disk /\ media' = media /\ hold' = hold
    BY <1>1, <1>3, AtaAssumption DEF flush, Command
  <2>2. TypeOK'
    <3>1. at' \in Sectors /\ left' \in 0 .. MaxChunk
      BY <2>1, AtaAssumption DEF Sectors
    <3> QED
      BY <1>1, <2>1, <3>1 DEF AtaInv, TypeOK
  <2>3. DriveInv'
    BY <1>1, <1>2, <1>3, <2>1 DEF AtaInv, DriveInv, Storing
  <2> QED
    BY <1>1, <2>2, <2>3 DEF AtaInv, DriverInv
<1>4. CASE status # "ready"
  <2>1. /\ disk' = disk /\ media' = media /\ status' = status /\ err' = err /\ cmd' = cmd
        /\ at' = at /\ left' = left /\ hold' = hold
    BY <1>1, <1>4 DEF flush, Command, drive
  <2>2. TypeOK'
    BY <1>1, <2>1 DEF AtaInv, TypeOK
  <2>3. DriveInv'
    BY <1>1, <1>2, <2>1 DEF AtaInv, DriveInv, Storing
  <2> QED
    BY <1>1, <2>2, <2>3 DEF AtaInv, DriverInv
<1> QED
  BY <1>3, <1>4

LEMMA FlushedKeeps ==
  ASSUME AtaInv, flushed
  PROVE  AtaInv'
<1>1. /\ pc = "flushed" /\ status # "busy" /\ op' = op /\ first' = first
      /\ s' = s /\ p' = p /\ buf' = buf
  BY DEF flushed
<1>2. /\ buf \in Buffers /\ Len(buf) \in 1 .. MaxCount /\ first \in Nat /\ first + Len(buf) <= NSectors
      /\ count \in 1 .. Len(buf) /\ lba = first + Len(buf) - count
      /\ Chunk \in 1 .. MaxChunk /\ Chunk <= count /\ s \in 0 .. MaxChunk
      /\ p = Len(buf) - count + s
  BY <1>1, Within
<1>3. status = "ready" /\ cmd = "none" /\ hold = NoData /\ s = Chunk
  BY <1>1 DEF AtaInv, DriveInv, Storing, TypeOK
<1>4. /\ lba' = lba + Chunk /\ count' = count - Chunk
      /\ \/ count > Chunk /\ pc' = "wait_bsy" /\ result' = result
         \/ count = Chunk /\ pc' = "idle" /\ result' = "RES_OK"
  BY <1>2 DEF flushed, NextChunk, NextLba, Return
<1>5. /\ disk' = disk /\ media' = media /\ status' = status /\ err' = err /\ cmd' = cmd
      /\ at' = at /\ left' = left /\ hold' = hold
  BY DEF flushed, drive
<1>6. TypeOK'
  <2>1. lba' \in 0 .. NSectors /\ count' \in 0 .. MaxCount
    BY <1>2, <1>4, AtaAssumption
  <2>2. pc' \in {"idle", "wait_bsy"} /\ result' \in {"RES_OK", "RES_ERROR"}
    BY <1>4 DEF AtaInv, TypeOK
  <2> QED
    BY <1>1, <1>5, <2>1, <2>2 DEF AtaInv, TypeOK
<1>7. DriveInv'
  BY <1>3, <1>4, <1>5 DEF DriveInv, Storing
<1>8. DriverInv'
  BY <1>1, <1>2, <1>3, <1>4 DEF DriverInv
<1> QED
  BY <1>6, <1>7, <1>8 DEF AtaInv

-----------------------------------------------------------------------------
LEMMA AtaInductive == ASSUME ~Slow PROVE Spec => []AtaInv
<1>1. Init => AtaInv
  <2> SUFFICES ASSUME Init PROVE AtaInv
    OBVIOUS
  <2>1. 0 \in Sectors /\ Len(<<>>) = 0
    BY AtaAssumption DEF Sectors
  <2>2. /\ disk \in [Sectors -> Data] /\ media \in [Sectors -> Data] /\ status \in {"ready", "busy", "drq"}
        /\ err \in BOOLEAN /\ cmd \in {"none", "read", "write", "flush"}
    BY DEF Init
  <2>3. /\ at \in Sectors /\ first \in Sectors /\ left \in 0 .. MaxChunk /\ lba \in 0 .. NSectors
        /\ count \in 0 .. MaxCount /\ s \in 0 .. MaxChunk
    BY <2>1, AtaAssumption DEF Init
  <2>4. p \in 0 .. Len(buf) /\ buf \in Buffers \cup {<<>>}
    BY <2>1 DEF Init
  <2>5. TypeOK
    BY <2>2, <2>3, <2>4 DEF Init, TypeOK
  <2> QED
    BY <2>5 DEF Init, AtaInv, DriveInv, DriverInv, Storing
<1>2. AtaInv /\ [Next]_vars => AtaInv'
  <2> SUFFICES ASSUME AtaInv, [Next]_vars PROVE AtaInv'
    OBVIOUS
  <2>1. CASE UNCHANGED vars
    <3>1. TypeOK'
      BY <2>1 DEF vars, drive, driver, AtaInv, TypeOK
    <3>2. DriveInv'
      BY <2>1 DEF vars, drive, driver, AtaInv, DriveInv, Storing, Chunk
    <3>3. DriverInv'
      BY <2>1 DEF vars, drive, driver, AtaInv, DriverInv
    <3> QED
      BY <3>1, <3>2, <3>3 DEF AtaInv
  <2> QED
    BY <2>1, FetchKeeps, AcceptKeeps, StoreKeeps, FlushKeeps, RequestKeeps, IssueKeeps, WaitKeeps,
       ReadKeeps, WriteKeeps, FlushIssueKeeps, FlushedKeeps DEF Next, Drive, Driver
<1> QED
  BY <1>1, <1>2, PTL DEF Spec

\* Type correctness: no command asks for more than MaxChunk sectors, none
\* reaches past the drive and no transfer past the buffer.
THEOREM AtaTypeCorrect == ASSUME ~Slow PROVE Spec => []TypeOK
<1>1. AtaInv => TypeOK
  BY DEF AtaInv
<1> QED
  BY <1>1, AtaInductive, PTL

\* While no sector takes longer than the polls, the driver and the drive agree
\* on the sector that is moved, even after unreadable and unwritable ones.
THEOREM DriverInStep == ASSUME ~Slow PROVE Spec => []InStep
<1>1. AtaInv => InStep
  BY AtDrq DEF InStep
<1> QED
  BY <1>1, AtaInductive, PTL

-----------------------------------------------------------------------------
(* The driver implements BlockDevice *)

\* Storing a sector: it is the buffer's sector p, and it lands where p belongs.
LEMMA StoredWhere ==
  ASSUME AtaInv, DataInv, DriveStores, ~WriteErrors
  PROVE  /\ pc \in {"wait_drq", "flush", "flushed"} /\ op = "write"
         /\ p \in 1 .. Len(buf) /\ hold = buf[p] /\ at = first + p - 1
         /\ disk' = [disk EXCEPT ![first + p - 1] = buf[p]]
         /\ hold' = NoData /\ (pc = "wait_drq" => status' # "ready")
<1>1. Storing /\ pc \in {"wait_drq", "flush", "flushed"}
  BY DEF DriveStores, Storing, AtaInv, DriveInv, TypeOK
<1>2. op = "write"
  BY <1>1 DEF AtaInv, DriveInv, Storing
<1>3. /\ Len(buf) \in 1 .. MaxCount /\ count \in 1 .. Len(buf) /\ lba = first + Len(buf) - count
      /\ Chunk \in 1 .. MaxChunk /\ Chunk <= count /\ s \in 0 .. MaxChunk /\ first \in Nat
      /\ p = Len(buf) - count + s
  BY <1>1, Within
<1>4. s > 0 /\ s <= Chunk /\ at = lba + s - 1 /\ (pc = "wait_drq" => left = Chunk - s + 1 /\ s < Chunk)
  <2>1. CASE pc = "wait_drq"
    BY <1>1, <1>3, <2>1, AtaAssumption DEF AtaInv, DriveInv, Storing
  <2>2. CASE pc # "wait_drq"
    BY <1>1, <1>3, <2>2, AtaAssumption DEF AtaInv, DriveInv, Storing
  <2> QED
    BY <2>1, <2>2
<1>5. p \in 1 .. Len(buf) /\ at = first + p - 1
  BY <1>3, <1>4, AtaAssumption, SMTT(60)
<1>6. hold = buf[p]
  BY <1>1, <1>2 DEF DataInv
<1>7. disk' = [disk EXCEPT ![at] = hold] /\ hold' = NoData /\ Moved
  BY DEF DriveStores
<1>8. pc = "wait_drq" => left > 1
  BY <1>3, <1>4, AtaAssumption
<1>9. pc = "wait_drq" => status' # "ready"
  BY <1>7, <1>8 DEF Moved
<1> QED
  BY <1>1, <1>2, <1>5, <1>6, <1>7, <1>9

LEMMA DataDriveStep ==
  ASSUME AtaInv, DataInv, Drive, ~WriteErrors
  PROVE  DataInv'
<1>1. /\ pc' = pc /\ op' = op /\ first' = first /\ lba' = lba /\ count' = count /\ s' = s /\ p' = p
      /\ buf' = buf
  BY DEF Drive, DriveFetches, DriveAccepts, DriveStores, DriveFlushes, driver
<1>2. CASE DriveFetches
  <2>1. /\ disk' = disk /\ hold = NoData /\ hold' = NoData /\ cmd = "read" /\ ~Storing /\ ~Storing'
    BY <1>2 DEF DriveFetches, Abort, AtaInv, DriveInv, Storing
  <2>2. pc # "wait_drq" \/ op = "read"
    BY <1>2, <2>1 DEF DriveFetches, AtaInv, DriveInv
  <2> QED
    BY <1>1, <2>1, <2>2 DEF DataInv
<1>3. CASE DriveAccepts
  <2>1. disk' = disk /\ ~Storing /\ ~Storing' /\ status' # "ready"
    BY <1>3 DEF DriveAccepts, Storing
  <2> QED
    BY <1>1, <2>1 DEF DataInv
<1>4. CASE DriveFlushes
  <2>1. disk' = disk /\ ~Storing /\ ~Storing' /\ pc # "wait_drq"
    BY <1>4 DEF DriveFlushes, Storing, AtaInv, DriveInv, TypeOK
  <2> QED
    BY <1>1, <2>1 DEF DataInv
<1>5. CASE DriveStores
  <2>1. /\ op = "write" /\ p \in 1 .. Len(buf) /\ hold = buf[p] /\ at = first + p - 1 /\ Storing
        /\ disk' = [disk EXCEPT ![first + p - 1] = buf[p]] /\ ~Storing'
        /\ (pc = "wait_drq" => status' # "ready") /\ pc # "idle"
    BY <1>5, StoredWhere DEF DriveStores, Storing
  <2>2. Len(buf) \in Nat /\ first \in Nat /\ first + Len(buf) <= NSectors
    BY <2>1, Within
  <2>3. disk \in [Sectors -> Data] /\ first + p - 1 \in Sectors
    BY <2>1, <2>2, AtaAssumption DEF AtaInv, TypeOK, Sectors
  <2>4. ASSUME NEW i \in 1 .. p PROVE disk'[first + i - 1] = buf[i]
    <3>1. CASE i = p
      BY <2>1, <2>3, <3>1
    <3>2. CASE i \in 1 .. p - 1
      <4>1. disk[first + i - 1] = buf[i]
        BY <2>1, <3>2 DEF DataInv
      <4>2. first + i - 1 # first + p - 1 /\ first + i - 1 \in Sectors
        BY <2>1, <2>2, <3>2, AtaAssumption DEF Sectors
      <4> QED
        BY <2>1, <2>3, <4>1, <4>2
    <3> QED
      BY <2>1, <2>2, <3>1, <3>2
  <2> QED
    BY <1>1, <2>1, <2>4 DEF DataInv
<1> QED
  BY <1>2, <1>3, <1>4, <1>5 DEF Drive

\* A sector read goes to its place in the buffer; if it is the last, the whole
\* buffer is on the disk as it was read.
LEMMA ReadWhere ==
  ASSUME AtaInv, DataInv, read_sector
  PROVE  /\ disk' = disk /\ op' = op /\ first' = first /\ op = "read" /\ pc = "wait_drq"
         /\ p' = p + 1 /\ Len(buf') = Len(buf) /\ buf' \in Buffers /\ buf \in Buffers
         /\ \A i \in 1 .. p' : buf'[i] = disk[first + i - 1]
         /\ \/ pc' = "wait_drq"
            \/ pc' = "wait_bsy"
            \/ pc' = "idle" /\ result' = "RES_OK" /\ p' = Len(buf)
<1>1. /\ pc = "wait_drq" /\ status = "drq" /\ op = "read" /\ p' = p + 1 /\ s' = s + 1
      /\ op' = op /\ first' = first
  BY DEF read_sector
<1>2. /\ ~err /\ cmd = "read" /\ s < Chunk /\ at = lba + s
  BY <1>1, AtDrq
<1>3. /\ buf \in Buffers /\ Len(buf) \in 1 .. MaxCount /\ first \in Nat
      /\ count \in 1 .. Len(buf) /\ lba = first + Len(buf) - count
      /\ Chunk \in 1 .. MaxChunk /\ Chunk <= count /\ s \in 0 .. MaxChunk
      /\ p = Len(buf) - count + s
  BY <1>1, Within
<1>4. PICK d \in Data : d = disk[at] /\ buf' = [buf EXCEPT ![p + 1] = d]
  BY <1>2 DEF read_sector
<1>5. p \in Nat /\ p + 1 \in 1 .. Len(buf) /\ at = first + p
  BY <1>2, <1>3, AtaAssumption
<1>6. buf' \in Buffers /\ Len(buf') = Len(buf) /\ \A j \in 1 .. Len(buf) : buf'[j] = IF j = p + 1 THEN d ELSE buf[j]
  <2>1. \A i \in 1 .. Len(buf), e \in Data :
           /\ [buf EXCEPT ![i] = e] \in Buffers /\ Len([buf EXCEPT ![i] = e]) = Len(buf)
           /\ \A j \in 1 .. Len(buf) : [buf EXCEPT ![i] = e][j] = IF j = i THEN e ELSE buf[j]
    BY <1>3, BufferFacts
  <2>2. /\ [buf EXCEPT ![p + 1] = d] \in Buffers /\ Len([buf EXCEPT ![p + 1] = d]) = Len(buf)
        /\ \A j \in 1 .. Len(buf) : [buf EXCEPT ![p + 1] = d][j] = IF j = p + 1 THEN d ELSE buf[j]
    BY <1>5, <2>1
  <2> QED
    BY <1>4, <2>2
<1>7. ASSUME NEW i \in 1 .. p + 1 PROVE buf'[i] = disk[first + i - 1]
  <2>1. CASE i = p + 1
    BY <1>3, <1>4, <1>5, <1>6, <2>1
  <2>2. CASE i \in 1 .. p
    <3>1. buf[i] = disk[first + i - 1]
      BY <1>1, <2>2 DEF DataInv
    <3> QED
      BY <1>3, <1>5, <1>6, <2>2, <3>1
  <2> QED
    BY <1>5, <2>1, <2>2
<1>8. disk' = disk
  BY <1>2 DEF read_sector
<1>9. \/ pc' = "wait_drq"
      \/ pc' = "wait_bsy"
      \/ pc' = "idle" /\ result' = "RES_OK" /\ count <= Chunk /\ s + 1 >= Chunk
  <2>1. CASE LastOfChunk
    BY <1>3, <2>1, AtaAssumption DEF read_sector, LastOfChunk, NextChunk, Return
  <2>2. CASE ~LastOfChunk
    BY <1>1, <2>2 DEF read_sector
  <2> QED
    BY <2>1, <2>2
<1>10. count <= Chunk /\ s + 1 >= Chunk => p + 1 = Len(buf)
  <2> SUFFICES ASSUME count <= Chunk, s + 1 >= Chunk PROVE p + 1 = Len(buf)
    OBVIOUS
  <2>1. count \in Nat /\ Chunk \in Nat /\ s \in Nat /\ Len(buf) \in Nat
    BY <1>3, AtaAssumption
  <2>2. count = Chunk /\ s + 1 = Chunk
    BY <1>2, <1>3, <2>1
  <2> QED
    BY <1>3, <2>1, <2>2
<1> QED
  BY <1>1, <1>3, <1>6, <1>7, <1>8, <1>9, <1>10

LEMMA DataDriverStep ==
  ASSUME AtaInv, DataInv, Driver, ~Slow
  PROVE  DataInv'
<1>1. CASE issue
  <2>1. status = "ready" /\ hold = NoData
    BY <1>1 DEF issue, AtaInv, DriveInv, Storing
  <2>2. /\ disk' = disk /\ op' = op /\ first' = first /\ p' = p /\ buf' = buf /\ ~Storing /\ ~Storing'
        /\ status' = "busy" /\ pc # "idle"
    BY <1>1, <2>1 DEF issue, Command, Storing
  <2> QED
    BY <2>2 DEF DataInv
<1>2. CASE wait_drq_error \/ wait_drq_gives_up
  BY <1>2 DEF wait_drq_error, wait_drq_gives_up, Return, DataInv
<1>3. CASE read_sector
  BY <1>3, ReadWhere DEF DataInv
<1>4. CASE write_sector
  <2>1. /\ pc = "wait_drq" /\ status = "drq" /\ op = "write" /\ p' = p + 1 /\ op' = op
        /\ first' = first /\ buf' = buf
    BY <1>4 DEF write_sector
  <2>2. cmd = "write" /\ hold = NoData
    BY <2>1, AtDrq
  <2>3. disk' = disk /\ hold' = buf[p'] /\ status' = "busy" /\ cmd' = "write" /\ ~Storing
    BY <1>4, <2>1, <2>2 DEF write_sector, Storing
  <2>4. p \in Nat
    BY <2>1, BufferFacts, Within, AtaAssumption DEF AtaInv, TypeOK
  <2>5. \A i \in 1 .. p : disk[first + i - 1] = buf[i]
    BY <2>1, <2>3 DEF DataInv
  <2>6. hold' # NoData
    <3>1. /\ buf \in Buffers /\ count \in 1 .. Len(buf) /\ Len(buf) \in 1 .. MaxCount
          /\ Chunk \in 1 .. MaxChunk /\ Chunk <= count /\ s \in 0 .. MaxChunk
          /\ p = Len(buf) - count + s /\ s < Chunk
      BY <2>1, Within, AtDrq
    <3>2. p' \in 1 .. Len(buf)
      BY <2>1, <3>1, AtaAssumption
    <3> QED
      BY <2>3, <3>1, <3>2, BufferFacts, AtaAssumption
  <2>7. Storing' /\ p' - 1 = p
    BY <2>1, <2>3, <2>4, <2>6 DEF Storing
  <2> QED
    BY <2>1, <2>3, <2>5, <2>7 DEF DataInv
<1>5. CASE flush
  <2>1. /\ pc = "flush" /\ pc' = "flushed" /\ op' = op /\ first' = first /\ p' = p /\ buf' = buf
    BY <1>5 DEF flush
  <2>2. disk' = disk /\ hold' = hold /\ (Storing <=> Storing')
    <3>1. CASE status = "ready"
      BY <1>5, <2>1, <3>1 DEF flush, Command, Storing
    <3>2. CASE status # "ready"
      BY <1>5, <2>1, <3>2 DEF flush, Command, drive, Storing
    <3> QED
      BY <3>1, <3>2
  <2> QED
    BY <2>1, <2>2 DEF DataInv
<1>6. CASE flushed
  <2>1. /\ pc = "flushed" /\ status # "busy" /\ op' = op /\ first' = first /\ p' = p /\ buf' = buf
        /\ disk' = disk /\ status' = status /\ hold' = hold /\ pc' \in {"wait_bsy", "idle"}
    BY <1>6 DEF flushed, drive, NextChunk, Return
  <2>2. ~Storing /\ ~Storing'
    BY <2>1 DEF Storing
  <2> QED
    BY <2>1, <2>2 DEF DataInv
<1> QED
  BY <1>1, <1>2, <1>3, <1>4, <1>5, <1>6 DEF Driver

LEMMA DataRequest ==
  ASSUME AtaInv, NEW o \in {"read", "write"}, NEW l \in Sectors, NEW b \in Buffers,
         disk_request(o, l, b)
  PROVE  DataInv'
<1>1. pc' = "wait_bsy" /\ p' = 0 /\ status' = "ready"
  BY DEF disk_request, drive, AtaInv, DriveInv
<1> QED
  BY <1>1 DEF DataInv, Storing

\* What BlockDevice sees of the request and of the buffer.
Request == IF pc = "idle" THEN NoRequest ELSE [op |-> op, lba |-> first, buf |-> Given]
Result == IF pc = "idle" /\ op = "read" /\ result = "RES_OK" THEN buf ELSE <<>>

\* A step inside a request that leaves the disk alone is none of BlockDevice.
LEMMA Stutter ==
  ASSUME pc # "idle", pc' # "idle", op' = op, first' = first, disk' = disk, result' = result,
         DOMAIN buf' = DOMAIN buf, op = "write" => buf' = buf
  PROVE  Request' = Request /\ Result' = Result
<1>1. Given' = Given
  BY DEF Given
<1> QED
  BY <1>1 DEF Request, Result

\* What BlockDevice sees while the driver is at work is a request of its own.
LEMMA AskedIsRequest ==
  ASSUME NEW o \in {"read", "write"}, NEW l \in Nat, NEW b \in Buffers, l + Len(b) <= NSectors,
         NEW g, g = IF o = "write" THEN b ELSE [i \in DOMAIN b |-> CHOOSE d \in Data : TRUE],
         NEW r, r = [op |-> o, lba |-> l, buf |-> g]
  PROVE  r \in Promise!Requests /\ r # NoRequest /\ DOMAIN g = 1 .. Len(b)
<1>1. Len(b) \in 1 .. MaxCount /\ DOMAIN b = 1 .. Len(b)
  BY BufferFacts
<1>2. g \in Buffers /\ DOMAIN g = 1 .. Len(b)
  <2>1. CASE o = "write"
    BY <1>1, <2>1
  <2>2. CASE o # "write"
    <3>1. g = [i \in 1 .. Len(b) |-> CHOOSE d \in Data : TRUE]
      BY <1>1, <2>2
    <3>2. (CHOOSE d \in Data : TRUE) \in Data
      BY AtaAssumption
    <3>3. g \in [1 .. Len(b) -> Data]
      BY <3>1, <3>2
    <3> QED
      BY <1>1, <3>1, <3>3 DEF Buffers
  <2> QED
    BY <2>1, <2>2
<1>3. Len(g) = Len(b)
  BY <1>1, <1>2, BufferFacts
<1>4. l \in Sectors /\ l + Len(g) - 1 \in Sectors
  BY <1>1, <1>3, AtaAssumption DEF Sectors
<1>5. r # NoRequest
  <2>1. r \in [op : {"read", "write"}, lba : Sectors, buf : Buffers]
    BY <1>2, <1>4
  <2> QED
    BY <2>1, AtaAssumption
<1>6. Promise!Buffers = Buffers
  BY DEF Promise!Buffers, Buffers
<1>7. r \in Promise!Requests
  BY <1>2, <1>4, <1>6 DEF Promise!Requests
<1> QED
  BY <1>2, <1>5, <1>7

\* The driver, with its drive, implements BlockDevice: every step of Ata is a
\* step of it or none, as long as no sector takes longer than the polls and
\* none is unwritable.
THEOREM AtaImplements ==
  ASSUME ~Slow, ~WriteErrors
  PROVE  Spec => ImplementsBlockDevice
<1>1. Init => Promise!Init
  BY DEF Init, Promise!Init
<1>2. Init => DataInv
  BY DEF Init, DataInv
<1>3. AtaInv /\ DataInv /\ [Next]_vars => DataInv'
  <2> SUFFICES ASSUME AtaInv, DataInv, [Next]_vars PROVE DataInv'
    OBVIOUS
  <2>1. CASE UNCHANGED vars
    BY <2>1 DEF vars, drive, driver, DataInv, Storing
  <2> QED
    BY <2>1, DataDriveStep, DataDriverStep, DataRequest DEF Next
<1>4. AtaInv /\ DataInv /\ [Next]_vars => [Promise!Next]_(Promise!vars)
  <2> SUFFICES ASSUME AtaInv, DataInv, [Next]_vars
               PROVE  Promise!Next \/ UNCHANGED Promise!vars
    OBVIOUS
  <2>1. ASSUME Request' = Request, Result' = Result, disk' = disk, result' = result
        PROVE  UNCHANGED Promise!vars
    BY <2>1 DEF Promise!vars, Request, Result
  <2>2. CASE DriveFetches \/ DriveAccepts \/ DriveFlushes \/ UNCHANGED vars
    <3>1. pc' = pc /\ op' = op /\ first' = first /\ disk' = disk /\ result' = result /\ buf' = buf
      BY <2>2 DEF DriveFetches, DriveAccepts, DriveFlushes, vars, drive, driver
    <3>2. Request' = Request /\ Result' = Result
      BY <3>1 DEF Request, Result, Given
    <3> QED
      BY <2>1, <3>1, <3>2
  <2>3. ASSUME pc # "idle"
        PROVE  /\ Request # NoRequest /\ Request = [op |-> op, lba |-> first, buf |-> Given]
               /\ DOMAIN Given = 1 .. Len(buf) /\ buf \in Buffers
    <3>1. op \in {"read", "write"} /\ first \in Nat /\ buf \in Buffers /\ first + Len(buf) <= NSectors
      BY <2>3, Within DEF AtaInv, TypeOK
    <3>2. Request = [op |-> op, lba |-> first, buf |-> Given]
      BY <2>3 DEF Request
    <3> QED
      BY <3>1, <3>2, AskedIsRequest DEF Given
  <2>4. CASE DriveStores
    <3>1. /\ pc # "idle" /\ op = "write" /\ p \in 1 .. Len(buf)
          /\ disk' = [disk EXCEPT ![first + p - 1] = buf[p]]
      BY <2>4, StoredWhere
    <3>2. pc' = pc /\ op' = op /\ first' = first /\ result' = result /\ buf' = buf
      BY <2>4 DEF DriveStores, driver
    <3>3. Request' = Request /\ Result' = Result
      BY <3>2 DEF Request, Result, Given
    <3>4. Given = buf
      BY <3>1 DEF Given
    <3>5. Request.op = "write" /\ Request.lba = first /\ Request.buf = buf
      BY <2>3, <3>1, <3>4
    <3>6. p \in DOMAIN Request.buf
      BY <2>3, <3>1, <3>4, <3>5
    <3>7. Promise!Store(p)
      BY <2>3, <3>1, <3>2, <3>3, <3>5, <3>6 DEF Promise!Store, Promise!SectorAt, Request, Result
    <3>8. p \in 1 .. MaxCount
      BY <2>3, <3>1, BufferFacts, AtaAssumption
    <3> QED
      BY <3>7, <3>8 DEF Promise!Next
  <2>5. ASSUME NEW o \in {"read", "write"}, NEW l \in Sectors, NEW b \in Buffers, disk_request(o, l, b)
        PROVE  Promise!Next
    <3>1. /\ pc = "idle" /\ pc' = "wait_bsy" /\ op' = o /\ first' = l /\ buf' = b /\ result' = result
          /\ disk' = disk /\ l + Len(b) <= NSectors
      BY <2>5 DEF disk_request, drive
    <3>2. Request' \in Promise!Requests
      <4>1. Request' = [op |-> o, lba |-> l, buf |-> Given']
        BY <3>1 DEF Request
      <4>2. Given' = IF o = "write" THEN b ELSE [i \in DOMAIN b |-> CHOOSE d \in Data : TRUE]
        BY <3>1 DEF Given
      <4> QED
        BY <3>1, <4>1, <4>2, AskedIsRequest DEF Sectors
    <3>3. Request = NoRequest /\ Result' = <<>>
      BY <3>1 DEF Request, Result
    <3>4. Promise!Ask(Request')
      BY <3>1, <3>3 DEF Promise!Ask, Request, Result
    <3> QED
      BY <3>2, <3>4 DEF Promise!Next
  <2>6. CASE issue \/ flush
    <3>1. /\ pc # "idle" /\ pc' # "idle" /\ op' = op /\ first' = first /\ buf' = buf /\ result' = result
          /\ disk' = disk
      BY <2>6 DEF issue, flush, Command, drive
    <3> QED
      BY <2>1, <3>1, Stutter
  <2>7. CASE write_sector
    <3>1. /\ pc # "idle" /\ pc' # "idle" /\ op' = op /\ first' = first /\ buf' = buf /\ result' = result
          /\ disk' = disk
      BY <2>7 DEF write_sector, drive
    <3> QED
      BY <2>1, <3>1, Stutter
  <2>8. CASE wait_drq_error \/ wait_drq_gives_up
    <3>1. pc = "wait_drq" /\ pc' = "idle" /\ result' = "RES_ERROR" /\ disk' = disk
      BY <2>8 DEF wait_drq_error, wait_drq_gives_up, Return, drive
    <3>2. Request' = NoRequest /\ Result' = <<>>
      BY <3>1 DEF Request, Result
    <3>3. Promise!Fail
      BY <2>3, <3>1, <3>2 DEF Promise!Fail, Request, Result
    <3> QED
      BY <3>3 DEF Promise!Next
  <2>9. CASE read_sector
    <3>1. /\ disk' = disk /\ op' = op /\ first' = first /\ op = "read" /\ pc = "wait_drq"
          /\ p' = p + 1 /\ Len(buf') = Len(buf) /\ buf' \in Buffers /\ buf \in Buffers
          /\ \A i \in 1 .. p' : buf'[i] = disk[first + i - 1]
          /\ \/ pc' = "wait_drq"
             \/ pc' = "wait_bsy"
             \/ pc' = "idle" /\ result' = "RES_OK" /\ p' = Len(buf)
      BY <2>9, ReadWhere
    <3>2. DOMAIN buf = 1 .. Len(buf) /\ DOMAIN buf' = 1 .. Len(buf)
      BY <3>1, BufferFacts
    <3>3. CASE pc' # "idle"
      <4>1. result' = result
        BY <2>9, <3>3 DEF read_sector, NextChunk, Return
      <4> QED
        BY <2>1, <3>1, <3>2, <3>3, <4>1, Stutter
    <3>4. CASE pc' = "idle" /\ result' = "RES_OK" /\ p' = Len(buf)
      <4>1. Request' = NoRequest /\ Result' = buf'
        BY <3>1, <3>4 DEF Request, Result
      <4>2. Request.op = "read" /\ Request.lba = first /\ DOMAIN Request.buf = 1 .. Len(buf)
            /\ Request # NoRequest
        BY <2>3, <3>1
      <4>3. buf' = [i \in 1 .. Len(buf) |-> buf'[i]]
        BY <3>1, <3>2 DEF Buffers
      <4>4. buf' = [i \in DOMAIN Request.buf |-> disk[Request.lba + i - 1]]
        BY <3>1, <3>4, <4>2, <4>3
      <4>5. Promise!OnDisk(Request) = buf'
        BY <4>4 DEF Promise!OnDisk, Promise!SectorAt
      <4>6. Promise!Succeed
        BY <3>1, <3>4, <4>1, <4>2, <4>5 DEF Promise!Succeed, Request, Result
      <4> QED
        BY <4>6 DEF Promise!Next
    <3> QED
      BY <3>1, <3>3, <3>4
  <2>10. CASE flushed
    <3>1. /\ pc = "flushed" /\ status # "busy" /\ op' = op /\ first' = first /\ buf' = buf
          /\ disk' = disk
          /\ \/ pc' = "wait_bsy" /\ result' = result /\ count > Chunk
             \/ pc' = "idle" /\ result' = "RES_OK" /\ ~(count > Chunk)
      BY <2>10 DEF flushed, drive, NextChunk, Return
    <3>2. CASE pc' = "wait_bsy" /\ result' = result
      BY <2>1, <3>1, <3>2, Stutter
    <3>3. CASE pc' = "idle" /\ result' = "RES_OK" /\ ~(count > Chunk)
      <4>1. op = "write" /\ s = Chunk /\ ~Storing
        BY <3>1 DEF AtaInv, DriveInv, Storing
      <4>2. p = Len(buf) /\ DOMAIN buf = 1 .. Len(buf)
        <5>1. /\ buf \in Buffers /\ count \in 1 .. Len(buf) /\ Len(buf) \in 1 .. MaxCount
              /\ Chunk \in 1 .. MaxChunk /\ Chunk <= count /\ p = Len(buf) - count + s
          BY <3>1, Within
        <5>2. count = Chunk
          BY <3>3, <5>1, AtaAssumption
        <5> QED
          BY <4>1, <5>1, <5>2, BufferFacts, AtaAssumption
      <4>3. \A i \in 1 .. Len(buf) : disk[first + i - 1] = buf[i]
        BY <3>1, <4>1, <4>2 DEF DataInv
      <4>4. Given = buf
        BY <4>1 DEF Given
      <4>5. Request.op = "write" /\ Request.lba = first /\ Request.buf = buf /\ Request # NoRequest
        BY <2>3, <3>1, <4>1, <4>4
      <4>6. buf = [i \in 1 .. Len(buf) |-> buf[i]]
        BY <2>3, <3>1, <4>2 DEF Buffers
      <4>7. buf = [i \in DOMAIN Request.buf |-> disk[Request.lba + i - 1]]
        BY <4>2, <4>3, <4>5, <4>6
      <4>8. Promise!OnDisk(Request) = Request.buf
        BY <4>5, <4>7 DEF Promise!OnDisk, Promise!SectorAt
      <4>9. Request' = NoRequest /\ Result' = <<>>
        BY <3>1, <3>3, <4>1 DEF Request, Result
      <4>10. Promise!Succeed
        BY <3>1, <3>3, <4>5, <4>8, <4>9 DEF Promise!Succeed, Request, Result
      <4> QED
        BY <4>10 DEF Promise!Next
    <3> QED
      BY <3>1, <3>2, <3>3
  <2> QED
    BY <2>2, <2>4, <2>5, <2>6, <2>7, <2>8, <2>9, <2>10 DEF Next, Drive, Driver
<1> QED
  BY <1>1, <1>2, <1>3, <1>4, AtaInductive, PTL DEF Spec, ImplementsBlockDevice, Promise!Spec

=============================================================================
