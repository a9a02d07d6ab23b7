---------------------------- MODULE BlockDevice ----------------------------
(***************************************************************************)
(* What FatFs takes disk_read and disk_write to promise: a disk of sectors *)
(* with one request at a time.  RES_OK of a read means that the buffer is  *)
(* what the sectors hold, of a write that the sectors hold the buffer; a   *)
(* write that fails has changed none but the sectors it was asked to.      *)
(***************************************************************************)
EXTENDS Integers, Sequences

CONSTANTS Sectors, Data, MaxCount, NoRequest

VARIABLES disk,     \* what a read of each sector returns
          request,  \* the request in progress: operation, first sector, buffer
          result,   \* of the last request: a DRESULT
          buffer    \* what the last successful read returned

vars == <<disk, request, result, buffer>>

Buffers == UNION {[1 .. n -> Data] : n \in 1 .. MaxCount}
Requests == {r \in [op : {"read", "write"}, lba : Sectors, buf : Buffers] :
                r.lba + Len(r.buf) - 1 \in Sectors}
SectorAt(r, i) == r.lba + i - 1

Init == /\ disk \in [Sectors -> Data] /\ request = NoRequest
        /\ result = "RES_OK" /\ buffer = <<>>

Ask(r) == /\ request = NoRequest /\ request' = r /\ buffer' = <<>>
          /\ UNCHANGED <<disk, result>>

Store(i) == /\ request # NoRequest /\ request.op = "write" /\ i \in DOMAIN request.buf
            /\ disk' = [disk EXCEPT ![SectorAt(request, i)] = request.buf[i]]
            /\ UNCHANGED <<request, result, buffer>>

OnDisk(r) == [i \in DOMAIN r.buf |-> disk[SectorAt(r, i)]]
Succeed == /\ request # NoRequest /\ result' = "RES_OK" /\ request' = NoRequest
           /\ request.op = "write" => OnDisk(request) = request.buf
           /\ buffer' = IF request.op = "read" THEN OnDisk(request) ELSE <<>>
           /\ UNCHANGED disk

Fail == /\ request # NoRequest /\ result' = "RES_ERROR" /\ request' = NoRequest
        /\ buffer' = <<>> /\ UNCHANGED disk

Next == \/ \E r \in Requests : Ask(r)
        \/ \E i \in 1 .. MaxCount : Store(i)
        \/ Succeed \/ Fail
Spec == Init /\ [][Next]_vars
=============================================================================
