------------------------------ MODULE Virtio ------------------------------
(***************************************************************************)
(* The disk driver xv6/kernel/virtio_disk.c: processes that read or write  *)
(* a block, each its own (a block has one buffer, and the buffer's lock is *)
(* held: see Bcache), the interrupt handler, and the device, which takes   *)
(* requests in ring order and finishes them in any order.  vdisk_lock      *)
(* excludes the processes and the handler from each other, not the device. *)
(* The ring indices are 16 bits wide in the code and wrap at IdxMod here.  *)
(***************************************************************************)
EXTENDS Naturals, FiniteSets, Sequences

CONSTANTS Requesters,   \* processes; r also names the buffer and block r uses
          Writing, Reading,  \* those that call it to write, to read
          NUM,          \* descriptors, and entries of a ring
          IdxMod,
          Datum,        \* contents of a block
          FirstIdx,     \* where the ring indices start
          MaxRequests,  \* bound: calls of virtio_disk_rw() in all
          MaxKills      \* bound: kkill()s of processes that sleep here

Desc == 0..NUM - 1
NoDesc == NUM
Nobody == "nobody"
DiskHandler == "handler"

VARIABLES
  dfree, dnext, daddr, ops,    \* disk.free[], desc[].next and .addr, ops[]
  infob, dstatus,            \* disk.info[].b and .status
  availring, availidx,          \* the avail ring, written by the driver
  usedring, usedidx,            \* the used ring, written by the device
  used_idx,                 \* disk.used_idx: how far the handler has looked
  vlock,                    \* who holds disk.vdisk_lock
  vpc, ids,                 \* where each process is, and its idx[3]
  vwrite, bdisk,              \* its argument write, and b->disk
  vgoal,                    \* (history) what its block and its buffer are to hold
  vchan,                    \* p->chan: "free", "buf" or "none"
  vdata, sector,            \* contents of the buffers and of the disk
  devidx, taken,            \* the device: how far it has read, what it works on
  pending,                  \* the device raises its interrupt line
  inhandler, requests, dkills, vpanic

virtioVars == <<dfree, dnext, daddr, ops, infob, dstatus, availring, availidx, usedring, usedidx,
                used_idx, vlock, vpc, ids, vwrite, vgoal, bdisk, vchan, vdata, sector, devidx,
                taken, pending, inhandler, requests, dkills, vpanic>>
ringVars == <<availring, availidx, usedring, usedidx>>
chainVars == <<dfree, dnext, daddr, ops, infob, dstatus>>
deviceVars == <<sector, devidx, taken>>

\* The driver after virtio_disk_init() and FirstIdx finished requests.
VirtioInit ==
  /\ dfree = [d \in Desc |-> TRUE]
  /\ dnext = [d \in Desc |-> NoDesc]
  /\ daddr = [d \in Desc |-> Nobody]
  /\ ops = [d \in Desc |-> [type |-> "IN", sector |-> Nobody]]
  /\ infob = [d \in Desc |-> Nobody]
  /\ dstatus = [d \in Desc |-> 0]
  /\ availring = [d \in Desc |-> 0] /\ usedring = [d \in Desc |-> 0]
  /\ availidx = FirstIdx /\ usedidx = FirstIdx /\ used_idx = FirstIdx /\ devidx = FirstIdx
  /\ vlock = Nobody
  /\ vpc = [r \in Requesters |-> "idle"]
  /\ ids = [r \in Requesters |-> <<>>]
  /\ vwrite = [r \in Requesters |-> FALSE]
  /\ vgoal = [r \in Requesters |-> CHOOSE v \in Datum : TRUE]
  /\ bdisk = [r \in Requesters |-> FALSE]
  /\ vchan = [r \in Requesters |-> "none"]
  /\ vdata = [r \in Requesters |-> CHOOSE v \in Datum : TRUE]
  /\ sector = [r \in Requesters |-> CHOOSE v \in Datum : TRUE]
  /\ taken = {}
  /\ pending = FALSE /\ inhandler = FALSE /\ requests = 0 /\ dkills = 0 /\ vpanic = FALSE

DiskGoto(r, l) == vpc' = [vpc EXCEPT ![r] = l]

FreeDescs == {d \in Desc : dfree[d]}

\* alloc3_desc(): the three lowest free descriptors.
Lowest3 == CHOOSE s \in [1..3 -> FreeDescs] :
             /\ s[1] < s[2] /\ s[2] < s[3]
             /\ \A d \in FreeDescs : d <= s[3] => d \in {s[1], s[2], s[3]}

WakeFree(self) == [q \in Requesters |-> IF q # self /\ vchan[q] = "free" THEN "none" ELSE vchan[q]]

\* The buffer differs from the block: to be written, or old and to be read.
RequestStart(r) ==
  /\ vpc[r] = "idle" /\ requests < MaxRequests
  /\ requests' = requests + 1
  /\ \E w \in BOOLEAN, v \in Datum \ {sector[r]} :
       /\ r \in (IF w THEN Writing ELSE Reading)
       /\ vwrite' = [vwrite EXCEPT ![r] = w]
       /\ vdata' = [vdata EXCEPT ![r] = v]
       /\ vgoal' = [vgoal EXCEPT ![r] = IF w THEN v ELSE sector[r]]
  /\ DiskGoto(r, "alloc")
  /\ UNCHANGED <<chainVars, ringVars, deviceVars, used_idx, vlock, ids, bdisk, vchan,
                 pending, inhandler, dkills, vpanic>>

\* VIRTIO_BLK_T_IN and _OUT are taken from the driver's point of view.
AllocDescsSwapped(r) ==
  /\ vpc[r] = "alloc" /\ vlock = Nobody /\ Cardinality(FreeDescs) >= 3
  /\ vlock' = r
  /\ LET s == Lowest3 IN
       /\ ids' = [ids EXCEPT ![r] = s]
       /\ dfree' = [d \in Desc |-> dfree[d] /\ d \notin {s[1], s[2], s[3]}]
       /\ dnext' = [dnext EXCEPT ![s[1]] = s[2], ![s[2]] = s[3], ![s[3]] = NoDesc]
       /\ daddr' = [daddr EXCEPT ![s[2]] = r, ![s[3]] = s[1]]
       /\ ops' = [ops EXCEPT ![s[1]] = [type |-> IF vwrite[r] THEN "IN" ELSE "OUT", sector |-> r]]
       /\ dstatus' = [dstatus EXCEPT ![s[1]] = 255]
       /\ infob' = [infob EXCEPT ![s[1]] = r]
  /\ bdisk' = [bdisk EXCEPT ![r] = TRUE]
  /\ DiskGoto(r, "ring")
  /\ UNCHANGED <<ringVars, deviceVars, used_idx, vwrite, vgoal, vchan, vdata, pending,
                 inhandler, requests, dkills, vpanic>>

\* acquire; alloc3_desc succeeds; the three descriptors are formatted.
AllocDescs(r) ==
  /\ vpc[r] = "alloc" /\ vlock = Nobody /\ Cardinality(FreeDescs) >= 3
  /\ vlock' = r
  /\ LET s == Lowest3 IN
       /\ ids' = [ids EXCEPT ![r] = s]
       /\ dfree' = [d \in Desc |-> dfree[d] /\ d \notin {s[1], s[2], s[3]}]
       /\ dnext' = [dnext EXCEPT ![s[1]] = s[2], ![s[2]] = s[3], ![s[3]] = NoDesc]
       /\ daddr' = [daddr EXCEPT ![s[2]] = r, ![s[3]] = s[1]]
       /\ ops' = [ops EXCEPT ![s[1]] = [type |-> IF vwrite[r] THEN "OUT" ELSE "IN", sector |-> r]]
       /\ dstatus' = [dstatus EXCEPT ![s[1]] = 255]
       /\ infob' = [infob EXCEPT ![s[1]] = r]
  /\ bdisk' = [bdisk EXCEPT ![r] = TRUE]
  /\ DiskGoto(r, "ring")
  /\ UNCHANGED <<ringVars, deviceVars, used_idx, vwrite, vgoal, vchan, vdata, pending,
                 inhandler, requests, dkills, vpanic>>

\* alloc3_desc fails: what it got is freed again, with a wakeup each.
AllocWait(r) ==
  /\ vpc[r] = "alloc" /\ vlock = Nobody /\ Cardinality(FreeDescs) < 3
  /\ vchan' = [(IF FreeDescs = {} THEN vchan ELSE WakeFree(r)) EXCEPT ![r] = "free"]
  /\ DiskGoto(r, "sleepfree")
  /\ UNCHANGED <<chainVars, ringVars, deviceVars, used_idx, vlock, ids, vwrite, vgoal, bdisk,
                 vdata, pending, inhandler, requests, dkills, vpanic>>

RingStore(r) ==
  /\ vpc[r] = "ring"
  /\ availring' = [availring EXCEPT ![availidx % NUM] = ids[r][1]]
  /\ DiskGoto(r, "bump")
  /\ UNCHANGED <<chainVars, deviceVars, availidx, usedring, usedidx, used_idx, vlock, ids,
                 vwrite, vgoal, bdisk, vchan, vdata, pending, inhandler, requests, dkills, vpanic>>

\* avail->idx += 1 and the notification: from here on the device sees it.
IdxBump(r) ==
  /\ vpc[r] = "bump"
  /\ availidx' = (availidx + 1) % IdxMod
  /\ DiskGoto(r, "wait")
  /\ UNCHANGED <<chainVars, deviceVars, availring, usedring, usedidx, used_idx, vlock, ids, vwrite, vgoal,
                 bdisk, vchan, vdata, pending, inhandler, requests, dkills, vpanic>>

\* while (b->disk == 1): sleep_prepare(b), release, sleep.
RequestWait(r) ==
  /\ vpc[r] = "wait" /\ vlock = r /\ bdisk[r]
  /\ vchan' = [vchan EXCEPT ![r] = "buf"]
  /\ vlock' = Nobody
  /\ DiskGoto(r, "sleepbuf")
  /\ UNCHANGED <<chainVars, ringVars, deviceVars, used_idx, ids, vwrite, vgoal, bdisk, vdata,
                 pending, inhandler, requests, dkills, vpanic>>

\* The loop is left: free_chain(idx[0]) wakes who waits for descriptors.
Finish(r) ==
  /\ vpc[r] = "wait" /\ vlock = r /\ ~bdisk[r]
  /\ LET h == ids[r][1]
         chain == {h, dnext[h], dnext[dnext[h]]} IN
       /\ vpanic' = (vpanic \/ \E d \in chain : dfree[d])
       /\ dfree' = [d \in Desc |-> dfree[d] \/ d \in chain]
       /\ dnext' = [d \in Desc |-> IF d \in chain THEN NoDesc ELSE dnext[d]]
       /\ daddr' = [d \in Desc |-> IF d \in chain THEN Nobody ELSE daddr[d]]
       /\ infob' = [infob EXCEPT ![h] = Nobody]
  /\ vchan' = WakeFree(r)
  /\ ids' = [ids EXCEPT ![r] = <<>>]
  /\ vlock' = Nobody
  /\ DiskGoto(r, "idle")
  /\ UNCHANGED <<ops, dstatus, ringVars, deviceVars, used_idx, vwrite, vgoal, bdisk, vdata,
                 pending, inhandler, requests, dkills>>

\* sleep(): returns when woken; a kill may also make the process runnable.
DiskAwake(r) ==
  /\ \/ vpc[r] = "sleepfree" /\ DiskGoto(r, "alloc") /\ UNCHANGED vlock
     \/ vpc[r] = "sleepbuf" /\ vlock = Nobody /\ vlock' = r /\ DiskGoto(r, "wait")
  /\ UNCHANGED <<chainVars, ringVars, deviceVars, used_idx, ids, vwrite, vgoal, bdisk, vchan, vdata,
                 pending, inhandler, requests, vpanic>>

DiskWoken(r) == vchan[r] = "none" /\ DiskAwake(r) /\ UNCHANGED dkills

DiskKilled(r) == vchan[r] # "none" /\ DiskAwake(r) /\ dkills < MaxKills /\ dkills' = dkills + 1

---------------------------------------------------------------------------
(* virtio_disk_intr() *)

DiskIntrEnter ==
  /\ pending /\ ~inhandler /\ vlock = Nobody
  /\ vlock' = DiskHandler /\ inhandler' = TRUE
  /\ pending' = FALSE
  /\ UNCHANGED <<chainVars, ringVars, deviceVars, used_idx, vpc, ids, vwrite, vgoal, bdisk, vchan,
                 vdata, requests, dkills, vpanic>>

DiskIntrEntry ==
  /\ inhandler /\ vlock = DiskHandler /\ used_idx # usedidx
  /\ LET id == usedring[used_idx % NUM]
         b == infob[id] IN
       /\ vpanic' = (vpanic \/ dstatus[id] # 0 \/ b = Nobody)
       /\ bdisk' = [r \in Requesters |-> bdisk[r] /\ r # b]
       /\ vchan' = [r \in Requesters |-> IF r = b /\ vchan[r] = "buf" THEN "none" ELSE vchan[r]]
  /\ used_idx' = (used_idx + 1) % IdxMod
  /\ UNCHANGED <<chainVars, ringVars, deviceVars, vlock, vpc, ids, vwrite, vgoal, vdata, pending,
                 inhandler, requests, dkills>>

\* The last look at used->idx, then (a step later) the return.
DiskIntrLast ==
  /\ inhandler /\ vlock = DiskHandler /\ used_idx = usedidx
  /\ vlock' = Nobody
  /\ UNCHANGED <<chainVars, ringVars, deviceVars, used_idx, vpc, ids, vwrite, vgoal, bdisk, vchan,
                 vdata, pending, inhandler, requests, dkills, vpanic>>

DiskIntrReturnLate ==
  /\ inhandler /\ vlock # DiskHandler
  /\ inhandler' = FALSE /\ pending' = FALSE
  /\ UNCHANGED <<chainVars, ringVars, deviceVars, used_idx, vlock, vpc, ids, vwrite, vgoal, bdisk,
                 vchan, vdata, requests, dkills, vpanic>>

DiskIntrReturn ==
  /\ inhandler /\ vlock # DiskHandler
  /\ inhandler' = FALSE
  /\ UNCHANGED <<chainVars, ringVars, deviceVars, used_idx, vlock, vpc, ids, vwrite, vgoal, bdisk,
                 vchan, vdata, pending, requests, dkills, vpanic>>

---------------------------------------------------------------------------
(* The device (external): takes requests in ring order, ends them in any. *)

DeviceTake ==
  /\ devidx # availidx
  /\ taken' = taken \cup {availring[devidx % NUM]}
  /\ devidx' = (devidx + 1) % IdxMod
  /\ UNCHANGED <<chainVars, ringVars, used_idx, vlock, vpc, ids, vwrite, vgoal, bdisk, vchan, vdata,
                 sector, pending, inhandler, requests, dkills, vpanic>>

DeviceDone(h) ==
  /\ h \in taken
  /\ LET b == daddr[dnext[h]]
         k == ops[h].sector IN
       IF ops[h].type = "OUT" THEN sector' = [sector EXCEPT ![k] = vdata[b]] /\ UNCHANGED vdata
                              ELSE vdata' = [vdata EXCEPT ![b] = sector[k]] /\ UNCHANGED sector
  /\ dstatus' = [dstatus EXCEPT ![daddr[dnext[dnext[h]]]] = 0]
  /\ usedring' = [usedring EXCEPT ![usedidx % NUM] = h]
  /\ usedidx' = (usedidx + 1) % IdxMod
  /\ taken' = taken \ {h}
  /\ pending' = TRUE
  /\ UNCHANGED <<dfree, dnext, daddr, ops, infob, availring, availidx, used_idx, vlock, vpc, ids,
                 vwrite, vgoal, bdisk, vchan, devidx, inhandler, requests, dkills, vpanic>>

RequestStep(r) == \/ AllocDescs(r) \/ AllocWait(r) \/ RingStore(r) \/ IdxBump(r)
                  \/ RequestWait(r) \/ Finish(r) \/ DiskWoken(r)

HandlerStep == DiskIntrEnter \/ DiskIntrEntry \/ DiskIntrLast \/ DiskIntrReturn

DeviceStep == DeviceTake \/ \E h \in taken : DeviceDone(h)

\* A panic stops the machine.
VirtioNext ==
  /\ ~vpanic
  /\ \/ \E r \in Requesters : RequestStart(r) \/ RequestStep(r) \/ DiskKilled(r)
     \/ HandlerStep \/ DeviceStep

VirtioSpec == VirtioInit /\ [][VirtioNext]_virtioVars

\* Processes that can run do, a pending interrupt is taken and the device works;
\* nothing is assumed of who gets vdisk_lock first.
VirtioFairness ==
  /\ \A r \in Requesters : WF_virtioVars(RequestStep(r))
  /\ WF_virtioVars(HandlerStep)
  /\ WF_virtioVars(DeviceStep)

---------------------------------------------------------------------------
(* Properties *)

\* A call returns only after its own transfer: a written block is on the disk,
\* a read one in the buffer, whatever order the device works in.
TransferDone ==
  \A r \in Requesters : vpc[r] \in {"wait", "sleepbuf"} /\ ~bdisk[r] => vdata[r] = vgoal[r] /\ sector[r] = vgoal[r]

\* Every call of virtio_disk_rw returns: neither the wait for descriptors nor
\* the wait for the interrupt loses its wakeup, though the device may finish
\* a request while the handler runs (it acknowledges before it looks).
RequestReturns == \A r \in Requesters : []<>(vpc[r] = "idle")
===========================================================================
