---------------------------- MODULE FileBlocks ----------------------------
(***************************************************************************)
(* File contents: balloc, bfree, bmap, itrunc, readi and writei of         *)
(* xv6/kernel/fs.c, with fileread() and filewrite() of file.c on top.      *)
(* Processes write through open files (inode and offset), a loop iteration *)
(* of writei() at a time; other inodes compete for blocks in between.      *)
(***************************************************************************)
EXTENDS Naturals, Integers, Sequences, FiniteSets, FiniteSetsExt

CONSTANTS FWriters,             \* numbers from 1
          OpenFiles, InodeOf,   \* open files, and the inode of each
          NBlocks, BSIZE, NDIRECT, NINDIRECT,
          MAXOP,                \* MAXOPBLOCKS
          Lengths,              \* of reads and writes
          MaxFileOps

ASSUME FileBlocksAssumption == NINDIRECT <= BSIZE /\ MAXOP \in Nat /\ MAXOP >= 6

VARIABLES
  used, blk,       \* the bitmap, and the contents of the data blocks
  addrs, size,     \* ip->addrs and ip->size
  off,             \* f->off of the open files
  ilocked,         \* who holds ip->lock
  wr,              \* the filewrite() of each process
  kept,            \* what each file should hold
  fops

fileVars == <<used, blk, addrs, size, off, ilocked, wr, kept, fops>>

Blk == 1..NBlocks
Inums == {InodeOf[f] : f \in OpenFiles}
MAXBYTES == (NDIRECT + NINDIRECT) * BSIZE
ZeroBlock == [o \in 0..BSIZE - 1 |-> 0]
NoWrite == [pc |-> "idle", f |-> 0, left |-> 0, n1 |-> 0, tot |-> 0, v |-> 0, logged |-> {}]
Free == 0

FileInit ==
  /\ used = {} /\ blk = [b \in Blk |-> ZeroBlock]
  /\ addrs = [i \in Inums |-> [k \in 0..NDIRECT |-> 0]]
  /\ size = [i \in Inums |-> 0]
  /\ off = [f \in OpenFiles |-> 0]
  /\ ilocked = [i \in Inums |-> Free]
  /\ wr = [w \in FWriters |-> NoWrite]
  /\ kept = [i \in Inums |-> <<>>]
  /\ fops = 0

---------------------------------------------------------------------------
(* Block allocation, as functions of the disk image *)

Image == [used |-> used, blk |-> blk, addrs |-> addrs, addr |-> 0, logged |-> {}]

\* The first free block, zeroed; addr 0 when there is none.
balloc(S) ==
  LET free == Blk \ S.used
      b == Min(free) IN
    IF free = {} THEN [S EXCEPT !.addr = 0]
    ELSE [S EXCEPT !.used = @ \cup {b}, !.blk[b] = ZeroBlock, !.addr = b,
                   !.logged = @ \cup {0, b}]     \* 0: the bitmap block

\* The block at slot k of ip->addrs, allocated if absent.
Slot(S, i, k) ==
  IF S.addrs[i][k] # 0 THEN [S EXCEPT !.addr = S.addrs[i][k]]
  ELSE LET T == balloc(S) IN [T EXCEPT !.addrs[i][k] = T.addr]

bmap(S, i, bn) ==
  IF bn < NDIRECT THEN Slot(S, i, bn)
  ELSE LET T == Slot(S, i, NDIRECT)
           d == T.addr
           k == bn - NDIRECT IN
         IF d = 0 THEN T
         ELSE IF T.blk[d][k] # 0 THEN [T EXCEPT !.addr = T.blk[d][k]]
         ELSE LET U == balloc(T) IN
                IF U.addr = 0 THEN U
                ELSE [U EXCEPT !.blk[d][k] = U.addr, !.logged = @ \cup {d}]

Indirect(i) == IF addrs[i][NDIRECT] = 0 THEN {}
               ELSE {blk[addrs[i][NDIRECT]][k] : k \in 0..NINDIRECT - 1} \ {0}

Referenced(i) == ({addrs[i][k] : k \in 0..NDIRECT} \ {0}) \cup Indirect(i)

---------------------------------------------------------------------------
(* filewrite() *)

MinOf(a, b) == IF a < b THEN a ELSE b

MaxChunkNoSlop == MAXOP * BSIZE

\* A few blocks at a time, so that a chunk fits in a transaction.
MaxChunk == ((MAXOP - 1 - 1 - 2) \div 2) * BSIZE

\* Process w writes n bytes w.
WriteCallF(w) ==
  /\ wr[w].pc = "idle" /\ fops < MaxFileOps /\ fops' = fops + 1
  /\ \E f \in OpenFiles, n \in Lengths :
       wr' = [wr EXCEPT ![w] = [NoWrite EXCEPT !.pc = "chunk", !.f = f, !.left = n, !.v = w]]
  /\ UNCHANGED <<used, blk, addrs, size, off, ilocked, kept>>

\* begin_op, ilock, and writei's checks; a refused chunk ends the call.
WriteChunk(w) ==
  LET f == wr[w].f
      i == InodeOf[f]
      n1 == MinOf(wr[w].left, MaxChunk) IN
    /\ wr[w].pc = "chunk"
    /\ \/ /\ wr[w].left = 0 /\ wr' = [wr EXCEPT ![w] = NoWrite] /\ UNCHANGED ilocked
       \/ /\ wr[w].left > 0 /\ ilocked[i] = Free
          /\ IF off[f] > size[i] \/ off[f] + n1 > MAXBYTES
             THEN wr' = [wr EXCEPT ![w] = NoWrite] /\ UNCHANGED ilocked
             ELSE /\ ilocked' = [ilocked EXCEPT ![i] = w]
                  /\ wr' = [wr EXCEPT ![w].pc = "copy", ![w].n1 = n1, ![w].tot = 0,
                                      ![w].logged = {}]
    /\ UNCHANGED <<used, blk, addrs, size, off, kept, fops>>

\* One iteration: bmap, then m bytes.  either_copyin may fail after k bytes.
WriteCopy(w) ==
  LET f == wr[w].f
      i == InodeOf[f]
      o == off[f] + wr[w].tot
      S == bmap(Image, i, o \div BSIZE)
      m == MinOf(wr[w].n1 - wr[w].tot, BSIZE - (o % BSIZE)) IN
    /\ wr[w].pc = "copy" /\ wr[w].tot < wr[w].n1
    /\ used' = S.used /\ addrs' = S.addrs
    /\ \/ /\ S.addr = 0 /\ blk' = S.blk
          /\ wr' = [wr EXCEPT ![w].pc = "done", ![w].logged = @ \cup S.logged]
          /\ UNCHANGED kept
       \/ /\ S.addr # 0
          /\ \E k \in 0..m :
               LET here == (o % BSIZE)..(o % BSIZE) + k - 1 IN
                 /\ blk' = [S.blk EXCEPT ![S.addr] =
                              [x \in DOMAIN @ |-> IF x \in here THEN wr[w].v ELSE @[x]]]
                 /\ wr' = [wr EXCEPT ![w].pc = IF k < m THEN "done" ELSE "copy",
                                     ![w].tot = IF k < m THEN @ ELSE @ + m,
                                     ![w].logged = @ \cup S.logged \cup {S.addr}]
                 \* what was copied shows where the file already reached
                 /\ kept' = [kept EXCEPT ![i] =
                      LET last == IF k = m THEN o + m ELSE MinOf(o + k, Len(@)) IN
                        [x \in 1..(IF Len(@) > last THEN Len(@) ELSE last) |->
                           IF x > o /\ x <= last THEN wr[w].v ELSE @[x]]]
    /\ UNCHANGED <<size, off, ilocked, fops>>

\* The size is taken from the bytes asked for, not from the bytes written.
WriteDoneShort(w) ==
  LET f == wr[w].f
      i == InodeOf[f]
      t == wr[w].tot IN
    /\ wr[w].pc = "done" \/ (wr[w].pc = "copy" /\ t = wr[w].n1)
    /\ size' = [size EXCEPT ![i] = IF off[f] + wr[w].n1 > @ THEN off[f] + wr[w].n1 ELSE @]
    /\ off' = [off EXCEPT ![f] = @ + t]
    /\ ilocked' = [ilocked EXCEPT ![i] = Free]
    /\ wr' = [wr EXCEPT ![w] = IF t = @.n1 THEN [@ EXCEPT !.pc = "chunk", !.left = @ - t]
                                           ELSE NoWrite]
    /\ UNCHANGED <<used, blk, addrs, kept, fops>>

\* ip->size, iupdate(); back in filewrite f->off, iunlock and end_op.  A short
\* write ends the call.
WriteDone(w) ==
  LET f == wr[w].f
      i == InodeOf[f]
      t == wr[w].tot IN
    /\ wr[w].pc = "done" \/ (wr[w].pc = "copy" /\ t = wr[w].n1)
    /\ size' = [size EXCEPT ![i] = IF off[f] + t > @ THEN off[f] + t ELSE @]
    /\ off' = [off EXCEPT ![f] = @ + t]
    /\ ilocked' = [ilocked EXCEPT ![i] = Free]
    /\ wr' = [wr EXCEPT ![w] = IF t = @.n1 THEN [@ EXCEPT !.pc = "chunk", !.left = @ - t]
                                           ELSE NoWrite]
    /\ UNCHANGED <<used, blk, addrs, kept, fops>>

---------------------------------------------------------------------------
(* fileread() and itrunc() *)

\* What readi() reads: bmap would allocate where a block is missing.
ReadBlocks(i, o, n) == {x \div BSIZE : x \in o..o + n - 1}

FileReads(f) ==
  LET i == InodeOf[f] IN
    /\ ilocked[i] = Free /\ fops < MaxFileOps /\ fops' = fops + 1
    /\ \E n \in Lengths :
         LET r == IF off[f] > size[i] THEN 0 ELSE MinOf(n, size[i] - off[f])
             S == FoldSet(LAMBDA bn, T : bmap(T, i, bn), Image, ReadBlocks(i, off[f], r)) IN
           /\ used' = S.used /\ blk' = S.blk /\ addrs' = S.addrs
           /\ off' = [off EXCEPT ![f] = @ + r]
    /\ UNCHANGED <<size, ilocked, wr, kept>>

\* open() again: a new file at offset 0.
Reopen(f) ==
  /\ off[f] # 0 /\ \A w \in FWriters : wr[w].f # f
  /\ off' = [off EXCEPT ![f] = 0]
  /\ UNCHANGED <<used, blk, addrs, size, ilocked, wr, kept, fops>>

\* The blocks behind the indirect one are not freed.
itruncDirect(i) ==
  /\ ilocked[i] = Free /\ fops < MaxFileOps /\ fops' = fops + 1
  /\ used' = used \ ({addrs[i][k] : k \in 0..NDIRECT} \ {0})
  /\ addrs' = [addrs EXCEPT ![i] = [k \in 0..NDIRECT |-> 0]]
  /\ size' = [size EXCEPT ![i] = 0]
  /\ kept' = [kept EXCEPT ![i] = <<>>]
  /\ UNCHANGED <<blk, off, ilocked, wr>>

\* open(O_TRUNC) under ilock: every block is freed (bfree), the size is 0.
itrunc(i) ==
  /\ ilocked[i] = Free /\ fops < MaxFileOps /\ fops' = fops + 1
  /\ used' = used \ Referenced(i)
  /\ addrs' = [addrs EXCEPT ![i] = [k \in 0..NDIRECT |-> 0]]
  /\ size' = [size EXCEPT ![i] = 0]
  /\ kept' = [kept EXCEPT ![i] = <<>>]
  /\ UNCHANGED <<blk, off, ilocked, wr>>

---------------------------------------------------------------------------
FileNext ==
  \/ \E w \in FWriters : WriteCallF(w) \/ WriteChunk(w) \/ WriteCopy(w) \/ WriteDone(w)
  \/ \E f \in OpenFiles : FileReads(f) \/ Reopen(f)
  \/ \E i \in Inums : itrunc(i)

FileSpec == FileInit /\ [][FileNext]_fileVars

---------------------------------------------------------------------------
(* Properties *)

Address(i, bn) == IF bn < NDIRECT THEN addrs[i][bn]
                  ELSE IF addrs[i][NDIRECT] = 0 THEN 0
                  ELSE blk[addrs[i][NDIRECT]][bn - NDIRECT]

\* A file reads back exactly what was written to it, through direct and
\* indirect blocks, short writes on a full disk, failed copies, truncation
\* and two writers that share an offset.
ContentKept ==
  \A i \in Inums : ilocked[i] = Free =>
    /\ Len(kept[i]) = size[i]
    /\ \A x \in 1..size[i] : LET a == Address(i, (x - 1) \div BSIZE) IN
         a # 0 /\ blk[a][(x - 1) % BSIZE] = kept[i][x]

\* A block is in use exactly when one inode refers to it, in one place: none
\* is shared, none is lost when an allocation fails half-way (bmap, itrunc).
BlocksExact ==
  LET direct == {ik \in Inums \X (0..NDIRECT) : addrs[ik[1]][ik[2]] # 0}
      indirect == {ik \in Inums \X (0..NINDIRECT - 1) :
                     LET a == addrs[ik[1]][NDIRECT] IN a # 0 /\ blk[a][ik[2]] # 0} IN
    /\ used = UNION {Referenced(i) : i \in Inums}
    /\ Cardinality(used) = Cardinality(direct) + Cardinality(indirect)

\* One chunk of filewrite() logs at most MAXOPBLOCKS blocks, its inode block
\* included, as begin_op() reserved for it.
ChunkFitsLog == \A w \in FWriters : Cardinality(wr[w].logged) + 1 <= MAXOP
===========================================================================
