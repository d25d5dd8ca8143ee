-------------------------------- MODULE Vm --------------------------------
(***************************************************************************)
(* Physical pages and user address spaces: xv6/kernel/kalloc.c, vm.c, the  *)
(* memory side of proc.c (allocproc, freeproc, proc_pagetable, growproc,   *)
(* kfork), exec.c and sbrk.  Page tables have the three levels of Sv39,    *)
(* with two entries per level: eight virtual pages, the last two of them   *)
(* TRAPFRAME and TRAMPOLINE.  A call works on pages of its own, so it is   *)
(* one step; what the others hold shows only in which of its kalloc()s     *)
(* fail, and any may.                                                      *)
(***************************************************************************)
EXTENDS Naturals, Integers, Sequences, FiniteSets, SequencesExt

CONSTANTS VProcs,
          NPAGE,            \* physical pages
          PGSIZE, USERSTACK,
          Images,           \* sizes of programs, in bytes
          Deltas,           \* arguments of sbrk
          MaxVmCalls

ASSUME VmAssumption == PGSIZE \in Nat \ {0} /\ USERSTACK \in Nat \ {0}

VARIABLES
  kfreelist,    \* free pages
  space,        \* page table, size and trapframe page of each process
  vmcalls, vpanicked

vmVars == <<kfreelist, space, vmcalls, vpanicked>>

VPages == 0..7
TRAPFRAME == 6
TRAMPOLINE == 7
TRAMPAGE == NPAGE + 1     \* kernel text, not from kalloc
NoTable == [root |-> 0, mid |-> [i \in 0..1 |-> 0], low |-> [i \in 0..3 |-> 0],
            leaf |-> [v \in VPages |-> 0]]
NoSpace == [pt |-> NoTable, sz |-> 0, tf |-> 0]

PGROUNDUP(n) == (n + PGSIZE - 1) \div PGSIZE     \* in pages

---------------------------------------------------------------------------
(* A call's view: pages left to it, and the page table it works on *)

\* kalloc(): no page when the list is empty; n: how many others leave.
View(free, pt, n) == [free |-> free, n |-> n, pt |-> pt, got |-> 0, ok |-> TRUE, panic |-> FALSE]

kalloc(S) ==
  IF S.n = 0 \/ S.free = {} THEN [S EXCEPT !.got = 0]
  ELSE LET g == CHOOSE x \in S.free : \A y \in S.free : x <= y IN
         [S EXCEPT !.got = g, !.free = @ \ {g}, !.n = @ - 1]

\* kfree() of a page that is free already would be an error.
kfree(S, G) == [S EXCEPT !.free = @ \cup G, !.panic = @ \/ G \cap S.free # {}]

\* walk(.., alloc = 1): tables on the way are made; ok is FALSE without memory.
walk(S, va) ==
  LET A == IF S.pt.mid[va \div 4] # 0 THEN S
           ELSE LET K == kalloc(S) IN
                  [K EXCEPT !.ok = K.got # 0, !.pt.mid[va \div 4] = K.got] IN
    IF ~A.ok \/ A.pt.low[va \div 2] # 0 THEN A
    ELSE LET K == kalloc(A) IN
           [K EXCEPT !.ok = K.got # 0, !.pt.low[va \div 2] = K.got]

\* mappages() of one page; a page mapped twice is the panic "remap".
mappages(S, va, pa) ==
  LET W == walk(S, va) IN
    IF ~W.ok THEN W
    ELSE [W EXCEPT !.pt.leaf[va] = pa, !.panic = @ \/ W.pt.leaf[va] # 0]

\* uvmunmap(): the pages lo to hi - 1, freed if asked; missing ones are fine.
uvmunmap(S, lo, hi, do_free) ==
  LET G == {S.pt.leaf[v] : v \in VPages \cap (lo..hi - 1)} \ {0}
      T == [S EXCEPT !.pt.leaf = [v \in VPages |-> IF v >= lo /\ v < hi THEN 0 ELSE @[v]]] IN
    IF do_free THEN kfree(T, G) ELSE T

\* freewalk(): the tables; a leaf that is left is a panic.
freewalk(S) ==
  LET tables == {S.pt.root} \cup {S.pt.mid[i] : i \in 0..1} \cup {S.pt.low[i] : i \in 0..3} IN
    [kfree(S, tables \ {0}) EXCEPT !.pt = NoTable,
        !.panic = @ \/ \E v \in VPages : S.pt.leaf[v] # 0]

uvmfree(S, sz) == freewalk(uvmunmap(S, 0, PGROUNDUP(sz), TRUE))

\* A page for va: kalloc, mappages, and kfree when there is no table.
GrowPage(S, va) ==
  IF ~S.ok THEN S
  ELSE LET K == kalloc(S)
           M == mappages(K, va, K.got) IN
         IF K.got = 0 THEN [K EXCEPT !.ok = FALSE]
         ELSE IF M.ok THEN M ELSE kfree(M, {K.got})

PageSeq(lo, hi) == [i \in 1..(IF hi > lo THEN hi - lo ELSE 0) |-> lo + i - 1]

\* Failure leaves the pages allocated so far.
uvmallocNoUndo(S, oldsz, newsz) ==
  FoldLeft(GrowPage, S, PageSeq(PGROUNDUP(oldsz), PGROUNDUP(newsz)))

\* uvmalloc(): all pages between, or none.
uvmalloc(S, oldsz, newsz) ==
  LET lo == PGROUNDUP(oldsz)
      hi == PGROUNDUP(newsz)
      R == FoldLeft(GrowPage, S, PageSeq(lo, hi)) IN
    IF R.ok THEN R ELSE uvmunmap(R, lo, hi, TRUE)

\* proc_pagetable(): the trampoline and the trapframe page tf.
proc_pagetable(S, tf) ==
  LET C == kalloc(S)
      A == mappages([C EXCEPT !.pt = [NoTable EXCEPT !.root = C.got]], TRAMPOLINE, TRAMPAGE)
      B == mappages(A, TRAPFRAME, tf) IN
    IF C.got = 0 THEN [C EXCEPT !.ok = FALSE]
    ELSE IF ~A.ok THEN uvmfree(A, 0)
    ELSE IF ~B.ok THEN uvmfree(uvmunmap(B, TRAMPOLINE, 8, FALSE), 0)
    ELSE B

proc_freepagetable(S, sz) == uvmfree(uvmunmap(S, TRAPFRAME, 8, FALSE), sz)

\* uvmcopy(): pages the parent never touched are skipped.
CopyPages(S, pt, sz) ==
  FoldLeft(LAMBDA T, va : IF pt.leaf[va] = 0 THEN T ELSE GrowPage(T, va),
           S, PageSeq(0, PGROUNDUP(sz)))

uvmcopy(S, pt, sz) ==
  LET R == CopyPages(S, pt, sz) IN
    IF R.ok THEN R ELSE uvmunmap(R, 0, PGROUNDUP(sz), TRUE)

\* vmfault(): a page below the size that is not mapped yet.
vmfault(S, sz, va) ==
  IF va * PGSIZE >= sz \/ S.pt.leaf[va] # 0 THEN [S EXCEPT !.ok = FALSE] ELSE GrowPage(S, va)

---------------------------------------------------------------------------
(* Calls *)

\* allocproc(): the trapframe page, then the page table.
allocproc(S) ==
  LET T == kalloc(S)
      P == proc_pagetable(T, T.got) IN
    IF T.got = 0 THEN [S |-> [T EXCEPT !.ok = FALSE], tf |-> 0]
    ELSE [S |-> IF P.ok THEN P ELSE kfree(P, {T.got}), tf |-> T.got]

\* userinit(): a first process, with no memory until its exec.
VmInit ==
  /\ \E A \in {allocproc(View(1..NPAGE, NoTable, NPAGE))} :
       /\ kfreelist = A.S.free
       /\ space = [q \in VProcs |-> IF q = CHOOSE p \in VProcs : TRUE
                                   THEN [pt |-> A.S.pt, sz |-> 0, tf |-> A.tf] ELSE NoSpace]
  /\ vmcalls = 0 /\ vpanicked = FALSE

\* How many kalloc()s of a call succeed.
Budgets == 0..Cardinality(kfreelist)

Live(p) == space[p].tf # 0

Counted == vmcalls < MaxVmCalls /\ ~vpanicked /\ vmcalls' = vmcalls + 1

\* The call ends: what it leaves of the pages, and whether it panicked.
Leave(S) == kfreelist' = S.free /\ vpanicked' = S.panic

\* kfork(): allocproc(), uvmcopy(), and freeproc() when that fails.
ForkSpace(p, q) ==
  /\ Live(p) /\ ~Live(q) /\ Counted
  /\ \E n \in Budgets :
     \E A \in {allocproc(View(kfreelist, NoTable, n))} :
     \E C \in {uvmcopy(A.S, space[p].pt, space[p].sz)} :
         IF ~A.S.ok THEN Leave(A.S) /\ UNCHANGED space
         ELSE IF ~C.ok THEN Leave(kfree(proc_freepagetable(C, 0), {A.tf})) /\ UNCHANGED space
         ELSE /\ Leave(C)
              /\ space' = [space EXCEPT ![q] = [pt |-> C.pt, sz |-> space[p].sz, tf |-> A.tf]]

\* One segment of the program, up to byte end; a smaller end keeps the size.
LoadSegment(E, end) ==
  LET R == uvmalloc(E.S, E.sz, end) IN
    IF ~E.S.ok THEN E
    ELSE [S |-> R, sz |-> IF R.ok /\ end > E.sz THEN end ELSE E.sz]

\* The guard page and the stack above the segments.
LoadStack(E) ==
  LET top == PGROUNDUP(E.sz) * PGSIZE
      end == top + (USERSTACK + 1) * PGSIZE
      R == uvmalloc(E.S, top, end) IN
    IF ~E.S.ok THEN E ELSE [S |-> R, sz |-> IF R.ok THEN end ELSE top]

\* kexec(): a new image, and the old one freed only once it is complete.
\* cut: the segment, the stack or the arguments at which it gives up.
Exec(p) ==
  /\ Live(p) /\ Counted
  /\ \E n \in Budgets, image \in Images :
     \E cut \in 0..Len(image) + 2 :
     \E P \in {proc_pagetable(View(kfreelist, NoTable, n), space[p].tf)} :
     \E L \in {FoldLeft(LoadSegment, [S |-> P, sz |-> 0],
                        SubSeq(image, 1, IF cut < Len(image) THEN cut ELSE Len(image)))} :
     \E E \in {IF cut > Len(image) THEN LoadStack(L) ELSE L} :
       LET F == proc_freepagetable([E.S EXCEPT !.pt = space[p].pt], space[p].sz) IN
         IF ~P.ok THEN Leave(P) /\ UNCHANGED space
         ELSE IF E.S.ok /\ cut = Len(image) + 2
         THEN /\ Leave(F)
              /\ space' = [space EXCEPT ![p].pt = E.S.pt, ![p].sz = E.sz]
         ELSE Leave(proc_freepagetable(E.S, E.sz)) /\ UNCHANGED space

\* growproc(n), n > 0.
GrowProc(p, d) ==
  /\ space[p].sz + d <= TRAPFRAME * PGSIZE
  /\ \E n \in Budgets :
       LET R == uvmalloc(View(kfreelist, space[p].pt, n), space[p].sz, space[p].sz + d) IN
         /\ Leave(R)
         /\ space' = [space EXCEPT ![p].pt = R.pt, ![p].sz = IF R.ok THEN @ + d ELSE @]

\* growproc(n), n < 0; uvmdealloc() by more than the size wraps around to a
\* larger size, and does nothing.
ShrinkProc(p, d) ==
  LET newsz == space[p].sz + d
      R == uvmunmap(View(kfreelist, space[p].pt, 0), PGROUNDUP(newsz),
                    PGROUNDUP(space[p].sz), TRUE) IN
    /\ newsz >= 0
    /\ Leave(R)
    /\ space' = [space EXCEPT ![p].pt = R.pt, ![p].sz = newsz]

\* The lazy half of sys_sbrk(): only the size.
SbrkLazy(p, d) ==
  /\ space[p].sz + d <= TRAPFRAME * PGSIZE
  /\ space' = [space EXCEPT ![p].sz = @ + d]
  /\ UNCHANGED <<kfreelist, vpanicked>>

\* sys_sbrk(); the calls that change nothing are left out.
Sbrk(p) ==
  /\ Live(p) /\ Counted
  /\ \E d \in Deltas : IF d < 0 THEN ShrinkProc(p, d) ELSE GrowProc(p, d) \/ SbrkLazy(p, d)

\* A fault at a user address, or one page of copyout(), copyin() or
\* copyinstr(); pages already there change nothing.
Touch(p) ==
  /\ Live(p) /\ Counted
  /\ \E va \in 0..TRAPFRAME - 1, n \in Budgets :
       LET R == vmfault(View(kfreelist, space[p].pt, n), space[p].sz, va) IN
         /\ Leave(R)
         /\ space' = [space EXCEPT ![p].pt = R.pt]

\* freeproc() by the parent's wait.
FreeSpace(p, q) ==
  /\ p # q /\ Live(p) /\ Live(q) /\ Counted
  /\ Leave(kfree(proc_freepagetable(View(kfreelist, space[q].pt, 0), space[q].sz),
                 {space[q].tf}))
  /\ space' = [space EXCEPT ![q] = NoSpace]

VmNext ==
  \/ \E p, q \in VProcs : ForkSpace(p, q) \/ FreeSpace(p, q)
  \/ \E p \in VProcs : Exec(p) \/ Sbrk(p) \/ Touch(p)

VmSpec == VmInit /\ [][VmNext]_vmVars

---------------------------------------------------------------------------
(* Properties *)

\* The places that hold page g.
PlacesOf(g) ==
  (IF g \in kfreelist THEN {<<"free">>} ELSE {})
  \cup UNION {
    (IF space[p].tf = g THEN {<<p, "trapframe">>} ELSE {})
    \cup (IF space[p].pt.root = g THEN {<<p, "root">>} ELSE {})
    \cup {<<p, "mid", i>> : i \in {i \in 0..1 : space[p].pt.mid[i] = g}}
    \cup {<<p, "low", i>> : i \in {i \in 0..3 : space[p].pt.low[i] = g}}
    \cup {<<p, "page", v>> : v \in {v \in 0..TRAPFRAME - 1 : space[p].pt.leaf[v] = g}}
    : p \in VProcs}

\* Every physical page is in exactly one place: on the free list, or one
\* table, one page or the trapframe of one process.  A fork, exec or sbrk
\* that runs out of memory at any of its kalloc()s gives back all it took
\* and no more, and parent and child never share a page.
PagesOwnedOnce == \A g \in 1..NPAGE : Cardinality(PlacesOf(g)) = 1

===========================================================================
