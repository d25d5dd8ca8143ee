---------------------------- MODULE SpinProofs ----------------------------
(***************************************************************************)
(* Proofs about SpinLock, for every number of CPUs and locks and every     *)
(* depth of nesting.                                                       *)
(***************************************************************************)
EXTENDS SpinLock, FiniteSetTheorems, TLAPS

Places == {"run", "spin", "own", "unlock", "pop"}

SpinTypes ==
  /\ locked \in [Locks -> BOOLEAN]
  /\ lkcpu \in [Locks -> Harts \cup {NoCpu}]
  /\ noff \in [Harts -> Int]
  /\ intena \in [Harts -> BOOLEAN]
  /\ sie \in [Harts -> BOOLEAN]
  /\ mode \in [Harts -> Modes]
  /\ held \in [Harts -> [Modes -> SUBSET Locks]]
  /\ spc \in [Harts -> [Modes -> Places]]
  /\ want \in [Harts -> [Modes -> Locks \cup {0}]]
  /\ spinpanic \in BOOLEAN

\* The locks push_off() has been called for: those in whose section the code
\* is, and the one it is about to enter or has just left.
Pushed(c, m) ==
  Cardinality(held[c][m]) + (IF spc[c][m] \in {"spin", "pop"} THEN 1 ELSE 0)

\* Of the thread and the handler of a CPU only the one that runs is inside
\* spinlock.c or a section; noff counts its locks; interrupts are as they were
\* before the first of them.
IntrInv(c) ==
  /\ \A m \in Modes : /\ IsFiniteSet(held[c][m])
                      /\ m # mode[c] => held[c][m] = {} /\ spc[c][m] = "run"
  /\ noff[c] = Pushed(c, mode[c])
  /\ mode[c] = "thread" => (sie[c] <=> noff[c] = 0) /\ (noff[c] # 0 => intena[c])
  /\ mode[c] = "intr" => ~sie[c] /\ (noff[c] # 0 => ~intena[c])

\* A section is entered through locked, and lk->cpu names its CPU except
\* around the two ends of the section.
LockInv(c, m) ==
  /\ \A l \in held[c][m] :
       /\ locked[l]
       /\ lkcpu[l] = c \/ (spc[c][m] \in {"own", "unlock"} /\ want[c][m] = l)
  /\ spc[c][m] = "spin" => want[c][m] \in Locks \ held[c][m]
  /\ spc[c][m] \in {"own", "unlock"} => want[c][m] \in held[c][m]
  /\ spc[c][m] = "unlock" => lkcpu[want[c][m]] # c

CpuInv == \A l \in Locks, c \in Harts : lkcpu[l] = c => l \in held[c][mode[c]]

SpinInv ==
  /\ SpinTypes
  /\ \A c \in Harts : IntrInv(c)
  /\ \A c \in Harts, m \in Modes : LockInv(c, m)
  /\ CpuInv
  /\ SpinExclusion
  /\ SpinNoPanic

---------------------------------------------------------------------------
(* The parts of the invariant *)

\* What SpinInv says of one hart, with its definitions expanded.
LEMMA Running ==
  ASSUME SpinInv, NEW c \in Harts
  PROVE /\ mode[c] \in Modes /\ noff[c] \in Int /\ sie[c] \in BOOLEAN /\ intena[c] \in BOOLEAN
        /\ \A m \in Modes : /\ held[c][m] \subseteq Locks /\ IsFiniteSet(held[c][m])
                            /\ Cardinality(held[c][m]) \in Nat
                            /\ spc[c][m] \in Places /\ want[c][m] \in Locks \cup {0}
  BY FS_CardinalityType DEF SpinInv, SpinTypes, IntrInv

\* AcquireStart: push_off() turns interrupts off, once.
LEMMA AcquireStartKeeps ==
  ASSUME SpinInv, NEW c \in Harts, NEW l \in Locks, AcquireStart(c, l)
  PROVE SpinInv'
<1> USE Running
<1>1. SpinTypes'
  BY SMTT(30) DEF SpinInv, SpinTypes, Places, Modes, AcquireStart, SpinAt, SpinGoto, Wanted, holding, push_off
<1>2. ASSUME NEW d \in Harts PROVE IntrInv(d)'
  BY <1>1, SMTT(30) DEF SpinInv, SpinTypes, IntrInv, Pushed, Places, Modes, AcquireStart, SpinAt, SpinGoto, Wanted, holding, push_off
<1>3. ASSUME NEW d \in Harts, NEW m \in Modes PROVE LockInv(d, m)'
  BY SpinAssumption, SMTT(30) DEF SpinInv, SpinTypes, LockInv, IntrInv, SpinExclusion, Places, Modes, AcquireStart, SpinAt, SpinGoto, Wanted, holding, push_off
<1>4. CpuInv'
  BY SMTT(30) DEF SpinInv, SpinTypes, CpuInv, LockInv, IntrInv, SpinExclusion, Places, Modes, AcquireStart, SpinAt, SpinGoto, Wanted, holding, push_off
<1>5. SpinExclusion'
  BY SMTT(30) DEF SpinInv, SpinTypes, SpinExclusion, LockInv, Modes, AcquireStart, SpinAt, SpinGoto, Wanted, holding, push_off
<1>6. SpinNoPanic'
  BY SpinAssumption DEF SpinInv, SpinTypes, SpinNoPanic, IntrInv, LockInv, CpuInv, Pushed, Modes, AcquireStart, SpinAt, SpinGoto, Wanted, holding, push_off
<1> QED
  BY <1>1, <1>2, <1>3, <1>4, <1>5, <1>6 DEF SpinInv

\* Exchange: the exchange succeeds only on a lock nobody holds.
LEMMA ExchangeKeeps ==
  ASSUME SpinInv, NEW c \in Harts, Exchange(c)
  PROVE SpinInv'
<1> USE Running
<1>0. Wanted(c) \in Locks \ held[c][mode[c]]
  BY DEF SpinInv, LockInv, Exchange, SpinAt, Wanted
<1>1. SpinTypes'
  BY <1>0 DEF SpinInv, SpinTypes, Places, Modes, Exchange, SpinAt, SpinGoto, Wanted
<1>2. ASSUME NEW d \in Harts PROVE IntrInv(d)'
  <2>1. /\ IsFiniteSet(held[c][mode[c]] \cup {Wanted(c)})
        /\ Cardinality(held[c][mode[c]] \cup {Wanted(c)}) = Cardinality(held[c][mode[c]]) + 1
    BY <1>0, FS_AddElement, Zenon
  <2>2. CASE d = c
    <3>1. /\ held'[c] = [held[c] EXCEPT ![mode[c]] = held[c][mode[c]] \cup {Wanted(c)}]
          /\ spc'[c] = [spc[c] EXCEPT ![mode[c]] = "own"] /\ spc[c][mode[c]] = "spin"
          /\ noff' = noff /\ intena' = intena /\ sie' = sie /\ mode' = mode
      BY DEF SpinInv, SpinTypes, Exchange, SpinAt, SpinGoto
    <3>2. /\ held'[c][mode[c]] = held[c][mode[c]] \cup {Wanted(c)}
          /\ spc'[c][mode[c]] = "own"
          /\ \A m \in Modes \ {mode[c]} : held'[c][m] = held[c][m] /\ spc'[c][m] = spc[c][m]
      BY <3>1 DEF SpinInv, SpinTypes
    <3>3. noff[c] = Cardinality(held[c][mode[c]]) + 1
      BY <3>1 DEF SpinInv, IntrInv, Pushed
    <3>4. Pushed(c, mode[c])' = Cardinality(held[c][mode[c]] \cup {Wanted(c)}) + 0
      BY <3>1, <3>2, Zenon DEF Pushed
    <3>5. noff'[c] = Pushed(c, mode[c])'
      BY <2>1, <3>1, <3>3, <3>4
    <3> QED
      BY <2>1, <2>2, <3>1, <3>2, <3>5 DEF SpinInv, IntrInv
  <2>3. CASE d # c
    BY <2>3 DEF SpinInv, SpinTypes, IntrInv, Pushed, Places, Modes, Exchange, SpinAt, SpinGoto, Wanted
  <2> QED
    BY <2>2, <2>3
<1>3. ASSUME NEW d \in Harts, NEW m \in Modes PROVE LockInv(d, m)'
  BY SMTT(30) DEF SpinInv, SpinTypes, LockInv, IntrInv, SpinExclusion, Places, Modes, Exchange, SpinAt, SpinGoto, Wanted
<1>4. CpuInv'
  BY SMTT(30) DEF SpinInv, SpinTypes, CpuInv, LockInv, IntrInv, SpinExclusion, Places, Modes, Exchange, SpinAt, SpinGoto, Wanted
<1>5. SpinExclusion'
  BY SMTT(30) DEF SpinInv, SpinTypes, SpinExclusion, LockInv, Modes, Exchange, SpinAt, SpinGoto, Wanted
<1>6. SpinNoPanic'
  BY SpinAssumption, SMTT(30) DEF SpinInv, SpinTypes, SpinNoPanic, IntrInv, LockInv, CpuInv, Pushed, Modes, Exchange, SpinAt, SpinGoto, Wanted
<1> QED
  BY <1>1, <1>2, <1>3, <1>4, <1>5, <1>6 DEF SpinInv

\* SetCpu: lk->cpu is set inside the section.
LEMMA SetCpuKeeps ==
  ASSUME SpinInv, NEW c \in Harts, SetCpu(c)
  PROVE SpinInv'
<1> USE Running
<1>1. SpinTypes'
  BY ZenonT(30) DEF SpinInv, SpinTypes, Places, Modes, SetCpu, SpinAt, SpinGoto, Wanted
<1>2. ASSUME NEW d \in Harts PROVE IntrInv(d)'
  BY <1>1 DEF SpinInv, SpinTypes, IntrInv, Pushed, Places, Modes, SetCpu, SpinAt, SpinGoto, Wanted
<1>3. ASSUME NEW d \in Harts, NEW m \in Modes PROVE LockInv(d, m)'
  BY DEF SpinInv, SpinTypes, LockInv, IntrInv, SpinExclusion, Places, Modes, SetCpu, SpinAt, SpinGoto, Wanted
<1>4. CpuInv'
  BY DEF SpinInv, SpinTypes, CpuInv, LockInv, IntrInv, SpinExclusion, Places, Modes, SetCpu, SpinAt, SpinGoto, Wanted
<1>5. SpinExclusion'
  BY DEF SpinInv, SpinTypes, SpinExclusion, LockInv, Modes, SetCpu, SpinAt, SpinGoto, Wanted
<1>6. SpinNoPanic'
  BY SpinAssumption, SMTT(30) DEF SpinInv, SpinTypes, SpinNoPanic, IntrInv, LockInv, CpuInv, Pushed, Modes, SetCpu, SpinAt, SpinGoto, Wanted
<1> QED
  BY <1>1, <1>2, <1>3, <1>4, <1>5, <1>6 DEF SpinInv

\* ClearCpu: lk->cpu is cleared inside the section.
LEMMA ClearCpuKeeps ==
  ASSUME SpinInv, NEW c \in Harts, NEW l \in Locks, ClearCpu(c, l)
  PROVE SpinInv'
<1> USE Running
<1>0. locked[l] /\ lkcpu[l] = c
  <2>1. LockInv(c, mode[c]) /\ l \in held[c][mode[c]] /\ spc[c][mode[c]] = "run"
    BY DEF SpinInv, ClearCpu, SpinAt
  <2> QED
    BY <2>1 DEF LockInv
<1>1. SpinTypes'
  BY SMTT(30) DEF SpinInv, SpinTypes, Places, Modes, ClearCpu, SpinAt, SpinGoto, Wanted, holding
<1>2. ASSUME NEW d \in Harts PROVE IntrInv(d)'
  BY <1>1 DEF SpinInv, SpinTypes, IntrInv, Pushed, Places, Modes, ClearCpu, SpinAt, SpinGoto, Wanted, holding
<1>3. ASSUME NEW d \in Harts, NEW m \in Modes PROVE LockInv(d, m)'
  <2>1. CASE d = c /\ m = mode[c]
    BY <1>0, <2>1, SpinAssumption, SMTT(30) DEF SpinInv, SpinTypes, LockInv, Places, Modes, ClearCpu, SpinAt, SpinGoto
  <2>2. CASE ~(d = c /\ m = mode[c])
    <3>1. l \notin held[d][m]
      BY <2>2 DEF SpinInv, SpinExclusion, ClearCpu
    <3>2. /\ held'[d][m] = held[d][m] /\ spc'[d][m] = spc[d][m] /\ want'[d][m] = want[d][m]
          /\ locked' = locked
      BY <2>2 DEF SpinInv, SpinTypes, ClearCpu, SpinGoto
    <3>3. \A k \in Locks : k # l => lkcpu'[k] = lkcpu[k]
      BY DEF SpinInv, SpinTypes, ClearCpu
    <3> QED
      BY <3>1, <3>2, <3>3 DEF SpinInv, LockInv
  <2> QED
    BY <2>1, <2>2, SMTT(30)
<1>4. CpuInv'
  BY SpinAssumption, SMTT(30) DEF SpinInv, SpinTypes, CpuInv, ClearCpu
<1>5. SpinExclusion'
  BY DEF SpinInv, SpinTypes, SpinExclusion, LockInv, Modes, ClearCpu, SpinAt, SpinGoto, Wanted, holding
<1>6. SpinNoPanic'
  BY <1>0, Zenon DEF SpinInv, SpinNoPanic, ClearCpu, holding
<1> QED
  BY <1>1, <1>2, <1>3, <1>4, <1>5, <1>6 DEF SpinInv

\* Unlock: the section ends.
LEMMA UnlockKeeps ==
  ASSUME SpinInv, NEW c \in Harts, Unlock(c)
  PROVE SpinInv'
<1> USE Running
<1>0. Wanted(c) \in held[c][mode[c]]
  BY DEF SpinInv, LockInv, Unlock, SpinAt, Wanted
<1>1. SpinTypes'
  BY <1>0 DEF SpinInv, SpinTypes, Places, Modes, Unlock, SpinAt, SpinGoto, Wanted
<1>2. ASSUME NEW d \in Harts PROVE IntrInv(d)'
  <2>1. /\ IsFiniteSet(held[c][mode[c]] \ {Wanted(c)})
        /\ Cardinality(held[c][mode[c]] \ {Wanted(c)}) = Cardinality(held[c][mode[c]]) - 1
    BY <1>0, FS_RemoveElement, ZenonT(30)
  <2>2. CASE d = c
    <3>1. /\ held'[c] = [held[c] EXCEPT ![mode[c]] = held[c][mode[c]] \ {Wanted(c)}]
          /\ spc'[c] = [spc[c] EXCEPT ![mode[c]] = "pop"] /\ spc[c][mode[c]] = "unlock"
          /\ noff' = noff /\ intena' = intena /\ sie' = sie /\ mode' = mode
      BY DEF SpinInv, SpinTypes, Unlock, SpinAt, SpinGoto
    <3>2. /\ held'[c][mode[c]] = held[c][mode[c]] \ {Wanted(c)}
          /\ spc'[c][mode[c]] = "pop"
          /\ \A m \in Modes \ {mode[c]} : held'[c][m] = held[c][m] /\ spc'[c][m] = spc[c][m]
      BY <3>1 DEF SpinInv, SpinTypes
    <3>3. noff[c] = Cardinality(held[c][mode[c]])
      BY <3>1 DEF SpinInv, IntrInv, Pushed
    <3>4. Pushed(c, mode[c])' = Cardinality(held[c][mode[c]] \ {Wanted(c)}) + 1
      BY <3>1, <3>2, Zenon DEF Pushed
    <3>5. noff'[c] = Pushed(c, mode[c])'
      BY <2>1, <3>1, <3>3, <3>4
    <3> QED
      BY <2>1, <2>2, <3>1, <3>2, <3>5 DEF SpinInv, IntrInv
  <2>3. CASE d # c
    BY <2>3 DEF SpinInv, SpinTypes, IntrInv, Pushed, Places, Modes, Unlock, SpinAt, SpinGoto, Wanted
  <2> QED
    BY <2>2, <2>3
<1>3. ASSUME NEW d \in Harts, NEW m \in Modes PROVE LockInv(d, m)'
  BY SMTT(30) DEF SpinInv, SpinTypes, LockInv, IntrInv, SpinExclusion, Places, Modes, Unlock, SpinAt, SpinGoto, Wanted
<1>4. CpuInv'
  BY SMTT(30) DEF SpinInv, SpinTypes, CpuInv, LockInv, IntrInv, SpinExclusion, Places, Modes, Unlock, SpinAt, SpinGoto, Wanted
<1>5. SpinExclusion'
  BY SMTT(30) DEF SpinInv, SpinTypes, SpinExclusion, LockInv, Modes, Unlock, SpinAt, SpinGoto, Wanted
<1>6. SpinNoPanic'
  BY SpinAssumption, SMTT(30) DEF SpinInv, SpinTypes, SpinNoPanic, IntrInv, LockInv, CpuInv, Pushed, Modes, Unlock, SpinAt, SpinGoto, Wanted
<1> QED
  BY <1>1, <1>2, <1>3, <1>4, <1>5, <1>6 DEF SpinInv

\* pop_off: interrupts come back with the outermost release.
LEMMA Pop_offKeeps ==
  ASSUME SpinInv, NEW c \in Harts, pop_off(c)
  PROVE SpinInv'
<1> USE Running
<1>1. SpinTypes'
  BY SMTT(30) DEF SpinInv, SpinTypes, Places, Modes, pop_off, SpinAt, SpinGoto, Wanted
<1>2. ASSUME NEW d \in Harts PROVE IntrInv(d)'
  BY <1>1, SMTT(30) DEF SpinInv, SpinTypes, IntrInv, Pushed, Places, Modes, pop_off, SpinAt, SpinGoto, Wanted
<1>3. ASSUME NEW d \in Harts, NEW m \in Modes PROVE LockInv(d, m)'
  BY SMTT(30) DEF SpinInv, SpinTypes, LockInv, IntrInv, SpinExclusion, Places, Modes, pop_off, SpinAt, SpinGoto, Wanted
<1>4. CpuInv'
  BY SMTT(30) DEF SpinInv, SpinTypes, CpuInv, LockInv, IntrInv, SpinExclusion, Places, Modes, pop_off, SpinAt, SpinGoto, Wanted
<1>5. SpinExclusion'
  BY SMTT(30) DEF SpinInv, SpinTypes, SpinExclusion, LockInv, Modes, pop_off, SpinAt, SpinGoto, Wanted
<1>6. SpinNoPanic'
  BY SpinAssumption, SMTT(30) DEF SpinInv, SpinTypes, SpinNoPanic, IntrInv, LockInv, CpuInv, Pushed, Modes, pop_off, SpinAt, SpinGoto, Wanted
<1> QED
  BY <1>1, <1>2, <1>3, <1>4, <1>5, <1>6 DEF SpinInv

\* Interrupt: a handler starts where no lock is held.
LEMMA InterruptKeeps ==
  ASSUME SpinInv, NEW c \in Harts, Interrupt(c)
  PROVE SpinInv'
<1> USE Running
<1>0. noff[c] = 0 /\ held[c]["thread"] = {} /\ spc[c]["thread"] = "run"
  <2>1. mode[c] = "thread" /\ noff[c] = 0 /\ noff[c] = Pushed(c, "thread")
    BY DEF SpinInv, IntrInv, Interrupt
  <2>2. Cardinality(held[c]["thread"]) = 0 /\ spc[c]["thread"] \notin {"spin", "pop"}
    BY <2>1 DEF Pushed, Modes
  <2>3. held[c]["thread"] = {}
    BY <2>2, FS_EmptySet, SMTT(30) DEF Modes
  <2> QED
    BY <2>1, <2>2, <2>3, SMTT(30) DEF SpinInv, LockInv, Places, Modes
<1>1. SpinTypes'
  BY SMTT(30) DEF SpinInv, SpinTypes, Places, Modes, Interrupt, SpinAt, SpinGoto, Wanted
<1>2. ASSUME NEW d \in Harts PROVE IntrInv(d)'
  BY <1>0, FS_EmptySet, SMTT(30) DEF SpinInv, SpinTypes, IntrInv, Pushed, Places, Modes, Interrupt, SpinAt, SpinGoto, Wanted
<1>3. ASSUME NEW d \in Harts, NEW m \in Modes PROVE LockInv(d, m)'
  BY SMTT(30) DEF SpinInv, SpinTypes, LockInv, IntrInv, SpinExclusion, Places, Modes, Interrupt, SpinAt, SpinGoto, Wanted
<1>4. CpuInv'
  BY <1>0, SMTT(30) DEF SpinInv, SpinTypes, CpuInv, LockInv, IntrInv, SpinExclusion, Places, Modes, Interrupt, SpinAt, SpinGoto, Wanted
<1>5. SpinExclusion'
  BY SMTT(30) DEF SpinInv, SpinTypes, SpinExclusion, LockInv, Modes, Interrupt, SpinAt, SpinGoto, Wanted
<1>6. SpinNoPanic'
  BY SpinAssumption, SMTT(30) DEF SpinInv, SpinTypes, SpinNoPanic, IntrInv, LockInv, CpuInv, Pushed, Modes, Interrupt, SpinAt, SpinGoto, Wanted
<1> QED
  BY <1>1, <1>2, <1>3, <1>4, <1>5, <1>6 DEF SpinInv

\* IntrReturn: a handler returns without a lock.
LEMMA IntrReturnKeeps ==
  ASSUME SpinInv, NEW c \in Harts, IntrReturn(c)
  PROVE SpinInv'
<1> USE Running
<1>0. noff[c] = 0
  BY FS_EmptySet, SMTT(30) DEF SpinInv, IntrInv, Pushed, IntrReturn, SpinAt, Modes, Places
<1>1. SpinTypes'
  BY SMTT(30) DEF SpinInv, SpinTypes, Places, Modes, IntrReturn, SpinAt, SpinGoto, Wanted
<1>2. ASSUME NEW d \in Harts PROVE IntrInv(d)'
  BY <1>0, FS_EmptySet, SMTT(30) DEF SpinInv, SpinTypes, IntrInv, Pushed, Places, Modes, IntrReturn, SpinAt, SpinGoto, Wanted
<1>3. ASSUME NEW d \in Harts, NEW m \in Modes PROVE LockInv(d, m)'
  BY SMTT(30) DEF SpinInv, SpinTypes, LockInv, IntrInv, SpinExclusion, Places, Modes, IntrReturn, SpinAt, SpinGoto, Wanted
<1>4. CpuInv'
  BY SMTT(30) DEF SpinInv, SpinTypes, CpuInv, LockInv, IntrInv, SpinExclusion, Places, Modes, IntrReturn, SpinAt, SpinGoto, Wanted
<1>5. SpinExclusion'
  BY SMTT(30) DEF SpinInv, SpinTypes, SpinExclusion, LockInv, Modes, IntrReturn, SpinAt, SpinGoto, Wanted
<1>6. SpinNoPanic'
  BY SpinAssumption DEF SpinInv, SpinTypes, SpinNoPanic, IntrInv, LockInv, CpuInv, Pushed, Modes, IntrReturn, SpinAt, SpinGoto, Wanted
<1> QED
  BY <1>1, <1>2, <1>3, <1>4, <1>5, <1>6 DEF SpinInv

---------------------------------------------------------------------------
(* Theorems *)

\* SpinInv holds in every reachable state of acquire(), release(), push_off(),
\* pop_off() and the interrupts that cut in on them.
THEOREM SpinInvariant == SpinSpec => []SpinInv
<1>1. SpinInit => SpinInv
  <2> SUFFICES ASSUME SpinInit PROVE SpinInv
    OBVIOUS
  <2>1. SpinTypes
    <3>1. /\ lkcpu \in [Locks -> Harts \cup {NoCpu}] /\ noff \in [Harts -> Int]
          /\ mode \in [Harts -> Modes]
      BY DEF SpinInit, Modes
    <3>3. /\ locked \in [Locks -> BOOLEAN] /\ intena \in [Harts -> BOOLEAN]
          /\ sie \in [Harts -> BOOLEAN] /\ spinpanic \in BOOLEAN
      BY Zenon DEF SpinInit
    <3>2. /\ held \in [Harts -> [Modes -> SUBSET Locks]]
          /\ spc \in [Harts -> [Modes -> Places]]
          /\ want \in [Harts -> [Modes -> Locks \cup {0}]]
      BY DEF SpinInit, Places
    <3> QED
      BY <3>1, <3>2, <3>3 DEF SpinTypes
  <2>2. ASSUME NEW c \in Harts PROVE IntrInv(c)
    BY FS_EmptySet DEF SpinInit, IntrInv, Pushed, Modes
  <2>3. ASSUME NEW c \in Harts, NEW m \in Modes PROVE LockInv(c, m)
    BY DEF SpinInit, LockInv, Modes
  <2>4. CpuInv
    BY SpinAssumption DEF SpinInit, CpuInv
  <2>5. SpinExclusion /\ SpinNoPanic
    BY DEF SpinInit, SpinExclusion, SpinNoPanic
  <2> QED
    BY <2>1, <2>2, <2>3, <2>4, <2>5 DEF SpinInv
<1>2. SpinInv /\ [SpinNext]_spinVars => SpinInv'
  <2> SUFFICES ASSUME SpinInv, [SpinNext]_spinVars PROVE SpinInv'
    OBVIOUS
  <2>1. CASE SpinNext
    BY <2>1, AcquireStartKeeps, ExchangeKeeps, SetCpuKeeps, ClearCpuKeeps, UnlockKeeps,
       Pop_offKeeps, InterruptKeeps, IntrReturnKeeps, SMTT(30) DEF SpinNext
  <2>2. CASE UNCHANGED spinVars
    BY <2>2 DEF spinVars, SpinInv, SpinTypes, IntrInv, Pushed, LockInv, CpuInv, SpinExclusion, SpinNoPanic
  <2> QED
    BY <2>1, <2>2
<1> QED
  BY <1>1, <1>2, PTL DEF SpinSpec

\* The exchange in acquire() gives a critical section to one CPU, and there to
\* the thread or to the handler, for any number of CPUs and locks.
THEOREM SectionsExclude == SpinSpec => []SpinExclusion
  BY SpinInvariant, PTL DEF SpinInv

\* push_off() and pop_off() keep interrupts off from the outermost acquire() to
\* its release(), however deep the locks nest and in whatever order they are
\* released.
THEOREM InterruptsStayOff == SpinSpec => []IntrOffInSection
<1>1. SpinInv => IntrOffInSection
  <2> SUFFICES ASSUME SpinInv, NEW c \in Harts
               PROVE /\ held[c]["thread"] # {} => ~sie[c] /\ mode[c] = "thread"
                     /\ mode[c] = "thread" /\ ~sie[c] => noff[c] > 0
    BY DEF IntrOffInSection
  <2> DEFINE n == Cardinality(held[c]["thread"])
  <2>1. n \in Nat /\ (n = 0 => held[c]["thread"] = {})
    BY Running, FS_EmptySet DEF Modes
  <2>2. IntrInv(c) /\ mode[c] \in {"thread", "intr"}
    BY Running DEF SpinInv, Modes
  <2>3. held[c]["thread"] # {} => mode[c] = "thread"
    BY <2>2, SMTT(30) DEF IntrInv, Modes
  <2>4. mode[c] = "thread" => noff[c] = n \/ noff[c] = n + 1
    BY <2>1, <2>2 DEF IntrInv, Pushed
  <2>5. mode[c] = "thread" => (sie[c] <=> noff[c] = 0)
    BY <2>2 DEF IntrInv
  <2> HIDE DEF n
  <2>6. mode[c] = "thread" => noff[c] >= n /\ noff[c] \in Nat
    BY <2>1, <2>4
  <2>7. mode[c] = "thread" /\ held[c]["thread"] # {} => noff[c] # 0
    BY <2>1, <2>6
  <2> QED
    BY <2>3, <2>5, <2>6, <2>7, SMTT(30)
<1> QED
  BY <1>1, SpinInvariant, PTL

\* acquire(), release() and pop_off() never panic when code takes its locks in
\* rising order: holding() is exact at the points where it is asked.
THEOREM SpinlocksNeverPanic == SpinSpec => []SpinNoPanic
  BY SpinInvariant, PTL DEF SpinInv
===========================================================================
