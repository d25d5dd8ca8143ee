---------------------------- MODULE PipeProofs ----------------------------
(***************************************************************************)
(* Proofs about Pipe, for every number of readers and writers, every       *)
(* PIPESIZE and every width of nread and nwrite.                           *)
(***************************************************************************)
EXTENDS Pipe, Integers, SequenceTheorems, TLAPS

Labels == {"idle", "acquire", "sleep", "asleep", "wait", "copy", "write"}

PipeTypes ==
  /\ readopen \in BOOLEAN /\ writeopen \in BOOLEAN
  /\ pilock \in PipeProcs \cup {NoOne}
  /\ ppc \in [PipeProcs -> Labels]
  /\ pchan \in [PipeProcs -> {"none", "nread", "nwrite"}]
  /\ pkilled \in [PipeProcs -> BOOLEAN]

\* Where a process is in the loops of its call, it holds pi->lock.
LockInv ==
  \A p \in PipeProcs : /\ ppc[p] \in {"write", "wait", "copy"} <=> pilock = p
                       /\ ppc[p] = "write" => p \in Writers
                       /\ ppc[p] \in {"wait", "copy"} => p \in Readers

\* Who is registered on a channel has reason to be, or a holder of the lock is
\* on its way to wake it, or the writer that would have was killed.
WakeInv ==
  \A p \in PipeProcs :
    /\ pchan[p] = "nread" =>
         /\ writeopen
         /\ \/ Empty
            \/ \E w \in Writers : pkilled[w]
            \/ readopen /\ \E w \in Writers : ppc[w] = "write"
    /\ pchan[p] = "nwrite" =>
         /\ readopen
         /\ Full \/ \E r \in Readers : ppc[r] = "copy"

PipeInv == PipeTypes /\ LockInv /\ WakeInv

LEMMA PipeInitInv == PipeInit => PipeInv
  BY PipeAssumption DEF PipeInit, PipeInv, PipeTypes, LockInv, WakeInv, Labels, PipeProcs

\* A step of a process that neither holds nor takes pi->lock.
Outside(p) == PipeCall(p) \/ PipeSleep(p) \/ PipeAwake(p) \/ PipeKill(p)

LEMMA OutsideKeeps ==
  ASSUME PipeInv, NEW p \in PipeProcs, Outside(p)
  PROVE PipeInv'
<1>1. PipeTypes' /\ LockInv'
  BY
  DEF PipeInv, PipeTypes, LockInv, Labels, PipeProcs, Outside, PipeCall, PipeSleep, PipeAwake,
      PipeKill,
         PipeGoto, fieldVars
<1>2. /\ pchan' = pchan /\ nread' = nread /\ nwrite' = nwrite
      /\ readopen' = readopen /\ writeopen' = writeopen
      /\ \A q \in PipeProcs : /\ pkilled[q] => pkilled'[q]
                              /\ ppc[q] \in {"write", "copy"} => ppc'[q] = ppc[q]
  BY DEF PipeInv, PipeTypes, Outside, PipeCall, PipeSleep, PipeAwake, PipeKill, PipeGoto, fieldVars
<1>3. WakeInv'
  BY <1>2 DEF PipeInv, WakeInv, Empty, Full, PipeProcs
<1> QED
  BY <1>1, <1>3 DEF PipeInv

LEMMA AcquireKeeps ==
  ASSUME PipeInv, NEW p \in PipeProcs, AcquirePi(p)
  PROVE PipeInv'
<1>1. PipeTypes' /\ LockInv'
  BY PipeAssumption
  DEF PipeInv, PipeTypes, LockInv, Labels, PipeProcs, AcquirePi, PipeGoto, fieldVars
<1>2. /\ pchan' = pchan /\ nread' = nread /\ nwrite' = nwrite /\ pkilled' = pkilled
      /\ readopen' = readopen /\ writeopen' = writeopen
      /\ \A q \in PipeProcs : ppc[q] \in {"write", "copy"} => ppc'[q] = ppc[q]
  BY DEF PipeInv, PipeTypes, AcquirePi, PipeGoto, fieldVars
<1>3. WakeInv'
  BY <1>2 DEF PipeInv, WakeInv, Empty, Full, PipeProcs
<1> QED
  BY <1>1, <1>3 DEF PipeInv

\* pipewrite: bytes are put in while nobody waits for room, and the readers are
\* woken before the lock is released, except by a writer that was killed.
LEMMA WriterKeeps ==
  ASSUME PipeInv, NEW w \in Writers, WriterStep(w)
  PROVE PipeInv'
<1> w \in PipeProcs
  BY DEF PipeProcs
<1>0. /\ pilock = w /\ ppc[w] = "write"
      /\ \A q \in PipeProcs : ppc[q] \notin {"wait", "copy"} /\ (ppc[q] = "write" => q = w)
  BY PipeAssumption
  DEF PipeInv, LockInv, WriterStep, WriteFails, WriteFull, PutByte, WriteDone, Writable
<1>1. CASE WriteFails(w)
  <2>1. PipeTypes' /\ LockInv'
    BY <1>0, <1>1, PipeAssumption
    DEF PipeInv, PipeTypes, LockInv, Labels, PipeProcs, WriteFails, PipeReturn, ReleasePi,
        PipeGoto, fieldVars
  <2>2. WakeInv'
    BY <1>0, <1>1
    DEF PipeInv, PipeTypes, WakeInv, Empty, Full, PipeProcs, WriteFails, PipeReturn, ReleasePi,
        PipeGoto, fieldVars
  <2> QED
    BY <2>1, <2>2 DEF PipeInv
<1>2. CASE WriteFull(w)
  <2>1. PipeTypes' /\ LockInv'
    BY <1>0, <1>2, PipeAssumption
    DEF PipeInv, PipeTypes, LockInv, Labels, PipeProcs, WriteFull, PipeRelease, ReleasePi,
        PipeGoto, fieldVars
  <2>2. WakeInv'
    BY <1>0, <1>2
    DEF PipeInv, PipeTypes, WakeInv, Empty, Full, PipeProcs, WriteFull, Writable, PipeRelease,
        ReleasePi, PipeGoto, fieldVars
  <2> QED
    BY <2>1, <2>2 DEF PipeInv
<1>3. CASE PutByte(w)
  <2>1. PipeTypes' /\ LockInv'
    BY <1>0, <1>3 DEF PipeInv, PipeTypes, LockInv, PutByte
  <2>2. WakeInv'
    BY <1>0, <1>3 DEF PipeInv, PipeTypes, WakeInv, PipeProcs, PutByte, Writable
  <2> QED
    BY <2>1, <2>2 DEF PipeInv
<1>4. CASE WriteDone(w)
  <2>1. PipeTypes' /\ LockInv'
    BY <1>0, <1>4, PipeAssumption
    DEF PipeInv, PipeTypes, LockInv, Labels, PipeProcs, WriteDone, PipeWakeup, PipeReturn,
        ReleasePi, PipeGoto, fieldVars
  <2>2. WakeInv'
    BY <1>0, <1>4
    DEF PipeInv, PipeTypes, WakeInv, Empty, Full, PipeProcs, WriteDone, PipeWakeup, PipeReturn,
        ReleasePi, PipeGoto, fieldVars
  <2> QED
    BY <2>1, <2>2 DEF PipeInv
<1> QED
  BY <1>1, <1>2, <1>3, <1>4 DEF WriterStep

\* piperead: bytes are taken out by a reader that wakes the writers before it
\* releases the lock.
LEMMA ReaderKeeps ==
  ASSUME PipeInv, NEW r \in Readers, ReaderStep(r)
  PROVE PipeInv'
<1> r \in PipeProcs
  BY DEF PipeProcs
<1>0. /\ pilock = r /\ ppc[r] \in {"wait", "copy"}
      /\ \A q \in PipeProcs : ppc[q] # "write" /\ (ppc[q] \in {"wait", "copy"} => q = r)
  BY PipeAssumption
  DEF PipeInv, LockInv, ReaderStep, ReadWaits, ReadKilled, ReadPrepare, ReadReady, GetByte,
      ReadDone
<1>1. CASE ReadKilled(r)
  <2>1. PipeTypes' /\ LockInv'
    BY <1>0, <1>1, PipeAssumption
    DEF PipeInv, PipeTypes, LockInv, Labels, PipeProcs, ReadKilled, PipeReturn, ReleasePi,
        PipeGoto, fieldVars
  <2>2. WakeInv'
    BY <1>0, <1>1
    DEF PipeInv, PipeTypes, WakeInv, Empty, Full, PipeProcs, ReadKilled, ReadWaits, PipeReturn,
        ReleasePi, PipeGoto, fieldVars
  <2> QED
    BY <2>1, <2>2 DEF PipeInv
<1>2. CASE ReadPrepare(r)
  <2>1. PipeTypes' /\ LockInv'
    BY <1>0, <1>2, PipeAssumption
    DEF PipeInv, PipeTypes, LockInv, Labels, PipeProcs, ReadPrepare, PipeRelease, ReleasePi,
        PipeGoto, fieldVars
  <2>2. WakeInv'
    BY <1>0, <1>2
    DEF PipeInv, PipeTypes, WakeInv, Empty, Full, PipeProcs, ReadPrepare, ReadWaits, PipeRelease,
        ReleasePi, PipeGoto, fieldVars
  <2> QED
    BY <2>1, <2>2 DEF PipeInv
<1>3. CASE ReadReady(r)
  <2>1. PipeTypes' /\ LockInv'
    BY <1>0, <1>3 DEF PipeInv, PipeTypes, LockInv, Labels, PipeProcs, ReadReady, PipeGoto, fieldVars
  <2>2. WakeInv'
    BY <1>0, <1>3
    DEF PipeInv, PipeTypes, WakeInv, Empty, Full, PipeProcs, ReadReady, PipeGoto, fieldVars
  <2> QED
    BY <2>1, <2>2 DEF PipeInv
<1>4. CASE GetByte(r)
  <2>1. PipeTypes' /\ LockInv'
    BY <1>0, <1>4 DEF PipeInv, PipeTypes, LockInv, GetByte
  <2>2. WakeInv'
    BY <1>0, <1>4 DEF PipeInv, PipeTypes, WakeInv, PipeProcs, GetByte
  <2> QED
    BY <2>1, <2>2 DEF PipeInv
<1>5. CASE ReadDone(r)
  <2>1. PipeTypes' /\ LockInv'
    BY <1>0, <1>5, PipeAssumption
    DEF PipeInv, PipeTypes, LockInv, Labels, PipeProcs, ReadDone, PipeWakeup, PipeReturn,
        ReleasePi, PipeGoto, fieldVars
  <2>2. WakeInv'
    BY <1>0, <1>5
    DEF PipeInv, PipeTypes, WakeInv, Empty, Full, PipeProcs, ReadDone, PipeWakeup, PipeReturn,
        ReleasePi, PipeGoto, fieldVars
  <2> QED
    BY <2>1, <2>2 DEF PipeInv
<1> QED
  BY <1>1, <1>2, <1>3, <1>4, <1>5 DEF ReaderStep

\* pipeclose, by the last holder of either end: everyone at the other is woken.
LEMMA CloseKeeps ==
  ASSUME PipeInv, CloseWrite \/ CloseRead
  PROVE PipeInv'
<1>0. \A q \in PipeProcs : ppc[q] \notin {"write", "wait", "copy"}
  BY PipeAssumption DEF PipeInv, LockInv, CloseWrite, CloseRead
<1>1. PipeTypes' /\ LockInv'
  BY DEF PipeInv, PipeTypes, LockInv, CloseWrite, CloseRead, PipeWakeup
<1>2. WakeInv'
  BY <1>0 DEF PipeInv, PipeTypes, WakeInv, Empty, Full, PipeProcs, CloseWrite, CloseRead, PipeWakeup
<1> QED
  BY <1>1, <1>2 DEF PipeInv

\* PipeInv holds in every reachable state of the processes at a pipe.
THEOREM PipeInvariant == PipeSpec => []PipeInv
<1>1. PipeInv /\ [PipeNext]_pipeVars => PipeInv'
  <2> SUFFICES ASSUME PipeInv, [PipeNext]_pipeVars PROVE PipeInv'
    OBVIOUS
  <2>1. CASE PipeNext
    BY <2>1, OutsideKeeps, AcquireKeeps, WriterKeeps, ReaderKeeps, CloseKeeps
    DEF PipeNext, PipeStep, Outside
  <2>2. CASE UNCHANGED pipeVars
    BY <2>2 DEF pipeVars, PipeInv, PipeTypes, LockInv, WakeInv, Empty, Full
  <2> QED
    BY <2>1, <2>2
<1> QED
  BY <1>1, PipeInitInv, PTL DEF PipeSpec

\* However reads, writes, closes and kills interleave, nobody is left registered
\* on a pipe that has what it waits for, but for readers whose writer was killed.
THEOREM PipesLoseNoWakeup == PipeSpec => []PipeNoLostWakeup
<1>1. PipeInv => PipeNoLostWakeup
  BY PipeAssumption DEF PipeInv, LockInv, WakeInv, PipeNoLostWakeup, PipeProcs
<1> QED
  BY <1>1, PipeInvariant, PTL

---------------------------------------------------------------------------
(* The ring buffer: arithmetic *)

\* A number has one remainder.
LEMMA QuotientUnique ==
  ASSUME NEW P \in Nat \ {0}, NEW q \in Int, NEW d \in Int, NEW r \in 0..P - 1, NEW s \in 0..P - 1,
         q * P + r = d * P + s
  PROVE r = s
<1>1. CASE q > d
  <2>1. PICK e \in Nat : q = d + 1 + e
    <3>1. q - d - 1 \in Nat /\ q = d + 1 + (q - d - 1)
      BY <1>1
    <3> QED
      BY <3>1
  <2>2. q * P = d * P + P + e * P
    BY <2>1
  <2>3. e * P >= 0 /\ e * P \in Int /\ d * P \in Int
    BY <2>1
  <2> QED
    BY <2>2, <2>3
<1>2. CASE d > q
  <2>1. PICK e \in Nat : d = q + 1 + e
    <3>1. d - q - 1 \in Nat /\ d = q + 1 + (d - q - 1)
      BY <1>2
    <3> QED
      BY <3>1
  <2>2. d * P = q * P + P + e * P
    BY <2>1
  <2>3. e * P >= 0 /\ e * P \in Int /\ q * P \in Int
    BY <2>1
  <2> QED
    BY <2>2, <2>3
<1> QED
  BY <1>1, <1>2

\* What \div and % are.
LEMMA Division ==
  ASSUME NEW P \in Nat \ {0}, NEW x \in Nat
  PROVE x \div P \in Int /\ x % P \in 0..P - 1 /\ x = (x \div P) * P + (x % P)
  OBVIOUS

\* Below the modulus, and once past it.
LEMMA ModSmall ==
  ASSUME NEW U \in Nat \ {0}, NEW x \in Nat, x < U
  PROVE x % U = x
  OBVIOUS

LEMMA ModWrap ==
  ASSUME NEW U \in Nat \ {0}, NEW x \in Nat, x >= U, x < U + U
  PROVE x % U = x - U
  OBVIOUS

\* UIntMod is a multiple of PIPESIZE, so the wrap of a counter does not move
\* the slot it names.
LEMMA ModMultiple ==
  ASSUME NEW P \in Nat \ {0}, NEW U \in Nat, U % P = 0, NEW x \in Nat
  PROVE (x + U) % P = x % P
<1> DEFINE a == U \div P
           b == x \div P
           c == (x + U) \div P
<1>1. a \in Int /\ U = a * P
  BY Division
<1>2. b \in Int /\ x % P \in 0..P - 1 /\ x = b * P + (x % P)
  BY Division
<1>3. x + U \in Nat
  OBVIOUS
<1>4. c \in Int /\ (x + U) % P \in 0..P - 1 /\ x + U = c * P + ((x + U) % P)
  BY <1>3, Division
<1> HIDE DEF a, b, c
<1>5. (a + b) * P = a * P + b * P /\ a * P \in Int /\ b * P \in Int
  BY <1>1, <1>2
<1>6. (a + b) * P + (x % P) = c * P + ((x + U) % P)
  BY <1>1, <1>2, <1>4, <1>5
<1>7. a + b \in Int
  BY <1>1, <1>2
<1> QED
  BY <1>2, <1>4, <1>6, <1>7, QuotientUnique

\* Fewer than PIPESIZE bytes apart, two bytes have different slots.
LEMMA ModDistinct ==
  ASSUME NEW P \in Nat \ {0}, NEW x \in Nat, NEW k \in 1..P - 1
  PROVE x % P # (x + k) % P
<1> DEFINE b == x \div P
           c == (x + k) \div P
<1>1. b \in Int /\ x % P \in 0..P - 1 /\ x = b * P + (x % P)
  BY Division
<1>2. x + k \in Nat
  OBVIOUS
<1>3. c \in Int /\ (x + k) % P \in 0..P - 1 /\ x + k = c * P + ((x + k) % P)
  BY <1>2, Division
<1> HIDE DEF b, c
<1>4. b * P \in Int /\ c * P \in Int
  BY <1>1, <1>3
<1>5. ASSUME x % P = (x + k) % P PROVE FALSE
  <2>1. b * P + k = c * P + 0
    BY <1>1, <1>3, <1>4, <1>5
  <2>2. k \in 0..P - 1 /\ 0 \in 0..P - 1
    OBVIOUS
  <2>3. k = 0
    BY <1>1, <1>3, <2>1, <2>2, QuotientUnique
  <2> QED
    BY <2>3
<1> QED
  BY <1>5

---------------------------------------------------------------------------
(* The ring buffer implements a byte stream *)

\* What data[] may hold: its bytes, and what is in it before the first write.
Cell == Byte \cup {CHOOSE b \in Byte : TRUE}

\* The counters are in range and at most PIPESIZE apart; an end in use is open.
RingInv ==
  /\ data \in [0..PIPESIZE - 1 -> Cell]
  /\ nread \in 0..UIntMod - 1
  /\ nwrite \in 0..UIntMod - 1
  /\ InFlight <= PIPESIZE
  /\ \A r \in Readers : ppc[r] # "idle" => readopen
  /\ \A w \in Writers : ppc[w] # "idle" => writeopen

\* The distance of two counters that wrap, without %.
LEMMA InFlightIs ==
  ASSUME NEW r \in 0..UIntMod - 1, NEW w \in 0..UIntMod - 1
  PROVE (w + UIntMod - r) % UIntMod = IF w >= r THEN w - r ELSE w + UIntMod - r
<1>1. UIntMod \in Nat \ {0}
  BY PipeAssumption
<1>2. CASE w >= r
  <2>1. w + UIntMod - r \in Nat /\ w + UIntMod - r >= UIntMod /\ w + UIntMod - r < UIntMod + UIntMod
    BY <1>1, <1>2
  <2>2. (w + UIntMod - r) % UIntMod = (w + UIntMod - r) - UIntMod
    BY Zenon, <1>1, <2>1, ModWrap
  <2>3. (w + UIntMod - r) - UIntMod = w - r
    BY <1>1
  <2> QED
    BY Zenon, <1>2, <2>2, <2>3
<1>3. CASE w < r
  <2>1. w + UIntMod - r \in Nat /\ w + UIntMod - r < UIntMod
    BY <1>1, <1>3
  <2> QED
    BY <1>1, <1>3, <2>1, ModSmall
<1> QED
  BY <1>1, <1>2, <1>3

\* A counter after an increment by at most PIPESIZE.
LEMMA Advance ==
  ASSUME NEW x \in 0..UIntMod - 1, NEW k \in 0..PIPESIZE
  PROVE (x + k) % UIntMod = IF x + k < UIntMod THEN x + k ELSE (x + k) - UIntMod
<1>1. UIntMod \in Nat \ {0} /\ PIPESIZE \in Nat /\ PIPESIZE < UIntMod
  BY PipeAssumption
<1>2. x + k \in Nat /\ x + k < UIntMod + UIntMod
  BY <1>1
<1>3. CASE x + k < UIntMod
  BY <1>1, <1>2, <1>3, ModSmall
<1>4. CASE ~(x + k < UIntMod)
  <2>1. x + k >= UIntMod
    BY <1>1, <1>2, <1>4
  <2>2. (x + k) % UIntMod = (x + k) - UIntMod
    BY Zenon, <1>1, <1>2, <2>1, ModWrap
  <2> QED
    BY Zenon, <1>4, <2>2
<1> QED
  BY <1>3, <1>4

\* A slot does not depend on whether its counter has wrapped.
LEMMA SlotWraps ==
  ASSUME NEW x \in Nat
  PROVE (x + UIntMod) % PIPESIZE = x % PIPESIZE
  BY PipeAssumption, ModMultiple

\* The distance of the counters, what Full and Empty say of it, and where the
\* next byte goes.
LEMMA Ring ==
  ASSUME RingInv
  PROVE /\ InFlight \in 0..PIPESIZE
        /\ nread \in Nat /\ nwrite \in Nat
        /\ InFlight = IF nwrite >= nread THEN nwrite - nread ELSE nwrite + UIntMod - nread
        /\ Full <=> InFlight = PIPESIZE
        /\ Empty <=> InFlight = 0
        /\ nwrite % PIPESIZE = (nread + InFlight) % PIPESIZE
<1>0. /\ UIntMod \in Nat \ {0} /\ PIPESIZE \in Nat \ {0} /\ PIPESIZE < UIntMod
      /\ nread \in 0..UIntMod - 1 /\ nwrite \in 0..UIntMod - 1 /\ PIPESIZE \in 0..PIPESIZE
  BY PipeAssumption DEF RingInv
<1>1. InFlight = IF nwrite >= nread THEN nwrite - nread ELSE nwrite + UIntMod - nread
  BY Zenon, <1>0, InFlightIs DEF InFlight
<1>2. InFlight \in 0..PIPESIZE
  <2>1. InFlight <= PIPESIZE
    BY DEF RingInv
  <2> HIDE DEF InFlight
  <2> QED
    BY <1>0, <1>1, <2>1
<1>3. (nread + PIPESIZE) % UIntMod =
        IF nread + PIPESIZE < UIntMod THEN nread + PIPESIZE ELSE (nread + PIPESIZE) - UIntMod
  BY Zenon, <1>0, Advance
<1>4. nread + InFlight = nwrite \/ nread + InFlight = nwrite + UIntMod
  <2> HIDE DEF InFlight
  <2> QED
    BY <1>0, <1>1
<1>5. nwrite % PIPESIZE = (nread + InFlight) % PIPESIZE
  <2>1. (nwrite + UIntMod) % PIPESIZE = nwrite % PIPESIZE
    <3>1. nwrite \in Nat
      BY <1>0
    <3> QED
      BY Zenon, <3>1, SlotWraps
  <2> QED
    BY Zenon, <1>4, <2>1
<1>6. Full <=> InFlight = PIPESIZE
  <2> DEFINE f == (nread + PIPESIZE) % UIntMod
  <2>1. f = IF nread + PIPESIZE < UIntMod THEN nread + PIPESIZE ELSE (nread + PIPESIZE) - UIntMod
    BY <1>3
  <2>2. Full <=> nwrite = f
    BY DEF Full
  <2> HIDE DEF f, InFlight
  <2> QED
    BY <1>0, <1>1, <2>1, <2>2
<1>7. Empty <=> InFlight = 0
  <2> HIDE DEF InFlight
  <2> QED
    BY <1>0, <1>1 DEF Empty
<1>8. nread \in Nat /\ nwrite \in Nat
  BY <1>0
<1> QED
  BY Zenon, <1>1, <1>2, <1>5, <1>6, <1>7, <1>8

\* A byte put in takes the counters one further apart, one taken out closer.
LEMMA Counted ==
  ASSUME RingInv
  PROVE /\ nwrite' = (nwrite + 1) % UIntMod /\ nread' = nread /\ ~Full =>
             nwrite' \in 0..UIntMod - 1 /\ InFlight' = InFlight + 1
        /\ nread' = (nread + 1) % UIntMod /\ nwrite' = nwrite /\ ~Empty =>
             /\ nread' \in 0..UIntMod - 1 /\ InFlight' = InFlight - 1
             /\ nread' = nread + 1 \/ nread' + UIntMod = nread + 1
<1>0. /\ UIntMod \in Nat \ {0} /\ PIPESIZE \in Nat \ {0} /\ PIPESIZE < UIntMod /\ 1 \in 0..PIPESIZE
      /\ nread \in 0..UIntMod - 1 /\ nwrite \in 0..UIntMod - 1
  BY PipeAssumption DEF RingInv
<1>1. /\ InFlight = IF nwrite >= nread THEN nwrite - nread ELSE nwrite + UIntMod - nread
      /\ InFlight \in 0..PIPESIZE
      /\ Full <=> InFlight = PIPESIZE
      /\ Empty <=> InFlight = 0
  BY Zenon, Ring
<1>2. ASSUME nwrite' = (nwrite + 1) % UIntMod, nread' = nread, ~Full
      PROVE nwrite' \in 0..UIntMod - 1 /\ InFlight' = InFlight + 1
  <2>1. nwrite' = IF nwrite + 1 < UIntMod THEN nwrite + 1 ELSE (nwrite + 1) - UIntMod
    BY Zenon, <1>0, <1>2, Advance
  <2>2. nwrite' \in 0..UIntMod - 1 /\ nread' \in 0..UIntMod - 1
    BY <1>0, <1>2, <2>1
  <2>3. InFlight' = IF nwrite' >= nread' THEN nwrite' - nread' ELSE nwrite' + UIntMod - nread'
    BY Zenon, <2>2, InFlightIs DEF InFlight
  <2> HIDE DEF InFlight
  <2>4. InFlight' = InFlight + 1
    BY SMTT(30), <1>0, <1>1, <1>2, <2>1, <2>3
  <2> QED
    BY <2>2, <2>4
<1>3. ASSUME nread' = (nread + 1) % UIntMod, nwrite' = nwrite, ~Empty
      PROVE /\ nread' \in 0..UIntMod - 1 /\ InFlight' = InFlight - 1
            /\ nread' = nread + 1 \/ nread' + UIntMod = nread + 1
  <2>1. nread' = IF nread + 1 < UIntMod THEN nread + 1 ELSE (nread + 1) - UIntMod
    BY Zenon, <1>0, <1>3, Advance
  <2>2. nwrite' \in 0..UIntMod - 1 /\ nread' \in 0..UIntMod - 1
    BY <1>0, <1>3, <2>1
  <2>3. InFlight' = IF nwrite' >= nread' THEN nwrite' - nread' ELSE nwrite' + UIntMod - nread'
    BY Zenon, <2>2, InFlightIs DEF InFlight
  <2> HIDE DEF InFlight
  <2>4. InFlight' = InFlight - 1
    BY SMTT(30), <1>0, <1>1, <1>3, <2>1, <2>3
  <2>5. nread' = nread + 1 \/ nread' + UIntMod = nread + 1
    BY <1>0, <2>1
  <2> QED
    BY <2>2, <2>4, <2>5
<1> QED
  BY Zenon, <1>2, <1>3

\* A step that leaves struct pipe alone.
Quiet(p) ==
  \/ Outside(p) \/ AcquirePi(p)
  \/ p \in Writers /\ (WriteFails(p) \/ WriteFull(p) \/ WriteDone(p))
  \/ p \in Readers /\ (ReadKilled(p) \/ ReadPrepare(p) \/ ReadReady(p) \/ ReadDone(p))

LEMMA QuietKeeps ==
  ASSUME PipeInv, RingInv, NEW p \in PipeProcs, Quiet(p)
  PROVE RingInv' /\ UNCHANGED fieldVars
<1>1. UNCHANGED fieldVars
  BY
  DEF Quiet, Outside, PipeCall, PipeSleep, PipeAwake, PipeKill, AcquirePi, WriteFails, WriteFull,
      WriteDone,
         ReadKilled, ReadPrepare, ReadReady, ReadDone, PipeRelease
<1>2. ppc' = ppc \/ \E l \in Labels : ppc' = [ppc EXCEPT ![p] = l]
  BY
  DEF Quiet, Outside, PipeCall, PipeSleep, PipeAwake, PipeKill, AcquirePi, WriteFails, WriteFull,
      WriteDone,
         ReadKilled, ReadPrepare, ReadReady, ReadDone, PipeRelease, PipeReturn, PipeGoto, Labels
<1>3. ppc' = ppc \/ PipeCall(p) \/ ppc[p] # "idle"
  BY
  DEF Quiet, Outside, PipeSleep, PipeAwake, PipeKill, AcquirePi, WriteFails, WriteFull, Writable,
      WriteDone,
         ReadKilled, ReadWaits, ReadPrepare, ReadReady, ReadDone
<1>4. p \in Readers /\ ppc' # ppc => readopen
  BY <1>3 DEF RingInv, PipeCall
<1>5. p \in Writers /\ ppc' # ppc => writeopen
  BY <1>3, PipeAssumption DEF RingInv, PipeCall
<1>6. \A q \in PipeProcs : q # p => ppc'[q] = ppc[q]
  BY <1>2 DEF PipeInv, PipeTypes
<1>7. /\ \A r \in Readers : ppc'[r] # "idle" => readopen
      /\ \A w \in Writers : ppc'[w] # "idle" => writeopen
  BY <1>4, <1>5, <1>6 DEF RingInv, PipeProcs
<1>8. InFlight' = InFlight
  BY <1>1 DEF InFlight, fieldVars
<1> QED
  BY Zenon, <1>1, <1>7, <1>8 DEF RingInv, fieldVars

LEMMA PutKeeps ==
  ASSUME RingInv, NEW w \in Writers, PutByte(w)
  PROVE RingInv'
<1>1. nwrite' \in 0..UIntMod - 1 /\ InFlight' = InFlight + 1
  BY Zenon, Counted DEF PutByte
<1>2. InFlight \in 0..PIPESIZE /\ InFlight # PIPESIZE /\ PIPESIZE \in Nat
  BY Zenon, Ring, PipeAssumption DEF PutByte
<1>3. InFlight' <= PIPESIZE
  <2> HIDE DEF InFlight
  <2> QED
    BY <1>1, <1>2
<1>4. data' \in [0..PIPESIZE - 1 -> Cell]
  BY DEF RingInv, PutByte, Cell
<1> QED
  BY Zenon, <1>1, <1>3, <1>4 DEF RingInv, PutByte

LEMMA GetKeeps ==
  ASSUME RingInv, NEW r \in Readers, GetByte(r)
  PROVE RingInv'
<1>1. nread' \in 0..UIntMod - 1 /\ InFlight' = InFlight - 1
  BY Zenon, Counted DEF GetByte
<1>2. InFlight \in 0..PIPESIZE /\ PIPESIZE \in Nat
  BY Zenon, Ring, PipeAssumption
<1>3. InFlight' <= PIPESIZE
  <2> HIDE DEF InFlight
  <2> QED
    BY <1>1, <1>2
<1> QED
  BY Zenon, <1>1, <1>3 DEF RingInv, GetByte

LEMMA CloseKeepsRing ==
  ASSUME RingInv, CloseWrite \/ CloseRead
  PROVE RingInv'
<1>1. InFlight' = InFlight
  BY DEF InFlight, CloseWrite, CloseRead
<1>2. CASE CloseWrite
  BY Zenon, <1>1, <1>2 DEF RingInv, CloseWrite
<1>3. CASE CloseRead
  BY Zenon, <1>1, <1>3 DEF RingInv, CloseRead
<1> QED
  BY <1>2, <1>3

LEMMA RingInit == PipeInit => RingInv
<1> SUFFICES ASSUME PipeInit PROVE RingInv
  OBVIOUS
<1>0. UIntMod \in Nat \ {0} /\ PIPESIZE \in Nat \ {0} /\ 0 \in 0..UIntMod - 1
  BY PipeAssumption
<1>1. InFlight = 0
  <2>1. InFlight = IF 0 >= 0 THEN 0 - 0 ELSE 0 + UIntMod - 0
    BY Zenon, <1>0, InFlightIs DEF InFlight, PipeInit
  <2> HIDE DEF InFlight
  <2> QED
    BY <2>1
<1>2. InFlight <= PIPESIZE
  <2> HIDE DEF InFlight
  <2> QED
    BY <1>0, <1>1
<1>3. data \in [0..PIPESIZE - 1 -> Cell]
  BY DEF PipeInit, Cell
<1> QED
  BY <1>0, <1>2, <1>3 DEF PipeInit, RingInv, PipeProcs

\* Every step is a byte put in, a byte taken out, an end closed, or quiet.
LEMMA StepKinds ==
  ASSUME PipeNext
  PROVE \/ \E p \in PipeProcs : Quiet(p)
        \/ \E w \in Writers : PutByte(w)
        \/ \E r \in Readers : GetByte(r)
        \/ CloseWrite \/ CloseRead
  BY Zenon DEF PipeNext, PipeStep, WriterStep, ReaderStep, Quiet, Outside

LEMMA RingStep ==
  ASSUME PipeInv, RingInv, [PipeNext]_pipeVars
  PROVE RingInv'
<1>1. CASE PipeNext
  BY Zenon, <1>1, StepKinds, QuietKeeps, PutKeeps, GetKeeps, CloseKeepsRing
<1>2. CASE UNCHANGED pipeVars
  <2>1. InFlight' = InFlight
    BY <1>2 DEF InFlight, pipeVars
  <2> QED
    BY Zenon, <1>2, <2>1 DEF RingInv, pipeVars
<1> QED
  BY <1>1, <1>2

\* The counters of a pipe stay at most PIPESIZE apart across their wrap.
THEOREM RingInvariant == PipeSpec => []RingInv
<1>1. PipeInv /\ RingInv /\ [PipeNext]_pipeVars => RingInv'
  BY RingStep
<1> QED
  BY <1>1, RingInit, PipeInvariant, PTL DEF PipeSpec

\* The bytes in flight, oldest first.
Flight == [k \in 1..InFlight |-> data[(nread + k - 1) % PIPESIZE]]

LEMMA FlightIsSeq ==
  ASSUME RingInv
  PROVE Flight \in Seq(Cell) /\ Len(Flight) = InFlight
<1>1. InFlight \in Nat /\ nread \in Nat /\ PIPESIZE \in Nat \ {0}
  <2>1. InFlight \in 0..PIPESIZE /\ nread \in Nat /\ PIPESIZE \in Nat \ {0}
    BY Zenon, Ring, PipeAssumption
  <2> HIDE DEF InFlight
  <2> QED
    BY <2>1
<1>2. \A k \in 1..InFlight : data[(nread + k - 1) % PIPESIZE] \in Cell
  <2> HIDE DEF InFlight
  <2> SUFFICES ASSUME NEW k \in 1..InFlight PROVE data[(nread + k - 1) % PIPESIZE] \in Cell
    OBVIOUS
  <2>1. nread + k - 1 \in Nat
    BY <1>1
  <2>2. (nread + k - 1) % PIPESIZE \in 0..PIPESIZE - 1
    BY Zenon, <1>1, <2>1, Division
  <2> QED
    BY Zenon, <2>2 DEF RingInv
<1> HIDE DEF InFlight
<1> QED
  BY <1>1, <1>2 DEF Flight

\* Append and Tail, as functions.
LEMMA AppendIs ==
  ASSUME NEW S, NEW s \in Seq(S), NEW b \in S
  PROVE Append(s, b) = [k \in 1..(Len(s) + 1) |-> IF k = Len(s) + 1 THEN b ELSE s[k]]
<1> DEFINE A == Append(s, b)
<1>1. /\ A \in Seq(S) /\ Len(A) = Len(s) + 1 /\ A[Len(s) + 1] = b
      /\ \A k \in 1..Len(s) : A[k] = s[k]
  BY AppendProperties
<1>2. A = [k \in 1..Len(A) |-> A[k]]
  BY Zenon, <1>1, LenProperties
<1>3. Len(s) \in Nat
  OBVIOUS
<1> HIDE DEF A
<1>4. ASSUME NEW k \in 1..(Len(s) + 1)
      PROVE A[k] = IF k = Len(s) + 1 THEN b ELSE s[k]
  BY <1>1, <1>3
<1> QED
  BY Zenon, <1>1, <1>2, <1>4 DEF A

LEMMA TailIs ==
  ASSUME NEW S, NEW s \in Seq(S), s # <<>>
  PROVE Tail(s) = [k \in 1..(Len(s) - 1) |-> s[k + 1]]
<1> DEFINE T == Tail(s)
<1>1. /\ T \in Seq(S) /\ Len(T) = Len(s) - 1 /\ \A k \in 1..Len(T) : T[k] = s[k + 1]
  BY HeadTailProperties
<1>2. T = [k \in 1..Len(T) |-> T[k]]
  BY Zenon, <1>1, LenProperties
<1> HIDE DEF T
<1> QED
  BY Zenon, <1>1, <1>2 DEF T

\* A byte put in is the last of the stream, and overwrites none of it.
LEMMA PutAppends ==
  ASSUME RingInv, NEW w \in Writers, PutByte(w)
  PROVE Len(Flight) < PIPESIZE /\ \E b \in Byte : Flight' = Append(Flight, b)
<1> DEFINE n == InFlight
<1>0. PIPESIZE \in Nat \ {0}
  BY PipeAssumption
<1>1. /\ n \in 0..PIPESIZE /\ n # PIPESIZE /\ nread \in Nat /\ nwrite \in Nat
      /\ nwrite % PIPESIZE = (nread + n) % PIPESIZE
  BY Zenon, Ring DEF PutByte
<1>2. n' = n + 1 /\ nread' = nread
  BY Zenon, Counted DEF PutByte
<1>3. PICK b \in Byte : data' = [data EXCEPT ![nwrite % PIPESIZE] = b]
  BY DEF PutByte
<1>4. Flight \in Seq(Cell) /\ Len(Flight) = n
  BY FlightIsSeq
<1>5. Flight' = [k \in 1..(n + 1) |-> data'[(nread + k - 1) % PIPESIZE]]
  BY Zenon, <1>2 DEF Flight
<1>6. Flight = [k \in 1..n |-> data[(nread + k - 1) % PIPESIZE]]
  BY DEF Flight
<1>7. nwrite % PIPESIZE \in 0..PIPESIZE - 1 /\ data \in [0..PIPESIZE - 1 -> Cell]
  BY Zenon, <1>0, <1>1, Division DEF RingInv
<1> HIDE DEF n
<1>8. data'[(nread + (n + 1) - 1) % PIPESIZE] = b
  <2>1. nread + (n + 1) - 1 = nread + n
    BY <1>1
  <2>2. data'[nwrite % PIPESIZE] = b
    BY <1>3, <1>7
  <2> QED
    BY Zenon, <1>1, <2>1, <2>2
<1>9. ASSUME NEW k \in 1..n
      PROVE data'[(nread + k - 1) % PIPESIZE] = data[(nread + k - 1) % PIPESIZE]
  <2> DEFINE x == nread + k - 1
             d == n - k + 1
  <2>1. x \in Nat /\ d \in 1..PIPESIZE - 1 /\ x + d = nread + n
    BY <1>0, <1>1
  <2> HIDE DEF d
  <2>2. x % PIPESIZE # (x + d) % PIPESIZE
    BY Zenon, <1>0, <2>1, ModDistinct
  <2>3. x % PIPESIZE # nwrite % PIPESIZE
    BY Zenon, <1>1, <2>1, <2>2
  <2>4. x % PIPESIZE \in 0..PIPESIZE - 1
    BY Zenon, <1>0, <2>1, Division
  <2> HIDE DEF x
  <2>5. data'[x % PIPESIZE] = data[x % PIPESIZE]
    BY <1>3, <1>7, <2>3, <2>4
  <2> QED
    BY Zenon, <2>5 DEF x
<1>10. Flight' = Append(Flight, b)
  <2> DEFINE G == [k \in 1..(n + 1) |-> data'[(nread + k - 1) % PIPESIZE]]
             A == Append(Flight, b)
  <2>1. A = [k \in 1..(n + 1) |-> IF k = n + 1 THEN b ELSE Flight[k]]
    <3>1. b \in Cell
      BY Zenon DEF Cell
    <3>2. Append(Flight, b) =
            [k \in 1..(Len(Flight) + 1) |-> IF k = Len(Flight) + 1 THEN b ELSE Flight[k]]
      BY <1>4, <3>1, AppendIs
    <3> QED
      BY <1>4, <3>2
  <2>2. ASSUME NEW k \in 1..(n + 1)
        PROVE G[k] = IF k = n + 1 THEN b ELSE Flight[k]
    <3>1. CASE k = n + 1
      BY Zenon, <1>8, <3>1
    <3>2. CASE k # n + 1
      <4>1. k \in 1..n
        BY <1>1, <3>2
      <4>2. Flight[k] = data[(nread + k - 1) % PIPESIZE]
        BY Zenon, <1>6, <4>1
      <4> QED
        BY Zenon, <1>9, <3>2, <4>1, <4>2
    <3> QED
      BY <3>1, <3>2
  <2>3. G = [k \in 1..(n + 1) |-> G[k]]
    OBVIOUS
  <2>4. Flight' = G
    BY <1>5
  <2> HIDE DEF G, A
  <2>5. G = A
    BY Zenon, <2>1, <2>2, <2>3
  <2> QED
    BY <2>4, <2>5 DEF A
<1> QED
  BY <1>0, <1>1, <1>4, <1>10

\* The place of a byte, counted from nread before and after its increment.
LEMMA Shifted ==
  ASSUME NEW a \in Nat, NEW b \in Nat, NEW U \in Nat, NEW k \in Nat \ {0},
         a = b + 1 \/ a + U = b + 1
  PROVE a + k - 1 \in Nat /\ (b + (k + 1) - 1 = a + k - 1 \/ b + (k + 1) - 1 = a + k - 1 + U)
  OBVIOUS

\* A byte taken out was the first of the stream.
LEMMA GetTails ==
  ASSUME RingInv, NEW r \in Readers, GetByte(r)
  PROVE Flight # <<>> /\ Flight' = Tail(Flight)
<1> DEFINE n == InFlight
<1>0. PIPESIZE \in Nat \ {0} /\ UIntMod \in Nat
  BY PipeAssumption
<1>1. n \in 0..PIPESIZE /\ n # 0 /\ nread \in Nat
  BY Zenon, Ring DEF GetByte
<1>2. /\ n' = n - 1 /\ nread' \in 0..UIntMod - 1
      /\ nread' = nread + 1 \/ nread' + UIntMod = nread + 1
      /\ data' = data
  BY Zenon, Counted DEF GetByte
<1>4. Flight \in Seq(Cell) /\ Len(Flight) = n
  BY FlightIsSeq
<1>5. Flight' = [k \in 1..(n - 1) |-> data[(nread' + k - 1) % PIPESIZE]]
  BY Zenon, <1>2 DEF Flight
<1>6. Flight = [k \in 1..n |-> data[(nread + k - 1) % PIPESIZE]]
  BY DEF Flight
<1> HIDE DEF n
<1>7. ASSUME NEW k \in 1..(n - 1)
      PROVE data[(nread' + k - 1) % PIPESIZE] = Flight[k + 1]
  <2> DEFINE x == nread' + k - 1
             y == nread + (k + 1) - 1
  <2>1. x \in Nat /\ (y = x \/ y = x + UIntMod)
    <3>1. nread' \in Nat /\ k \in Nat \ {0} /\ UIntMod \in Nat /\ nread \in Nat
      BY <1>0, <1>1, <1>2
    <3>2. nread' = nread + 1 \/ nread' + UIntMod = nread + 1
      BY <1>2
    <3> HIDE DEF x, y
    <3>3. PICK a \in Nat : a = nread'
      BY Zenon, <3>1
    <3>4. a = nread + 1 \/ a + UIntMod = nread + 1
      BY Zenon, <3>2, <3>3
    <3>5. /\ a + k - 1 \in Nat
          /\ nread + (k + 1) - 1 = a + k - 1 \/ nread + (k + 1) - 1 = a + k - 1 + UIntMod
      BY <3>1, <3>4, Shifted
    <3> QED
      BY Zenon, <3>3, <3>5 DEF x, y
  <2>2. k + 1 \in 1..n
    BY <1>0, <1>1
  <2>3. Flight[k + 1] = data[y % PIPESIZE]
    BY Zenon, <1>6, <2>2
  <2> HIDE DEF x, y
  <2>4. y % PIPESIZE = x % PIPESIZE
    BY Zenon, <2>1, SlotWraps
  <2> QED
    BY Zenon, <2>3, <2>4 DEF x
<1>8. Flight # <<>>
  BY <1>1, <1>4
<1>9. Tail(Flight) = [k \in 1..(n - 1) |-> Flight[k + 1]]
  BY Zenon, <1>4, <1>8, TailIs
<1> QED
  BY Zenon, <1>5, <1>7, <1>8, <1>9

\* The ring buffer of a pipe is a byte stream of capacity PIPESIZE: for every
\* number of readers and writers, every PIPESIZE and every width of the
\* counters that is a multiple of it, bytes leave in the order they entered.
THEOREM PipesAreStreams == PipeSpec => PipeIsStream
<1>1. PipeInit => Stream!StreamInit
  <2> SUFFICES ASSUME PipeInit PROVE Flight = <<>> /\ readopen = TRUE /\ writeopen = TRUE
    BY Zenon DEF Stream!StreamInit, Flight
  <2>1. RingInv
    BY RingInit
  <2>2. InFlight = 0
    BY Zenon, <2>1, Ring DEF Empty, PipeInit
  <2>3. Flight \in Seq(Cell) /\ Len(Flight) = 0
    BY Zenon, <2>1, <2>2, FlightIsSeq
  <2> QED
    BY <2>3 DEF PipeInit
<1>2. PipeInv /\ RingInv /\ [PipeNext]_pipeVars
        => [Stream!Put \/ Stream!Get \/ Stream!CloseEnd]_(Stream!streamVars)
  <2> SUFFICES ASSUME PipeInv, RingInv, [PipeNext]_pipeVars
               PROVE [Stream!Put \/ Stream!Get \/ Stream!CloseEnd]_(Stream!streamVars)
    OBVIOUS
  <2>1. ASSUME UNCHANGED fieldVars PROVE UNCHANGED Stream!streamVars
    BY Zenon, <2>1 DEF fieldVars, Stream!streamVars, InFlight
  <2>2. ASSUME NEW p \in PipeProcs, Quiet(p) PROVE UNCHANGED Stream!streamVars
    BY Zenon, <2>1, <2>2, QuietKeeps
  <2>3. ASSUME NEW w \in Writers, PutByte(w) PROVE Stream!Put
    <3>1. Len(Flight) < PIPESIZE /\ \E b \in Byte : Flight' = Append(Flight, b)
      BY Zenon, <2>3, PutAppends
    <3>2. readopen /\ writeopen /\ readopen' = readopen /\ writeopen' = writeopen
      BY <2>3 DEF PutByte, Writable, RingInv
    <3> QED
      BY Zenon, <3>1, <3>2 DEF Stream!Put, Flight
  <2>4. ASSUME NEW r \in Readers, GetByte(r) PROVE Stream!Get
    <3>1. Flight # <<>> /\ Flight' = Tail(Flight)
      BY Zenon, <2>4, GetTails
    <3>2. readopen /\ readopen' = readopen /\ writeopen' = writeopen
      BY <2>4 DEF GetByte, RingInv
    <3> QED
      BY Zenon, <3>1, <3>2 DEF Stream!Get, Flight
  <2>5. ASSUME CloseWrite \/ CloseRead PROVE Stream!CloseEnd
    <3>1. InFlight' = InFlight /\ data' = data /\ nread' = nread
      BY <2>5 DEF CloseWrite, CloseRead, InFlight
    <3>2. \/ readopen /\ readopen' = FALSE /\ writeopen' = writeopen
          \/ writeopen /\ writeopen' = FALSE /\ readopen' = readopen
      BY <2>5 DEF CloseWrite, CloseRead
    <3> QED
      BY Zenon, <3>1, <3>2 DEF Stream!CloseEnd
  <2>6. CASE PipeNext
    BY Zenon, <2>2, <2>3, <2>4, <2>5, <2>6, StepKinds
  <2>7. CASE UNCHANGED pipeVars
    BY <2>1, <2>7 DEF pipeVars, fieldVars
  <2> QED
    BY <2>6, <2>7
<1> QED
  BY <1>1, <1>2, PipeInvariant, RingInvariant, PTL DEF PipeSpec, PipeIsStream, Stream!StreamSpec
===========================================================================
