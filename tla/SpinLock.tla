----------------------------- MODULE SpinLock -----------------------------
(***************************************************************************)
(* acquire, release, holding, push_off and pop_off of                      *)
(* xv6/kernel/spinlock.c, on several Harts, each of which runs a thread     *)
(* that device interrupts may cut in on.  lk->locked and lk->cpu are       *)
(* written by different instructions, so by different steps.               *)
(***************************************************************************)
EXTENDS Integers, FiniteSets

CONSTANTS Harts, Locks,   \* Locks are numbers: code takes them in rising order
          MaxNest        \* bound: locks one thread or handler holds at a time

NoCpu == "no cpu"
ASSUME SpinAssumption == Locks \subseteq Int /\ NoCpu \notin Harts

Modes == {"thread", "intr"}

VARIABLES
  locked, lkcpu,   \* lk->locked, lk->cpu
  noff, intena,    \* of mycpu()
  sie,             \* SSTATUS_SIE: interrupts are enabled on the CPU
  mode,            \* "intr" while the CPU runs an interrupt handler
  held,            \* locks whose critical section the thread or handler is in
  spc, want,       \* where the thread or handler is, and at which lock
  spinpanic        \* a panic of spinlock.c was reached

spinVars == <<locked, lkcpu, noff, intena, sie, mode, held, spc, want, spinpanic>>

SpinInit ==
  /\ locked = [l \in Locks |-> FALSE]
  /\ lkcpu = [l \in Locks |-> NoCpu]
  /\ noff = [c \in Harts |-> 0]
  /\ intena = [c \in Harts |-> FALSE]
  /\ sie = [c \in Harts |-> TRUE]
  /\ mode = [c \in Harts |-> "thread"]
  /\ held = [c \in Harts |-> [m \in Modes |-> {}]]
  /\ spc = [c \in Harts |-> [m \in Modes |-> "run"]]
  /\ want = [c \in Harts |-> [m \in Modes |-> 0]]
  /\ spinpanic = FALSE

SpinAt(c, l) == spc[c][mode[c]] = l

SpinGoto(c, l) == spc' = [spc EXCEPT ![c][mode[c]] = l]

Wanted(c) == want[c][mode[c]]

holding(c, l) == locked[l] /\ lkcpu[l] = c

\* push_off(): rc_sstatus turns interrupts off and tells what they were.
push_off(c) ==
  /\ sie' = [sie EXCEPT ![c] = FALSE]
  /\ intena' = [intena EXCEPT ![c] = IF noff[c] = 0 THEN sie[c] ELSE @]
  /\ noff' = [noff EXCEPT ![c] = @ + 1]

\* acquire(), up to the atomic exchange.
AcquireStart(c, l) ==
  /\ SpinAt(c, "run")
  /\ Cardinality(held[c][mode[c]]) < MaxNest
  /\ \A h \in held[c][mode[c]] : h < l
  /\ push_off(c)
  /\ want' = [want EXCEPT ![c][mode[c]] = l]
  /\ spinpanic' = (spinpanic \/ holding(c, l))
  /\ SpinGoto(c, "spin")
  /\ UNCHANGED <<locked, lkcpu, mode, held>>

Exchange(c) ==
  /\ SpinAt(c, "spin") /\ ~locked[Wanted(c)]
  /\ locked' = [locked EXCEPT ![Wanted(c)] = TRUE]
  /\ held' = [held EXCEPT ![c][mode[c]] = @ \cup {Wanted(c)}]
  /\ SpinGoto(c, "own")
  /\ UNCHANGED <<lkcpu, noff, intena, sie, mode, want, spinpanic>>

SetCpu(c) ==
  /\ SpinAt(c, "own")
  /\ lkcpu' = [lkcpu EXCEPT ![Wanted(c)] = c]
  /\ SpinGoto(c, "run")
  /\ UNCHANGED <<locked, noff, intena, sie, mode, held, want, spinpanic>>

\* release(): the two stores in the order the code makes them.
ClearCpu(c, l) ==
  /\ SpinAt(c, "run") /\ l \in held[c][mode[c]]
  /\ spinpanic' = (spinpanic \/ ~holding(c, l))
  /\ lkcpu' = [lkcpu EXCEPT ![l] = NoCpu]
  /\ want' = [want EXCEPT ![c][mode[c]] = l]
  /\ SpinGoto(c, "unlock")
  /\ UNCHANGED <<locked, noff, intena, sie, mode, held>>

Unlock(c) ==
  /\ SpinAt(c, "unlock")
  /\ locked' = [locked EXCEPT ![Wanted(c)] = FALSE]
  /\ held' = [held EXCEPT ![c][mode[c]] = @ \ {Wanted(c)}]
  /\ SpinGoto(c, "pop")
  /\ UNCHANGED <<lkcpu, noff, intena, sie, mode, want, spinpanic>>

\* Interrupts are restored by the first release, not the outermost.
pop_offEager(c) ==
  /\ SpinAt(c, "pop")
  /\ spinpanic' = (spinpanic \/ sie[c] \/ noff[c] < 1)
  /\ noff' = [noff EXCEPT ![c] = @ - 1]
  /\ sie' = [sie EXCEPT ![c] = @ \/ intena[c]]
  /\ SpinGoto(c, "run")
  /\ UNCHANGED <<locked, lkcpu, intena, mode, held, want>>

pop_off(c) ==
  /\ SpinAt(c, "pop")
  /\ spinpanic' = (spinpanic \/ sie[c] \/ noff[c] < 1)
  /\ noff' = [noff EXCEPT ![c] = @ - 1]
  /\ sie' = [sie EXCEPT ![c] = @ \/ (noff[c] = 1 /\ intena[c])]
  /\ SpinGoto(c, "run")
  /\ UNCHANGED <<locked, lkcpu, intena, mode, held, want>>

\* The hardware takes an interrupt between two instructions of the thread;
\* kerneltrap() runs with interrupts off and returns to where it cut in.
Interrupt(c) ==
  /\ sie[c] /\ mode[c] = "thread"
  /\ mode' = [mode EXCEPT ![c] = "intr"]
  /\ sie' = [sie EXCEPT ![c] = FALSE]
  /\ UNCHANGED <<locked, lkcpu, noff, intena, held, spc, want, spinpanic>>

IntrReturn(c) ==
  /\ mode[c] = "intr" /\ SpinAt(c, "run") /\ held[c]["intr"] = {}
  /\ mode' = [mode EXCEPT ![c] = "thread"]
  /\ sie' = [sie EXCEPT ![c] = TRUE]
  /\ UNCHANGED <<locked, lkcpu, noff, intena, held, spc, want, spinpanic>>

SpinNext ==
  \E c \in Harts :
    \/ \E l \in Locks : AcquireStart(c, l) \/ ClearCpu(c, l)
    \/ Exchange(c) \/ SetCpu(c) \/ Unlock(c) \/ pop_off(c)
    \/ Interrupt(c) \/ IntrReturn(c)

SpinSpec == SpinInit /\ [][SpinNext]_spinVars

---------------------------------------------------------------------------
(* Properties *)

\* A critical section belongs to one CPU, and there to the thread or to the
\* handler (the exchange of acquire()).
SpinExclusion ==
  \A c, d \in Harts : \A m, n \in Modes :
    <<c, m>> # <<d, n>> => held[c][m] \cap held[d][n] = {}

\* An interrupt never cuts in on a critical section, so a handler cannot spin
\* on a lock of the thread under it: interrupts stay off from the outermost
\* acquire() to its release(), however the locks nest (push_off, pop_off).
IntrOffInSection ==
  \A c \in Harts : /\ held[c]["thread"] # {} => ~sie[c] /\ mode[c] = "thread"
                   /\ mode[c] = "thread" /\ ~sie[c] => noff[c] > 0

\* No panic of spinlock.c is reached: holding() is true of a lock exactly on
\* the CPU that is in its section, though locked and cpu are two stores.
SpinNoPanic == ~spinpanic
===========================================================================
