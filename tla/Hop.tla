-------------------------------- MODULE Hop --------------------------------
(***************************************************************************)
(* The built-in hop of c-shell (hop.c), the visits it keeps in memory and  *)
(* in hop_history.txt, and restarts of the shell.  Other programs make and *)
(* remove directories meanwhile.  Directories are a set with a parent; a   *)
(* name is the directory it is the path of, if any, and the directories    *)
(* whose path contains it.  prev_dir.txt, which hop writes for reveal and  *)
(* never reads, is left out.                                               *)
(***************************************************************************)
EXTENDS Naturals, Sequences, FiniteSets, SequencesExt

CONSTANTS Dirs, Home, ParentDir,   \* Home: where the shell is started
          Tabbed,                  \* directories with a tab in their path
          Removable,               \* directories other programs remove and make
          HopNames,                \* [dir, within]: names given to hop
          MaxHops, MaxRestarts, MaxArgs, MaxClock

NoDir == "none"

VARIABLES
  exists,                \* directories that are there
  hcwd,                  \* the shell's working directory, NoDir when removed
  previous_dir, hopps,   \* in memory; hopps is a list of nodes
  is_initialized,
  histFile,              \* hop_history.txt in Home
  hargs,                 \* arguments of the hop that are left
  clock, hops, restarts,
  visits, saved          \* history: visits hop knows of, and those in the file

hopVars == <<exists, hcwd, previous_dir, hopps, is_initialized, histFile, hargs, clock, hops, restarts,
             visits, saved>>

ArgOf == {[kind |-> k, dir |-> NoDir, within |-> {}] : k \in {"~", ".", "..", "-"}}
         \cup {[kind |-> "name", dir |-> n.dir, within |-> n.within] : n \in HopNames}

Never == [d \in Dirs |-> 0]

HopInit ==
  /\ exists = Dirs
  /\ hcwd = Home
  /\ previous_dir = NoDir /\ hopps = <<>> /\ is_initialized = FALSE
  /\ histFile = <<>>
  /\ hargs = <<>> /\ clock = 0 /\ hops = 0 /\ restarts = 0
  /\ visits = Never /\ saved = Never

NodeOf(d) == {i \in 1..Len(hopps) : hopps[i].path = d}

\* record_visit(): one more on the node of the path, or a new first node.
record_visit(d) ==
  IF NodeOf(d) = {} THEN <<[path |-> d, freq |-> 1, last |-> clock]>> \o hopps
  ELSE LET i == CHOOSE i \in NodeOf(d) : TRUE IN
         [hopps EXCEPT ![i].freq = @ + 1, ![i].last = clock]

\* change_directory() that succeeds: previous directory, record, save_history(),
\* whose fopen() may fail and leave the file as it is.
change_directory(d) ==
  /\ hcwd' = d
  /\ previous_dir' = hcwd
  /\ hopps' = record_visit(d)
  /\ visits' = [visits EXCEPT ![d] = @ + 1]
  /\ \/ histFile' = hopps' /\ saved' = visits'
     \/ UNCHANGED <<histFile, saved>>

\* getcwd() fails in a directory that was removed, chdir() to one that is not
\* there.
CanChange(d) == hcwd # NoDir /\ d \in exists

Unmoved == UNCHANGED <<hcwd, previous_dir, hopps, histFile, visits, saved>>

\* find_best_match(): the first of the highest scores; frequency comes first,
\* the time of the last visit second (a visit counts as much as 10^9 seconds).
Better(a, b) == a.freq > b.freq \/ (a.freq = b.freq /\ a.last > b.last)

find_best_match(dirs) ==
  LET fits == {i \in 1..Len(hopps) : hopps[i].path \in dirs /\ hopps[i].path \in exists}
      best == {i \in fits : \A j \in fits : i # j =>
                 IF j < i THEN Better(hopps[i], hopps[j]) ELSE ~Better(hopps[j], hopps[i])} IN
    IF fits = {} THEN NoDir ELSE hopps[CHOOSE i \in best : TRUE].path

\* sscanf() does not match a line whose path has a tab.
Readable(node) == node.path \notin Tabbed

ToHop ==
  /\ hargs = <<>> /\ hops < MaxHops
  /\ hops' = hops + 1
  /\ \E n \in 1..MaxArgs : hargs' \in [1..n -> ArgOf]
  /\ is_initialized' = TRUE
  /\ UNCHANGED <<exists, hcwd, previous_dir, histFile, saved, clock, restarts>>

\* The history file is not read.
StartHopAfresh ==
  /\ ToHop
  /\ visits' = IF is_initialized THEN visits
               ELSE [d \in Dirs |-> IF d \in Tabbed THEN 0 ELSE saved[d]]
  /\ UNCHANGED hopps

\* hop(): its first call reads the history file; load_history() pushes each
\* node in front.
StartHop ==
  /\ ToHop
  /\ IF is_initialized THEN UNCHANGED <<hopps, visits>>
     ELSE /\ hopps' = Reverse(SelectSeq(histFile, Readable))
          /\ visits' = [d \in Dirs |-> IF d \in Tabbed THEN 0 ELSE saved[d]]

\* Where an argument leads; NoDir if nowhere.
TargetOf(a) ==
  CASE a.kind = "~" -> Home
    [] a.kind = ".." -> IF hcwd # NoDir THEN ParentDir[hcwd] ELSE NoDir
    [] a.kind = "-" -> previous_dir
    [] a.kind = "name" -> IF CanChange(a.dir) THEN a.dir ELSE find_best_match(a.within)

\* One argument: . and an unset - do nothing; a failure ends the hop where it is.
HopArgument ==
  /\ hargs # <<>>
  /\ LET a == Head(hargs)
         d == TargetOf(a)
         skip == a.kind = "." \/ (a.kind = "-" /\ previous_dir = NoDir) IN
       CASE skip -> Unmoved /\ hargs' = Tail(hargs)
         [] ~skip /\ CanChange(d) -> change_directory(d) /\ hargs' = Tail(hargs)
         [] ~skip /\ ~CanChange(d) -> Unmoved /\ hargs' = <<>>
  /\ UNCHANGED <<exists, is_initialized, clock, hops, restarts>>

\* A second passes.
Tick ==
  /\ clock < MaxClock /\ clock' = clock + 1
  /\ UNCHANGED <<exists, hcwd, previous_dir, hopps, is_initialized, histFile, hargs, hops, restarts,
                 visits, saved>>

\* Another program removes a directory, or makes one of that name again; a
\* shell that was in it stays in the removed one.
OtherProgram ==
  /\ \E d \in Removable :
       \/ d \in exists /\ exists' = exists \ {d} /\ hcwd' = IF hcwd = d THEN NoDir ELSE hcwd
       \/ d \notin exists /\ exists' = exists \cup {d} /\ UNCHANGED hcwd
  /\ UNCHANGED <<previous_dir, hopps, is_initialized, histFile, hargs, clock, hops, restarts, visits,
                 saved>>

\* The shell ends and is started again in Home.
Restart ==
  /\ hargs = <<>> /\ restarts < MaxRestarts
  /\ restarts' = restarts + 1
  /\ hcwd' = Home /\ previous_dir' = NoDir
  /\ hopps' = <<>> /\ is_initialized' = FALSE
  /\ visits' = Never
  /\ UNCHANGED <<exists, histFile, hargs, clock, hops, saved>>

HopNext == StartHop \/ HopArgument \/ Tick \/ OtherProgram \/ Restart

HopSpec == HopInit /\ [][HopNext]_hopVars

---------------------------------------------------------------------------
(* Properties *)

\* A name that is no directory itself takes hop to the one that was visited
\* most among those that match and still exist, counting the earlier sessions
\* up to the last save that succeeded; if there is none, the hop ends where it is.
HopsToMostVisited ==
  [][LET a == Head(hargs)
         known == {d \in a.within \cap exists : visits[d] > 0} IN
       hargs # <<>> /\ hargs' # hargs /\ hcwd # NoDir /\ a.kind = "name" /\ a.dir \notin exists =>
         IF known = {} THEN hcwd' = hcwd /\ hargs' = <<>>
         ELSE hcwd' \in known /\ \A d \in known : visits[d] <= visits[hcwd']]_hopVars
===========================================================================
