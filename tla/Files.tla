------------------------------ MODULE Files -------------------------------
(***************************************************************************)
(* The open file table: xv6/kernel/file.c (filealloc, filedup, fileclose), *)
(* the descriptors of sysfile.c (dup, close, open, pipe), the pipe pages   *)
(* of pipe.c (pipealloc, pipeclose) and what kfork() and kexit() do with   *)
(* descriptors.  Every section under ftable.lock is one step.              *)
(***************************************************************************)
EXTENDS Naturals, Sequences, FiniteSets, FiniteSetsExt

CONSTANTS FProcs,   \* processes
          NFILE, NOFILE,
          NPages,   \* pages kalloc can give to pipes
          MaxFileCalls

VARIABLES
  fref, file,     \* ftable: ref, and [type, writable, page] of each entry
  page,           \* pages: NoPipe, or [readopen, writeopen]
  iref,           \* references to the inode that opened files share
  ofile,          \* p->ofile[fd], 0 when closed
  fpc,            \* where each process is
  loc,            \* files a call holds: f0 and f1 of pipealloc, f of open
  closing,        \* files the call still has to fileclose(), in order
  ff,             \* fileclose's copy of the entry it freed
  forkto,         \* the child a fork fills, and how far
  calls           \* what MaxFileCalls bounds

filesVars == <<fref, file, page, iref, ofile, fpc, loc, closing, ff, forkto, calls>>

Slots == 1..NFILE
FDs == 0..NOFILE - 1
Pages == 1..NPages
NoPipe == [readopen |-> FALSE, writeopen |-> FALSE]
NoFile == [type |-> "none", writable |-> FALSE, page |-> 0]

FilesInit ==
  /\ fref = [f \in Slots |-> 0]
  /\ file = [f \in Slots |-> NoFile]
  /\ page = [g \in Pages |-> NoPipe]
  /\ iref = 0
  /\ ofile = [p \in FProcs |-> [d \in FDs |-> 0]]
  /\ fpc = [q \in FProcs |-> IF q = CHOOSE p \in FProcs : TRUE THEN "user" ELSE "unused"]
  /\ loc = [p \in FProcs |-> <<>>]
  /\ closing = [p \in FProcs |-> <<>>]
  /\ ff = [p \in FProcs |-> NoFile]
  /\ forkto = [p \in FProcs |-> <<>>]
  /\ calls = 0

FGoto(p, l) == fpc' = [fpc EXCEPT ![p] = l]

FreeSlots == {f \in Slots : fref[f] = 0}
FreeFDs(p) == {d \in FDs : ofile[p][d] = 0}

\* filealloc(): the first entry with ref == 0.
Filealloc(f) == FreeSlots # {} /\ f = Min(FreeSlots) /\ fref' = [fref EXCEPT ![f] = 1]

\* One more reference to an entry.
filedup(f) == [fref EXCEPT ![f] = @ + 1]

FileCall == calls < MaxFileCalls /\ calls' = calls + 1

---------------------------------------------------------------------------
(* dup, close, open *)

\* argfd, fdalloc, then filedup.
sys_dup(p) ==
  /\ fpc[p] = "user" /\ FileCall /\ FreeFDs(p) # {}
  /\ \E d \in FDs \ FreeFDs(p) :
       /\ ofile' = [ofile EXCEPT ![p][Min(FreeFDs(p))] = ofile[p][d]]
       /\ fref' = filedup(ofile[p][d])
  /\ UNCHANGED <<file, page, iref, fpc, loc, closing, ff, forkto>>

\* The descriptor is cleared, then fileclose().
sys_close(p) ==
  /\ fpc[p] = "user" /\ FileCall
  /\ \E d \in FDs \ FreeFDs(p) :
       /\ ofile' = [ofile EXCEPT ![p][d] = 0]
       /\ closing' = [closing EXCEPT ![p] = <<ofile[p][d]>>]
  /\ FGoto(p, "close")
  /\ UNCHANGED <<fref, file, page, iref, loc, ff, forkto>>

\* sys_open holds a reference to the inode, then filealloc().
OpenAlloc(p) ==
  /\ fpc[p] = "user" /\ FileCall
  /\ \/ FreeSlots = {} /\ UNCHANGED <<fref, iref, loc, fpc>>
     \/ \E f \in Slots : /\ Filealloc(f) /\ iref' = iref + 1
                         /\ loc' = [loc EXCEPT ![p] = <<f>>] /\ FGoto(p, "open")
  /\ UNCHANGED <<file, page, ofile, closing, ff, forkto>>

\* fdalloc(); when it fails, fileclose(f) comes first, then iput(ip).
OpenInstall(p) ==
  /\ fpc[p] = "open"
  /\ LET f == loc[p][1] IN
       IF FreeFDs(p) = {}
       THEN /\ closing' = [closing EXCEPT ![p] = <<f>>]
            /\ FGoto(p, "openbad") /\ UNCHANGED <<ofile, file>>
       ELSE /\ ofile' = [ofile EXCEPT ![p][Min(FreeFDs(p))] = f]
            /\ file' = [file EXCEPT ![f] = [type |-> "inode", writable |-> TRUE, page |-> 0]]
            /\ FGoto(p, "user") /\ UNCHANGED closing
  /\ loc' = [loc EXCEPT ![p] = <<>>]
  /\ UNCHANGED <<fref, page, iref, ff, forkto, calls>>

OpenPut(p) ==
  /\ fpc[p] = "openbad" /\ closing[p] = <<>> /\ ff[p] = NoFile
  /\ iref' = iref - 1 /\ FGoto(p, "user")
  /\ UNCHANGED <<fref, file, page, ofile, loc, closing, ff, forkto, calls>>

---------------------------------------------------------------------------
(* pipe: pipealloc() and sys_pipe() *)

\* One filealloc() of two; when one fails, goto bad.
PipeFile(p) ==
  /\ \/ fpc[p] = "user" /\ FileCall
     \/ fpc[p] = "pipe1" /\ UNCHANGED calls
  /\ \/ /\ FreeSlots = {}
        /\ closing' = [closing EXCEPT ![p] = loc[p]] /\ loc' = [loc EXCEPT ![p] = <<>>]
        /\ FGoto(p, "close") /\ UNCHANGED fref
     \/ \E f \in Slots : /\ Filealloc(f) /\ loc' = [loc EXCEPT ![p] = Append(@, f)]
                         /\ FGoto(p, IF fpc[p] = "user" THEN "pipe1" ELSE "pipe2")
                         /\ UNCHANGED closing
  /\ UNCHANGED <<file, page, iref, ofile, ff, forkto>>

\* kalloc(), and the two ends.
PipePage(p) ==
  /\ fpc[p] = "pipe2"
  /\ \/ /\ \A g \in Pages : page[g] # NoPipe
        /\ closing' = [closing EXCEPT ![p] = loc[p]] /\ loc' = [loc EXCEPT ![p] = <<>>]
        /\ FGoto(p, "close") /\ UNCHANGED <<page, file>>
     \/ \E g \in Pages :
          /\ page[g] = NoPipe
          /\ page' = [page EXCEPT ![g] = [readopen |-> TRUE, writeopen |-> TRUE]]
          /\ file' = [file EXCEPT
               ![loc[p][1]] = [type |-> "pipe", writable |-> FALSE, page |-> g],
               ![loc[p][2]] = [type |-> "pipe", writable |-> TRUE, page |-> g]]
          /\ FGoto(p, "pipe3") /\ UNCHANGED <<closing, loc>>
  /\ UNCHANGED <<fref, iref, ofile, ff, forkto, calls>>

\* The descriptor of the read end stays when there is none for the write end.
PipeInstallKeep(p) ==
  /\ fpc[p] = "pipe3"
  /\ LET free == FreeFDs(p) IN
       \/ /\ Cardinality(free) >= 2
          /\ ofile' = [ofile EXCEPT ![p][Min(free)] = loc[p][1],
                                    ![p][Min(free \ {Min(free)})] = loc[p][2]]
          /\ FGoto(p, "user") /\ UNCHANGED closing
       \/ /\ ofile' = IF Cardinality(free) = 1 THEN [ofile EXCEPT ![p][Min(free)] = loc[p][1]]
                                               ELSE ofile
          /\ closing' = [closing EXCEPT ![p] = loc[p]] /\ FGoto(p, "close")
  /\ loc' = [loc EXCEPT ![p] = <<>>]
  /\ UNCHANGED <<fref, file, page, iref, ff, forkto, calls>>

\* Two fdalloc() and two copyout(); any failure clears the descriptors again
\* and closes both files.
PipeInstall(p) ==
  /\ fpc[p] = "pipe3"
  /\ LET free == FreeFDs(p) IN
       \/ /\ Cardinality(free) >= 2
          /\ ofile' = [ofile EXCEPT ![p][Min(free)] = loc[p][1],
                                    ![p][Min(free \ {Min(free)})] = loc[p][2]]
          /\ FGoto(p, "user") /\ UNCHANGED closing
       \/ closing' = [closing EXCEPT ![p] = loc[p]] /\ FGoto(p, "close") /\ UNCHANGED ofile
  /\ loc' = [loc EXCEPT ![p] = <<>>]
  /\ UNCHANGED <<fref, file, page, iref, ff, forkto, calls>>

---------------------------------------------------------------------------
(* fileclose() *)

\* Under ftable.lock: ref--, and at 0 a copy of the entry is kept.
DropRef(p) ==
  /\ fpc[p] \in {"close", "openbad", "exit"} /\ ff[p] = NoFile /\ closing[p] # <<>>
  /\ LET f == Head(closing[p]) IN
       /\ fref' = [fref EXCEPT ![f] = @ - 1]
       /\ ff' = IF fref[f] = 1 THEN [ff EXCEPT ![p] = file[f]] ELSE ff
       /\ file' = IF fref[f] = 1 THEN [file EXCEPT ![f] = NoFile] ELSE file
  /\ closing' = [closing EXCEPT ![p] = Tail(@)]
  /\ UNCHANGED <<page, iref, ofile, fpc, loc, forkto, calls>>

\* After the lock: pipeclose(), which frees the page at the last end, or iput.
CloseObject(p) ==
  /\ ff[p] # NoFile
  /\ IF ff[p].type = "pipe"
     THEN /\ page' = IF ff[p].writable THEN [page EXCEPT ![ff[p].page].writeopen = FALSE]
                                       ELSE [page EXCEPT ![ff[p].page].readopen = FALSE]
          /\ UNCHANGED iref
     ELSE iref' = iref - 1 /\ UNCHANGED page
  /\ ff' = [ff EXCEPT ![p] = NoFile]
  /\ UNCHANGED <<fref, file, ofile, fpc, loc, closing, forkto, calls>>

CloseDone(p) ==
  /\ fpc[p] = "close" /\ closing[p] = <<>> /\ ff[p] = NoFile
  /\ FGoto(p, "user")
  /\ UNCHANGED <<fref, file, page, iref, ofile, loc, closing, ff, forkto, calls>>

---------------------------------------------------------------------------
(* kfork() and kexit() *)

ForkStart(p) ==
  /\ fpc[p] = "user" /\ FileCall
  /\ \E q \in FProcs : /\ fpc[q] = "unused"
                       /\ forkto' = [forkto EXCEPT ![p] = <<q, 0>>]
                       /\ fpc' = [fpc EXCEPT ![p] = "fork", ![q] = "used"]
  /\ UNCHANGED <<fref, file, page, iref, ofile, loc, closing, ff>>

\* np->ofile[i] = filedup(p->ofile[i]), one i at a time.
ForkDup(p) ==
  /\ fpc[p] = "fork" /\ forkto[p][2] < NOFILE
  /\ LET q == forkto[p][1]
         d == forkto[p][2]
         f == ofile[p][d] IN
       /\ ofile' = [ofile EXCEPT ![q][d] = f]
       /\ fref' = IF f = 0 THEN fref ELSE filedup(f)
  /\ forkto' = [forkto EXCEPT ![p][2] = @ + 1]
  /\ UNCHANGED <<file, page, iref, fpc, loc, closing, ff, calls>>

FileForkDone(p) ==
  /\ fpc[p] = "fork" /\ forkto[p][2] = NOFILE
  /\ fpc' = [fpc EXCEPT ![p] = "user", ![forkto[p][1]] = "user"]
  /\ forkto' = [forkto EXCEPT ![p] = <<>>]
  /\ UNCHANGED <<fref, file, page, iref, ofile, loc, closing, ff, calls>>

ExitStart(p) ==
  /\ fpc[p] = "user" /\ FGoto(p, "exit")
  /\ UNCHANGED <<fref, file, page, iref, ofile, loc, closing, ff, forkto, calls>>

\* The next open descriptor.  The code clears ofile[fd] after fileclose(f);
\* nobody but p reads it, and p does not in between, so it counts as cleared.
ExitFile(p) ==
  /\ fpc[p] = "exit" /\ closing[p] = <<>> /\ ff[p] = NoFile
  /\ LET open == FDs \ FreeFDs(p) IN
       IF open = {} THEN FGoto(p, "unused") /\ UNCHANGED <<closing, ofile>>
       ELSE /\ closing' = [closing EXCEPT ![p] = <<ofile[p][Min(open)]>>]
            /\ ofile' = [ofile EXCEPT ![p][Min(open)] = 0] /\ UNCHANGED fpc
  /\ UNCHANGED <<fref, file, page, iref, loc, ff, forkto, calls>>

---------------------------------------------------------------------------
FilesNext == \E p \in FProcs :
  \/ sys_dup(p) \/ sys_close(p) \/ OpenAlloc(p) \/ OpenInstall(p) \/ OpenPut(p)
  \/ PipeFile(p) \/ PipePage(p) \/ PipeInstall(p)
  \/ DropRef(p) \/ CloseObject(p) \/ CloseDone(p)
  \/ ForkStart(p) \/ ForkDup(p) \/ FileForkDone(p) \/ ExitStart(p) \/ ExitFile(p)

FilesSpec == FilesInit /\ [][FilesNext]_filesVars

---------------------------------------------------------------------------
(* Properties *)

Ends(g, w) == [type |-> "pipe", writable |-> w, page |-> g]

\* Every count is the number of those it counts, through failed pipes and
\* opens, forks and exits.  ref of an entry is the number of descriptors and of
\* calls in progress that hold it: none is freed under a user, none is lost.  An
\* end of a pipe is open exactly while one entry, or one fileclose() past its lock, stands for
\* it, so that pipeclose() runs once for it.  The inode has a reference for
\* every entry on it and for every call about to give one up.
RefsExact ==
  /\ \A f \in Slots :
       fref[f] = Cardinality({pd \in FProcs \X FDs : ofile[pd[1]][pd[2]] = f})
               + Cardinality({pi \in FProcs \X (1..2) :
                    pi[2] \in DOMAIN loc[pi[1]] /\ loc[pi[1]][pi[2]] = f})
               + Cardinality({pi \in FProcs \X (1..2) :
                    pi[2] \in DOMAIN closing[pi[1]] /\ closing[pi[1]][pi[2]] = f})
  /\ \A g \in Pages, w \in BOOLEAN :
       (IF w THEN page[g].writeopen ELSE page[g].readopen) <=>
         1 = Cardinality({f \in Slots : fref[f] > 0 /\ file[f] = Ends(g, w)})
             + Cardinality({p \in FProcs : ff[p] = Ends(g, w)})
  /\ iref = Cardinality({f \in Slots : file[f].type = "inode"})
            + Cardinality({p \in FProcs : ff[p].type = "inode" \/ fpc[p] \in {"open", "openbad"}})
===========================================================================
