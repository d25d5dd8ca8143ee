----------------------------- MODULE MCKernel -----------------------------
(***************************************************************************)
(* One instance of the scheduler on two CPUs, the spinlocks, open files,   *)
(* the blocks of files and the directory tree.  A behavior runs one of     *)
(* them: what each needs of the others is in its own module (a lock is     *)
(* taken in one step, an operation of the log is atomic, a file or block   *)
(* may be wanting).                                                        *)
(***************************************************************************)
EXTENDS MCMlfq, SpinLock, Files, FileBlocks, Inode

\* Two open files on two inodes.
TwoFiles == <<1, 2>>

RelativeOrUp == {<<"b">>, <<"..", "b">>}
AbsoluteOrRelative == {<<"/", "a">>, <<"b">>}

Parts == {"mlfq", "spin", "files", "blocks", "tree"}

VARIABLE part

kernelVars == <<vars, spinVars, filesVars, fileVars, inodeVars, part>>

KernelInit ==
  /\ part \in Parts
  /\ Init /\ SpinInit /\ FilesInit /\ FileInit /\ InodeInit

\* The calls of the file system parts are bounded: they may come to rest, but
\* not by a panic; the scheduler and the spinlocks may not.
Rests == part \in {"files", "blocks", "tree"} /\ ~ipanic /\ UNCHANGED kernelVars

KernelNext ==
  /\ UNCHANGED part
  /\ \/ /\ part = "mlfq" /\ Next
        /\ UNCHANGED <<spinVars, filesVars, fileVars, inodeVars>>
     \/ /\ part = "spin" /\ SpinNext
        /\ UNCHANGED <<vars, filesVars, fileVars, inodeVars>>
     \/ /\ part = "files" /\ FilesNext
        /\ UNCHANGED <<vars, spinVars, fileVars, inodeVars>>
     \/ /\ part = "blocks" /\ FileNext
        /\ UNCHANGED <<vars, spinVars, filesVars, inodeVars>>
     \/ /\ part = "tree" /\ InodeNext
        /\ UNCHANGED <<vars, spinVars, filesVars, fileVars>>
     \/ Rests

KernelSpec == KernelInit /\ [][KernelNext]_kernelVars
===========================================================================
