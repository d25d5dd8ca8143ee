------------------------------ MODULE Lookup ------------------------------
(***************************************************************************)
(* Which file a command name stands for: resolve_command() of c-shell's    *)
(* redirect.c, which launches it, and the built-in locate (locate.c),      *)
(* which tells the user.  The two parse PATH each in its own way.  One     *)
(* name without a slash is looked up while directories, PATH and files     *)
(* change; a path is the directory the name is in.                         *)
(***************************************************************************)
EXTENDS Naturals, Sequences, SequencesExt

CONSTANTS Places,        \* directories with an absolute path
          SubOf,         \* the directory a relative PATH entry is, from each
          MaxPath

\* PATH entries: an absolute directory, "rel" or the empty string.
PathEntries == Places \cup {"rel", ""}

VARIABLES lcwd, path_env, runnable    \* runnable: where is_exec() holds

lookupVars == <<lcwd, path_env, runnable>>

LookupInit ==
  /\ lcwd = (CHOOSE d \in Places : TRUE) /\ path_env = <<>>
  /\ runnable = {}

\* The user changes directory, sets PATH, installs or removes the program.
ChangePlace == \E d \in Places : lcwd' = d /\ UNCHANGED <<path_env, runnable>>
SetPath == /\ Len(path_env) < MaxPath
           /\ \E e \in PathEntries : path_env' = Append(path_env, e)
           /\ UNCHANGED <<lcwd, runnable>>
Install == /\ \E d \in Places : runnable' = (runnable \ {d}) \cup ({d} \ runnable)
           /\ UNCHANGED <<lcwd, path_env>>

LookupNext == ChangePlace \/ SetPath \/ Install

LookupSpec == LookupInit /\ [][LookupNext]_lookupVars

---------------------------------------------------------------------------

\* The directory a non-empty entry names; execv() resolves it from the cwd.
EntryDir(e) == IF e = "rel" THEN SubOf[lcwd] ELSE e

\* strtok() skips empty entries.
PathDirs ==
  LET named == SelectSeq(path_env, LAMBDA e : e # "") IN
    [i \in 1..Len(named) |-> EntryDir(named[i])]

Runnable(dirs) == SelectSeq(dirs, LAMBDA d : d \in runnable)

\* The working directory is not tried first.
resolve_commandPathOnly(skip_cwd) ==
  LET found == Runnable(PathDirs) IN IF found = <<>> THEN <<>> ELSE <<Head(found)>>

\* resolve_command(): the first hit, or none; skip_cwd for %name.
resolve_command(skip_cwd) ==
  LET found == Runnable((IF skip_cwd THEN <<>> ELSE <<lcwd>>) \o PathDirs) IN
    IF found = <<>> THEN <<>> ELSE <<Head(found)>>

\* locate(): every hit; an empty entry, and an empty PATH, is the cwd.
locate ==
  LET entries == IF path_env = <<>> THEN <<"">> ELSE path_env IN
    Runnable(<<lcwd>> \o [i \in 1..Len(entries) |->
                            IF entries[i] = "" THEN lcwd ELSE EntryDir(entries[i])])

---------------------------------------------------------------------------
(* Properties *)

\* The first line locate prints is the file the shell would run, and locate
\* finds nothing exactly when the shell does not, although locate takes an
\* empty PATH entry for the working directory and strtok() skips it.
LocateShowsWhatRuns ==
  resolve_command(FALSE) = IF locate = <<>> THEN <<>> ELSE <<Head(locate)>>
===========================================================================
