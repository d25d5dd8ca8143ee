------------------------------ MODULE Inode -------------------------------
(***************************************************************************)
(* Inodes, directories and names: the inode table of xv6/kernel/fs.c       *)
(* (iget, ilock, iput, ialloc, ireclaim), dirlookup, dirlink and namex,    *)
(* and the calls of sysfile.c that change the tree (link, unlink, open,    *)
(* mkdir, chdir).  A step reaches from one lock to the next.  Each call is *)
(* an operation of the log: what it changed reaches the disk when no       *)
(* operation is outstanding, and a crash goes back to that.                *)
(***************************************************************************)
EXTENDS Naturals, Sequences, FiniteSets, FiniteSetsExt

CONSTANTS IProcs,
          Inside,       \* the processes that start in the directory "a"
          NInodes,      \* inodes on the disk; 1 is the root directory
          Names,        \* of directory entries, besides ".."
          NLINK_MAX,
          OldPaths, NewPaths,   \* paths looked up, and paths made or removed
          MaxCalls, MaxCrashes

VARIABLES
  fsys, logged,  \* inodes as the buffer cache has them, and as committed
  tab,           \* itable
  pr,            \* the call each process is in
  cwd, fil,      \* p->cwd, and the table entry of p's open file (0: none)
  booted,        \* inodes ireclaim() has looked at
  icalls, crashes, ipanic

inodeVars == <<fsys, logged, tab, pr, cwd, fil, booted, icalls, crashes, ipanic>>

Inum == 1..NInodes
ROOT == 1
PathElems == Names \cup {".."}
NoP == "nop"
Idle == [pc |-> "idle", op |-> "none", path |-> <<>>, ip |-> 0, dp |-> 0,
         nm |-> "..", keep |-> 0, put |-> 0, then |-> "idle"]
NoEnts == [e \in PathElems |-> 0]

\* mkfs's root, and a directory "a" in it.
IEmpty == [type |-> [i \in Inum |-> IF i < 3 THEN "dir" ELSE "free"],
           nlink |-> [i \in Inum |-> IF i = 1 THEN 2 ELSE IF i = 2 THEN 1 ELSE 0],
           ents |-> [i \in Inum |-> IF i = 1 THEN [NoEnts EXCEPT !["a"] = 2, ![".."] = 1]
                                    ELSE IF i = 2 THEN [NoEnts EXCEPT ![".."] = 1] ELSE NoEnts]]

Entry(i, r) == [inum |-> i, ref |-> r, valid |-> FALSE, type |-> "free", nlink |-> 0, lock |-> NoP]

InodeInit ==
  /\ fsys = IEmpty /\ logged = IEmpty
  /\ cwd = [p \in IProcs |-> IF p \in Inside THEN 2 ELSE 1]
  /\ tab = [s \in Inum |-> IF s < 3 THEN Entry(s, Cardinality({p \in IProcs : cwd[p] = s}))
                                    ELSE Entry(0, 0)]
  /\ fil = [p \in IProcs |-> 0]
  /\ pr = [p \in IProcs |-> Idle]
  /\ booted = NInodes /\ icalls = 0 /\ crashes = 0 /\ ipanic = FALSE

---------------------------------------------------------------------------
(* Directories: the inode number under a name, 0 if there is none; a new entry *)

dirlookup(i, nm) == fsys.ents[i][nm]
dirlink(f, i, nm, j) == [f EXCEPT !.ents[i][nm] = j]

---------------------------------------------------------------------------
(* The inode table *)

InTable(t, i) == {s \in Inum : t[s].ref > 0 /\ t[s].inum = i}

\* iget(): the entry of i, or the first empty one.
IgetAt(t, i) == IF InTable(t, i) # {} THEN Min(InTable(t, i)) ELSE Min({s \in Inum : t[s].ref = 0})

iget(t, i) ==
  IF InTable(t, i) # {} THEN [t EXCEPT ![IgetAt(t, i)].ref = @ + 1]
  ELSE [t EXCEPT ![IgetAt(t, i)].inum = i, ![IgetAt(t, i)].ref = 1, ![IgetAt(t, i)].valid = FALSE]

\* ilock() reads the inode unless the entry is valid.
Loaded(t, s) ==
  IF t[s].valid THEN t
  ELSE [t EXCEPT ![s].valid = TRUE, ![s].type = fsys.type[t[s].inum],
                 ![s].nlink = fsys.nlink[t[s].inum]]

CanLock(p, s) == tab[s].lock = NoP
LockPanics(s) == tab[s].ref < 1 \/ Loaded(tab, s)[s].type = "free"

\* ip->nlink changes and iupdate(ip) writes it.
SetNlink(t, s, n) == [t EXCEPT ![s].nlink = n]

IGoto(p, l) == pr' = [pr EXCEPT ![p].pc = l]

\* iput(s), then go on at l.
Put(p, s, l) == pr' = [pr EXCEPT ![p].pc = "iput", ![p].put = s, ![p].then = l]

\* The last reference to an unlinked inode: its entry is locked, which must
\* not wait, and stays referenced while its blocks go.
iput(p) ==
  LET s == pr[p].put
      last == tab[s].ref = 1 /\ tab[s].valid /\ tab[s].nlink = 0 IN
    /\ pr[p].pc = "iput"
    /\ IF last THEN /\ tab' = [tab EXCEPT ![s].lock = p] /\ IGoto(p, "itrunc")
                    /\ ipanic' = (ipanic \/ tab[s].lock # NoP)
       ELSE /\ tab' = [tab EXCEPT ![s].ref = @ - 1] /\ IGoto(p, pr[p].then)
            /\ ipanic' = (ipanic \/ tab[s].ref < 1)
    /\ UNCHANGED <<fsys, logged, cwd, fil, booted, icalls, crashes>>

IputTrunc(p) ==
  LET s == pr[p].put IN
    /\ pr[p].pc = "itrunc"
    /\ fsys' = [fsys EXCEPT !.ents[tab[s].inum] = NoEnts]
    /\ tab' = [tab EXCEPT ![s].valid = FALSE, ![s].lock = NoP]
    /\ IGoto(p, "unref")
    /\ UNCHANGED <<logged, cwd, fil, booted, icalls, crashes, ipanic>>

\* ref-- under itable.lock; the inode is still allocated on disk.
IputUnref(p) ==
  LET s == pr[p].put IN
    /\ pr[p].pc = "unref"
    /\ tab' = [tab EXCEPT ![s].ref = @ - 1]
    /\ pr' = [pr EXCEPT ![p].pc = "ifree", ![p].put = tab[s].inum]
    /\ UNCHANGED <<fsys, logged, cwd, fil, booted, icalls, crashes, ipanic>>

ifree(p) ==
  /\ pr[p].pc = "ifree"
  /\ fsys' = [fsys EXCEPT !.type[pr[p].put] = "free"]
  /\ IGoto(p, pr[p].then)
  /\ UNCHANGED <<logged, tab, cwd, fil, booted, icalls, crashes, ipanic>>

---------------------------------------------------------------------------
(* InodeCalls: begin_op, namex, end_op *)

\* A path is a sequence of elements, "/" first when it is absolute.
Absolute(path) == Head(path) = "/"
StartAt(p, path) == IF Absolute(path) THEN ROOT ELSE tab[cwd[p]].inum
Elements(path) == IF Absolute(path) THEN Tail(path) ELSE path

\* begin_op() and the start of namex(): iget(ROOTINO) or idup(cwd).
Begin(p, op, path) ==
  /\ pr[p].pc = "idle" /\ booted = NInodes /\ icalls < MaxCalls
  /\ icalls' = icalls + 1
  /\ tab' = iget(tab, StartAt(p, path))
  /\ pr' = [pr EXCEPT ![p] = [Idle EXCEPT !.pc = "walk", !.op = op, !.path = Elements(path),
                                          !.ip = IgetAt(tab, StartAt(p, path))]]
  /\ UNCHANGED <<fsys, logged, cwd, fil, booted, crashes, ipanic>>

InodeCalls(p) ==
  \/ \E op \in {"chdir", "link"}, path \in OldPaths : Begin(p, op, path)
  \/ \E path \in OldPaths : fil[p] = 0 /\ Begin(p, "open", path)
  \/ \E path \in NewPaths : fil[p] = 0 /\ Begin(p, "creat", path)
  \/ \E op \in {"mkdir", "unlink"}, path \in NewPaths : Begin(p, op, path)

sys_close_inode(p) ==
  /\ pr[p].pc = "idle" /\ fil[p] # 0 /\ booted = NInodes
  /\ fil' = [fil EXCEPT ![p] = 0]
  /\ pr' = [pr EXCEPT ![p] = [Idle EXCEPT !.pc = "iput", !.op = "close", !.put = fil[p],
                                          !.then = "end"]]
  /\ UNCHANGED <<fsys, logged, tab, cwd, booted, icalls, crashes, ipanic>>

\* end_op(): the last operation commits for all.
end_op(p) ==
  /\ pr[p].pc = "end"
  /\ pr' = [pr EXCEPT ![p] = Idle]
  /\ logged' = IF \A q \in IProcs \ {p} : pr[q].pc = "idle" THEN fsys ELSE logged
  /\ UNCHANGED <<fsys, tab, cwd, fil, booted, icalls, crashes, ipanic>>

Parental(op) == op \in {"creat", "mkdir", "unlink", "linkto"}

\* Where a failed lookup goes on.
Failed(p) == IF pr[p].op = "linkto" THEN "unlinked" ELSE "end"

\* One element of namex(): ilock, the checks, dirlookup, iunlock and iput.
namex(p) ==
  LET s == pr[p].ip
      t == Loaded(tab, s)
      next == dirlookup(t[s].inum, Head(pr[p].path)) IN
    /\ pr[p].pc = "walk" /\ CanLock(p, s)
    /\ ipanic' = (ipanic \/ LockPanics(s))
    /\ IF t[s].type # "dir" \/ t[s].nlink = 0 THEN Put(p, s, Failed(p)) /\ tab' = t
       ELSE IF Parental(pr[p].op) /\ Len(pr[p].path) = 1
       THEN /\ pr' = [pr EXCEPT ![p].pc = pr[p].op, ![p].dp = s, ![p].nm = Head(pr[p].path)]
            /\ tab' = t
       ELSE IF next = 0 THEN Put(p, s, Failed(p)) /\ tab' = t
       ELSE /\ tab' = iget(t, next)
            /\ pr' = [pr EXCEPT ![p].pc = "iput", ![p].put = s, ![p].path = Tail(@),
                 ![p].ip = IgetAt(t, next),
                 ![p].then = IF Len(pr[p].path) = 1 THEN pr[p].op ELSE "walk"]
    /\ UNCHANGED <<fsys, logged, cwd, fil, booted, icalls, crashes>>

---------------------------------------------------------------------------
(* open, chdir and link, after the lookup *)

\* The end of sys_open: filealloc or fdalloc may fail.
OpenFile(p, s) ==
  \/ Put(p, s, "end") /\ UNCHANGED fil
  \/ fil' = [fil EXCEPT ![p] = s] /\ IGoto(p, "end")

\* sys_open without O_CREATE: ilock; a directory only for reading.
sys_open(p) ==
  LET s == pr[p].ip
      t == Loaded(tab, s) IN
    /\ pr[p].pc = "open" /\ CanLock(p, s)
    /\ ipanic' = (ipanic \/ LockPanics(s))
    /\ tab' = t
    /\ OpenFile(p, s)
    /\ UNCHANGED <<fsys, logged, cwd, booted, icalls, crashes>>

\* sys_chdir: iput(p->cwd) inside the transaction, p->cwd = ip after it.
sys_chdir(p) ==
  LET s == pr[p].ip
      t == Loaded(tab, s) IN
    /\ pr[p].pc = "chdir" /\ CanLock(p, s)
    /\ ipanic' = (ipanic \/ LockPanics(s))
    /\ tab' = t
    /\ IF t[s].type # "dir" THEN Put(p, s, "end") /\ UNCHANGED cwd
                             ELSE Put(p, cwd[p], "end") /\ cwd' = [cwd EXCEPT ![p] = s]
    /\ UNCHANGED <<fsys, logged, fil, booted, icalls, crashes>>

\* sys_link, first part: ip->nlink++, then the lookup of the new parent.
sys_link(p) ==
  LET s == pr[p].ip
      t == Loaded(tab, s)
      n == t[s].nlink + 1 IN
    /\ pr[p].pc = "link" /\ CanLock(p, s)
    /\ IF t[s].type = "dir" \/ t[s].nlink >= NLINK_MAX
       THEN Put(p, s, "end") /\ tab' = t /\ UNCHANGED fsys
       ELSE \E path \in NewPaths :
              LET u == SetNlink(t, s, n) IN
                /\ fsys' = [fsys EXCEPT !.nlink[t[s].inum] = n]
                /\ tab' = iget(u, StartAt(p, path))
                /\ pr' = [pr EXCEPT ![p].pc = "walk", ![p].op = "linkto", ![p].path = Elements(path),
                                    ![p].keep = s, ![p].ip = IgetAt(u, StartAt(p, path))]
    /\ ipanic' = (ipanic \/ LockPanics(s))
    /\ UNCHANGED <<logged, cwd, fil, booted, icalls, crashes>>

\* Second part: not into a directory that is gone; dirlink() fails on a name
\* that exists (whose iput cannot be the last: it has a link) or a full disk.
LinkInto(p) ==
  LET s == pr[p].dp
      t == Loaded(tab, s)
      i == t[s].inum IN
    /\ pr[p].pc = "linkto" /\ CanLock(p, s)
    /\ tab' = t
    /\ \/ Put(p, s, "unlinked") /\ UNCHANGED fsys
       \/ /\ t[s].nlink > 0 /\ dirlookup(i, pr[p].nm) = 0
          /\ fsys' = dirlink(fsys, i, pr[p].nm, tab[pr[p].keep].inum)
          /\ Put(p, s, "linked")
    /\ ipanic' = (ipanic \/ LockPanics(s))
    /\ UNCHANGED <<logged, cwd, fil, booted, icalls, crashes>>

LinkDone(p) ==
  /\ pr[p].pc = "linked" /\ Put(p, pr[p].keep, "end")
  /\ UNCHANGED <<fsys, logged, tab, cwd, fil, booted, icalls, crashes, ipanic>>

\* bad: ip->nlink--.
LinkBad(p) ==
  LET s == pr[p].keep
      t == Loaded(tab, s)
      n == t[s].nlink - 1 IN
    /\ pr[p].pc = "unlinked" /\ CanLock(p, s)
    /\ tab' = SetNlink(t, s, n)
    /\ fsys' = [fsys EXCEPT !.nlink[t[s].inum] = n]
    /\ Put(p, s, "end")
    /\ ipanic' = (ipanic \/ LockPanics(s))
    /\ UNCHANGED <<logged, cwd, fil, booted, icalls, crashes>>

---------------------------------------------------------------------------
(* unlink *)

\* ilock(dp), which stays locked; dirlookup; ".." is refused.
sys_unlink(p) ==
  LET s == pr[p].dp
      t == Loaded(tab, s)
      i == dirlookup(t[s].inum, pr[p].nm) IN
    /\ pr[p].pc = "unlink" /\ CanLock(p, s)
    /\ ipanic' = (ipanic \/ LockPanics(s))
    /\ IF pr[p].nm = ".." \/ i = 0 THEN Put(p, s, "end") /\ tab' = t
       ELSE LET u == [t EXCEPT ![s].lock = p] IN
              /\ tab' = iget(u, i)
              /\ pr' = [pr EXCEPT ![p].pc = "victim", ![p].ip = IgetAt(u, i)]
    /\ UNCHANGED <<fsys, logged, cwd, fil, booted, icalls, crashes>>

IsDirEmpty(i) == \A n \in Names : dirlookup(i, n) = 0

\* ilock(ip): a directory that is not empty stays.  Otherwise the entry goes,
\* dp loses the link of "..", and dp is put while ip stays locked.
UnlinkVictim(p) ==
  LET s == pr[p].ip
      d == pr[p].dp
      t == Loaded(tab, s)
      i == t[s].inum
      e == tab[d].inum
      isdir == t[s].type = "dir"
      n == IF isdir THEN t[d].nlink - 1 ELSE t[d].nlink IN
    /\ pr[p].pc = "victim" /\ CanLock(p, s)
    /\ ipanic' = (ipanic \/ LockPanics(s) \/ t[s].nlink < 1)
    /\ IF isdir /\ ~IsDirEmpty(i)
       THEN Put(p, s, "unlinkbad") /\ tab' = t /\ UNCHANGED fsys
       ELSE /\ fsys' = [fsys EXCEPT !.ents[e][pr[p].nm] = 0, !.nlink[e] = n]
            /\ tab' = SetNlink([t EXCEPT ![s].lock = p, ![d].lock = NoP], d, n)
            /\ Put(p, d, "unlink2")
    /\ UNCHANGED <<logged, cwd, fil, booted, icalls, crashes>>

UnlinkBad(p) ==
  /\ pr[p].pc = "unlinkbad"
  /\ tab' = [tab EXCEPT ![pr[p].dp].lock = NoP] /\ Put(p, pr[p].dp, "end")
  /\ UNCHANGED <<fsys, logged, cwd, fil, booted, icalls, crashes, ipanic>>

\* ip->nlink--, iupdate, iunlockput(ip).
UnlinkDrop(p) ==
  LET s == pr[p].ip
      n == tab[s].nlink - 1 IN
    /\ pr[p].pc = "unlink2"
    /\ tab' = SetNlink([tab EXCEPT ![s].lock = NoP], s, n)
    /\ fsys' = [fsys EXCEPT !.nlink[tab[s].inum] = n]
    /\ Put(p, s, "end")
    /\ UNCHANGED <<logged, cwd, fil, booted, icalls, crashes, ipanic>>

---------------------------------------------------------------------------
(* create, for open(O_CREATE) and mkdir *)

\* ialloc(): the inode is marked allocated, and has no link yet.
ialloc(j, type) == [fsys EXCEPT !.type[j] = type, !.nlink[j] = 0, !.ents[j] = NoEnts]

\* A directory that is gone is not refused.
CreateGone(p) ==
  LET s == pr[p].dp
      t == Loaded(tab, s)
      i == dirlookup(t[s].inum, pr[p].nm)
      free == {j \in Inum : fsys.type[j] = "free"} IN
    /\ pr[p].pc \in {"creat", "mkdir"} /\ CanLock(p, s)
    /\ ipanic' = (ipanic \/ LockPanics(s))
    /\ IF i # 0
       THEN /\ tab' = iget(t, i)
            /\ pr' = [pr EXCEPT ![p].pc = "iput", ![p].put = s, ![p].then = "exists",
                                ![p].ip = IgetAt(t, i)]
            /\ UNCHANGED fsys
       ELSE IF free = {} THEN Put(p, s, "end") /\ tab' = t /\ UNCHANGED fsys
       ELSE LET j == Min(free)
                u == [t EXCEPT ![s].lock = p] IN
              /\ fsys' = ialloc(j, IF pr[p].pc = "mkdir" THEN "dir" ELSE "file")
              /\ tab' = iget(u, j)
              /\ pr' = [pr EXCEPT ![p].pc = "fresh", ![p].ip = IgetAt(u, j)]
    /\ UNCHANGED <<logged, cwd, fil, booted, icalls, crashes>>

\* ilock(dp) and the checks; an existing entry, or ialloc() with dp locked.
create(p) ==
  LET s == pr[p].dp
      t == Loaded(tab, s)
      i == dirlookup(t[s].inum, pr[p].nm)
      free == {j \in Inum : fsys.type[j] = "free"} IN
    /\ pr[p].pc \in {"creat", "mkdir"} /\ CanLock(p, s)
    /\ ipanic' = (ipanic \/ LockPanics(s))
    /\ IF t[s].nlink = 0 \/ (pr[p].pc = "mkdir" /\ t[s].nlink >= NLINK_MAX)
       THEN Put(p, s, "end") /\ tab' = t /\ UNCHANGED fsys
       ELSE IF i # 0
       THEN /\ tab' = iget(t, i)
            /\ pr' = [pr EXCEPT ![p].pc = "iput", ![p].put = s, ![p].then = "exists",
                                ![p].ip = IgetAt(t, i)]
            /\ UNCHANGED fsys
       ELSE IF free = {} THEN Put(p, s, "end") /\ tab' = t /\ UNCHANGED fsys
       ELSE LET j == Min(free)
                u == [t EXCEPT ![s].lock = p] IN
              /\ fsys' = ialloc(j, IF pr[p].pc = "mkdir" THEN "dir" ELSE "file")
              /\ tab' = iget(u, j)
              /\ pr' = [pr EXCEPT ![p].pc = "fresh", ![p].ip = IgetAt(u, j)]
    /\ UNCHANGED <<logged, cwd, fil, booted, icalls, crashes>>

\* open(O_CREATE) of a file that is there opens it; else create() fails.
CreateExists(p) ==
  LET s == pr[p].ip
      t == Loaded(tab, s) IN
    /\ pr[p].pc = "exists" /\ CanLock(p, s)
    /\ ipanic' = (ipanic \/ LockPanics(s))
    /\ tab' = t
    /\ IF pr[p].op = "creat" /\ t[s].type = "file"
       THEN OpenFile(p, s) ELSE Put(p, s, "end") /\ UNCHANGED fil
    /\ UNCHANGED <<fsys, logged, cwd, booted, icalls, crashes>>

\* The new inode, under both locks: nlink = 1, ".." for a directory, the entry
\* in dp and dp's link; or fail: nlink = 0 and both are put, ip first.
CreateFresh(p) ==
  LET s == pr[p].ip
      d == pr[p].dp
      t == Loaded(tab, s)
      i == t[s].inum
      e == t[d].inum
      isdir == pr[p].op = "mkdir"
      n == IF isdir THEN t[d].nlink + 1 ELSE t[d].nlink IN
    /\ pr[p].pc = "fresh" /\ CanLock(p, s)
    /\ ipanic' = (ipanic \/ LockPanics(s))
    /\ \/ /\ LET f == [fsys EXCEPT !.nlink = [@ EXCEPT ![i] = 1, ![e] = n]] IN
               fsys' = dirlink(IF isdir THEN dirlink(f, i, "..", e) ELSE f, e, pr[p].nm, i)
          /\ tab' = [t EXCEPT ![s].nlink = 1, ![d].nlink = n, ![d].lock = NoP]
          /\ Put(p, d, "created")
       \/ /\ tab' = [t EXCEPT ![s].nlink = 0]
          /\ Put(p, s, "unlinkbad") /\ UNCHANGED fsys
    /\ UNCHANGED <<logged, cwd, fil, booted, icalls, crashes>>

\* open() keeps the reference, mkdir() puts it.
CreateDone(p) ==
  /\ pr[p].pc = "created"
  /\ IF pr[p].op = "creat" THEN OpenFile(p, pr[p].ip)
                           ELSE Put(p, pr[p].ip, "end") /\ UNCHANGED fil
  /\ UNCHANGED <<fsys, logged, tab, cwd, booted, icalls, crashes, ipanic>>

---------------------------------------------------------------------------
(* FsCrash and ireclaim() *)

FsCrash ==
  /\ crashes < MaxCrashes /\ crashes' = crashes + 1
  /\ fsys' = logged
  /\ tab' = [s \in Inum |-> IF s = 1 THEN Entry(ROOT, Cardinality(IProcs)) ELSE Entry(0, 0)]
  /\ pr' = [p \in IProcs |-> Idle]
  /\ cwd' = [p \in IProcs |-> 1] /\ fil' = [p \in IProcs |-> 0]
  /\ booted' = 0
  /\ UNCHANGED <<logged, icalls, ipanic>>

\* Orphans are left.
ireclaimNot ==
  /\ booted < NInodes /\ booted' = booted + 1
  /\ UNCHANGED <<fsys, logged, tab, pr, cwd, fil, icalls, crashes, ipanic>>

\* One inode of ireclaim(), before any process runs: an orphan is locked,
\* unlocked and put, which frees it, in an operation of its own.
ireclaim ==
  LET i == booted + 1 IN
    /\ booted < NInodes /\ booted' = i
    /\ fsys' = IF fsys.type[i] # "free" /\ fsys.nlink[i] = 0
               THEN [fsys EXCEPT !.type[i] = "free", !.ents[i] = NoEnts] ELSE fsys
    /\ logged' = fsys'
    /\ UNCHANGED <<tab, pr, cwd, fil, icalls, crashes, ipanic>>

---------------------------------------------------------------------------
CallStep(p) ==
  \/ iput(p) \/ IputTrunc(p) \/ IputUnref(p) \/ ifree(p) \/ end_op(p) \/ namex(p)
  \/ sys_open(p) \/ sys_chdir(p) \/ sys_link(p) \/ LinkInto(p) \/ LinkDone(p) \/ LinkBad(p)
  \/ sys_unlink(p) \/ UnlinkVictim(p) \/ UnlinkBad(p) \/ UnlinkDrop(p)
  \/ create(p) \/ CreateExists(p) \/ CreateFresh(p) \/ CreateDone(p)

\* A panic stops the machine.
InodeNext ==
  /\ ~ipanic
  /\ \/ \E p \in IProcs : InodeCalls(p) \/ sys_close_inode(p) \/ CallStep(p)
     \/ FsCrash \/ ireclaim

InodeSpec == InodeInit /\ [][InodeNext]_inodeVars

---------------------------------------------------------------------------
(* Properties *)

EntriesFor(f, i) ==
  {jn \in Inum \X Names : f.type[jn[1]] = "dir" /\ f.ents[jn[1]][jn[2]] = i}
Subdirs(f, i) ==
  {j \in Inum \ {i} : f.type[j] = "dir" /\ f.nlink[j] > 0 /\ f.ents[j][".."] = i}

\* What a crash can leave is a sound tree: the link count of an inode is the
\* number of its entries plus that of its subdirectories, a free inode has no
\* entry, and no directory is entered twice (link, unlink, create).
TreeSound ==
  \A i \in Inum :
    LET names == EntriesFor(logged, i) IN
      /\ logged.type[i] = "free" => names = {}
      /\ logged.type[i] # "free" => logged.nlink[i] =
           Cardinality(names) + Cardinality(Subdirs(logged, i)) + IF i = ROOT THEN 1 ELSE 0
      /\ logged.type[i] = "dir" => Cardinality(names) <= 1

AllIdle == booted = NInodes /\ \A p \in IProcs : pr[p].pc = "idle"

\* Between calls the table counts every current directory and open file, and
\* an inode without a name is one of them: none is lost, and after a crash
\* ireclaim() has left none (iput, ireclaim).
NoOrphanLost ==
  AllIdle =>
    /\ \A s \in Inum : tab[s].ref = Cardinality({p \in IProcs : cwd[p] = s})
                                    + Cardinality({p \in IProcs : fil[p] = s})
    /\ \A i \in Inum : logged.type[i] # "free" /\ logged.nlink[i] = 0 => InTable(tab, i) # {}

===========================================================================
