----------------------------- MODULE FileLease ------------------------------
(***************************************************************************)
(* FileLease (send_files.py): the dispatch lock as the kernel sees it.  A    *)
(* lock belongs to an open file description, which a fork shares between      *)
(* parent and child until one of them closes its copy, and to the inode that  *)
(* was opened, which may have lost its name since.  The at-fork hooks, the    *)
(* process-wide handles lock and the checks of inode and process around the   *)
(* lock must make an exclusive lease (module ExclusiveLease) out of that, but   *)
(* for one race with the operator's hands that begin's checks leave open.      *)
(*                                                                         *)
(* Each process has one store, whose thread takes the lease; another thread   *)
(* of it may fork at any moment, and any process may be killed.  An operator  *)
(* removes the lock file, puts another in its place or the old one back.      *)
(***************************************************************************)
EXTENDS Naturals, FiniteSets

CONSTANTS
  Proc,     \* processes, those to be forked included
  First,    \* the ones that run at the start
  Inode,    \* files that are or may be moved to the lock's path
  Bound,    \* the one the ledger's anchor names
  Descr,    \* open file descriptions
  MaxHands, \* bound on what the operator does
  None

\* What the theorems assume of them.
Setting ==
  /\ First \subseteq Proc /\ Bound \in Inode /\ MaxHands \in Nat
  /\ None \notin Proc \cup Inode \cup Descr

VARIABLES
  path,   \* the inode at the lock's path
  flock,  \* kernel: the description that locks each inode
  descr,  \* kernel: what each description opened, and who has a copy
  proc,
  hands,
  moved   \* history: the processes past begin's anchor check when path changed

vars == <<path, flock, descr, proc, hands, moved>>

Description == [ino: Inode \cup {None}, by: Proc \cup {None}, of: SUBSET Proc]
Unused == [ino |-> None, by |-> None, of |-> {}]

\* fd and pid: the fields of the FileLease.  listed: it is in _HANDLES.  hook: the
\* child has not run _after_fork yet, which precedes anything else it does.
PC == {"idle", "lock", "check", "held", "anchored", "inside"}
Process == [life: {"unborn", "running", "dead"}, hook: BOOLEAN, pc: PC,
            fd: Descr \cup {None}, listed: BOOLEAN, pid: Proc \cup {None}]
Unborn == [life |-> "unborn", hook |-> FALSE, pc |-> "idle", fd |-> None,
           listed |-> FALSE, pid |-> None]
Running == [Unborn EXCEPT !.life = "running"]

TypeOK ==
  /\ path \in Inode \cup {None}
  /\ flock \in [Inode -> Descr \cup {None}]
  /\ descr \in [Descr -> Description]
  /\ proc \in [Proc -> Process]
  /\ hands \in 0 .. MaxHands
  /\ moved \subseteq Proc

Init ==
  /\ path = Bound
  /\ flock = [i \in Inode |-> None]
  /\ descr = [d \in Descr |-> Unused]
  /\ proc = [p \in Proc |-> IF p \in First THEN Running ELSE Unborn]
  /\ hands = 0
  /\ moved = {}

-----------------------------------------------------------------------------
(* The kernel.  Definitions named Bug... are slips a maintainer could make in *)
(* the definition that follows them.                                         *)

\* The descriptions when gone, a process, closes its copies of those in ds; one
\* nobody has any more is freed.
Left(ds, gone) ==
  [d \in Descr |->
     IF d \notin ds THEN descr[d]
     ELSE IF descr[d].of \subseteq {gone} THEN Unused
     ELSE [descr[d] EXCEPT !.of = @ \ {gone}]]

\* fcntl.flock(fd, LOCK_UN) before the close: the parent's lock goes too.
BugUnlocked(ds, gone) ==
  [i \in Inode |-> IF flock[i] \in ds THEN None ELSE flock[i]]

\* With a description goes its lock, and not before.
Unlocked(ds, gone) ==
  [i \in Inode |->
     IF flock[i] \in ds /\ descr[flock[i]].of \subseteq {gone} THEN None ELSE flock[i]]

Close(ds, p) ==
  /\ descr' = Left(ds, p)
  /\ flock' = Unlocked(ds, p)

-----------------------------------------------------------------------------
(* The process that takes the lease *)

At(p, pc) == proc[p].life = "running" /\ ~proc[p].hook /\ proc[p].pc = pc
Fd(p) == {proc[p].fd} \ {None}
Ino(p) == descr[proc[p].fd].ino
Step(p, changes) == proc' = [proc EXCEPT ![p] = changes]

\* close: the descriptor, and the entry in _HANDLES.
GiveUp(p) ==
  /\ Close(Fd(p), p)
  /\ Step(p, [proc[p] EXCEPT !.pc = "idle", !.fd = None, !.listed = FALSE])
  /\ moved' = moved \ {p}
  /\ UNCHANGED <<path, hands>>

\* acquire takes _HANDLES_LOCK here and keeps it up to Check.  open_private with
\* create=False: without a file nothing happens.
Open(p) ==
  /\ At(p, "idle") /\ proc[p].fd = None
  /\ path # None
  /\ \E d \in Descr :
       /\ descr[d] = Unused
       /\ descr' = [descr EXCEPT ![d] = [ino |-> path, by |-> p, of |-> {p}]]
       /\ Step(p, [proc[p] EXCEPT !.pc = "lock", !.fd = d])
  /\ UNCHANGED <<path, flock, hands, moved>>

\* flock(LOCK_EX | LOCK_NB)
Lock(p) ==
  /\ At(p, "lock")
  /\ \/ flock[Ino(p)] # None /\ GiveUp(p)
     \/ /\ flock[Ino(p)] = None
        /\ flock' = [flock EXCEPT ![Ino(p)] = proc[p].fd]
        /\ Step(p, [proc[p] EXCEPT !.pc = "check"])
        /\ UNCHANGED <<path, descr, hands, moved>>

\* verify_descriptor, then the handle is listed.
Check(p) ==
  /\ At(p, "check")
  /\ \/ path # Ino(p) /\ GiveUp(p)
     \/ /\ path = Ino(p)
        /\ Step(p, [proc[p] EXCEPT !.pc = "held", !.listed = TRUE, !.pid = p])
        /\ UNCHANGED <<path, flock, descr, hands, moved>>

\* begin's transaction compares the file at the lock's path with the one the anchor
\* names: _check_anchor, which does not look at the lease.
Anchor(p) ==
  /\ At(p, "held")
  /\ \/ path # Bound /\ GiveUp(p)
     \/ /\ path = Bound
        /\ Step(p, [proc[p] EXCEPT !.pc = "anchored"])
        /\ UNCHANGED <<path, flock, descr, hands, moved>>

\* The path is trusted once the lock was taken.
BugVerified(p) == proc[p].fd # None /\ proc[p].pid = p

\* FileLease.verify: the path still names the file that is locked, in the process
\* that locked it.
Verified(p) ==
  /\ proc[p].fd # None /\ proc[p].pid = p
  /\ path = Ino(p)

\* begin verifies the lease before its commit.  That it does so before the row is
\* written too takes nothing away: what fails there is Leave.  The write lock of
\* the transaction, which keeps a second process from being between Anchor and
\* Enter, is left out.
Enter(p) ==
  /\ At(p, "anchored")
  /\ \/ ~Verified(p) /\ GiveUp(p)
     \/ /\ Verified(p)
        /\ Step(p, [proc[p] EXCEPT !.pc = "inside"])
        /\ UNCHANGED <<path, flock, descr, hands, moved>>

\* The end of the dispatch, or a failure before it.
Leave(p) == (At(p, "inside") \/ At(p, "held") \/ At(p, "anchored")) /\ GiveUp(p)

-----------------------------------------------------------------------------
(* Forks and deaths *)

Copies(p) == {d \in Descr : p \in descr[d].of}

Child(p) == [proc[p] EXCEPT !.hook = TRUE, !.pc = IF @ \in {"held", "anchored"} THEN @ ELSE "idle"]

\* The hooks do not take the handles lock.
BugFork(p, c) ==
  /\ proc[p].life = "running" /\ ~proc[p].hook
  /\ proc[c].life = "unborn"
  /\ descr' = [d \in Descr |-> IF d \in Copies(p) THEN [descr[d] EXCEPT !.of = @ \cup {c}]
                                                  ELSE descr[d]]
  /\ proc' = [proc EXCEPT ![c] = [Child(p) EXCEPT !.fd = IF proc[p].listed THEN @ ELSE None]]
  /\ UNCHANGED <<path, flock, hands, moved>>

\* _before_fork waits for _HANDLES_LOCK.  The child has a copy of every
\* descriptor and of the FileLease; the thread that forked goes on in it, and the
\* one that was inside does not.
Fork(p, c) ==
  /\ proc[p].life = "running" /\ ~proc[p].hook
  /\ proc[p].pc \notin {"lock", "check"}
  /\ proc[c].life = "unborn"
  /\ descr' = [d \in Descr |-> IF d \in Copies(p) THEN [descr[d] EXCEPT !.of = @ \cup {c}]
                                                  ELSE descr[d]]
  /\ proc' = [proc EXCEPT ![c] = Child(p)]
  /\ UNCHANGED <<path, flock, hands, moved>>

\* _after_fork in the child: close_inherited on every handle listed.
AfterFork(c) ==
  /\ proc[c].life = "running" /\ proc[c].hook
  /\ IF proc[c].listed
     THEN Close(Fd(c), c) /\ Step(c, [proc[c] EXCEPT !.hook = FALSE, !.fd = None, !.listed = FALSE])
     ELSE Step(c, [proc[c] EXCEPT !.hook = FALSE]) /\ UNCHANGED <<flock, descr>>
  /\ moved' = moved \ {c}
  /\ UNCHANGED <<path, hands>>

Die(p) ==
  /\ proc[p].life = "running"
  /\ Close(Copies(p), p)
  /\ Step(p, [Unborn EXCEPT !.life = "dead"])
  /\ moved' = moved \ {p}
  /\ UNCHANGED <<path, hands>>

Move ==
  /\ hands < MaxHands
  /\ hands' = hands + 1
  /\ path' \in (Inode \cup {None}) \ {path}
  /\ moved' = moved \cup {p \in Proc : proc[p].pc = "anchored"}
  /\ UNCHANGED <<flock, descr, proc>>

Next ==
  \/ \E p \in Proc : Open(p) \/ Lock(p) \/ Check(p) \/ Anchor(p) \/ Enter(p) \/ Leave(p)
  \/ \E p, c \in Proc : Fork(p, c)
  \/ \E p \in Proc : AfterFork(p) \/ Die(p)
  \/ Move

Spec == Init /\ [][Next]_vars

\* A fork returns in the child, whatever the parent does.
Fairness == \A p \in Proc : WF_vars(AfterFork(p))
LiveSpec == Spec /\ Fairness

-----------------------------------------------------------------------------
(* Properties *)

Inside == {p \in Proc : proc[p].pc = "inside"}

\* A descriptor of a lease that has passed flock is the lock of its inode, in the
\* process that took it: no child's close, no other process and no renamed file
\* takes it away.
HolderHasLock ==
  \A p \in Proc :
    proc[p].fd # None =>
      /\ p \in descr[proc[p].fd].of
      /\ proc[p].pc \in {"check", "held", "anchored", "inside"} => flock[Ino(p)] = proc[p].fd
      /\ proc[p].hook \/ descr[proc[p].fd].by = p

\* One process at most is past begin's checks, whatever was forked, killed or
\* moved since, and it is the process that opened the description which locks
\* the anchored file.  A process is excused if the lock file was moved between its
\* check of the anchor and its check of the lease: begin compares the path with
\* each of the two files at a time of its own, never these with each other, so
\* it may then work under the lock of another file.
OneInside ==
  \A p \in Inside \ moved : flock[Bound] # None /\ flock[Bound] = proc[p].fd
                            /\ descr[flock[Bound]].by = p

FileLeaseInv == TypeOK /\ HolderHasLock /\ OneInside

\* The lock of the anchored file is an exclusive lease, with the same excuse.
Lease == INSTANCE ExclusiveLease WITH
  owner <- IF flock[Bound] = None THEN None ELSE descr[flock[Bound]].by,
  working <- Inside \ moved
LeaseSpec == Lease!Spec

\* The lock of a process that died is free again, though it died while children
\* had copies of its descriptors.
FreedAfterDeath ==
  \A p \in Proc :
    proc[p].life = "dead" ~> \A i \in Inode : flock[i] # None => descr[flock[i]].by # p
=============================================================================
