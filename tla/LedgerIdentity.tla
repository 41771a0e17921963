--------------------------- MODULE LedgerIdentity ---------------------------
(***************************************************************************)
(* The files behind the send ledger, and why a ledger that came back with a *)
(* worse memory is refused: the SQLite database, the .identity anchor that   *)
(* names its inode and UUID, and the .dispatch lock file the anchor names    *)
(* too.  SecureSendDatabase.transaction opens, checks, adopts and commits,    *)
(* one step per file it touches; processes are killed between any two, and   *)
(* an operator removes or restores files while they run.                      *)
(*                                                                         *)
(* What a transaction is for (SendLedger.tla) is one choice here: it records  *)
(* a new attempt, records an outcome, or reads.  A send is permitted when the *)
(* transaction that recorded it returns.                                      *)
(***************************************************************************)
EXTENDS Naturals, FiniteSets

CONSTANTS
  Proc,       \* processes, each with a store of its own
  Attempt,    \* draft revisions somebody wants sent
  Authorised, \* processes opened with legacy_workers_stopped
  MaxInode,   \* bound on files ever created
  MaxUuid,    \* bound on ledger UUIDs in use at a time
  MaxCrashes, \* bound on processes killed
  MaxHands,   \* bound on what the operator does
  None

VARIABLES
  db,       \* the file at the ledger's path
  anchor,   \* the .identity file
  disp,     \* the inode of the .dispatch file
  guard,    \* who holds the lock on the .guard file
  proc,
  backup,   \* what the operator copied from the database
  inodes, crashes, hands,
  allowed   \* how often each attempt was permitted (history)

files == <<db, anchor, disp>>
operator == <<backup, crashes, hands>>
vars == <<db, anchor, disp, guard, proc, backup, inodes, crashes, hands, allowed>>

InodeNo == 1 .. MaxInode
Uuid == 1 .. MaxUuid

\* ver 0 is a file without tables.  2 stands for the schemas without identity.
Database == [ino: InodeNo, ver: {0, 2, 3, 4}, uuid: Uuid \cup {None},
             open: SUBSET Attempt, done: SUBSET Attempt]
Rows(d) == d.open \cup d.done

\* fmt 0 is an anchor whose content was not written yet.
Anchor == [fmt: 0 .. 2, ino: InodeNo \cup {None}, uuid: Uuid \cup {None}, disp: InodeNo \cup {None}]

\* What the model takes for granted of its constants.
Setting ==
  /\ Authorised \subseteq Proc
  /\ MaxInode \in Nat \ {0} /\ {MaxUuid, MaxCrashes, MaxHands} \subseteq Nat
  /\ None \notin Proc /\ None \notin Attempt /\ None \notin InodeNo
  /\ None \notin Database /\ None \notin Anchor

Blank == [fmt |-> 0, ino |-> None, uuid |-> None, disp |-> None]
OldAnchor(d) == [fmt |-> 1, ino |-> d.ino, uuid |-> d.uuid, disp |-> None]
NewAnchor(d) == [fmt |-> 2, ino |-> d.ino, uuid |-> d.uuid, disp |-> disp]

\* known: _identity, kept for the life of the store.  work: the open
\* connection's view, its inode included.  from: the schema it found.
PC == {"idle", "open", "validate", "dispatch", "anchor", "fill", "body", "commit", "after"}
Process == [pc: PC, known: InodeNo \cup {None}, work: Database \cup {None},
            from: {0, 2, 3, 4}, want: Attempt \cup {None}]
Fresh == [pc |-> "idle", known |-> None, work |-> None, from |-> 0, want |-> None]

TypeOK ==
  /\ db \in Database \cup {None}
  /\ anchor \in Anchor \cup {None}
  /\ disp \in InodeNo \cup {None}
  /\ guard \in Proc \cup {None}
  /\ proc \in [Proc -> Process]
  /\ \A p \in Proc : guard = p <=> proc[p].pc # "idle"
  /\ backup \in Database \cup {None}
  /\ inodes \in 0 .. MaxInode
  /\ crashes \in 0 .. MaxCrashes /\ hands \in 0 .. MaxHands
  /\ allowed \in [Attempt -> Nat]

\* No ledger yet, or one an older version left with any outcomes in it.
Init ==
  /\ db \in {None} \cup
       {d \in Database : d.ino = 1 /\ d.ver \in {2, 3} /\ d.open \cap d.done = {}
                           /\ d.uuid = IF d.ver = 3 THEN 1 ELSE None}
  /\ anchor = IF db # None /\ db.ver = 3 THEN OldAnchor(db) ELSE None
  /\ disp = None
  /\ guard = None
  /\ proc = [p \in Proc |-> Fresh]
  /\ backup = None
  /\ inodes = 1
  /\ crashes = 0 /\ hands = 0
  /\ allowed = [a \in Attempt |-> IF db # None /\ a \in Rows(db) THEN 1 ELSE 0]

-----------------------------------------------------------------------------
(* One transaction.  Definitions named Bug... are slips a maintainer could    *)
(* make in the definition that follows them.                                  *)

At(p, pc) == guard = p /\ proc[p].pc = pc
Step(p, changes) == proc' = [proc EXCEPT ![p] = changes] /\ UNCHANGED guard

Leave(p) ==
  /\ proc' = [proc EXCEPT ![p] = [Fresh EXCEPT !.known = proc[p].known]]
  /\ guard' = None

\* Every exception: rollback, close, release the guard.
Fail(p) == Leave(p) /\ UNCHANGED <<files, operator, inodes, allowed>>

TakeGuard(p) ==
  /\ guard = None
  /\ guard' = p
  /\ proc' = [proc EXCEPT ![p].pc = "open"]
  /\ UNCHANGED <<files, operator, inodes, allowed>>

\* create=not anchor_exists and self._identity is None
MayCreate(p) == anchor = None /\ proc[p].known = None

OpenDatabase(p) ==
  /\ At(p, "open")
  /\ \/ /\ db = None /\ MayCreate(p) /\ inodes < MaxInode
        /\ inodes' = inodes + 1
        /\ db' = [ino |-> inodes + 1, ver |-> 0, uuid |-> None, open |-> {}, done |-> {}]
        /\ Step(p, [proc[p] EXCEPT !.pc = "validate", !.known = db'.ino, !.work = db'])
        /\ UNCHANGED <<anchor, disp, operator, allowed>>
     \/ /\ db # None /\ proc[p].known \in {None, db.ino}
        /\ Step(p, [proc[p] EXCEPT !.pc = "validate", !.known = db.ino, !.work = db])
        /\ UNCHANGED <<files, operator, inodes, allowed>>
     \/ /\ IF db = None THEN ~MayCreate(p) ELSE proc[p].known \notin {None, db.ino}
        /\ Fail(p)

\* A ledger of the current schema is taken for what it says it is.
BugAccepted(p, d) ==
  CASE d.ver = 0 -> anchor = None
    [] d.ver = 2 -> d.open = {} \/ p \in Authorised
    [] d.ver = 3 -> anchor = OldAnchor(d) /\ (d.open = {} \/ p \in Authorised)
    [] d.ver = 4 -> anchor # None

\* _validate_and_migrate: what is refused before anything is changed.
Accepted(p, d) ==
  CASE d.ver = 0 -> anchor = None
    [] d.ver = 2 -> d.open = {} \/ p \in Authorised
    [] d.ver = 3 -> anchor = OldAnchor(d) /\ (d.open = {} \/ p \in Authorised)
    [] d.ver = 4 -> disp # None /\ anchor = NewAnchor(d)

\* The migration starts the table anew.
BugAdopted(d, uuid) == [d EXCEPT !.ver = 4, !.uuid = uuid, !.open = {}]

\* Rows are kept whatever schema they come from.
Adopted(d, uuid) == [d EXCEPT !.ver = 4, !.uuid = uuid]

\* uuid4: one that is nowhere yet.
Unused ==
  {u \in Uuid :
     \A x \in {db, anchor, backup} \cup {proc[p].work : p \in Proc} : x # None => x.uuid # u}

Validate(p) ==
  /\ At(p, "validate")
  /\ LET d == proc[p].work IN
     \/ ~Accepted(p, d) /\ Fail(p)
     \/ /\ Accepted(p, d)
        /\ \/ /\ d.ver = 4
              /\ Step(p, [proc[p] EXCEPT !.pc = "body", !.from = 4])
           \/ /\ d.ver = 3
              /\ Step(p, [proc[p] EXCEPT !.pc = "dispatch", !.from = 3, !.work = Adopted(d, d.uuid)])
           \/ /\ d.ver \in {0, 2} /\ Unused # {}
              /\ LET uuid == CHOOSE u \in Unused : TRUE IN
                 Step(p, [proc[p] EXCEPT !.pc = "dispatch", !.from = d.ver,
                                         !.work = Adopted(d, uuid)])
        /\ UNCHANGED <<files, operator, inodes, allowed>>

\* open_private(self.dispatch_path, create=True)
MakeDispatchFile(p) ==
  /\ At(p, "dispatch")
  /\ \/ disp # None /\ UNCHANGED <<disp, inodes>>
     \/ disp = None /\ inodes < MaxInode /\ inodes' = inodes + 1 /\ disp' = inodes + 1
  /\ Step(p, [proc[p] EXCEPT !.pc = "anchor"])
  /\ UNCHANGED <<db, anchor, operator, allowed>>

\* The anchor is opened without O_EXCL.
BugCreateAnchor(p) ==
  /\ At(p, "anchor") /\ proc[p].from # 3
  /\ anchor' = Blank
  /\ Step(p, [proc[p] EXCEPT !.pc = "fill"])
  /\ UNCHANGED <<db, disp, operator, inodes, allowed>>

\* O_EXCL: an anchor that is there already stops the adoption.
CreateAnchor(p) ==
  /\ At(p, "anchor") /\ proc[p].from # 3
  /\ \/ anchor # None /\ Fail(p)
     \/ /\ anchor = None
        /\ anchor' = Blank
        /\ Step(p, [proc[p] EXCEPT !.pc = "fill"])
        /\ UNCHANGED <<db, disp, operator, inodes, allowed>>

FillAnchor(p) ==
  /\ At(p, "fill")
  /\ \/ disp = None /\ Fail(p)
     \/ /\ disp # None
        /\ anchor' = NewAnchor(proc[p].work)
        /\ Step(p, [proc[p] EXCEPT !.pc = "body"])
        /\ UNCHANGED <<db, disp, operator, inodes, allowed>>

\* Only a checked schema-3 anchor is replaced, by a rename.
ReplaceAnchor(p) ==
  /\ At(p, "anchor") /\ proc[p].from = 3
  /\ \/ (disp = None \/ anchor # OldAnchor(proc[p].work)) /\ Fail(p)
     \/ /\ disp # None /\ anchor = OldAnchor(proc[p].work)
        /\ anchor' = NewAnchor(proc[p].work)
        /\ Step(p, [proc[p] EXCEPT !.pc = "body"])
        /\ UNCHANGED <<db, disp, operator, inodes, allowed>>

\* The caller's statements.
Body(p) ==
  /\ At(p, "body")
  /\ LET d == proc[p].work
         go(work, want) == Step(p, [proc[p] EXCEPT !.pc = "commit", !.work = work, !.want = want]) IN
     \/ go(d, None)
     \/ \E a \in Attempt \ Rows(d) : go([d EXCEPT !.open = @ \cup {a}], a)
     \/ \E a \in d.open : go([d EXCEPT !.open = @ \ {a}, !.done = @ \cup {a}], None)
  /\ UNCHANGED <<files, operator, inodes, allowed>>

\* self.verify_path() on both sides of the commit.
PathStands(p) == db # None /\ db.ino = proc[p].known

\* The commit reaches the file that was opened, which may have lost its name.
Commit(p) ==
  /\ At(p, "commit")
  /\ \/ ~PathStands(p) /\ Fail(p)
     \/ /\ PathStands(p)
        /\ db' = proc[p].work
        /\ Step(p, [proc[p] EXCEPT !.pc = "after"])
        /\ UNCHANGED <<anchor, disp, operator, inodes, allowed>>

AfterCommit(p) ==
  /\ At(p, "after")
  /\ \/ ~PathStands(p) /\ Fail(p)
     \/ /\ PathStands(p)
        /\ allowed' = [a \in Attempt |-> allowed[a] + IF a = proc[p].want THEN 1 ELSE 0]
        /\ Leave(p)
        /\ UNCHANGED <<files, operator, inodes>>

-----------------------------------------------------------------------------
(* What happens around it *)

\* The kernel drops the lock, SQLite rolls back; the files stay as they are.
Crash(p) ==
  /\ crashes < MaxCrashes
  /\ crashes' = crashes + 1
  /\ proc' = [proc EXCEPT ![p] = Fresh]
  /\ guard' = IF guard = p THEN None ELSE guard
  /\ UNCHANGED <<files, backup, hands, inodes, allowed>>

\* "Back up the entire profile data directory privately while it is quiescent."
Backup ==
  /\ guard = None /\ db # None /\ backup = None
  /\ backup' = db
  /\ UNCHANGED <<files, guard, proc, inodes, crashes, hands, allowed>>

\* An installation that has run has an anchor, and it is left alone.
Hand ==
  /\ anchor # None
  /\ hands < MaxHands
  /\ hands' = hands + 1
  /\ UNCHANGED <<anchor, guard, proc, backup, crashes, allowed>>

Remove == Hand /\ db # None /\ db' = None /\ UNCHANGED <<disp, inodes>>
RemoveDispatchFile == Hand /\ disp # None /\ disp' = None /\ UNCHANGED <<db, inodes>>

\* A copy moved to the path is another inode.
Restore ==
  /\ Hand
  /\ backup # None /\ inodes < MaxInode
  /\ inodes' = inodes + 1
  /\ db' = [backup EXCEPT !.ino = inodes + 1]
  /\ UNCHANGED disp

Operator == Backup \/ Remove \/ RemoveDispatchFile \/ Restore

Transact(p) ==
  \/ TakeGuard(p) \/ OpenDatabase(p) \/ Validate(p) \/ MakeDispatchFile(p)
  \/ CreateAnchor(p) \/ FillAnchor(p) \/ ReplaceAnchor(p)
  \/ Body(p) \/ Commit(p) \/ AfterCommit(p)

Next == Operator \/ \E p \in Proc : Transact(p) \/ Crash(p)

Spec == Init /\ [][Next]_vars

-----------------------------------------------------------------------------
(* Properties *)

\* No attempt is permitted twice, through adoption of any older schema, kills
\* between any two file operations, and removal or replacement of the files: a
\* ledger whose memory is shorter than what was permitted is never accepted.
NeverPermittedAgain == \A a \in Attempt : allowed[a] <= 1

\* Transactions only add rows and outcomes, migrations included: what a file
\* held, it holds after any step that is not the operator's.
EvidenceKept ==
  [][db # None /\ hands' = hands =>
       /\ db' # None /\ db'.ino = db.ino
       /\ Rows(db) \subseteq Rows(db') /\ db.done \subseteq db'.done]_vars

\* An anchor that is there is never made over: only the transaction that created
\* it writes it, and an upgrade keeps its inode and UUID.  So an initialisation or
\* adoption killed after the anchor was made stays refused, and so does an older
\* schema restored beside the anchor of a newer one.
AnchorStands ==
  [][anchor # None =>
       /\ anchor' # None
       /\ \/ anchor'.ino = anchor.ino /\ anchor'.uuid = anchor.uuid
          \/ anchor = Blank /\ \E p \in Proc : At(p, "fill")]_vars

\* What holds of every state of the files and of the guard.
IdentityInv == TypeOK /\ NeverPermittedAgain
=============================================================================
