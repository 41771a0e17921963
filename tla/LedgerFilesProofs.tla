-------------------------- MODULE LedgerFilesProofs -------------------------
(***************************************************************************)
(* Proofs about the ledger's files.  With any number of processes, forks,      *)
(* deaths and moved files, the dispatch lock is an exclusive lease, but for a    *)
(* process whose two checks an operator's hand has come between.  With any       *)
(* number of processes, attempts, kills and files removed or restored, a ledger  *)
(* that has forgotten an attempt never permits it again.                        *)
(***************************************************************************)
EXTENDS LedgerFiles, TLAPS

(* The lease: the inductive invariant *)

\* A process has a descriptor only where its FileLease says, and from flock on
\* that descriptor locks its inode.  The fields of a child are its parent's until
\* its hook has run.
ProcOK(p) ==
  LET q == proc[p] IN
  /\ q.life # "running" => q.fd = None /\ q.pc = "idle" /\ ~q.hook
  /\ q.listed => q.fd # None
  /\ q.fd # None =>
       /\ p \in descr[q.fd].of
       /\ ~q.hook => descr[q.fd].by = p /\ q.pc # "idle"
       /\ ~q.listed => q.pc \in {"lock", "check"}
       /\ q.pc \in {"check", "held", "anchored", "inside"} => flock[descr[q.fd].ino] = q.fd
  /\ q.pc \in {"lock", "check", "inside"} => q.fd # None /\ ~q.hook

\* A description is unused, or open in processes whose leases are about it.
DescrOK(d) ==
  /\ descr[d].of = {} => descr[d] = Unused
  /\ descr[d].of # {} => descr[d].ino \in Inode /\ descr[d].by \in Proc
  /\ \A p \in descr[d].of : proc[p].fd = d

\* The lock of an inode belongs to a description of that inode that is open.
LockOK(i) == flock[i] # None => descr[flock[i]].ino = i /\ descr[flock[i]].of # {}

IInv ==
  /\ TypeOK
  /\ \A p \in Proc : ProcOK(p)
  /\ \A d \in Descr : DescrOK(d)
  /\ \A i \in Inode : LockOK(i)

\* Between begin's two checks, and past them, unless the file was moved meanwhile.
PlaceOK(p) ==
  p \notin moved /\ proc[p].fd # None /\ ~proc[p].hook =>
    /\ proc[p].pc = "anchored" => path = Bound
    /\ proc[p].pc = "inside" => Ino(p) = Bound

Places == \A p \in Proc : PlaceOK(p)

LEMMA IInvInit == ASSUME Setting, Init PROVE IInv /\ Places
<1>1. Running \in Process /\ Unborn \in Process BY DEF Running, Unborn, Process, PC
<1>2. Unused \in Description BY DEF Unused, Description
<1>3. TypeOK BY <1>1, <1>2 DEF Init, TypeOK, Setting
<1>4. ASSUME NEW p \in Proc PROVE ProcOK(p)
  BY DEF Init, ProcOK, Running, Unborn
<1>5. ASSUME NEW d \in Descr PROVE DescrOK(d) BY DEF Init, DescrOK, Unused
<1>6. ASSUME NEW i \in Inode PROVE LockOK(i) BY DEF Init, LockOK
<1>7. Places BY DEF Init, Places, PlaceOK, Running, Unborn
<1> QED BY <1>3, <1>4, <1>5, <1>6, <1>7 DEF IInv

\* What every process field may hold.
LEMMA Fields ==
  ASSUME TypeOK, NEW p \in Proc
  PROVE  /\ proc[p].life \in {"unborn", "running", "dead"} /\ proc[p].hook \in BOOLEAN
         /\ proc[p].pc \in PC /\ proc[p].fd \in Descr \cup {None}
         /\ proc[p].listed \in BOOLEAN /\ proc[p].pid \in Proc \cup {None}
BY DEF TypeOK, Process

-----------------------------------------------------------------------------
(* A process lets go of its descriptor: GiveUp, AfterFork and Die *)

\* What such a process is left with.
Without(new) ==
  new \in Process /\ new.fd = None /\ ~new.listed /\ ~new.hook
    /\ new.pc \in {"idle", "held", "anchored"}
    /\ (new.life # "running" => new.pc = "idle")

LetGo(p, new) ==
  /\ Close(Fd(p), p)
  /\ proc' = [proc EXCEPT ![p] = new]
  /\ moved' = moved \ {p}
  /\ UNCHANGED <<path, hands>>

\* Its own description is freed with its lock if nobody else has it; all others
\* stay, and every other process keeps what it has.
LEMMA Closing ==
  ASSUME Setting, IInv, NEW p \in Proc, NEW new, Without(new), LetGo(p, new)
  PROVE  /\ \A d \in Descr :
              /\ d # proc[p].fd => descr'[d] = descr[d]
              /\ d = proc[p].fd /\ descr[d].of = {p} => descr'[d] = Unused
              /\ d = proc[p].fd /\ descr[d].of # {p} =>
                   descr'[d] = [descr[d] EXCEPT !.of = @ \ {p}]
         /\ \A i \in Inode :
              flock'[i] = IF flock[i] # None /\ flock[i] = proc[p].fd /\ descr[flock[i]].of = {p}
                          THEN None ELSE flock[i]
<1>1. descr' = Left(Fd(p), p) /\ flock' = Unlocked(Fd(p), p) BY DEF LetGo, Close
<1>2. proc[p].fd \in Descr \cup {None} BY Fields DEF IInv
<1>3. proc[p].fd # None => p \in descr[proc[p].fd].of BY DEF IInv, ProcOK
<1>4. proc[p].fd # None =>
        (descr[proc[p].fd].of \subseteq {p} <=> descr[proc[p].fd].of = {p})
  BY <1>3
<1>5. \A d \in Descr : d \in Fd(p) <=> d = proc[p].fd BY <1>2 DEF Fd, Setting
<1>6. ASSUME NEW d \in Descr
      PROVE  /\ d # proc[p].fd => descr'[d] = descr[d]
             /\ d = proc[p].fd /\ descr[d].of = {p} => descr'[d] = Unused
             /\ d = proc[p].fd /\ descr[d].of # {p} =>
                  descr'[d] = [descr[d] EXCEPT !.of = @ \ {p}]
  <2>1. d = proc[p].fd => d # None BY DEF Setting
  <2> QED BY <1>1, <1>4, <1>5, <2>1 DEF Left
<1>7. ASSUME NEW i \in Inode
      PROVE  flock'[i] = IF flock[i] # None /\ flock[i] = proc[p].fd /\ descr[flock[i]].of = {p}
                         THEN None ELSE flock[i]
  <2>1. flock[i] \in Descr \cup {None} BY DEF IInv, TypeOK
  <2>2. flock[i] \in Fd(p) <=> flock[i] # None /\ flock[i] = proc[p].fd
    BY <1>2, <2>1 DEF Fd, Setting
  <2> QED BY <1>1, <1>4, <2>1, <2>2 DEF Unlocked
<1> QED BY <1>6, <1>7

LEMMA LetGoKeeps ==
  ASSUME Setting, IInv, NEW p \in Proc, NEW new, Without(new), LetGo(p, new)
  PROVE  IInv'
<1> DEFINE mine == proc[p].fd
<1>1. /\ \A d \in Descr :
           /\ d # mine => descr'[d] = descr[d]
           /\ d = mine /\ descr[d].of = {p} => descr'[d] = Unused
           /\ d = mine /\ descr[d].of # {p} => descr'[d] = [descr[d] EXCEPT !.of = @ \ {p}]
      /\ \A i \in Inode :
           flock'[i] = IF flock[i] # None /\ flock[i] = mine /\ descr[flock[i]].of = {p}
                       THEN None ELSE flock[i]
  BY Closing
<1>2. proc' = [proc EXCEPT ![p] = new] /\ path' = path /\ hands' = hands
       /\ moved' = moved \ {p}
  BY DEF LetGo
<1>3. TypeOK BY DEF IInv
<1>4. \A q \in Proc : q # p => proc'[q] = proc[q] BY <1>2, <1>3 DEF TypeOK
<1>5. proc'[p] = new BY <1>2, <1>3 DEF TypeOK
<1>6. \A d \in Descr : descr[d] \in Description BY <1>3 DEF TypeOK
<1>7. mine \in Descr \cup {None} /\ None \notin Descr BY <1>3, Fields DEF Setting
<1>8. mine # None => p \in descr[mine].of BY DEF IInv, ProcOK
<1>9. \A d \in Descr : p \in descr[d].of => d = mine BY DEF IInv, DescrOK
<1>10. \A d \in Descr : descr'[d].of = descr[d].of \ {p}
  <2>1. ASSUME NEW d \in Descr, d = mine, descr[d].of # {p}
        PROVE  descr'[d].of = descr[d].of \ {p}
    BY <1>1, <1>6, <2>1 DEF Description
  <2>2. ASSUME NEW d \in Descr, d = mine, descr[d].of = {p}
        PROVE  descr'[d].of = descr[d].of \ {p}
    <3>1. descr'[d] = Unused BY <1>1, <2>2
    <3>2. descr'[d].of = {} BY <3>1 DEF Unused
    <3>3. descr[d].of \ {p} = {} BY <2>2
    <3> QED BY <3>2, <3>3
  <2>3. ASSUME NEW d \in Descr, d # mine PROVE descr'[d].of = descr[d].of \ {p}
    BY <1>1, <1>9, <2>3
  <2> QED BY <2>1, <2>2, <2>3
<1>11. \A d \in Descr : descr'[d].of # {} =>
         descr'[d].ino = descr[d].ino /\ descr'[d].by = descr[d].by
  <2>1. ASSUME NEW d \in Descr, descr'[d].of # {}
        PROVE  descr'[d].ino = descr[d].ino /\ descr'[d].by = descr[d].by
    <3>1. ~(d = mine /\ descr[d].of = {p}) BY <1>10, <2>1
    <3> QED BY <1>1, <1>6, <3>1 DEF Description
  <2> QED BY <2>1
<1> HIDE DEF mine
<1>12. TypeOK'
  <2>1. proc' \in [Proc -> Process] BY <1>2, <1>3 DEF TypeOK, Without
  <2>2. descr' \in [Descr -> Description]
    <3>1. DOMAIN descr' = Descr /\ descr' = [d \in Descr |-> descr'[d]]
      BY DEF LetGo, Close, Left
    <3>2. ASSUME NEW d \in Descr PROVE descr'[d] \in Description
      <4>1. Unused \in Description BY DEF Unused, Description
      <4>2. [descr[d] EXCEPT !.of = @ \ {p}] \in Description BY <1>6 DEF Description
      <4> QED BY <1>1, <1>6, <4>1, <4>2
    <3> QED BY <3>1, <3>2
  <2>3. flock' \in [Inode -> Descr \cup {None}]
    <3>1. flock' = [i \in Inode |-> flock'[i]] BY DEF LetGo, Close, Unlocked
    <3> QED BY <1>1, <1>3, <3>1 DEF TypeOK
  <2> QED BY <1>2, <1>3, <2>1, <2>2, <2>3 DEF TypeOK
<1>13. ASSUME NEW q \in Proc PROVE ProcOK(q)'
  <2>1. CASE q = p BY <1>5, <2>1 DEF ProcOK, Without
  <2>2. CASE q # p
    <3>1. proc'[q] = proc[q] /\ ProcOK(q) BY <1>4, <2>2 DEF IInv
    <3>2. CASE proc[q].fd = None BY <3>1, <3>2 DEF ProcOK
    <3>3. CASE proc[q].fd # None
      <4> DEFINE d == proc[q].fd
      <4>1. d \in Descr BY <1>3, <3>3, Fields
      <4>2. q \in descr[d].of BY <3>1, <3>3 DEF ProcOK
      <4>3. q \in descr'[d].of BY <1>10, <2>2, <4>1, <4>2
      <4>4. descr'[d].ino = descr[d].ino /\ descr'[d].by = descr[d].by
        BY <1>11, <4>1, <4>3
      <4>5. descr[d].ino \in Inode BY <4>1, <4>2 DEF IInv, DescrOK
      <4>6. flock[descr[d].ino] = d => flock'[descr[d].ino] = d
        BY <1>1, <2>2, <4>2, <4>5
      <4> HIDE DEF d
      <4>7. d = proc[q].fd BY DEF d
      <4> QED BY <3>1, <3>3, <4>3, <4>4, <4>6, <4>7 DEF ProcOK
    <3> QED BY <3>2, <3>3
  <2> QED BY <2>1, <2>2
<1>14. ASSUME NEW d \in Descr PROVE DescrOK(d)'
  <2>1. DescrOK(d) BY DEF IInv
  <2>2. descr'[d].of = {} => descr'[d] = Unused
    <3>1. CASE d = mine /\ descr[d].of = {p} BY <1>1, <3>1
    <3>2. CASE d = mine /\ descr[d].of # {p} BY <1>1, <1>7, <1>8, <1>10, <3>2
    <3>3. CASE d # mine BY <1>1, <2>1, <3>3 DEF DescrOK
    <3> QED BY <3>1, <3>2, <3>3
  <2>3. descr'[d].of # {} => descr'[d].ino \in Inode /\ descr'[d].by \in Proc
    BY <1>10, <1>11, <2>1 DEF DescrOK
  <2>4. \A q \in descr'[d].of : proc'[q].fd = d
    <3>1. descr[d].of \subseteq Proc BY <1>6 DEF Description
    <3> QED BY <1>4, <1>10, <2>1, <3>1 DEF DescrOK
  <2> QED BY <2>2, <2>3, <2>4 DEF DescrOK
<1>15. ASSUME NEW i \in Inode PROVE LockOK(i)'
  <2>1. LockOK(i) BY DEF IInv
  <2>2. SUFFICES ASSUME flock'[i] # None
                 PROVE  descr'[flock'[i]].ino = i /\ descr'[flock'[i]].of # {}
    BY DEF LockOK
  <2>3. flock'[i] = flock[i] /\ flock[i] # None BY <1>1, <2>2
  <2>4. flock[i] \in Descr BY <1>3, <2>3 DEF TypeOK
  <2>5. descr[flock[i]].ino = i /\ descr[flock[i]].of # {} BY <2>1, <2>3 DEF LockOK
  <2>6. descr'[flock[i]].of # {}
    <3>1. CASE flock[i] = mine
      <4>1. descr[flock[i]].of # {p} BY <1>1, <2>2, <2>3, <3>1
      <4>2. p \in descr[flock[i]].of BY <1>8, <2>3, <3>1
      <4> QED BY <1>10, <2>4, <4>1, <4>2
    <3>2. CASE flock[i] # mine BY <1>1, <2>4, <2>5, <3>2
    <3> QED BY <3>1, <3>2
  <2> QED BY <1>11, <2>3, <2>4, <2>5, <2>6
<1> QED BY <1>12, <1>13, <1>14, <1>15 DEF IInv

-----------------------------------------------------------------------------
(* The other steps *)

\* Giving up, in each of its places, is letting go.
LEMMA GiveUpLetsGo ==
  ASSUME TypeOK, NEW p \in Proc, proc[p].life = "running", ~proc[p].hook, GiveUp(p)
  PROVE  \E new : Without(new) /\ LetGo(p, new)
<1> DEFINE new == [proc[p] EXCEPT !.pc = "idle", !.fd = None, !.listed = FALSE]
<1>1. proc[p] \in Process BY DEF TypeOK
<1>2. Without(new) BY <1>1 DEF Without, Process, PC
<1>3. LetGo(p, new) BY DEF GiveUp, Step, LetGo
<1> QED BY <1>2, <1>3

LEMMA OpenKeeps == ASSUME Setting, IInv, NEW p \in Proc, Open(p) PROVE IInv'
<1>1. PICK d \in Descr :
        /\ descr[d] = Unused
        /\ descr' = [descr EXCEPT ![d] = [ino |-> path, by |-> p, of |-> {p}]]
        /\ Step(p, [proc[p] EXCEPT !.pc = "lock", !.fd = d])
  BY DEF Open
<1>2. /\ proc[p].life = "running" /\ ~proc[p].hook /\ proc[p].pc = "idle"
      /\ proc[p].fd = None /\ path # None /\ path' = path /\ flock' = flock /\ hands' = hands
      /\ moved' = moved
  BY DEF Open, At
<1>3. TypeOK BY DEF IInv
<1> DEFINE new == [proc[p] EXCEPT !.pc = "lock", !.fd = d]
<1>4. proc[p] \in Process BY <1>3 DEF TypeOK
<1>5. /\ new \in Process /\ new.pc = "lock" /\ new.fd = d /\ new.life = "running"
      /\ ~new.hook /\ new.listed = proc[p].listed
  BY <1>2, <1>4 DEF Process, PC
<1>6. proc' = [proc EXCEPT ![p] = new] BY <1>1 DEF Step
<1> HIDE DEF new
<1>7. proc'[p] = new /\ \A q \in Proc : q # p => proc'[q] = proc[q]
  BY <1>3, <1>6 DEF TypeOK
<1> DEFINE opened == [ino |-> path, by |-> p, of |-> {p}]
<1>8. /\ opened.ino = path /\ opened.by = p /\ opened.of = {p} /\ path \in Inode
      /\ opened \in Description
  BY <1>2, <1>3 DEF TypeOK, Description
<1>9. descr' = [descr EXCEPT ![d] = opened] BY <1>1
<1> HIDE DEF opened
<1>10. descr'[d] = opened /\ \A e \in Descr : e # d => descr'[e] = descr[e]
  BY <1>3, <1>9 DEF TypeOK
<1>11. descr[d].of = {} BY <1>1 DEF Unused
<1>12. d # None BY DEF Setting
<1>13. TypeOK' BY <1>2, <1>3, <1>5, <1>6, <1>8, <1>9 DEF TypeOK
<1>14. ASSUME NEW q \in Proc PROVE ProcOK(q)'
  <2>1. ProcOK(q) BY DEF IInv
  <2>2. CASE q = p BY <1>2, <1>5, <1>7, <1>8, <1>10, <1>12, <2>1, <2>2 DEF ProcOK
  <2>3. CASE q # p
    <3>1. proc'[q] = proc[q] BY <1>7, <2>3
    <3>2. proc[q].fd # None => proc[q].fd \in Descr /\ proc[q].fd # d
      BY <1>3, <1>11, <2>1, Fields DEF ProcOK
    <3>3. proc[q].pc = "inside" => proc[q].fd # None BY <2>1 DEF ProcOK
    <3> QED BY <1>2, <1>10, <2>1, <3>1, <3>2, <3>3 DEF ProcOK
  <2> QED BY <2>2, <2>3
<1>15. ASSUME NEW e \in Descr PROVE DescrOK(e)'
  <2>1. DescrOK(e) /\ descr[e].of \subseteq Proc BY <1>3 DEF IInv, TypeOK, Description
  <2>2. CASE e = d BY <1>5, <1>7, <1>8, <1>10, <2>2 DEF DescrOK
  <2>3. CASE e # d
    <3>1. p \notin descr[e].of BY <1>2, <1>12, <2>1 DEF DescrOK, Setting
    <3> QED BY <1>7, <1>10, <2>1, <2>3, <3>1 DEF DescrOK
  <2> QED BY <2>2, <2>3
<1>16. ASSUME NEW i \in Inode PROVE LockOK(i)'
  <2>1. LockOK(i) /\ flock[i] \in Descr \cup {None} BY <1>3 DEF IInv, TypeOK
  <2>2. flock[i] # None => flock[i] # d BY <1>11, <2>1 DEF LockOK
  <2> QED BY <1>2, <1>10, <2>1, <2>2 DEF LockOK
<1> QED BY <1>13, <1>14, <1>15, <1>16 DEF IInv

\* Taking the lock, when it is free.
LEMMA LockKeeps ==
  ASSUME Setting, IInv, NEW p \in Proc, At(p, "lock"), flock[Ino(p)] = None,
         flock' = [flock EXCEPT ![Ino(p)] = proc[p].fd],
         Step(p, [proc[p] EXCEPT !.pc = "check"]), UNCHANGED <<path, descr, hands, moved>>
  PROVE  IInv'
<1> DEFINE d == proc[p].fd
           new == [proc[p] EXCEPT !.pc = "check"]
<1>1. TypeOK /\ ProcOK(p) BY DEF IInv
<1>2. proc[p].life = "running" /\ ~proc[p].hook /\ proc[p].pc = "lock" BY DEF At
<1>3. d # None BY <1>1, <1>2 DEF ProcOK
<1>4. d \in Descr BY <1>1, <1>3, Fields
<1>5. p \in descr[d].of BY <1>1, <1>3 DEF ProcOK
<1>6. descr[d].ino \in Inode BY <1>4, <1>5 DEF IInv, DescrOK
<1>7. proc[p] \in Process BY <1>1 DEF TypeOK
<1>8. /\ new \in Process /\ new.pc = "check" /\ new.fd = d /\ new.life = "running"
      /\ new.hook = proc[p].hook /\ new.listed = proc[p].listed
  BY <1>2, <1>7 DEF Process, PC
<1>9. proc' = [proc EXCEPT ![p] = new] BY DEF Step
<1>10. flock' = [flock EXCEPT ![descr[d].ino] = d] /\ flock[descr[d].ino] = None BY DEF Ino
<1> HIDE DEF new, d
<1>11. proc'[p] = new /\ \A q \in Proc : q # p => proc'[q] = proc[q]
  BY <1>1, <1>9 DEF TypeOK
<1>12. /\ flock'[descr[d].ino] = d
       /\ \A i \in Inode : i # descr[d].ino => flock'[i] = flock[i]
  BY <1>1, <1>6, <1>10 DEF TypeOK
<1>13. TypeOK' BY <1>1, <1>4, <1>8, <1>9, <1>10 DEF TypeOK
<1>14. ASSUME NEW q \in Proc PROVE ProcOK(q)'
  <2>1. ProcOK(q) BY DEF IInv
  <2>2. CASE q = p
    BY <1>1, <1>2, <1>3, <1>5, <1>8, <1>11, <1>12, <2>2 DEF ProcOK, d
  <2>3. CASE q # p
    <3>1. proc'[q] = proc[q] BY <1>11, <2>3
    <3>2. CASE proc[q].fd = None BY <2>1, <3>1, <3>2 DEF ProcOK
    <3>3. CASE proc[q].fd # None
      <4>1. proc[q].fd \in Descr BY <1>1, <3>3, Fields
      <4>2. descr[proc[q].fd].ino \in Inode BY <2>1, <3>3, <4>1 DEF ProcOK, IInv, DescrOK
      <4>3. flock[descr[proc[q].fd].ino] = proc[q].fd =>
              flock'[descr[proc[q].fd].ino] = proc[q].fd
        BY <1>10, <1>12, <3>3, <4>2
      <4> QED BY <2>1, <3>1, <3>3, <4>3 DEF ProcOK
    <3> QED BY <3>2, <3>3
  <2> QED BY <2>2, <2>3
<1>15. ASSUME NEW e \in Descr PROVE DescrOK(e)'
  <2>1. DescrOK(e) /\ descr[e].of \subseteq Proc BY <1>1 DEF IInv, TypeOK, Description
  <2>2. \A q \in Proc : proc'[q].fd = proc[q].fd BY <1>8, <1>11 DEF d
  <2> QED BY <2>1, <2>2 DEF DescrOK
<1>16. ASSUME NEW i \in Inode PROVE LockOK(i)'
  <2>1. LockOK(i) BY DEF IInv
  <2> QED BY <1>5, <1>12, <2>1 DEF LockOK
<1> QED BY <1>13, <1>14, <1>15, <1>16 DEF IInv

\* Check, Anchor and Enter change fields of one process that has its descriptor.
LEMMA FieldsKeep ==
  ASSUME Setting, IInv, NEW p \in Proc, NEW new \in Process,
         proc' = [proc EXCEPT ![p] = new], UNCHANGED <<path, flock, descr, hands, moved>>,
         new.fd = proc[p].fd, ProcOK(p)'
  PROVE  IInv'
<1>1. TypeOK BY DEF IInv
<1>2. proc'[p] = new /\ \A q \in Proc : q # p => proc'[q] = proc[q] BY <1>1 DEF TypeOK
<1>3. TypeOK' BY <1>1 DEF TypeOK
<1>4. ASSUME NEW q \in Proc PROVE ProcOK(q)'
  <2>1. CASE q = p BY <2>1
  <2>2. CASE q # p BY <1>2, <2>2 DEF IInv, ProcOK
  <2> QED BY <2>1, <2>2
<1>5. ASSUME NEW e \in Descr PROVE DescrOK(e)'
  <2>1. DescrOK(e) /\ descr[e].of \subseteq Proc BY <1>1 DEF IInv, TypeOK, Description
  <2> QED BY <1>2, <2>1 DEF DescrOK
<1>6. ASSUME NEW i \in Inode PROVE LockOK(i)' BY DEF IInv, LockOK
<1> QED BY <1>3, <1>4, <1>5, <1>6 DEF IInv

LEMMA CheckKeeps ==
  ASSUME Setting, IInv, NEW p \in Proc, At(p, "check"),
         Step(p, [proc[p] EXCEPT !.pc = "held", !.listed = TRUE, !.pid = p]),
         UNCHANGED <<path, flock, descr, hands, moved>>
  PROVE  IInv'
<1> DEFINE new == [proc[p] EXCEPT !.pc = "held", !.listed = TRUE, !.pid = p]
<1>1. TypeOK /\ ProcOK(p) BY DEF IInv
<1>2. proc[p] \in Process BY <1>1 DEF TypeOK
<1>3. /\ new \in Process /\ new.fd = proc[p].fd /\ new.pc = "held" /\ new.listed
      /\ new.life = proc[p].life /\ new.hook = proc[p].hook
  BY <1>2 DEF Process, PC
<1>4. proc' = [proc EXCEPT ![p] = new] BY DEF Step
<1> HIDE DEF new
<1>5. proc'[p] = new BY <1>1, <1>4 DEF TypeOK
<1>6. ProcOK(p)' BY <1>1, <1>3, <1>5 DEF ProcOK, At
<1> QED BY <1>3, <1>4, <1>6, FieldsKeep

LEMMA AnchorKeeps ==
  ASSUME Setting, IInv, NEW p \in Proc, At(p, "held"),
         Step(p, [proc[p] EXCEPT !.pc = "anchored"]), UNCHANGED <<path, flock, descr, hands, moved>>
  PROVE  IInv'
<1> DEFINE new == [proc[p] EXCEPT !.pc = "anchored"]
<1>1. TypeOK /\ ProcOK(p) BY DEF IInv
<1>2. proc[p] \in Process BY <1>1 DEF TypeOK
<1>3. /\ new \in Process /\ new.fd = proc[p].fd /\ new.pc = "anchored"
      /\ new.listed = proc[p].listed /\ new.life = proc[p].life /\ new.hook = proc[p].hook
  BY <1>2 DEF Process, PC
<1>4. proc' = [proc EXCEPT ![p] = new] BY DEF Step
<1> HIDE DEF new
<1>5. proc'[p] = new BY <1>1, <1>4 DEF TypeOK
<1>6. ProcOK(p)' BY <1>1, <1>3, <1>5 DEF ProcOK, At
<1> QED BY <1>3, <1>4, <1>6, FieldsKeep

LEMMA EnterKeeps ==
  ASSUME Setting, IInv, NEW p \in Proc, At(p, "anchored"), Verified(p),
         Step(p, [proc[p] EXCEPT !.pc = "inside"]), UNCHANGED <<path, flock, descr, hands, moved>>
  PROVE  IInv'
<1> DEFINE new == [proc[p] EXCEPT !.pc = "inside"]
<1>1. TypeOK /\ ProcOK(p) BY DEF IInv
<1>2. proc[p] \in Process BY <1>1 DEF TypeOK
<1>3. /\ new \in Process /\ new.fd = proc[p].fd /\ new.pc = "inside"
      /\ new.listed = proc[p].listed /\ new.life = proc[p].life /\ new.hook = proc[p].hook
  BY <1>2 DEF Process, PC
<1>4. proc' = [proc EXCEPT ![p] = new] BY DEF Step
<1> HIDE DEF new
<1>5. proc'[p] = new BY <1>1, <1>4 DEF TypeOK
<1>6. proc[p].fd # None BY DEF Verified
<1>7. ProcOK(p)' BY <1>1, <1>3, <1>5, <1>6 DEF ProcOK, At
<1> QED BY <1>3, <1>4, <1>7, FieldsKeep

LEMMA ForkKeeps == ASSUME Setting, IInv, NEW p \in Proc, NEW c \in Proc, Fork(p, c) PROVE IInv'
<1> DEFINE new == Child(p)
<1>1. TypeOK /\ ProcOK(p) /\ ProcOK(c) BY DEF IInv
<1>2. /\ proc[p].life = "running" /\ ~proc[p].hook /\ proc[p].pc \notin {"lock", "check"}
      /\ proc[c].life = "unborn" /\ proc' = [proc EXCEPT ![c] = new]
      /\ path' = path /\ flock' = flock /\ hands' = hands /\ moved' = moved
  BY DEF Fork
<1>3. proc[p] \in Process BY <1>1 DEF TypeOK
<1>4. /\ new \in Process /\ new.hook /\ new.life = "running" /\ new.fd = proc[p].fd
      /\ new.listed = proc[p].listed
      /\ new.pc = IF proc[p].pc \in {"held", "anchored"} THEN proc[p].pc ELSE "idle"
  BY <1>2, <1>3 DEF Child, Process, PC
<1> HIDE DEF new
<1>5. proc'[c] = new /\ \A q \in Proc : q # c => proc'[q] = proc[q] BY <1>1, <1>2 DEF TypeOK
<1>6. c # p BY <1>2
<1>7. proc[c].fd = None BY <1>1, <1>2 DEF ProcOK
<1>8. \A d \in Descr : descr[d] \in Description BY <1>1 DEF TypeOK
<1>9. \A d \in Descr : p \in descr[d].of <=> d = proc[p].fd
  BY <1>1 DEF IInv, DescrOK, ProcOK, Setting
<1>10. \A d \in Descr :
         descr'[d] = IF d = proc[p].fd THEN [descr[d] EXCEPT !.of = @ \cup {c}] ELSE descr[d]
  BY <1>9 DEF Fork, Copies
<1>11. \A d \in Descr :
         /\ descr'[d].ino = descr[d].ino /\ descr'[d].by = descr[d].by
         /\ descr'[d] \in Description
  <2>1. ASSUME NEW d \in Descr, d = proc[p].fd
        PROVE  /\ descr'[d].ino = descr[d].ino /\ descr'[d].by = descr[d].by
               /\ descr'[d] \in Description
    <3>1. descr'[d] = [descr[d] EXCEPT !.of = @ \cup {c}] BY <1>10, <2>1
    <3> QED BY <1>8, <3>1 DEF Description
  <2> QED BY <1>8, <1>10, <2>1
<1>12. \A d \in Descr :
         descr'[d].of = IF d = proc[p].fd THEN descr[d].of \cup {c} ELSE descr[d].of
  <2>1. ASSUME NEW d \in Descr, d = proc[p].fd
        PROVE  descr'[d].of = descr[d].of \cup {c}
    <3>1. descr'[d] = [descr[d] EXCEPT !.of = @ \cup {c}] BY <1>10, <2>1
    <3> QED BY <1>8, <3>1 DEF Description
  <2> QED BY <1>10, <2>1
<1>13. TypeOK'
  <2>1. descr' \in [Descr -> Description]
    <3>1. descr' = [d \in Descr |-> descr'[d]] BY DEF Fork
    <3> QED BY <1>11, <3>1
  <2> QED BY <1>1, <1>2, <1>4, <2>1 DEF TypeOK
<1>14. ASSUME NEW q \in Proc PROVE ProcOK(q)'
  <2>1. ProcOK(q) BY DEF IInv
  <2>2. CASE q = c
    <3>1. proc[p].fd # None => proc[p].fd \in Descr BY <1>1, Fields
    <3>2. proc[p].fd # None => c \in descr'[proc[p].fd].of BY <1>12, <3>1
    <3> QED BY <1>1, <1>2, <1>4, <1>5, <1>11, <2>2, <3>1, <3>2 DEF ProcOK
  <2>3. CASE q # c
    <3>1. proc'[q] = proc[q] BY <1>5, <2>3
    <3>2. proc[q].fd # None => proc[q].fd \in Descr BY <1>1, Fields
    <3>3. proc[q].pc = "inside" => proc[q].fd # None BY <2>1 DEF ProcOK
    <3> QED BY <1>2, <1>11, <1>12, <2>1, <3>1, <3>2, <3>3 DEF ProcOK
  <2> QED BY <2>2, <2>3
<1>15. ASSUME NEW d \in Descr PROVE DescrOK(d)'
  <2>1. DescrOK(d) /\ descr[d].of \subseteq Proc BY <1>8 DEF IInv, Description
  <2>2. d = proc[p].fd => descr[d].of # {} BY <1>9
  <2>3. ASSUME NEW q \in descr'[d].of PROVE proc'[q].fd = d
    <3>1. q \in descr[d].of => q # c /\ proc[q].fd = d BY <1>7, <2>1 DEF DescrOK, Setting
    <3>2. q \in Proc BY <1>12, <2>1
    <3>3. CASE q = c
      <4>1. d = proc[p].fd BY <1>12, <3>1, <3>3
      <4> QED BY <1>5, <1>4, <3>3, <4>1
    <3>4. CASE q # c
      <4>1. q \in descr[d].of BY <1>12, <3>4
      <4> QED BY <1>5, <3>1, <3>2, <3>4, <4>1
    <3> QED BY <3>3, <3>4
  <2>4. descr'[d].of = {} => descr'[d] = Unused
    BY <1>10, <1>12, <2>1 DEF DescrOK
  <2>5. descr'[d].of # {} => descr'[d].ino \in Inode /\ descr'[d].by \in Proc
    BY <1>11, <1>12, <2>1, <2>2 DEF DescrOK
  <2> QED BY <2>3, <2>4, <2>5 DEF DescrOK
<1>16. ASSUME NEW i \in Inode PROVE LockOK(i)'
  <2>1. LockOK(i) /\ flock[i] \in Descr \cup {None} BY <1>1 DEF IInv, TypeOK
  <2> QED BY <1>2, <1>11, <1>12, <2>1 DEF LockOK
<1> QED BY <1>13, <1>14, <1>15, <1>16 DEF IInv

\* A child whose handle was not listed has none, since its parent was not between
\* open and Check when it forked.
LEMMA AfterForkCases ==
  ASSUME Setting, IInv, NEW c \in Proc, AfterFork(c)
  PROVE  \E new : Without(new) /\ LetGo(c, new)
<1>1. TypeOK /\ ProcOK(c) BY DEF IInv
<1>2. proc[c] \in Process BY <1>1 DEF TypeOK
<1>3. proc[c].life = "running" /\ proc[c].hook BY DEF AfterFork
<1>4. proc[c].pc \in {"idle", "held", "anchored"}
  BY <1>1, <1>2, <1>3 DEF ProcOK, Process, PC
<1>5. CASE proc[c].listed
  <2> DEFINE new == [proc[c] EXCEPT !.hook = FALSE, !.fd = None, !.listed = FALSE]
  <2>1. Without(new) BY <1>2, <1>3, <1>4 DEF Without, Process
  <2>2. LetGo(c, new) BY <1>5 DEF AfterFork, Step, LetGo
  <2> QED BY <2>1, <2>2
<1>6. CASE ~proc[c].listed
  <2> DEFINE new == [proc[c] EXCEPT !.hook = FALSE]
  <2>1. proc[c].fd = None BY <1>1, <1>3, <1>4, <1>6 DEF ProcOK
  <2>2. Without(new) BY <1>2, <1>3, <1>4, <1>6, <2>1 DEF Without, Process
  <2>3. Fd(c) = {} BY <2>1 DEF Fd
  <2>4. descr' = descr /\ flock' = flock /\ Step(c, new) /\ path' = path /\ hands' = hands
        /\ moved' = moved \ {c}
    BY <1>6 DEF AfterFork
  <2>5. descr = Left(Fd(c), c) /\ flock = Unlocked(Fd(c), c)
    BY <1>1, <2>3 DEF Left, Unlocked, TypeOK
  <2>6. LetGo(c, new) BY <2>4, <2>5 DEF LetGo, Close, Step
  <2> QED BY <2>2, <2>6
<1> QED BY <1>5, <1>6

LEMMA DieCases ==
  ASSUME Setting, IInv, NEW p \in Proc, Die(p)
  PROVE  \E new : Without(new) /\ LetGo(p, new)
<1> DEFINE new == [Unborn EXCEPT !.life = "dead"]
<1>1. TypeOK /\ ProcOK(p) BY DEF IInv
<1>2. Without(new) BY DEF Without, Unborn, Process, PC
<1>3. Copies(p) = Fd(p)
  <2>1. proc[p].fd \in Descr \cup {None} BY <1>1, Fields
  <2>2. \A d \in Descr : p \in descr[d].of <=> d = proc[p].fd
    BY <1>1 DEF IInv, DescrOK, ProcOK, Setting
  <2> QED BY <2>1, <2>2 DEF Copies, Fd, Setting
<1>4. LetGo(p, new) BY <1>3 DEF Die, Step, LetGo
<1> QED BY <1>2, <1>4

\* What every step is, as far as descriptions and locks are concerned.
LEMMA StepCases ==
  ASSUME Setting, IInv, Next
  PROVE  \/ \E p \in Proc : Open(p)
         \/ \E p \in Proc : /\ At(p, "lock") /\ flock[Ino(p)] = None
                             /\ flock' = [flock EXCEPT ![Ino(p)] = proc[p].fd]
                             /\ Step(p, [proc[p] EXCEPT !.pc = "check"])
                             /\ UNCHANGED <<path, descr, hands, moved>>
         \/ \E p \in Proc : /\ At(p, "check")
                             /\ Step(p, [proc[p] EXCEPT !.pc = "held", !.listed = TRUE, !.pid = p])
                             /\ UNCHANGED <<path, flock, descr, hands, moved>>
         \/ \E p \in Proc : /\ At(p, "held") /\ path = Bound
                             /\ Step(p, [proc[p] EXCEPT !.pc = "anchored"])
                             /\ UNCHANGED <<path, flock, descr, hands, moved>>
         \/ \E p \in Proc : /\ At(p, "anchored") /\ Verified(p)
                             /\ Step(p, [proc[p] EXCEPT !.pc = "inside"])
                             /\ UNCHANGED <<path, flock, descr, hands, moved>>
         \/ \E p, c \in Proc : Fork(p, c)
         \/ \E p \in Proc : \E new : Without(new) /\ LetGo(p, new)
         \/ Move
<1>1. ASSUME NEW p \in Proc, NEW pc, At(p, pc), GiveUp(p)
      PROVE  \E new : Without(new) /\ LetGo(p, new)
  <2>1. TypeOK /\ proc[p].life = "running" /\ ~proc[p].hook BY <1>1 DEF IInv, At
  <2> QED BY <1>1, <2>1, GiveUpLetsGo
<1>2. ASSUME NEW p \in Proc, Leave(p) PROVE \E new : Without(new) /\ LetGo(p, new)
  BY <1>1, <1>2 DEF Leave
<1>3. CASE \E p \in Proc : Open(p) \/ Lock(p) \/ Check(p) \/ Anchor(p) \/ Enter(p) \/ Leave(p)
  BY <1>1, <1>2, <1>3 DEF Lock, Check, Anchor, Enter
<1>4. CASE \E p, c \in Proc : Fork(p, c) BY <1>4
<1>5. CASE \E p \in Proc : AfterFork(p) \/ Die(p) BY <1>5, AfterForkCases, DieCases
<1>6. CASE Move BY <1>6
<1> QED BY <1>3, <1>4, <1>5, <1>6 DEF Next

LEMMA IInvNext == ASSUME Setting, IInv, [Next]_vars PROVE IInv'
<1>1. CASE Move
  <2>1. TypeOK' BY <1>1 DEF Move, IInv, TypeOK, Setting
  <2> QED BY <1>1, <2>1 DEF Move, IInv, ProcOK, DescrOK, LockOK
<1>2. CASE UNCHANGED vars
  <2>1. TypeOK' BY <1>2 DEF vars, IInv, TypeOK
  <2> QED BY <1>2, <2>1 DEF vars, IInv, ProcOK, DescrOK, LockOK
<1>3. CASE Next
  BY <1>1, <1>3, StepCases, OpenKeeps, LockKeeps, CheckKeeps, AnchorKeeps, EnterKeeps,
     ForkKeeps, LetGoKeeps
<1> QED BY <1>2, <1>3

\* Only a process at its own check comes to a place, and only an operator's hand
\* takes the path from under one that is there, which moved then says.
LEMMA PlacesNext == ASSUME Setting, IInv, Places, [Next]_vars PROVE Places'
<1>1. TypeOK BY DEF IInv
<1>2. \A q \in Proc : proc[q].fd # None => proc[q].fd \in Descr /\ q \in descr[proc[q].fd].of
  BY <1>1, Fields DEF IInv, ProcOK
<1>3. ASSUME NEW q \in Proc, proc'[q] = proc[q], q \in moved' <=> q \in moved, path' = path,
             proc[q].fd # None => descr'[proc[q].fd].ino = descr[proc[q].fd].ino
      PROVE  PlaceOK(q)'
  <2>1. PlaceOK(q) BY DEF Places
  <2> QED BY <1>3, <2>1 DEF PlaceOK, Ino
<1>4. ASSUME NEW p \in Proc, NEW new, proc' = [proc EXCEPT ![p] = new],
             UNCHANGED <<path, moved, descr>>,
             new.pc = "anchored" => path = Bound,
             new.pc = "inside" => descr[new.fd].ino = Bound
      PROVE  Places'
  <2>1. proc'[p] = new /\ \A q \in Proc : q # p => proc'[q] = proc[q] BY <1>1, <1>4 DEF TypeOK
  <2>2. PlaceOK(p)' BY <1>4, <2>1 DEF PlaceOK, Ino
  <2>3. \A q \in Proc : q # p => PlaceOK(q)' BY <1>3, <1>4, <2>1
  <2> QED BY <2>2, <2>3 DEF Places
<1>5. ASSUME NEW p \in Proc, Open(p) PROVE Places'
  <2>1. PICK d \in Descr :
          /\ descr[d] = Unused
          /\ descr' = [descr EXCEPT ![d] = [ino |-> path, by |-> p, of |-> {p}]]
          /\ Step(p, [proc[p] EXCEPT !.pc = "lock", !.fd = d])
    BY <1>5 DEF Open
  <2>2. path' = path /\ moved' = moved BY <1>5 DEF Open
  <2>3. proc[p] \in Process BY <1>1 DEF TypeOK
  <2>4. proc'[p].pc = "lock" /\ \A q \in Proc : q # p => proc'[q] = proc[q]
    BY <1>1, <2>1, <2>3 DEF Step, TypeOK, Process
  <2>5. PlaceOK(p)' BY <2>4 DEF PlaceOK
  <2>6. ASSUME NEW q \in Proc, q # p PROVE PlaceOK(q)'
    <3>1. proc[q].fd # None => proc[q].fd \in Descr /\ proc[q].fd # d
      BY <1>2, <2>1 DEF Unused
    <3>2. proc[q].fd # None => descr'[proc[q].fd] = descr[proc[q].fd]
      BY <1>1, <2>1, <3>1 DEF TypeOK
    <3> QED BY <1>3, <2>2, <2>4, <2>6, <3>2
  <2> QED BY <2>5, <2>6 DEF Places
<1>6. ASSUME NEW p \in Proc, NEW pc \in {"check", "anchored", "inside"},
             pc = "anchored" => path = Bound, pc = "inside" => Verified(p) /\ At(p, "anchored"),
             Step(p, [proc[p] EXCEPT !.pc = pc]), UNCHANGED <<path, moved, descr>>
      PROVE  Places'
  <2>1. proc[p] \in Process /\ PlaceOK(p) BY <1>1 DEF TypeOK, Places
  <2>2. proc'[p].pc = pc /\ proc'[p].fd = proc[p].fd /\ proc'[p].hook = proc[p].hook
        /\ \A q \in Proc : q # p => proc'[q] = proc[q]
    BY <1>1, <1>6, <2>1 DEF Step, TypeOK, Process
  <2>3. PlaceOK(p)' BY <1>6, <2>1, <2>2 DEF PlaceOK, Ino, Verified, At
  <2>4. \A q \in Proc : q # p => PlaceOK(q)' BY <1>3, <1>6, <2>2
  <2> QED BY <2>3, <2>4 DEF Places
<1>7. ASSUME NEW p \in Proc,
             Step(p, [proc[p] EXCEPT !.pc = "held", !.listed = TRUE, !.pid = p]),
             UNCHANGED <<path, moved, descr>>
      PROVE  Places'
  <2>1. proc[p] \in Process BY <1>1 DEF TypeOK
  <2>2. [proc[p] EXCEPT !.pc = "held", !.listed = TRUE, !.pid = p].pc = "held"
    BY <2>1 DEF Process
  <2> QED BY <1>4, <1>7, <2>2 DEF Step
<1>8. ASSUME NEW p \in Proc, NEW c \in Proc, Fork(p, c) PROVE Places'
  <2>1. proc[p] \in Process BY <1>1 DEF TypeOK
  <2>2. proc'[c] = Child(p) /\ \A q \in Proc : q # c => proc'[q] = proc[q]
    BY <1>1, <1>8 DEF Fork, TypeOK
  <2>3. Child(p).hook BY <2>1 DEF Child, Process
  <2>4. PlaceOK(c)' BY <2>2, <2>3 DEF PlaceOK
  <2>5. ASSUME NEW d \in Descr PROVE descr'[d].ino = descr[d].ino
    <3>1. descr[d] \in Description BY <1>1 DEF TypeOK
    <3>2. descr'[d] = [descr[d] EXCEPT !.of = @ \cup {c}] \/ descr'[d] = descr[d]
      BY <1>8 DEF Fork
    <3> QED BY <3>1, <3>2 DEF Description
  <2>6. path' = path /\ moved' = moved BY <1>8 DEF Fork
  <2>7. \A q \in Proc : q # c => PlaceOK(q)' BY <1>2, <1>3, <2>2, <2>5, <2>6
  <2> QED BY <2>4, <2>7 DEF Places
<1>9. ASSUME NEW p \in Proc, NEW new, Without(new), LetGo(p, new) PROVE Places'
  <2>1. proc'[p] = new /\ \A q \in Proc : q # p => proc'[q] = proc[q]
    BY <1>1, <1>9 DEF LetGo, TypeOK
  <2>2. path' = path /\ moved' = moved \ {p} BY <1>9 DEF LetGo
  <2>3. PlaceOK(p)' BY <1>9, <2>1 DEF PlaceOK, Without
  <2>4. ASSUME NEW q \in Proc, q # p PROVE PlaceOK(q)'
    <3>1. ASSUME proc[q].fd # None PROVE descr'[proc[q].fd].ino = descr[proc[q].fd].ino
      <4> DEFINE d == proc[q].fd
      <4>1. d \in Descr /\ q \in descr[d].of BY <1>2, <3>1
      <4>2. descr[d] \in Description BY <1>1, <4>1 DEF TypeOK
      <4>3. descr[d].of # {p} BY <2>4, <4>1
      <4>4. descr'[d] = descr[d] \/ descr'[d] = [descr[d] EXCEPT !.of = @ \ {p}]
        BY <1>9, <4>1, <4>3, Closing
      <4> QED BY <4>2, <4>4 DEF Description
    <3> QED BY <1>3, <2>1, <2>2, <2>4, <3>1
  <2> QED BY <2>3, <2>4 DEF Places
<1>10. CASE Move
  <2>1. ASSUME NEW q \in Proc PROVE PlaceOK(q)'
    <3>1. PlaceOK(q) BY DEF Places
    <3> QED BY <1>10, <3>1 DEF Move, PlaceOK, Ino
  <2> QED BY <2>1 DEF Places
<1>11. CASE UNCHANGED vars BY <1>11 DEF vars, Places, PlaceOK, Ino
<1>12. CASE Next
  BY <1>5, <1>6, <1>7, <1>8, <1>9, <1>10, <1>12, StepCases
<1> QED BY <1>11, <1>12

LEMMA Safety == ASSUME Setting PROVE Spec => [](IInv /\ Places)
<1>1. Init => IInv /\ Places BY IInvInit
<1>2. IInv /\ Places /\ [Next]_vars => (IInv /\ Places)'
  <2> SUFFICES ASSUME IInv, Places, [Next]_vars PROVE IInv' /\ Places' OBVIOUS
  <2>1. IInv' BY IInvNext
  <2>2. Places' BY PlacesNext
  <2> QED BY <2>1, <2>2
<1> QED BY <1>1, <1>2, PTL DEF Spec

-----------------------------------------------------------------------------
(* The theorems *)

LEMMA IInvImplies == ASSUME Setting, IInv, Places PROVE FileLeaseInv
<1>1. TypeOK BY DEF IInv
<1>2. HolderHasLock BY DEF IInv, ProcOK, HolderHasLock, Ino
<1>3. OneInside
  <2>1. ASSUME NEW p \in Inside \ moved
        PROVE  flock[Bound] # None /\ flock[Bound] = proc[p].fd /\ descr[flock[Bound]].by = p
    <3>1. ProcOK(p) /\ PlaceOK(p) /\ proc[p].pc = "inside"
      BY <2>1 DEF Inside, IInv, Places
    <3>2. proc[p].fd # None /\ ~proc[p].hook /\ descr[proc[p].fd].ino = Bound
      BY <2>1, <3>1 DEF ProcOK, PlaceOK, Ino
    <3> QED BY <3>1, <3>2 DEF ProcOK
  <2> QED BY <2>1 DEF OneInside
<1> QED BY <1>1, <1>2, <1>3 DEF FileLeaseInv

\* Whatever is forked, killed or moved, a lease that has passed flock is the lock of
\* its inode, and one process at most is past begin's checks: the one that opened
\* the description which locks the anchored file (FileLease.acquire, verify and the
\* hooks at a fork).  Processes are excused from the second part if the lock file
\* was moved between their check of the anchor and their check of the lease.
THEOREM LeaseInvariant == ASSUME Setting PROVE Spec => []FileLeaseInv
<1>1. IInv /\ Places => FileLeaseInv BY IInvImplies
<1> QED BY <1>1, Safety, PTL

Owner == IF flock[Bound] = None THEN None ELSE descr[flock[Bound]].by

Working == Inside \ moved

LEMMA LetGoImplements ==
  ASSUME Setting, IInv, Places, NEW p \in Proc, NEW new, Without(new), LetGo(p, new)
  PROVE  [Lease!Next]_(Lease!vars)
<1>1. TypeOK /\ OneInside BY IInvImplies DEF IInv, FileLeaseInv
<1>2. proc'[p] = new /\ \A q \in Proc : q # p => proc'[q] = proc[q]
  BY <1>1 DEF LetGo, TypeOK
<1>3. Working' = Working \ {p} BY <1>2 DEF Working, Inside, Without, LetGo
<1> DEFINE d == flock[Bound]
<1>4. flock'[Bound] = IF d # None /\ d = proc[p].fd /\ descr[d].of = {p} THEN None ELSE d
  BY Closing DEF Setting
<1>5. CASE d # None /\ d = proc[p].fd /\ descr[d].of = {p}
  <2>1. d \in Descr /\ descr[d].by \in Proc
    BY <1>1, <1>5 DEF TypeOK, Setting, IInv, DescrOK
  <2>2. Owner = descr[d].by /\ Owner' = None BY <1>4, <1>5 DEF Owner
  <2>3. Working \subseteq {p}
    <3>1. ASSUME NEW q \in Working PROVE q = p
      <4>1. q \in Proc /\ proc[q].fd = d BY <1>1 DEF Working, Inside, OneInside
      <4>2. q \in descr[d].of BY <1>5, <4>1 DEF IInv, ProcOK
      <4> QED BY <1>5, <4>2
    <3> QED BY <3>1
  <2>4. Working' = {} BY <1>3, <2>3
  <2>5. Lease!Release(descr[d].by) BY <2>2, <2>4 DEF Lease!Release, Owner, Working
  <2> QED BY <2>1, <2>5 DEF Lease!Next
<1>6. CASE ~(d # None /\ d = proc[p].fd /\ descr[d].of = {p})
  <2>1. flock'[Bound] = flock[Bound] BY <1>4, <1>6
  <2>2. d # None => descr'[d].by = descr[d].by
    <3>1. ASSUME d # None PROVE descr'[d].by = descr[d].by
      <4>1. d \in Descr /\ descr[d] \in Description BY <1>1, <3>1 DEF TypeOK, Setting
      <4>2. CASE d # proc[p].fd BY <4>1, <4>2, Closing
      <4>3. CASE d = proc[p].fd
        <5>1. descr[d].of # {p} BY <1>6, <3>1, <4>3
        <5>2. descr'[d] = [descr[d] EXCEPT !.of = @ \ {p}] BY <4>1, <4>3, <5>1, Closing
        <5> QED BY <4>1, <5>2 DEF Description
      <4> QED BY <4>2, <4>3
    <3> QED BY <3>1
  <2>3. Owner' = Owner BY <2>1, <2>2 DEF Owner
  <2>4. Lease!Stop(p) BY <1>3, <2>3 DEF Lease!Stop, Owner, Working
  <2> QED BY <2>4 DEF Lease!Next
<1> QED BY <1>5, <1>6

LEMMA LeaseStep ==
  ASSUME Setting, IInv, Places, [Next]_vars
  PROVE  [Lease!Next]_(Lease!vars)
<1>1. TypeOK /\ OneInside BY IInvImplies DEF IInv, FileLeaseInv
<1>2. flock[Bound] \in Descr \cup {None} BY <1>1 DEF TypeOK, Setting
<1>3. flock[Bound] # None => descr[flock[Bound]].ino = Bound /\ descr[flock[Bound]].of # {}
  BY DEF IInv, LockOK, Setting
<1>4. ASSUME Owner' = Owner, Working' = Working PROVE [Lease!Next]_(Lease!vars)
  BY <1>4 DEF Lease!vars, Owner, Working
<1>5. ASSUME NEW p \in Proc, Open(p) PROVE [Lease!Next]_(Lease!vars)
  <2>1. PICK d \in Descr :
          /\ descr[d] = Unused
          /\ descr' = [descr EXCEPT ![d] = [ino |-> path, by |-> p, of |-> {p}]]
          /\ Step(p, [proc[p] EXCEPT !.pc = "lock", !.fd = d])
    BY <1>5 DEF Open
  <2>2. flock[Bound] # None => flock[Bound] # d BY <1>3, <2>1 DEF Unused
  <2>3. Owner' = Owner BY <1>1, <1>2, <1>5, <2>1, <2>2 DEF Owner, Open, TypeOK
  <2>4. proc[p] \in Process /\ proc[p].pc = "idle" BY <1>1, <1>5 DEF TypeOK, Open, At
  <2>5. proc'[p].pc = "lock" /\ \A q \in Proc : q # p => proc'[q] = proc[q]
    BY <1>1, <2>1, <2>4 DEF Step, TypeOK, Process
  <2>6. Working' = Working BY <1>5, <2>4, <2>5 DEF Working, Inside, Open
  <2> QED BY <1>4, <2>3, <2>6
<1>6. ASSUME NEW p \in Proc, At(p, "lock"), flock[Ino(p)] = None,
             flock' = [flock EXCEPT ![Ino(p)] = proc[p].fd],
             Step(p, [proc[p] EXCEPT !.pc = "check"]), UNCHANGED <<path, descr, hands, moved>>
      PROVE  [Lease!Next]_(Lease!vars)
  <2>1. proc[p] \in Process /\ proc[p].pc = "lock" /\ ProcOK(p) /\ ~proc[p].hook
    BY <1>1, <1>6 DEF TypeOK, At, IInv
  <2>2. proc[p].fd # None BY <2>1 DEF ProcOK
  <2>3. descr[proc[p].fd].by = p BY <2>1, <2>2 DEF ProcOK
  <2>4. proc'[p].pc = "check" /\ \A q \in Proc : q # p => proc'[q] = proc[q]
    BY <1>1, <1>6, <2>1 DEF Step, TypeOK, Process
  <2>5. Working' = Working BY <1>6, <2>1, <2>4 DEF Working, Inside
  <2>6. CASE Ino(p) = Bound
    <3>1. flock'[Bound] = proc[p].fd /\ flock[Bound] = None
      BY <1>1, <1>6, <2>6 DEF TypeOK, Setting
    <3>2. Owner = None /\ Owner' = p BY <1>6, <2>2, <2>3, <3>1 DEF Owner
    <3>3. Lease!Acquire(p) BY <2>5, <3>2 DEF Lease!Acquire, Owner, Working
    <3> QED BY <3>3 DEF Lease!Next
  <2>7. CASE Ino(p) # Bound
    <3>1. flock'[Bound] = flock[Bound] BY <1>1, <1>6, <2>7 DEF TypeOK, Setting
    <3>2. Owner' = Owner BY <1>6, <3>1 DEF Owner
    <3> QED BY <1>4, <2>5, <3>2
  <2> QED BY <2>6, <2>7
<1>7. ASSUME NEW p \in Proc, At(p, "check"),
             Step(p, [proc[p] EXCEPT !.pc = "held", !.listed = TRUE, !.pid = p]),
             UNCHANGED <<path, flock, descr, hands, moved>>
      PROVE  [Lease!Next]_(Lease!vars)
  <2>1. proc[p] \in Process /\ proc[p].pc = "check" BY <1>1, <1>7 DEF TypeOK, At
  <2>2. proc'[p].pc = "held" /\ \A q \in Proc : q # p => proc'[q] = proc[q]
    BY <1>1, <1>7, <2>1 DEF Step, TypeOK, Process
  <2>3. Working' = Working BY <1>7, <2>1, <2>2 DEF Working, Inside
  <2>4. Owner' = Owner BY <1>7 DEF Owner
  <2> QED BY <1>4, <2>3, <2>4
<1>8. ASSUME NEW p \in Proc, At(p, "held"), Step(p, [proc[p] EXCEPT !.pc = "anchored"]),
              UNCHANGED <<path, flock, descr, hands, moved>>
       PROVE  [Lease!Next]_(Lease!vars)
  <2>1. proc[p] \in Process /\ proc[p].pc = "held" BY <1>1, <1>8 DEF TypeOK, At
  <2>2. proc'[p].pc = "anchored" /\ \A q \in Proc : q # p => proc'[q] = proc[q]
    BY <1>1, <1>8, <2>1 DEF Step, TypeOK, Process
  <2>3. Working' = Working BY <1>8, <2>1, <2>2 DEF Working, Inside
  <2>4. Owner' = Owner BY <1>8 DEF Owner
  <2> QED BY <1>4, <2>3, <2>4
<1>9. ASSUME NEW p \in Proc, At(p, "anchored"), Verified(p),
             Step(p, [proc[p] EXCEPT !.pc = "inside"]), UNCHANGED <<path, flock, descr, hands, moved>>
      PROVE  [Lease!Next]_(Lease!vars)
  <2>1. /\ proc[p] \in Process /\ proc[p].pc = "anchored" /\ ProcOK(p) /\ PlaceOK(p)
        /\ ~proc[p].hook /\ proc[p].fd # None
    BY <1>1, <1>9 DEF TypeOK, At, IInv, Places, Verified
  <2>2. Owner' = Owner BY <1>9 DEF Owner
  <2>3. proc'[p].pc = "inside" /\ \A q \in Proc : q # p => proc'[q] = proc[q]
    BY <1>1, <1>9, <2>1 DEF Step, TypeOK, Process
  <2>4. CASE p \in moved
    <3>1. Working' = Working BY <1>9, <2>3, <2>4 DEF Working, Inside
    <3> QED BY <1>4, <2>2, <3>1
  <2>5. CASE p \notin moved
    <3>1. descr[proc[p].fd].ino = Bound BY <1>9, <2>1, <2>5 DEF PlaceOK, Verified, Ino
    <3>2. flock[Bound] = proc[p].fd /\ descr[proc[p].fd].by = p BY <2>1, <3>1 DEF ProcOK
    <3>3. Working' = Working \cup {p} BY <1>9, <2>3, <2>5 DEF Working, Inside
    <3>4. Working \subseteq {p} BY <1>1, <3>2 DEF Working, OneInside
    <3>5. Working' = {p} BY <3>3, <3>4
    <3>6. Owner = p BY <2>1, <3>2 DEF Owner
    <3>7. Lease!Work(p) BY <2>2, <3>5, <3>6 DEF Lease!Work, Owner, Working
    <3> QED BY <3>7 DEF Lease!Next
  <2> QED BY <2>4, <2>5
<1>10. ASSUME NEW p \in Proc, NEW c \in Proc, Fork(p, c) PROVE [Lease!Next]_(Lease!vars)
  <2>1. ProcOK(c) /\ proc[c].life = "unborn" /\ proc[p] \in Process
    BY <1>1, <1>10 DEF IInv, Fork, TypeOK
  <2>2. proc[c].pc = "idle" BY <2>1 DEF ProcOK
  <2>3. Child(p).pc \in {"idle", "held", "anchored"} BY <2>1 DEF Child, Process
  <2>4. proc'[c] = Child(p) /\ \A q \in Proc : q # c => proc'[q] = proc[q]
    BY <1>1, <1>10 DEF Fork, TypeOK
  <2>5. Working' = Working BY <1>10, <2>2, <2>3, <2>4 DEF Working, Inside, Fork
  <2>6. flock[Bound] # None => descr'[flock[Bound]].by = descr[flock[Bound]].by
    <3>1. ASSUME NEW d \in Descr PROVE descr'[d].by = descr[d].by
      <4>1. descr[d] \in Description BY <1>1 DEF TypeOK
      <4>2. descr'[d] = [descr[d] EXCEPT !.of = @ \cup {c}] \/ descr'[d] = descr[d]
        BY <1>10 DEF Fork
      <4> QED BY <4>1, <4>2 DEF Description
    <3> QED BY <1>2, <3>1
  <2>7. Owner' = Owner BY <1>10, <2>6 DEF Owner, Fork
  <2> QED BY <1>4, <2>5, <2>7
<1>11. CASE Move
  <2>1. Owner' = Owner /\ Working' = Working BY <1>11 DEF Move, Owner, Working, Inside
  <2> QED BY <1>4, <2>1
<1>12. CASE UNCHANGED vars
  <2>1. Owner' = Owner /\ Working' = Working BY <1>12 DEF vars, Owner, Working, Inside
  <2> QED BY <1>4, <2>1
<1>13. CASE Next
  BY <1>5, <1>6, <1>7, <1>8, <1>9, <1>10, <1>11, <1>13, StepCases, LetGoImplements
<1> QED BY <1>12, <1>13

\* The lock of the anchored file is an exclusive lease: one owner at a time, passed
\* on only after it was given up, and work under it only by its owner, with any
\* number of processes, forks, deaths and moved files; the work of a process whose two
\* checks the operator's hand came between is excused (send_files.py FileLease).
THEOREM LeaseImplemented == ASSUME Setting PROVE Spec => LeaseSpec
<1>1. Init => Lease!Init
  <2>1. ASSUME Init PROVE Owner = None /\ Working = {}
    BY <2>1 DEF Init, Owner, Working, Inside, Running, Unborn, Setting
  <2> QED BY <2>1 DEF Lease!Init, Owner, Working
<1>2. IInv /\ Places /\ [Next]_vars => [Lease!Next]_(Lease!vars) BY LeaseStep
<1> QED BY <1>1, <1>2, Safety, PTL DEF Spec, LeaseSpec, Lease!Spec

-----------------------------------------------------------------------------
(* The identity of the files: the inductive invariant *)

\* What was permitted, and the database an anchor names.
Memory == {a \in Attempt : allowed[a] > 0}
Named(d) == anchor # None /\ anchor.fmt # 0 /\ anchor.ino = d.ino

\* The database the anchor names, or any before there is an anchor, remembers
\* every attempt that was permitted.  Every inode was made.
FilesOK ==
  /\ anchor = None => moves = 0 /\ (db = None => Memory = {})
  /\ db # None /\ (anchor = None \/ Named(db)) => Memory \subseteq Ledger!Rows(db)
  /\ db # None => db.ino <= inodes
  /\ anchor # None /\ anchor.fmt # 0 => anchor.ino \in Ledger!InodeNo /\ anchor.ino <= inodes

\* What a transaction knows of the file it opened: it works on what the file
\* holds, nothing that is there gets lost, and from the checks on it remembers
\* every attempt that was permitted, so the one it adds is new.
HolderOK(p) ==
  LET s == process[p]
      w == s.work
      kept == Memory \subseteq Ledger!Rows(w) IN
  /\ s.known # None => s.known <= inodes
  /\ s.pc \in {"idle", "open"} => w = None
  /\ s.pc \notin {"idle", "open"} =>
       /\ w # None /\ w.ino = s.known
       /\ db # None /\ db.ino = w.ino
              => Ledger!Rows(db) \subseteq Ledger!Rows(w) /\ db.done \subseteq w.done
  /\ s.pc \in {"validate", "dispatch", "anchor", "fill", "body"} =>
       (db # None /\ db.ino = w.ino => Ledger!Rows(db) = Ledger!Rows(w))
  /\ s.pc = "validate" /\ (anchor = None \/ Named(w)) => kept
  /\ s.pc \in {"dispatch", "anchor"} /\ (anchor = None \/ s.from = 3) => kept
  /\ s.pc \in {"fill", "body", "commit", "after"} => kept
  /\ s.pc = "fill" => anchor = Ledger!Blank
  /\ s.pc \in {"commit", "after"}
         => s.want \notin Memory /\ (s.want # None => s.want \in Ledger!Rows(w))
  /\ s.pc = "after" => (db # None /\ db.ino = w.ino => db = w)

Holders == \A p \in Opener : HolderOK(p)

LedgerIInv == Ledger!TypeOK /\ Ledger!NeverPermittedAgain /\ FilesOK /\ Holders

\* The two action properties, for one step.
Kept ==
  db # None /\ moves' = moves =>
    /\ db' # None /\ db'.ino = db.ino
    /\ Ledger!Rows(db) \subseteq Ledger!Rows(db') /\ db.done \subseteq db'.done
Stands ==
  anchor # None =>
    /\ anchor' # None
    /\ \/ anchor'.ino = anchor.ino /\ anchor'.uuid = anchor.uuid
       \/ anchor = Ledger!Blank /\ \E p \in Opener : Ledger!At(p, "fill")

Sound == LedgerIInv' /\ Kept /\ Stands

-----------------------------------------------------------------------------
(* The holder of the guard and the others *)

LEMMA LedgerNumbers ==
  ASSUME Ledger!Setting
  PROVE
  /\ MaxInode \in Nat /\ 1 <= MaxInode /\ MaxCrashes \in Nat /\ MaxMoves \in Nat
  /\ None \notin Opener /\ None \notin Attempt /\ None \notin Ledger!InodeNo
  /\ None \notin Ledger!Database /\ None \notin Ledger!Anchor
BY DEF Ledger!Setting

LEMMA FreshIsProcess == Ledger!Fresh \in Ledger!Process
BY DEF Ledger!Fresh, Ledger!Process, Ledger!PC

\* A transaction's step leaves the others idle and typed, however far the inodes
\* have come.
LEMMA OthersRest ==
  ASSUME Ledger!Setting, LedgerIInv, NEW p \in Opener, guard \in {None, p},
         NEW rec \in Ledger!Process, process' = [process EXCEPT ![p] = rec],
         guard' = IF rec.pc = "idle" THEN None ELSE p,
         inodes' \in 0 .. MaxInode, inodes <= inodes'
  PROVE /\ process'[p] = rec
        /\ process' \in [Opener -> Ledger!Process]
        /\ guard' \in Opener \cup {None}
        /\ \A q \in Opener : guard' = q <=> process'[q].pc # "idle"
        /\ \A q \in Opener : q # p => HolderOK(q)'
<1>1. process \in [Opener -> Ledger!Process] /\ inodes \in Nat /\ inodes' \in Nat
  BY LedgerNumbers DEF LedgerIInv, Ledger!TypeOK
<1>2. process'[p] = rec /\ \A q \in Opener : q # p => process'[q] = process[q]
  BY <1>1
<1>3. process' \in [Opener -> Ledger!Process]
  BY <1>1
<1>4. \A q \in Opener : q # p => process[q].pc = "idle"
  BY LedgerNumbers DEF LedgerIInv, Ledger!TypeOK
<1>5. \A q \in Opener : guard' = q <=> process'[q].pc # "idle"
  BY <1>2, <1>4, LedgerNumbers
<1>6. ASSUME NEW q \in Opener, q # p PROVE HolderOK(q)'
  <2>1. /\ process'[q].pc = "idle" /\ process'[q].work = None
        /\ process'[q].known # None => process'[q].known <= inodes
        /\ process'[q].known \in Ledger!InodeNo \cup {None}
    BY <1>1, <1>2, <1>4, <1>6 DEF LedgerIInv, Holders, HolderOK, Ledger!Process
  <2>2. process'[q].known # None => process'[q].known <= inodes'
    BY <1>1, <2>1 DEF Ledger!InodeNo
  <2> QED BY <2>1, <2>2 DEF HolderOK
<1> QED BY <1>2, <1>3, <1>5, <1>6

\* A step of the holder is sound if it keeps the files and its own view of them in
\* order.
LEMMA FileStep ==
  ASSUME Ledger!Setting, LedgerIInv, NEW p \in Opener, guard \in {None, p},
         NEW rec \in Ledger!Process, process' = [process EXCEPT ![p] = rec],
         guard' = IF rec.pc = "idle" THEN None ELSE p,
         inodes' \in 0 .. MaxInode, inodes <= inodes',
         db' \in Ledger!Database \cup {None}, anchor' \in Ledger!Anchor \cup {None},
         disp' \in Ledger!InodeNo \cup {None}, UNCHANGED Ledger!operator,
         allowed' \in [Attempt -> Nat], Ledger!NeverPermittedAgain',
         process'[p] = rec => HolderOK(p)', FilesOK', Kept, Stands
  PROVE Sound
<1>1. /\ process'[p] = rec
      /\ process' \in [Opener -> Ledger!Process]
      /\ guard' \in Opener \cup {None}
      /\ \A q \in Opener : guard' = q <=> process'[q].pc # "idle"
      /\ \A q \in Opener : q # p => HolderOK(q)'
  BY OthersRest
<1>2. Ledger!TypeOK'
  BY <1>1 DEF LedgerIInv, Ledger!TypeOK, Ledger!operator
<1>3. Holders'
  BY <1>1 DEF Holders
<1> QED BY <1>2, <1>3 DEF Sound, LedgerIInv

\* One that touches none leaves them in order.
LEMMA QuietStep ==
  ASSUME Ledger!Setting, LedgerIInv, NEW p \in Opener, guard \in {None, p},
         NEW rec \in Ledger!Process, process' = [process EXCEPT ![p] = rec],
         guard' = IF rec.pc = "idle" THEN None ELSE p,
         UNCHANGED <<db, anchor, Ledger!operator, inodes, allowed>>,
         disp' \in Ledger!InodeNo \cup {None},
         process'[p] = rec => HolderOK(p)'
  PROVE Sound
<1>1. inodes' \in 0 .. MaxInode /\ inodes <= inodes'
  BY LedgerNumbers DEF LedgerIInv, Ledger!TypeOK
<1>2. /\ db' \in Ledger!Database \cup {None} /\ anchor' \in Ledger!Anchor \cup {None}
      /\ allowed' \in [Attempt -> Nat]
  BY DEF LedgerIInv, Ledger!TypeOK
<1>3. Ledger!NeverPermittedAgain' /\ FilesOK'
  BY DEF LedgerIInv, Ledger!NeverPermittedAgain, FilesOK, Memory, Named, Ledger!operator
<1>4. Kept /\ Stands
  BY DEF Kept, Stands, Ledger!operator
<1> QED BY <1>1, <1>2, <1>3, <1>4, FileStep

LEMMA FailSound ==
  ASSUME Ledger!Setting, LedgerIInv, NEW p \in Opener, guard = p, Ledger!Fail(p)
  PROVE Sound
<1> DEFINE rec == [Ledger!Fresh EXCEPT !.known = process[p].known]
<1>1. process[p] \in Ledger!Process /\ HolderOK(p)
  BY DEF LedgerIInv, Ledger!TypeOK, Holders
<1>2. rec \in Ledger!Process /\ rec.pc = "idle" /\ rec.work = None /\ rec.known = process[p].known
  BY <1>1 DEF Ledger!Fresh, Ledger!Process, Ledger!PC
<1>3. /\ process' = [process EXCEPT ![p] = rec] /\ guard' = None
      /\ UNCHANGED <<db, anchor, Ledger!operator, inodes, allowed>> /\ disp' = disp
  BY DEF Ledger!Fail, Ledger!Leave, Ledger!files
<1>4. disp' \in Ledger!InodeNo \cup {None}
  BY <1>3 DEF LedgerIInv, Ledger!TypeOK
<1>5. ASSUME process'[p] = rec PROVE HolderOK(p)'
  BY <1>1, <1>2, <1>3, <1>5 DEF HolderOK
<1> HIDE DEF rec
<1> QED BY <1>2, <1>3, <1>4, <1>5, QuietStep

LEMMA TakeGuardSound ==
  ASSUME Ledger!Setting, LedgerIInv, NEW p \in Opener, Ledger!TakeGuard(p)
  PROVE Sound
<1> DEFINE rec == [process[p] EXCEPT !.pc = "open"]
<1>1. process[p] \in Ledger!Process /\ HolderOK(p) /\ guard = None /\ process[p].pc = "idle"
  BY LedgerNumbers DEF LedgerIInv, Ledger!TypeOK, Holders, Ledger!TakeGuard
<1>2. /\ rec \in Ledger!Process /\ rec.pc = "open"
      /\ rec.work = process[p].work /\ rec.known = process[p].known
  BY <1>1 DEF Ledger!Process, Ledger!PC
<1>3. /\ process' = [process EXCEPT ![p] = rec] /\ guard' = p
      /\ UNCHANGED <<db, anchor, Ledger!operator, inodes, allowed>> /\ disp' = disp
  BY DEF Ledger!TakeGuard, Ledger!files
<1>4. disp' \in Ledger!InodeNo \cup {None}
  BY <1>3 DEF LedgerIInv, Ledger!TypeOK
<1>5. ASSUME process'[p] = rec PROVE HolderOK(p)'
  BY <1>1, <1>2, <1>3, <1>5 DEF HolderOK
<1> HIDE DEF rec
<1> QED BY <1>1, <1>2, <1>3, <1>4, <1>5, QuietStep

-----------------------------------------------------------------------------
(* The steps of a transaction *)

\* What a step of the holder may rely on.
LEMMA HolderFacts ==
  ASSUME Ledger!Setting, LedgerIInv, NEW p \in Opener, guard = p
  PROVE /\ process[p] \in Ledger!Process /\ HolderOK(p)
        /\ db \in Ledger!Database \cup {None} /\ anchor \in Ledger!Anchor \cup {None}
        /\ disp \in Ledger!InodeNo \cup {None} /\ inodes \in 0 .. MaxInode /\ inodes \in Nat
        /\ FilesOK
BY LedgerNumbers DEF LedgerIInv, Ledger!TypeOK, Holders

\* A file that was just made is empty, and no ledger before it was permitted anything.
LEMMA CreateSound ==
  ASSUME Ledger!Setting, LedgerIInv, NEW p \in Opener, Ledger!At(p, "open"), db = None,
         Ledger!MayCreate(p), inodes < MaxInode,
         inodes' = inodes + 1,
         db' = [ino |-> inodes + 1, ver |-> 0, uuid |-> None, open |-> {}, done |-> {}],
         Ledger!Step(p, [process[p] EXCEPT !.pc = "validate", !.known = db'.ino, !.work = db']),
         UNCHANGED <<anchor, disp, Ledger!operator, allowed>>
  PROVE Sound
<1> DEFINE rec == [process[p] EXCEPT !.pc = "validate", !.known = db'.ino, !.work = db']
<1>1. /\ process[p] \in Ledger!Process /\ HolderOK(p) /\ FilesOK /\ inodes \in Nat
      /\ inodes + 1 \in Ledger!InodeNo /\ guard = p /\ anchor = None
  BY HolderFacts, LedgerNumbers DEF Ledger!At, Ledger!MayCreate, Ledger!InodeNo
<1>2. db' \in Ledger!Database /\ db' # None /\ Ledger!Rows(db') = {} /\ db'.ino = inodes + 1
  BY <1>1, LedgerNumbers DEF Ledger!Database, Ledger!Rows
<1>3. /\ rec \in Ledger!Process /\ rec.pc = "validate" /\ rec.known = inodes + 1
      /\ rec.work = db'
  BY <1>1, <1>2 DEF Ledger!Process, Ledger!PC
<1>4. process' = [process EXCEPT ![p] = rec] /\ guard' = p
  BY <1>1 DEF Ledger!Step
<1>5. inodes' \in 0 .. MaxInode /\ inodes <= inodes'
  BY <1>1, LedgerNumbers
<1> HIDE DEF rec
<1>6. Memory' = {} /\ Memory = {}
  BY <1>1 DEF FilesOK, Memory
<1>7. ASSUME process'[p] = rec PROVE HolderOK(p)'
  <2>1. inodes + 1 <= inodes'
    BY <1>1
  <2>2. Ledger!Rows(db') \subseteq Ledger!Rows(db') /\ db'.done \subseteq db'.done
    OBVIOUS
  <2> QED BY <1>2, <1>3, <1>6, <1>7, <2>1, <2>2 DEF HolderOK
<1>8. FilesOK'
  BY <1>1, <1>2, <1>6 DEF FilesOK, Named, Ledger!operator
<1>9. /\ anchor' \in Ledger!Anchor \cup {None} /\ disp' \in Ledger!InodeNo \cup {None}
      /\ allowed' \in [Attempt -> Nat] /\ Ledger!NeverPermittedAgain'
  BY DEF LedgerIInv, Ledger!TypeOK, Ledger!NeverPermittedAgain
<1>10. Kept /\ Stands
  BY <1>1 DEF Kept, Stands
<1> QED BY <1>1, <1>2, <1>3, <1>4, <1>5, <1>7, <1>8, <1>9, <1>10, FileStep

LEMMA OpenDatabaseSound ==
  ASSUME Ledger!Setting, LedgerIInv, NEW p \in Opener, Ledger!OpenDatabase(p)
  PROVE Sound
<1>1. CASE /\ db = None /\ Ledger!MayCreate(p) /\ inodes < MaxInode
           /\ inodes' = inodes + 1
           /\ db' = [ino |-> inodes + 1, ver |-> 0, uuid |-> None, open |-> {}, done |-> {}]
           /\ Ledger!Step(p, [process[p] EXCEPT !.pc = "validate", !.known = db'.ino, !.work = db'])
           /\ UNCHANGED <<anchor, disp, Ledger!operator, allowed>>
  BY <1>1, CreateSound DEF Ledger!OpenDatabase
<1>2. CASE /\ db # None /\ process[p].known \in {None, db.ino}
           /\ Ledger!Step(p, [process[p] EXCEPT !.pc = "validate", !.known = db.ino, !.work = db])
           /\ UNCHANGED <<Ledger!files, Ledger!operator, inodes, allowed>>
  <2> DEFINE rec == [process[p] EXCEPT !.pc = "validate", !.known = db.ino, !.work = db]
  <2>1. guard = p
    BY DEF Ledger!OpenDatabase, Ledger!At
  <2>2. /\ process[p] \in Ledger!Process /\ HolderOK(p) /\ FilesOK /\ db \in Ledger!Database
        /\ disp \in Ledger!InodeNo \cup {None}
    BY <1>2, <2>1, HolderFacts
  <2>3. /\ rec \in Ledger!Process /\ rec.pc = "validate" /\ rec.work = db /\ rec.known = db.ino
    BY <2>2 DEF Ledger!Process, Ledger!PC, Ledger!Database
  <2>4. /\ process' = [process EXCEPT ![p] = rec] /\ guard' = p
        /\ UNCHANGED <<db, anchor, Ledger!operator, inodes, allowed>> /\ disp' = disp
    BY <1>2, <2>1 DEF Ledger!Step, Ledger!files
  <2> HIDE DEF rec
  <2>5. ASSUME process'[p] = rec PROVE HolderOK(p)'
    <3>1. anchor = None \/ Named(db) => Memory \subseteq Ledger!Rows(db)
      BY <1>2, <2>2 DEF FilesOK
    <3>2. Memory' = Memory /\ (Named(db) <=> Named(db)')
      BY <2>4 DEF Memory, Named
    <3>3. db.ino <= inodes
      BY <1>2, <2>2 DEF FilesOK
    <3> QED BY <1>2, <2>3, <2>4, <2>5, <3>1, <3>2, <3>3 DEF HolderOK, Named
  <2> QED BY <2>1, <2>2, <2>3, <2>4, <2>5, QuietStep
<1>3. CASE Ledger!Fail(p)
  BY <1>3, FailSound DEF Ledger!OpenDatabase, Ledger!At
<1> QED BY <1>1, <1>2, <1>3 DEF Ledger!OpenDatabase

\* A step that leaves the files alone, except perhaps for the lock file, and goes on.
LEMMA GoOn ==
  ASSUME Ledger!Setting, LedgerIInv, NEW p \in Opener, guard = p,
         NEW rec \in Ledger!Process, rec.pc # "idle", Ledger!Step(p, rec),
         UNCHANGED <<db, anchor, Ledger!operator, inodes, allowed>>,
         disp' \in Ledger!InodeNo \cup {None},
         process'[p] = rec => HolderOK(p)'
  PROVE Sound
BY QuietStep DEF Ledger!Step

\* Adoption keeps the rows.
LEMMA AdoptedRows ==
  ASSUME Ledger!Setting, NEW d \in Ledger!Database, NEW u \in Ledger!Uuid \cup {None}
  PROVE /\ Ledger!Adopted(d, u) \in Ledger!Database
        /\ Ledger!Adopted(d, u).ino = d.ino
        /\ Ledger!Rows(Ledger!Adopted(d, u)) = Ledger!Rows(d)
        /\ Ledger!Adopted(d, u).done = d.done
BY DEF Ledger!Adopted, Ledger!Database, Ledger!Rows

\* An anchor that was written names its database.
LEMMA Anchors ==
  ASSUME Ledger!Setting, NEW d \in Ledger!Database
  PROVE /\ disp \in Ledger!InodeNo => Ledger!NewAnchor(d) \in Ledger!Anchor
        /\ disp \in Ledger!InodeNo => Ledger!NewAnchor(d) # None
        /\ Ledger!NewAnchor(d).fmt = 2
        /\ Ledger!NewAnchor(d).ino = d.ino /\ Ledger!NewAnchor(d).uuid = d.uuid
        /\ Ledger!OldAnchor(d) \in Ledger!Anchor /\ Ledger!OldAnchor(d) # None
        /\ Ledger!OldAnchor(d).fmt = 1 /\ Ledger!OldAnchor(d).ino = d.ino
        /\ Ledger!OldAnchor(d).uuid = d.uuid
        /\ Ledger!Blank \in Ledger!Anchor /\ Ledger!Blank # None /\ Ledger!Blank.fmt = 0
<1>1. disp \in Ledger!InodeNo => Ledger!NewAnchor(d) \in Ledger!Anchor
  BY DEF Ledger!NewAnchor, Ledger!Anchor, Ledger!Database
<1>2. Ledger!OldAnchor(d) \in Ledger!Anchor /\ Ledger!Blank \in Ledger!Anchor
  BY DEF Ledger!OldAnchor, Ledger!Blank, Ledger!Anchor, Ledger!Database
<1> QED BY <1>1, <1>2, LedgerNumbers DEF Ledger!NewAnchor, Ledger!OldAnchor, Ledger!Blank

LEMMA ValidateSound ==
  ASSUME Ledger!Setting, LedgerIInv, NEW p \in Opener, Ledger!Validate(p)
  PROVE Sound
<1> DEFINE d == process[p].work
<1>1. guard = p /\ process[p].pc = "validate"
  BY DEF Ledger!Validate, Ledger!At
<1>2. /\ process[p] \in Ledger!Process /\ HolderOK(p) /\ disp \in Ledger!InodeNo \cup {None}
      /\ FilesOK
  BY <1>1, HolderFacts
<1>3. /\ d # None /\ d \in Ledger!Database /\ d.ino = process[p].known
      /\ db # None /\ db.ino = d.ino => Ledger!Rows(db) = Ledger!Rows(d) /\ db.done \subseteq d.done
      /\ anchor = None \/ Named(d) => Memory \subseteq Ledger!Rows(d)
      /\ process[p].known # None => process[p].known <= inodes
  BY <1>1, <1>2 DEF HolderOK, Ledger!Process
<1>4. CASE Ledger!Fail(p)
  BY <1>1, <1>4, FailSound
<1>5. CASE ~Ledger!Fail(p)
  <2>1. Ledger!Accepted(p, d) /\ UNCHANGED <<Ledger!files, Ledger!operator, inodes, allowed>>
    BY <1>5 DEF Ledger!Validate
  <2>2. UNCHANGED <<db, anchor, Ledger!operator, inodes, allowed>> /\ disp' = disp
    BY <2>1 DEF Ledger!files
  <2>3. Memory' = Memory
    BY <2>2 DEF Memory
  <2>4. CASE d.ver = 4 /\ Ledger!Step(p, [process[p] EXCEPT !.pc = "body", !.from = 4])
    <3> DEFINE rec == [process[p] EXCEPT !.pc = "body", !.from = 4]
    <3>1. /\ rec \in Ledger!Process /\ rec.pc = "body" /\ rec.work = d /\ rec.known = d.ino
      BY <1>2, <1>3 DEF Ledger!Process, Ledger!PC
    <3>2. Named(d)
      BY <1>2, <1>3, <2>1, <2>4, Anchors DEF Ledger!Accepted, Named
    <3> HIDE DEF rec
    <3>3. ASSUME process'[p] = rec PROVE HolderOK(p)'
      BY <1>3, <2>2, <2>3, <3>1, <3>2, <3>3 DEF HolderOK
    <3> QED BY <1>1, <1>2, <2>2, <2>4, <3>1, <3>3, GoOn DEF rec
  <2>5. CASE \E u \in Ledger!Uuid \cup {None}, from \in {0, 2, 3} :
               /\ from = 3 => Named(d)
               /\ Ledger!Step(p, [process[p] EXCEPT !.pc = "dispatch", !.from = from,
                                          !.work = Ledger!Adopted(d, u)])
    <3>1. PICK u \in Ledger!Uuid \cup {None}, from \in {0, 2, 3} :
            /\ from = 3 => Named(d)
            /\ Ledger!Step(p, [process[p] EXCEPT !.pc = "dispatch", !.from = from,
                                       !.work = Ledger!Adopted(d, u)])
      BY <2>5
    <3> DEFINE w == Ledger!Adopted(d, u)
               rec == [process[p] EXCEPT !.pc = "dispatch", !.from = from, !.work = w]
    <3>2. /\ w \in Ledger!Database /\ w.ino = d.ino /\ Ledger!Rows(w) = Ledger!Rows(d)
          /\ w.done = d.done
      BY <1>3, AdoptedRows
    <3> HIDE DEF w
    <3>3. /\ rec \in Ledger!Process /\ rec.pc = "dispatch" /\ rec.work = w /\ rec.known = d.ino
          /\ rec.from = from
      BY <1>2, <1>3, <3>2 DEF Ledger!Process, Ledger!PC
    <3>4. Ledger!Step(p, rec)
      BY <3>1 DEF w
    <3> HIDE DEF rec
    <3>5. ASSUME process'[p] = rec PROVE HolderOK(p)'
      <4>1. w # None
        BY <3>2, LedgerNumbers
      <4> QED BY <1>3, <2>2, <2>3, <3>1, <3>2, <3>3, <3>5, <4>1 DEF HolderOK
    <3> QED BY <1>1, <1>2, <2>2, <3>3, <3>4, <3>5, GoOn
  <2>6. CASE /\ d.ver = 3
             /\ Ledger!Step(p, [process[p] EXCEPT !.pc = "dispatch", !.from = 3,
                                        !.work = Ledger!Adopted(d, d.uuid)])
    <3>1. Named(d)
      BY <1>3, <2>1, <2>6, Anchors DEF Ledger!Accepted, Named
    <3>2. d.uuid \in Ledger!Uuid \cup {None}
      BY <1>3 DEF Ledger!Database
    <3> QED BY <2>5, <2>6, <3>1, <3>2
  <2>7. CASE /\ d.ver \in {0, 2} /\ Ledger!Unused # {}
             /\ LET uuid == CHOOSE u \in Ledger!Unused : TRUE IN
                Ledger!Step(p, [process[p] EXCEPT !.pc = "dispatch", !.from = d.ver,
                                        !.work = Ledger!Adopted(d, uuid)])
    <3> DEFINE uuid == CHOOSE u \in Ledger!Unused : TRUE
    <3>1. uuid \in Ledger!Unused
      BY <2>7
    <3>2. uuid \in Ledger!Uuid
      BY <3>1 DEF Ledger!Unused
    <3>3. Ledger!Step(p, [process[p] EXCEPT !.pc = "dispatch", !.from = d.ver,
                                  !.work = Ledger!Adopted(d, uuid)])
      BY <2>7
    <3> HIDE DEF uuid
    <3>4. d.ver \in {0, 2, 3} /\ d.ver # 3
      BY <2>7
    <3> HIDE DEF d
    <3> QED BY <2>5, <3>2, <3>3, <3>4
  <2> QED BY <1>5, <2>4, <2>6, <2>7 DEF Ledger!Validate
<1> QED BY <1>4, <1>5

LEMMA MakeDispatchFileSound ==
  ASSUME Ledger!Setting, LedgerIInv, NEW p \in Opener, Ledger!MakeDispatchFile(p)
  PROVE Sound
<1> DEFINE rec == [process[p] EXCEPT !.pc = "anchor"]
<1>1. guard = p /\ process[p].pc = "dispatch"
  BY DEF Ledger!MakeDispatchFile, Ledger!At
<1>2. /\ process[p] \in Ledger!Process /\ HolderOK(p) /\ disp \in Ledger!InodeNo \cup {None}
      /\ FilesOK /\ inodes \in Nat /\ inodes \in 0 .. MaxInode
  BY <1>1, HolderFacts
<1>3. /\ rec \in Ledger!Process /\ rec.pc = "anchor" /\ rec.work = process[p].work
      /\ rec.known = process[p].known /\ rec.from = process[p].from
  BY <1>2 DEF Ledger!Process, Ledger!PC
<1>4. /\ process' = [process EXCEPT ![p] = rec] /\ guard' = p
      /\ UNCHANGED <<db, anchor, Ledger!operator, allowed>>
  BY <1>1 DEF Ledger!MakeDispatchFile, Ledger!Step
<1>5. /\ inodes' \in 0 .. MaxInode /\ inodes <= inodes' /\ disp' \in Ledger!InodeNo \cup {None}
  <2>1. CASE UNCHANGED <<disp, inodes>>
    BY <1>2, <2>1
  <2>2. CASE inodes < MaxInode /\ inodes' = inodes + 1 /\ disp' = inodes + 1
    <3>1. inodes + 1 \in 0 .. MaxInode /\ inodes + 1 \in Ledger!InodeNo
      BY <1>2, <2>2, LedgerNumbers DEF Ledger!InodeNo
    <3> QED BY <1>2, <2>2, <3>1
  <2> QED BY <2>1, <2>2 DEF Ledger!MakeDispatchFile
<1> HIDE DEF rec
<1>6. Memory' = Memory /\ inodes' \in Nat
  BY <1>4, <1>5 DEF Memory
<1>7. ASSUME process'[p] = rec PROVE HolderOK(p)'
  <2>1. process[p].known \in Ledger!InodeNo \cup {None}
    BY <1>2 DEF Ledger!Process
  <2>2. process[p].known # None => process[p].known <= inodes'
    BY <1>2, <1>5, <1>6, <2>1 DEF HolderOK, Ledger!InodeNo
  <2> QED BY <1>1, <1>2, <1>3, <1>4, <1>6, <1>7, <2>2 DEF HolderOK
<1>8. /\ db' \in Ledger!Database \cup {None} /\ anchor' \in Ledger!Anchor \cup {None}
      /\ allowed' \in [Attempt -> Nat] /\ Ledger!NeverPermittedAgain'
  BY <1>4 DEF LedgerIInv, Ledger!TypeOK, Ledger!NeverPermittedAgain
<1>9. FilesOK'
  <2>1. db # None => db.ino \in Nat
    BY HolderFacts, <1>1 DEF Ledger!Database, Ledger!InodeNo
  <2>2. anchor # None /\ anchor.fmt # 0 => anchor.ino \in Nat
    BY <1>2 DEF FilesOK, Ledger!InodeNo
  <2>3. db # None => db.ino <= inodes'
    BY <1>2, <1>5, <1>6, <2>1 DEF FilesOK
  <2>4. anchor # None /\ anchor.fmt # 0 => anchor.ino <= inodes'
    BY <1>2, <1>5, <1>6, <2>2 DEF FilesOK
  <2> QED BY <1>2, <1>4, <1>6, <2>3, <2>4 DEF FilesOK, Named, Ledger!operator
<1>10. Kept /\ Stands
  BY <1>4 DEF Kept, Stands, Ledger!operator
<1> QED BY <1>1, <1>3, <1>4, <1>5, <1>7, <1>8, <1>9, <1>10, FileStep

\* The holder writes an anchor and goes on: it is sound if the anchor that was there
\* is kept or blank, and the new one blank or that of a ledger that remembers.
LEMMA AnchorStep ==
  ASSUME Ledger!Setting, LedgerIInv, NEW p \in Opener, guard = p, NEW next \in {"fill", "body"},
         process[p].pc \in {"anchor", "fill"},
         Ledger!Step(p, [process[p] EXCEPT !.pc = next]),
         UNCHANGED <<db, disp, Ledger!operator, inodes, allowed>>,
         Memory \subseteq Ledger!Rows(process[p].work), Stands,
         \/ next = "fill" /\ anchor' = Ledger!Blank
         \/ next = "body" /\ disp # None /\ anchor' = Ledger!NewAnchor(process[p].work)
  PROVE Sound
<1> DEFINE rec == [process[p] EXCEPT !.pc = next]
           w == process[p].work
<1>1. /\ process[p] \in Ledger!Process /\ HolderOK(p) /\ disp \in Ledger!InodeNo \cup {None}
      /\ FilesOK /\ inodes \in Nat /\ inodes \in 0 .. MaxInode
  BY HolderFacts
<1>2. /\ rec \in Ledger!Process /\ rec.pc = next /\ rec.work = w /\ rec.known = process[p].known
  BY <1>1 DEF Ledger!Process, Ledger!PC
<1>3. /\ w # None /\ w \in Ledger!Database /\ w.ino = process[p].known /\ w.ino <= inodes
      /\ w.ino \in Ledger!InodeNo
      /\ db # None /\ db.ino = w.ino => Ledger!Rows(db) = Ledger!Rows(w) /\ db.done \subseteq w.done
  <2>1. w # None /\ w.ino = process[p].known /\ w \in Ledger!Database
    BY <1>1 DEF HolderOK, Ledger!Process
  <2>2. w.ino \in Ledger!InodeNo /\ w.ino # None
    BY <2>1, LedgerNumbers DEF Ledger!Database
  <2>3. w.ino <= inodes
    BY <1>1, <2>1, <2>2 DEF HolderOK
  <2> QED BY <1>1, <2>1, <2>2, <2>3 DEF HolderOK
<1>4. process' = [process EXCEPT ![p] = rec] /\ guard' = p
  BY DEF Ledger!Step
<1>5. Memory' = Memory
  BY DEF Memory
<1>6. /\ anchor' \in Ledger!Anchor /\ anchor' # None
      /\ anchor'.fmt # 0 => anchor'.ino = w.ino
      /\ next = "fill" => anchor' = Ledger!Blank
  BY <1>1, <1>3, Anchors
<1> HIDE DEF rec
<1>7. ASSUME process'[p] = rec PROVE HolderOK(p)'
  <2>1. Memory \subseteq Ledger!Rows(w)
    OBVIOUS
  <2>2. next = "fill" => anchor' = Ledger!Blank
    BY <1>6
  <2> HIDE DEF w
  <2> QED BY <1>2, <1>3, <1>5, <1>7, <2>1, <2>2, LedgerNumbers DEF HolderOK, Ledger!Blank
<1>8. FilesOK'
  BY <1>1, <1>3, <1>5, <1>6 DEF FilesOK, Named
<1>9. /\ inodes' \in 0 .. MaxInode /\ inodes <= inodes'
      /\ db' \in Ledger!Database \cup {None} /\ disp' \in Ledger!InodeNo \cup {None}
      /\ allowed' \in [Attempt -> Nat] /\ Ledger!NeverPermittedAgain'
  BY <1>1 DEF LedgerIInv, Ledger!TypeOK, Ledger!NeverPermittedAgain
<1>10. Kept
  BY DEF Kept, Ledger!operator
<1> QED BY <1>2, <1>4, <1>6, <1>7, <1>8, <1>9, <1>10, FileStep

LEMMA CreateAnchorSound ==
  ASSUME Ledger!Setting, LedgerIInv, NEW p \in Opener, Ledger!CreateAnchor(p)
  PROVE Sound
<1>1. guard = p /\ process[p].pc = "anchor"
  BY DEF Ledger!CreateAnchor, Ledger!At
<1>2. CASE Ledger!Fail(p)
  BY <1>1, <1>2, FailSound
<1>3. CASE /\ anchor = None /\ anchor' = Ledger!Blank
           /\ Ledger!Step(p, [process[p] EXCEPT !.pc = "fill"])
           /\ UNCHANGED <<db, disp, Ledger!operator, inodes, allowed>>
  <2>1. Memory \subseteq Ledger!Rows(process[p].work)
    BY <1>1, <1>3, HolderFacts DEF HolderOK
  <2>2. Stands
    BY <1>3 DEF Stands
  <2> QED BY <1>1, <1>3, <2>1, <2>2, AnchorStep
<1> QED BY <1>2, <1>3 DEF Ledger!CreateAnchor

LEMMA FillAnchorSound ==
  ASSUME Ledger!Setting, LedgerIInv, NEW p \in Opener, Ledger!FillAnchor(p)
  PROVE Sound
<1>1. guard = p /\ process[p].pc = "fill"
  BY DEF Ledger!FillAnchor, Ledger!At
<1>2. CASE Ledger!Fail(p)
  BY <1>1, <1>2, FailSound
<1>3. CASE /\ disp # None /\ anchor' = Ledger!NewAnchor(process[p].work)
           /\ Ledger!Step(p, [process[p] EXCEPT !.pc = "body"])
           /\ UNCHANGED <<db, disp, Ledger!operator, inodes, allowed>>
  <2>1. /\ Memory \subseteq Ledger!Rows(process[p].work) /\ anchor = Ledger!Blank
        /\ process[p].work \in Ledger!Database /\ disp \in Ledger!InodeNo
    BY <1>1, <1>3, HolderFacts DEF HolderOK, Ledger!Process
  <2>2. Stands
    BY <1>1, <1>3, <2>1, Anchors DEF Stands, Ledger!At
  <2> QED BY <1>1, <1>3, <2>1, <2>2, AnchorStep
<1> QED BY <1>2, <1>3 DEF Ledger!FillAnchor

LEMMA ReplaceAnchorSound ==
  ASSUME Ledger!Setting, LedgerIInv, NEW p \in Opener, Ledger!ReplaceAnchor(p)
  PROVE Sound
<1>1. guard = p /\ process[p].pc = "anchor" /\ process[p].from = 3
  BY DEF Ledger!ReplaceAnchor, Ledger!At
<1>2. CASE Ledger!Fail(p)
  BY <1>1, <1>2, FailSound
<1>3. CASE /\ disp # None /\ anchor = Ledger!OldAnchor(process[p].work)
           /\ anchor' = Ledger!NewAnchor(process[p].work)
           /\ Ledger!Step(p, [process[p] EXCEPT !.pc = "body"])
           /\ UNCHANGED <<db, disp, Ledger!operator, inodes, allowed>>
  <2>1. /\ Memory \subseteq Ledger!Rows(process[p].work)
        /\ process[p].work \in Ledger!Database /\ disp \in Ledger!InodeNo
    BY <1>1, <1>3, HolderFacts DEF HolderOK, Ledger!Process
  <2>2. Stands
    BY <1>3, <2>1, Anchors DEF Stands
  <2> QED BY <1>1, <1>3, <2>1, <2>2, AnchorStep
<1> QED BY <1>2, <1>3 DEF Ledger!ReplaceAnchor

\* What the caller's statements make of the rows: they add, and only what is new.
LEMMA BodyStep ==
  ASSUME Ledger!Setting, LedgerIInv, NEW p \in Opener, guard = p, process[p].pc = "body",
         NEW w \in Ledger!Database, NEW want \in Attempt \cup {None},
         w.ino = process[p].work.ino, Ledger!Rows(process[p].work) \subseteq Ledger!Rows(w),
         process[p].work.done \subseteq w.done,
         want # None => want \in Ledger!Rows(w) /\ want \notin Ledger!Rows(process[p].work),
         Ledger!Step(p, [process[p] EXCEPT !.pc = "commit", !.work = w, !.want = want]),
         UNCHANGED <<Ledger!files, Ledger!operator, inodes, allowed>>
  PROVE Sound
<1> DEFINE rec == [process[p] EXCEPT !.pc = "commit", !.work = w, !.want = want]
<1>1. /\ process[p] \in Ledger!Process /\ HolderOK(p) /\ disp \in Ledger!InodeNo \cup {None}
      /\ w # None
  BY HolderFacts, LedgerNumbers
<1>2. /\ rec \in Ledger!Process /\ rec.pc = "commit" /\ rec.work = w /\ rec.known = process[p].known
      /\ rec.want = want
  BY <1>1 DEF Ledger!Process, Ledger!PC
<1>3. /\ UNCHANGED <<db, anchor, Ledger!operator, inodes, allowed>> /\ disp' = disp
      /\ Memory' = Memory
  BY DEF Ledger!files, Memory
<1> HIDE DEF rec
<1>4. ASSUME process'[p] = rec PROVE HolderOK(p)'
  <2>1. None \notin Memory
    BY LedgerNumbers DEF Memory
  <2>2. want \notin Memory
    BY <1>1, <2>1 DEF HolderOK
  <2> QED BY <1>1, <1>2, <1>3, <1>4, <2>2 DEF HolderOK
<1> QED BY <1>1, <1>2, <1>3, <1>4, GoOn DEF rec

LEMMA BodySound ==
  ASSUME Ledger!Setting, LedgerIInv, NEW p \in Opener, Ledger!Body(p)
  PROVE Sound
<1> DEFINE d == process[p].work
<1>1. /\ guard = p /\ process[p].pc = "body"
      /\ UNCHANGED <<Ledger!files, Ledger!operator, inodes, allowed>>
  BY DEF Ledger!Body, Ledger!At
<1>2. d \in Ledger!Database
  BY <1>1, HolderFacts DEF HolderOK, Ledger!Process
<1>3. CASE Ledger!Step(p, [process[p] EXCEPT !.pc = "commit", !.work = d, !.want = None])
  BY <1>1, <1>2, <1>3, BodyStep
<1>4. ASSUME NEW a \in Attempt \ Ledger!Rows(d),
             Ledger!Step(p, [process[p] EXCEPT !.pc = "commit",
                                     !.work = [d EXCEPT !.open = @ \cup {a}],
                                     !.want = a])
      PROVE Sound
  <2> DEFINE w == [d EXCEPT !.open = @ \cup {a}]
  <2>1. /\ w \in Ledger!Database /\ w.ino = d.ino /\ w.done = d.done
        /\ Ledger!Rows(w) = Ledger!Rows(d) \cup {a}
    BY <1>2 DEF Ledger!Database, Ledger!Rows
  <2>2. Ledger!Step(p, [process[p] EXCEPT !.pc = "commit", !.work = w, !.want = a])
    BY <1>4
  <2> HIDE DEF w
  <2>3. /\ Ledger!Rows(d) \subseteq Ledger!Rows(w) /\ d.done \subseteq w.done
        /\ a \in Ledger!Rows(w) /\ a \notin Ledger!Rows(d)
    BY <2>1
  <2> QED BY <1>1, <2>1, <2>2, <2>3, BodyStep
<1>5. ASSUME NEW a \in d.open,
             Ledger!Step(p, [process[p] EXCEPT !.pc = "commit",
                                     !.work = [d EXCEPT !.open = @ \ {a}, !.done = @ \cup {a}],
                                     !.want = None])
      PROVE Sound
  <2> DEFINE w == [d EXCEPT !.open = @ \ {a}, !.done = @ \cup {a}]
  <2>1. /\ w \in Ledger!Database /\ w.ino = d.ino /\ Ledger!Rows(w) = Ledger!Rows(d)
        /\ d.done \subseteq w.done
    BY <1>2 DEF Ledger!Database, Ledger!Rows
  <2>2. Ledger!Step(p, [process[p] EXCEPT !.pc = "commit", !.work = w, !.want = None])
    BY <1>5
  <2> HIDE DEF w
  <2> QED BY <1>1, <2>1, <2>2, BodyStep
<1> QED BY <1>3, <1>4, <1>5 DEF Ledger!Body

\* The ledger's path still leads to the file that was opened.
LEMMA CommitSound ==
  ASSUME Ledger!Setting, LedgerIInv, NEW p \in Opener, Ledger!Commit(p)
  PROVE Sound
<1> DEFINE w == process[p].work
           rec == [process[p] EXCEPT !.pc = "after"]
<1>1. guard = p /\ process[p].pc = "commit"
  BY DEF Ledger!Commit, Ledger!At
<1>2. CASE Ledger!Fail(p)
  BY <1>1, <1>2, FailSound
<1>3. CASE /\ Ledger!PathStands(p)
           /\ db' = w
           /\ Ledger!Step(p, rec)
           /\ UNCHANGED <<anchor, disp, Ledger!operator, inodes, allowed>>
  <2>1. /\ process[p] \in Ledger!Process /\ HolderOK(p) /\ FilesOK /\ inodes \in 0 .. MaxInode
        /\ inodes \in Nat /\ disp \in Ledger!InodeNo \cup {None}
    BY <1>1, HolderFacts
  <2>2. /\ rec \in Ledger!Process /\ rec.pc = "after" /\ rec.work = w
        /\ rec.known = process[p].known
        /\ rec.want = process[p].want
    BY <2>1 DEF Ledger!Process, Ledger!PC
  <2>3. /\ w \in Ledger!Database /\ w # None /\ db # None /\ db.ino = w.ino
        /\ Ledger!Rows(db) \subseteq Ledger!Rows(w) /\ db.done \subseteq w.done
        /\ Memory \subseteq Ledger!Rows(w) /\ db.ino <= inodes
    BY <1>1, <1>3, <2>1 DEF HolderOK, Ledger!Process, Ledger!PathStands, FilesOK
  <2>4. process' = [process EXCEPT ![p] = rec] /\ guard' = p /\ Memory' = Memory
    BY <1>1, <1>3 DEF Ledger!Step, Memory
  <2> HIDE DEF rec
  <2>5. ASSUME process'[p] = rec PROVE HolderOK(p)'
    <3>1. Ledger!Rows(w) \subseteq Ledger!Rows(w) /\ w.done \subseteq w.done
      OBVIOUS
    <3> HIDE DEF w
    <3> QED BY <1>1, <1>3, <2>1, <2>2, <2>3, <2>4, <2>5, <3>1 DEF HolderOK, w
  <2>6. FilesOK'
    BY <1>3, <2>1, <2>3, <2>4 DEF FilesOK, Named, Ledger!operator
  <2>7. Kept /\ Stands
    BY <1>3, <2>3 DEF Kept, Stands
  <2>8. /\ inodes' \in 0 .. MaxInode /\ inodes <= inodes'
        /\ db' \in Ledger!Database \cup {None} /\ disp' \in Ledger!InodeNo \cup {None}
        /\ anchor' \in Ledger!Anchor \cup {None}
        /\ allowed' \in [Attempt -> Nat] /\ Ledger!NeverPermittedAgain' /\ UNCHANGED Ledger!operator
    BY <1>3, <2>1, <2>3 DEF LedgerIInv, Ledger!TypeOK, Ledger!NeverPermittedAgain
  <2> QED BY <1>1, <2>2, <2>4, <2>5, <2>6, <2>7, <2>8, FileStep
<1> QED BY <1>2, <1>3 DEF Ledger!Commit

\* The permission comes last: the file remembers the attempt already.
LEMMA AfterCommitSound ==
  ASSUME Ledger!Setting, LedgerIInv, NEW p \in Opener, Ledger!AfterCommit(p)
  PROVE Sound
<1> DEFINE rec == [Ledger!Fresh EXCEPT !.known = process[p].known]
           want == process[p].want
<1>1. guard = p /\ process[p].pc = "after"
  BY DEF Ledger!AfterCommit, Ledger!At
<1>2. CASE Ledger!Fail(p)
  BY <1>1, <1>2, FailSound
<1>3. CASE /\ Ledger!PathStands(p)
           /\ allowed' = [a \in Attempt |-> allowed[a] + IF a = want THEN 1 ELSE 0]
           /\ Ledger!Leave(p)
           /\ UNCHANGED <<Ledger!files, Ledger!operator, inodes>>
  <2>1. /\ process[p] \in Ledger!Process /\ HolderOK(p) /\ FilesOK /\ inodes \in 0 .. MaxInode
        /\ inodes \in Nat /\ allowed \in [Attempt -> Nat] /\ Ledger!NeverPermittedAgain
        /\ disp \in Ledger!InodeNo \cup {None}
    BY <1>1, HolderFacts DEF LedgerIInv, Ledger!TypeOK
  <2>2. /\ rec \in Ledger!Process /\ rec.pc = "idle" /\ rec.work = None
        /\ rec.known = process[p].known
    BY <2>1 DEF Ledger!Fresh, Ledger!Process, Ledger!PC
  <2>3. /\ want \notin Memory
        /\ want # None => want \in Ledger!Rows(db)
        /\ Memory \subseteq Ledger!Rows(db) /\ db # None
    BY <1>1, <1>3, <2>1 DEF HolderOK, Ledger!PathStands
  <2>4. /\ process' = [process EXCEPT ![p] = rec] /\ guard' = None
        /\ UNCHANGED <<db, anchor, disp, Ledger!operator, inodes>>
    BY <1>3 DEF Ledger!Leave, Ledger!files
  <2>5. /\ allowed' \in [Attempt -> Nat] /\ Ledger!NeverPermittedAgain'
        /\ Memory' \subseteq Memory \cup {want}
    <3>1. \A a \in Attempt : allowed'[a] = allowed[a] + IF a = want THEN 1 ELSE 0
      BY <1>3
    <3>2. allowed' \in [Attempt -> Nat]
      BY <1>3, <2>1
    <3>3. \A a \in Attempt : a = want => allowed[a] = 0
      BY <2>1, <2>3 DEF Memory
    <3>4. Ledger!NeverPermittedAgain'
      BY <2>1, <3>1, <3>3 DEF Ledger!NeverPermittedAgain
    <3>5. \A a \in Attempt : a # want => allowed'[a] = allowed[a]
      BY <2>1, <3>1
    <3>6. Memory' \subseteq Memory \cup {want}
      BY <3>5 DEF Memory
    <3> QED BY <3>2, <3>4, <3>6
  <2> HIDE DEF rec
  <2>6. ASSUME process'[p] = rec PROVE HolderOK(p)'
    BY <2>1, <2>2, <2>4, <2>6 DEF HolderOK
  <2>7. Memory' \subseteq Ledger!Rows(db)
    <3>1. Memory' \subseteq Attempt /\ None \notin Attempt
      BY LedgerNumbers DEF Memory
    <3> QED BY <2>3, <2>5, <3>1
  <2>8. FilesOK'
    BY <2>1, <2>3, <2>4, <2>7 DEF FilesOK, Named, Ledger!operator
  <2>9. Kept /\ Stands
    BY <2>4 DEF Kept, Stands, Ledger!operator
  <2>10. /\ inodes' \in 0 .. MaxInode /\ inodes <= inodes'
         /\ db' \in Ledger!Database \cup {None} /\ anchor' \in Ledger!Anchor \cup {None}
         /\ disp' \in Ledger!InodeNo \cup {None}
    BY <2>1, <2>4 DEF LedgerIInv, Ledger!TypeOK
  <2> QED BY <1>1, <2>2, <2>4, <2>5, <2>6, <2>8, <2>9, <2>10, FileStep
<1> QED BY <1>2, <1>3 DEF Ledger!AfterCommit

-----------------------------------------------------------------------------
(* Crashes and the operator *)

LEMMA CrashSound ==
  ASSUME Ledger!Setting, LedgerIInv, NEW p \in Opener, Ledger!Crash(p)
  PROVE Sound
<1>1. /\ process \in [Opener -> Ledger!Process] /\ guard \in Opener \cup {None}
      /\ \A q \in Opener : guard = q <=> process[q].pc # "idle"
      /\ crashes \in 0 .. MaxCrashes /\ Holders /\ FilesOK
  BY DEF LedgerIInv, Ledger!TypeOK
<1>2. /\ UNCHANGED <<db, anchor, disp, backup, moves, inodes, allowed>>
      /\ process' = [process EXCEPT ![p] = Ledger!Fresh]
      /\ guard' = IF guard = p THEN None ELSE guard
      /\ crashes' = crashes + 1 /\ crashes < MaxCrashes
  BY DEF Ledger!Crash, Ledger!files
<1>3. /\ process' \in [Opener -> Ledger!Process] /\ Ledger!Fresh.pc = "idle"
      /\ Ledger!Fresh.work = None /\ Ledger!Fresh.known = None
  BY <1>1, <1>2, FreshIsProcess DEF Ledger!Fresh
<1>4. \A q \in Opener : guard' = q <=> process'[q].pc # "idle"
  BY <1>1, <1>2, <1>3, LedgerNumbers
<1>5. crashes' \in 0 .. MaxCrashes
  BY <1>1, <1>2, LedgerNumbers
<1>6. Memory' = Memory
  BY <1>2 DEF Memory
<1>7. ASSUME NEW q \in Opener PROVE HolderOK(q)'
  <2>1. CASE q = p
    BY <1>1, <1>2, <1>3, <2>1 DEF HolderOK
  <2>2. CASE q # p
    <3>1. process'[q] = process[q] /\ HolderOK(q)
      BY <1>1, <1>2, <2>2 DEF Holders
    <3> QED BY <1>2, <1>6, <3>1 DEF HolderOK, Named
  <2> QED BY <2>1, <2>2
<1>8. Ledger!TypeOK'
  BY <1>1, <1>2, <1>3, <1>4, <1>5 DEF LedgerIInv, Ledger!TypeOK
<1>9. FilesOK' /\ Ledger!NeverPermittedAgain'
  BY <1>1, <1>2, <1>6 DEF LedgerIInv, FilesOK, Named, Ledger!NeverPermittedAgain
<1>10. Kept /\ Stands
  BY <1>2 DEF Kept, Stands
<1> QED BY <1>7, <1>8, <1>9, <1>10 DEF Sound, LedgerIInv, Holders

\* Nobody works on a file the operator puts in the place of the ledger, and no
\* anchor names it.
LEMMA HandSound ==
  ASSUME Ledger!Setting, LedgerIInv, Ledger!Hand, disp' \in Ledger!InodeNo \cup {None},
         inodes' \in 0 .. MaxInode, inodes <= inodes',
         \/ db' = db
         \/ db' = None
         \/ db' \in Ledger!Database /\ inodes < db'.ino /\ db'.ino <= inodes'
  PROVE Sound
<1>1. /\ anchor # None /\ moves' = moves + 1 /\ moves < MaxMoves
      /\ UNCHANGED <<anchor, guard, process, backup, crashes, allowed>>
  BY DEF Ledger!Hand
<1>2. /\ process \in [Opener -> Ledger!Process] /\ db \in Ledger!Database \cup {None}
      /\ inodes \in Nat /\ inodes' \in Nat /\ moves \in 0 .. MaxMoves
  BY LedgerNumbers DEF LedgerIInv, Ledger!TypeOK
<1>3. Ledger!TypeOK' /\ moves' # moves
  <2>1. moves' \in 0 .. MaxMoves /\ moves' # moves
    BY <1>1, <1>2, LedgerNumbers
  <2> QED BY <1>1, <1>2, <2>1 DEF LedgerIInv, Ledger!TypeOK
<1>4. Memory' = Memory
  BY <1>1 DEF Memory
<1>5. /\ db # None => db.ino \in Nat /\ db.ino <= inodes
      /\ db' # None => db'.ino \in Nat
      /\ anchor.fmt # 0 => anchor.ino \in Nat /\ anchor.ino <= inodes
  BY <1>1, <1>2 DEF LedgerIInv, FilesOK, Ledger!Database, Ledger!InodeNo
<1>6. db' # None /\ db' # db => /\ inodes < db'.ino /\ db'.ino <= inodes'
                                /\ ~Named(db')
  BY <1>2, <1>5 DEF Named
<1>7. FilesOK'
  <2>1. db' # None /\ Named(db') => Memory \subseteq Ledger!Rows(db')
    <3>1. CASE db' = db
      BY <3>1 DEF LedgerIInv, FilesOK
    <3>2. CASE db' # db
      BY <1>6, <3>2
    <3> QED BY <3>1, <3>2
  <2>2. db' # None => db'.ino <= inodes'
    BY <1>2, <1>5, <1>6
  <2>3. anchor.fmt # 0 => anchor.ino \in Ledger!InodeNo /\ anchor.ino <= inodes'
    BY <1>1, <1>2, <1>5 DEF LedgerIInv, FilesOK
  <2> QED BY <1>1, <1>4, <2>1, <2>2, <2>3 DEF FilesOK, Named
<1>8. ASSUME NEW q \in Opener PROVE HolderOK(q)'
  <2> DEFINE s == process[q]
  <2>1. HolderOK(q) /\ process'[q] = s /\ s \in Ledger!Process
    BY <1>1, <1>2 DEF LedgerIInv, Holders
  <2>2. s.known # None => s.known \in Nat /\ s.known <= inodes
    BY <2>1 DEF HolderOK, Ledger!Process, Ledger!InodeNo
  <2>3. s.known # None => s.known <= inodes'
    BY <1>2, <2>2
  <2>4. s.pc \notin {"idle", "open"} => s.work \in Ledger!Database /\ s.work.ino = s.known
    BY <2>1 DEF HolderOK, Ledger!Process
  <2>5. s.pc \notin {"idle", "open"} => s.work.ino \in Ledger!InodeNo /\ s.work.ino <= inodes
    BY <2>1, <2>2, <2>4, LedgerNumbers DEF Ledger!Database
  <2>6. s.pc \notin {"idle", "open"} /\ db' # None /\ db'.ino = s.work.ino => db' = db
    BY <1>2, <1>5, <1>6, <2>5 DEF Ledger!InodeNo
  <2> QED BY <1>1, <1>4, <2>1, <2>3, <2>6 DEF HolderOK, Named
<1>9. Ledger!NeverPermittedAgain' /\ Kept /\ Stands
  BY <1>1, <1>3 DEF LedgerIInv, Ledger!NeverPermittedAgain, Kept, Stands
<1> QED BY <1>3, <1>7, <1>8, <1>9 DEF Sound, LedgerIInv, Holders

LEMMA OperatorSound ==
  ASSUME Ledger!Setting, LedgerIInv, Ledger!Operator
  PROVE Sound
<1>1. /\ inodes \in 0 .. MaxInode /\ inodes \in Nat /\ disp \in Ledger!InodeNo \cup {None}
      /\ backup \in Ledger!Database \cup {None} /\ db \in Ledger!Database \cup {None}
  BY LedgerNumbers DEF LedgerIInv, Ledger!TypeOK
<1>2. CASE Ledger!Backup
  <2>1. /\ UNCHANGED <<db, anchor, disp, guard, process, inodes, crashes, moves, allowed>>
        /\ backup' \in Ledger!Database \cup {None}
    BY <1>1, <1>2 DEF Ledger!Backup, Ledger!files
  <2>2. Ledger!TypeOK' /\ Ledger!NeverPermittedAgain' /\ FilesOK'
    BY <2>1 DEF LedgerIInv, Ledger!TypeOK, Ledger!NeverPermittedAgain, FilesOK, Memory, Named
  <2>3. Holders'
    BY <2>1 DEF LedgerIInv, Holders, HolderOK, Memory, Named
  <2>4. Kept /\ Stands
    BY <2>1 DEF Kept, Stands
  <2> QED BY <2>2, <2>3, <2>4 DEF Sound, LedgerIInv
<1>3. CASE Ledger!Remove
  BY <1>1, <1>3, HandSound DEF Ledger!Remove
<1>4. CASE Ledger!RemoveDispatchFile
  BY <1>1, <1>4, HandSound DEF Ledger!RemoveDispatchFile
<1>5. CASE Ledger!Restore
  <2>1. /\ Ledger!Hand /\ backup \in Ledger!Database /\ inodes < MaxInode /\ inodes' = inodes + 1
        /\ db' = [backup EXCEPT !.ino = inodes + 1] /\ disp' = disp
    BY <1>1, <1>5 DEF Ledger!Restore
  <2>2. inodes' \in 0 .. MaxInode /\ inodes <= inodes' /\ inodes + 1 \in Ledger!InodeNo
    BY <1>1, <2>1, LedgerNumbers DEF Ledger!InodeNo
  <2>3. db' \in Ledger!Database /\ db'.ino = inodes + 1
    BY <2>1, <2>2 DEF Ledger!Database
  <2>4. inodes < db'.ino /\ db'.ino <= inodes'
    BY <1>1, <2>1, <2>3
  <2> QED BY <1>1, <2>1, <2>2, <2>3, <2>4, HandSound
<1> QED BY <1>2, <1>3, <1>4, <1>5 DEF Ledger!Operator

-----------------------------------------------------------------------------
(* The theorems *)

LEMMA LedgerInitially == ASSUME Ledger!Setting PROVE Ledger!Init => LedgerIInv
<1> SUFFICES ASSUME Ledger!Init PROVE LedgerIInv
  OBVIOUS
<1>1. /\ db \in Ledger!Database \cup {None}
      /\ db # None => db.ino = 1 /\ db.ver \in {2, 3}
      /\ anchor = IF db # None /\ db.ver = 3 THEN Ledger!OldAnchor(db) ELSE None
      /\ disp = None /\ guard = None /\ process = [p \in Opener |-> Ledger!Fresh] /\ backup = None
      /\ inodes = 1 /\ crashes = 0 /\ moves = 0
      /\ allowed = [a \in Attempt |-> IF db # None /\ a \in Ledger!Rows(db) THEN 1 ELSE 0]
  BY DEF Ledger!Init
<1>2. /\ anchor \in Ledger!Anchor \cup {None}
      /\ anchor # None => db # None /\ anchor.ino = 1 /\ anchor.fmt = 1
  BY <1>1, Anchors
<1>3. inodes \in 0 .. MaxInode /\ crashes \in 0 .. MaxCrashes /\ moves \in 0 .. MaxMoves
  BY <1>1, LedgerNumbers
<1>4. /\ Ledger!Fresh \in Ledger!Process /\ Ledger!Fresh.pc = "idle" /\ Ledger!Fresh.known = None
      /\ Ledger!Fresh.work = None
  BY FreshIsProcess DEF Ledger!Fresh
<1>5. Ledger!TypeOK
  <2>1. allowed \in [Attempt -> Nat]
    BY <1>1
  <2>2. process \in [Opener -> Ledger!Process] /\ \A p \in Opener : guard = p
            <=> process[p].pc # "idle"
    BY <1>1, <1>4, LedgerNumbers
  <2> QED BY <1>1, <1>2, <1>3, <2>1, <2>2 DEF Ledger!TypeOK
<1>6. Ledger!NeverPermittedAgain
  BY <1>1 DEF Ledger!NeverPermittedAgain
<1>7. Memory = IF db = None THEN {} ELSE Ledger!Rows(db)
  <2>1. db # None => Ledger!Rows(db) \subseteq Attempt
    BY <1>1 DEF Ledger!Rows, Ledger!Database
  <2> QED BY <1>1, <2>1 DEF Memory
<1>8. FilesOK
  <2>1. 1 \in Ledger!InodeNo
    BY LedgerNumbers DEF Ledger!InodeNo
  <2> QED BY <1>1, <1>2, <1>7, <2>1 DEF FilesOK
<1>9. Holders
  BY <1>1, <1>4 DEF Holders, HolderOK
<1> QED BY <1>5, <1>6, <1>8, <1>9 DEF LedgerIInv

LEMMA EveryStepSound == ASSUME Ledger!Setting PROVE LedgerIInv /\ [Ledger!Next]_Ledger!vars => Sound
<1> SUFFICES ASSUME LedgerIInv, [Ledger!Next]_Ledger!vars PROVE Sound
  OBVIOUS
<1>1. CASE Ledger!Operator
  BY <1>1, OperatorSound
<1>2. ASSUME NEW p \in Opener, Ledger!Transact(p) PROVE Sound
  BY <1>2, TakeGuardSound, OpenDatabaseSound, ValidateSound, MakeDispatchFileSound,
     CreateAnchorSound, FillAnchorSound, ReplaceAnchorSound, BodySound, CommitSound,
     AfterCommitSound DEF Ledger!Transact
<1>3. ASSUME NEW p \in Opener, Ledger!Crash(p) PROVE Sound
  BY <1>3, CrashSound
<1>4. CASE UNCHANGED Ledger!vars
  <2>1. UNCHANGED <<db, anchor, disp, guard, process, backup, inodes, crashes, moves, allowed>>
    BY <1>4 DEF Ledger!vars
  <2>2. Ledger!TypeOK' /\ Ledger!NeverPermittedAgain' /\ FilesOK'
    BY <2>1 DEF LedgerIInv, Ledger!TypeOK, Ledger!NeverPermittedAgain, FilesOK, Memory, Named
  <2>3. Holders'
    BY <2>1 DEF LedgerIInv, Holders, HolderOK, Memory, Named
  <2>4. Kept /\ Stands
    BY <2>1 DEF Kept, Stands
  <2> QED BY <2>2, <2>3, <2>4 DEF Sound, LedgerIInv
<1> QED BY <1>1, <1>2, <1>3, <1>4 DEF Ledger!Next

\* In every state every attempt was permitted once at most, whatever older schema
\* the ledger was adopted from, whoever was killed and whatever became of the files.
THEOREM IdentityInvariant == ASSUME Ledger!Setting PROVE Ledger!Spec => []IdentityInv
<1>1. LedgerIInv /\ [Ledger!Next]_Ledger!vars => LedgerIInv'
  BY EveryStepSound DEF Sound
<1>2. LedgerIInv => IdentityInv
  BY DEF LedgerIInv, IdentityInv, Ledger!IdentityInv
<1> QED BY LedgerInitially, <1>1, <1>2, PTL DEF Ledger!Spec

\* No step but the operator's takes a row or an outcome from the ledger's file.
THEOREM EvidenceIsKept == ASSUME Ledger!Setting PROVE Ledger!Spec => EvidenceKept
<1>1. LedgerIInv /\ [Ledger!Next]_Ledger!vars => LedgerIInv'
  BY EveryStepSound DEF Sound
<1>2. LedgerIInv /\ [Ledger!Next]_Ledger!vars => [Kept]_Ledger!vars
  BY EveryStepSound DEF Sound
<1> QED BY LedgerInitially, <1>1, <1>2, PTL DEF Ledger!Spec, EvidenceKept, Ledger!EvidenceKept, Kept

\* No step makes over an anchor that is there.
THEOREM AnchorsStand == ASSUME Ledger!Setting PROVE Ledger!Spec => AnchorStands
<1>1. LedgerIInv /\ [Ledger!Next]_Ledger!vars => LedgerIInv'
  BY EveryStepSound DEF Sound
<1>2. LedgerIInv /\ [Ledger!Next]_Ledger!vars => [Stands]_Ledger!vars
  BY EveryStepSound DEF Sound
<1> QED
  BY LedgerInitially, <1>1, <1>2, PTL DEF Ledger!Spec, AnchorStands, Ledger!AnchorStands, Stands
=============================================================================
