--------------------------- MODULE DiskStoreProofs ---------------------------
(***************************************************************************)
(* Proofs about DiskStore for every number of Put, Get and Delete         *)
(* goroutines, every throttle limit and every bound on I/O errors.        *)
(*                                                                         *)
(* The counter d.concurrentChecks stays a natural number only because it  *)
(* counts the Gets that are checking: every decrement (the deferred       *)
(* Sub(1)) is matched by an earlier Add(1) of the same Get.  So the type  *)
(* invariant is proved together with ChecksAccurate, as the inductive     *)
(* invariant IInv.                                                         *)
(***************************************************************************)
EXTENDS DiskStore, FiniteSetTheorems, TLAPS

\* The Gets that are checking when their step function is f.
CheckingIn(f) == {h \in Gets : f[h] \in Checking}

IInv == TypeOK /\ ChecksAccurate

\* One Get moving to label l changes the count of checking Gets by one
\* at most: up when it enters the checking steps, down when it leaves.
LEMMA CountStep ==
  ASSUME NEW f \in [Gets -> GetLabels], NEW g \in Gets, NEW l \in GetLabels
  PROVE  /\ IsFiniteSet(CheckingIn([f EXCEPT ![g] = l]))
         /\ Cardinality(CheckingIn([f EXCEPT ![g] = l]))
              = Cardinality(CheckingIn(f))
                + (IF l \in Checking THEN 1 ELSE 0)
                - (IF f[g] \in Checking THEN 1 ELSE 0)
<1> DEFINE S == CheckingIn(f)
           T == CheckingIn([f EXCEPT ![g] = l])
<1>1. IsFiniteSet(S) /\ IsFiniteSet(T)
  BY DiskAssumption, FS_Subset DEF CheckingIn
<1>2. Cardinality(S) \in Nat
  BY <1>1, FS_CardinalityType
<1>3. CASE l \in Checking /\ f[g] \in Checking
  <2>1. T = S BY <1>3 DEF CheckingIn
  <2> QED BY <1>1, <1>2, <1>3, <2>1
<1>4. CASE l \notin Checking /\ f[g] \notin Checking
  <2>1. T = S BY <1>4 DEF CheckingIn
  <2> QED BY <1>1, <1>2, <1>4, <2>1
<1>5. CASE l \in Checking /\ f[g] \notin Checking
  <2>1. T = S \cup {g} /\ g \notin S BY <1>5 DEF CheckingIn
  <2>2. IsFiniteSet(S \cup {g}) /\ Cardinality(S \cup {g}) = Cardinality(S) + 1
    BY <1>1, <2>1, FS_AddElement
  <2>3. IsFiniteSet(T) /\ Cardinality(T) = Cardinality(S) + 1
    BY <2>1, <2>2, Zenon
  <2> QED BY <1>2, <1>5, <2>3 DEF S, T
<1>6. CASE l \notin Checking /\ f[g] \in Checking
  <2>1. T = S \ {g} /\ g \in S BY <1>6 DEF CheckingIn
  <2>2. IsFiniteSet(S \ {g}) /\ Cardinality(S \ {g}) = Cardinality(S) - 1
    BY <1>1, <2>1, FS_RemoveElement
  <2>3. IsFiniteSet(T) /\ Cardinality(T) = Cardinality(S) - 1
    BY <2>1, <2>2, Zenon
  <2> QED BY <1>2, <1>6, <2>3 DEF S, T
<1> QED BY <1>3, <1>4, <1>5, <1>6

\* The number of checking Gets is a natural number, whatever f is.
LEMMA CheckingInNat ==
  ASSUME NEW f
  PROVE  Cardinality(CheckingIn(f)) \in Nat
<1>1. IsFiniteSet(CheckingIn(f))
  BY DiskAssumption, FS_Subset DEF CheckingIn
<1> QED BY <1>1, FS_CardinalityType

\* The initial state: no Get is checking and the counter is zero.
THEOREM InitIInv == Init => IInv
<1> SUFFICES ASSUME Init PROVE IInv
  OBVIOUS
<1>1. {g \in Gets : gpc[g] \in Checking} = {}
  BY DEF Init, Checking
<1>2. Cardinality({}) = 0
  BY FS_EmptySet
<1>3. ChecksAccurate
  BY <1>1, <1>2 DEF Init, ChecksAccurate
<1>4. data \in [Inodes -> Contents]
  <2>1. PICK old \in {"full", "corrupt"} :
          data = [i \in Inodes |-> CASE i = OldBlob -> old
                                     [] i = OldTmp  -> "partial"
                                     [] OTHER       -> "empty"]
    BY DEF Init
  <2>2. \A i \in Inodes : (CASE i = OldBlob -> old
                                [] i = OldTmp  -> "partial"
                                [] OTHER       -> "empty") \in Contents
    <3> TAKE i \in Inodes
    <3>1. CASE i = OldBlob BY <3>1 DEF Contents
    <3>2. CASE i # OldBlob /\ i = OldTmp BY <3>2 DEF Contents
    <3>3. CASE i # OldBlob /\ i # OldTmp BY <3>3 DEF Contents
    <3> QED BY <3>1, <3>2, <3>3
  <2> QED BY <2>1, <2>2
<1>5. path \in Inodes \cup {NoFile} /\ tmp \in Inodes \cup {NoFile}
  BY DEF Init, Inodes
<1>6. /\ ppc \in [Puts -> {"open", "write", "rename", "flush", "done"}]
      /\ pfd \in [Puts -> Inodes \cup {NoFile}]
      /\ pres \in [Puts -> {"pending", "ok", "err"}]
  BY DEF Init
<1>7. /\ gpc \in [Gets -> GetLabels]
      /\ gblob \in [Gets -> Contents \cup {NoFile}]
      /\ gres \in [Gets -> {"pending", "blob", "notFound", "err"}]
  BY DEF Init, GetLabels
<1>8. /\ initialized \in BOOLEAN /\ checks \in Nat /\ faults \in 0..MaxFaults
      /\ dpc \in [Deletes -> {"has", "remove", "done"}]
      /\ dres \in [Deletes -> {"pending", "nil", "err"}]
  <2>1. initialized \in BOOLEAN BY DEF Init
  <2>2. checks \in Nat /\ faults \in 0..MaxFaults BY DiskAssumption DEF Init
  <2>3. dpc \in [Deletes -> {"has", "remove", "done"}] BY DEF Init
  <2>4. dres \in [Deletes -> {"pending", "nil", "err"}] BY DEF Init
  <2> QED BY <2>1, <2>2, <2>3, <2>4
<1>9. TypeOK
  BY <1>4, <1>5, <1>6, <1>7, <1>8 DEF TypeOK
<1> QED BY <1>3, <1>9 DEF IInv

\* A step of Get g moves it to some label l and moves the counter exactly
\* as the count of checking Gets moves: Add(1) on entering the checking
\* steps, the deferred Sub(1) on every return from them.
LEMMA GetStepCount ==
  ASSUME TypeOK, NEW g \in Gets,
         GetRead(g) \/ GetLoad(g) \/ GetAdd(g) \/ GetCheck(g) \/ GetHas(g)
           \/ GetRemove(g)
  PROVE  \E l \in GetLabels :
           /\ gpc' = [gpc EXCEPT ![g] = l]
           /\ checks' = checks + (IF l \in Checking THEN 1 ELSE 0)
                               - (IF gpc[g] \in Checking THEN 1 ELSE 0)
<1>1. CASE GetRead(g)
  BY <1>1 DEF GetRead, Fault, InitOnce, TypeOK, GetLabels, Checking
<1>2. CASE GetLoad(g)
  BY <1>2 DEF GetLoad, TypeOK, GetLabels, Checking
<1>3. CASE GetAdd(g)
  BY <1>3 DEF GetAdd, TypeOK, GetLabels, Checking
<1>4. CASE GetCheck(g)
  BY <1>4 DEF GetCheck, GetReturnChecked, TypeOK, GetLabels, Checking
<1>5. CASE GetHas(g)
  BY <1>5 DEF GetHas, GetReturnChecked, Fault, TypeOK, GetLabels, Checking
<1>6. CASE GetRemove(g)
  BY <1>6 DEF GetRemove, GetReturnChecked, Fault, TypeOK, GetLabels,
              Checking
<1> QED BY <1>1, <1>2, <1>3, <1>4, <1>5, <1>6

\* Every step keeps the counter equal to the number of checking Gets.
LEMMA NextAccurate ==
  ASSUME TypeOK, ChecksAccurate, [Next]_vars
  PROVE  ChecksAccurate'
<1>1. CASE \E p \in Puts : PutOpen(p) \/ PutWrite(p) \/ PutRename(p)
                           \/ PutFlush(p)
  <2>1. gpc' = gpc /\ checks' = checks
    BY <1>1 DEF PutOpen, PutWrite, PutRename, PutFlush, GetVars
  <2> QED BY <2>1 DEF ChecksAccurate
<1>2. CASE \E d \in Deletes : DelHas(d) \/ DelRemove(d)
  <2>1. gpc' = gpc /\ checks' = checks
    BY <1>2 DEF DelHas, DelRemove, GetVars
  <2> QED BY <2>1 DEF ChecksAccurate
<1>3. CASE UNCHANGED vars
  <2>1. gpc' = gpc /\ checks' = checks
    BY <1>3 DEF vars
  <2> QED BY <2>1 DEF ChecksAccurate
<1>4. CASE \E g \in Gets : \/ GetRead(g) \/ GetLoad(g) \/ GetAdd(g)
                          \/ GetCheck(g) \/ GetHas(g) \/ GetRemove(g)
  <2>1. PICK g \in Gets : \/ GetRead(g) \/ GetLoad(g) \/ GetAdd(g)
                         \/ GetCheck(g) \/ GetHas(g) \/ GetRemove(g)
    BY <1>4
  <2>2. PICK l \in GetLabels :
           /\ gpc' = [gpc EXCEPT ![g] = l]
           /\ checks' = checks + (IF l \in Checking THEN 1 ELSE 0)
                               - (IF gpc[g] \in Checking THEN 1 ELSE 0)
    BY <2>1, GetStepCount
  <2>3. Cardinality(CheckingIn([gpc EXCEPT ![g] = l]))
          = Cardinality(CheckingIn(gpc))
            + (IF l \in Checking THEN 1 ELSE 0)
            - (IF gpc[g] \in Checking THEN 1 ELSE 0)
    BY CountStep DEF TypeOK
  <2> QED BY <2>2, <2>3 DEF ChecksAccurate, CheckingIn
<1> QED BY <1>1, <1>2, <1>3, <1>4 DEF Next

\* Every step keeps every variable in its type; the counter stays a natural
\* number because it is the size of a set (NextAccurate, CheckingInNat).
LEMMA NextTypeOK ==
  ASSUME TypeOK, ChecksAccurate, [Next]_vars
  PROVE  TypeOK'
<1>0. checks' \in Nat
  <2>1. ChecksAccurate' BY NextAccurate
  <2> QED BY <2>1, CheckingInNat DEF ChecksAccurate, CheckingIn
<1> USE <1>0
<1>1. ASSUME NEW p \in Puts, PutOpen(p) PROVE TypeOK'
  <2>1. initialized' \in BOOLEAN
    BY <1>1, Zenon DEF PutOpen, InitOnce, TypeOK
  <2> QED BY <2>1, <1>1, DiskAssumption DEF PutOpen, InitOnce, Fault, TypeOK, Inodes, Contents, GetLabels, PutVars, GetVars, DelVars
<1>2. ASSUME NEW p \in Puts, PutWrite(p) PROVE TypeOK'
  <2>1. data' \in [Inodes -> Contents]
    <3>1. CASE pfd[p] \in Inodes
      BY <1>2, <3>1 DEF PutWrite, Written, TypeOK, Contents
    <3>2. CASE pfd[p] = NoFile
      <4>1. data' = data
        BY <1>2, <3>2, DiskAssumption DEF PutWrite, TypeOK, Inodes
      <4> QED BY <4>1 DEF TypeOK
    <3> QED BY <3>1, <3>2 DEF TypeOK
  <2> QED BY <1>2, <2>1, DiskAssumption DEF PutWrite, Fault, TypeOK,
                                          GetVars, DelVars
<1>3. ASSUME NEW p \in Puts, PutRename(p) PROVE TypeOK'
  BY <1>3, DiskAssumption DEF PutRename, Fault, TypeOK, Inodes, Contents, GetLabels, PutVars, GetVars, DelVars
<1>4. ASSUME NEW p \in Puts, PutFlush(p) PROVE TypeOK'
  BY <1>4, DiskAssumption DEF PutFlush, Fault, TypeOK, Inodes, Contents, GetLabels, PutVars, GetVars, DelVars
<1>5. ASSUME NEW g \in Gets, GetRead(g) PROVE TypeOK'
  <2>1. initialized' \in BOOLEAN
    BY <1>5, Zenon DEF GetRead, InitOnce, TypeOK
  <2> QED BY <2>1, <1>5, DiskAssumption DEF GetRead, InitOnce, Fault, TypeOK, Inodes, Contents, GetLabels, PutVars, GetVars, DelVars
<1>6. ASSUME NEW g \in Gets, GetLoad(g) PROVE TypeOK'
  BY <1>6, DiskAssumption DEF GetLoad, TypeOK, Inodes, Contents, GetLabels, PutVars, GetVars, DelVars
<1>7. ASSUME NEW g \in Gets, GetAdd(g) PROVE TypeOK'
  BY <1>7, DiskAssumption DEF GetAdd, TypeOK, Inodes, Contents, GetLabels, PutVars, GetVars, DelVars
<1>8. ASSUME NEW g \in Gets, GetCheck(g) PROVE TypeOK'
  BY <1>8, DiskAssumption DEF GetCheck, GetReturnChecked, TypeOK, Inodes, Contents, GetLabels, PutVars, GetVars, DelVars
<1>9. ASSUME NEW g \in Gets, GetHas(g) PROVE TypeOK'
  BY <1>9, DiskAssumption DEF GetHas, GetReturnChecked, Fault, TypeOK, Inodes, Contents, GetLabels, PutVars, GetVars, DelVars
<1>10. ASSUME NEW g \in Gets, GetRemove(g) PROVE TypeOK'
  BY <1>10, DiskAssumption DEF GetRemove, GetReturnChecked, Fault, TypeOK, Inodes, Contents, GetLabels, PutVars, GetVars, DelVars
<1>11. ASSUME NEW d \in Deletes, DelHas(d) PROVE TypeOK'
  <2>1. initialized' \in BOOLEAN
    BY <1>11, Zenon DEF DelHas, InitOnce, TypeOK
  <2> QED BY <2>1, <1>11, DiskAssumption DEF DelHas, InitOnce, Fault, TypeOK, Inodes, Contents, GetLabels, PutVars, GetVars, DelVars
<1>12. ASSUME NEW d \in Deletes, DelRemove(d) PROVE TypeOK'
  BY <1>12, DiskAssumption DEF DelRemove, Fault, TypeOK, Inodes, Contents, GetLabels, PutVars, GetVars, DelVars
<1>13. CASE UNCHANGED vars
  BY <1>13 DEF vars, TypeOK
<1> QED BY <1>1, <1>2, <1>3, <1>4, <1>5, <1>6, <1>7, <1>8, <1>9, <1>10, <1>11, <1>12, <1>13 DEF Next

\* The inductive invariant is preserved by every step.
THEOREM NextIInv == IInv /\ [Next]_vars => IInv'
BY NextTypeOK, NextAccurate DEF IInv

\* d.concurrentChecks is always exactly the number of Gets between their
\* Add(1) and their return (lines 88-90), on every path through Get and
\* the Delete it calls, however the goroutines interleave; and every
\* variable of the store keeps its type.
THEOREM ChecksCorrect == Spec => [](TypeOK /\ ChecksAccurate)
<1>1. IInv => TypeOK /\ ChecksAccurate BY DEF IInv
<1> QED BY InitIInv, NextIInv, <1>1, PTL DEF Spec

-----------------------------------------------------------------------------
(***************************************************************************)
(* Put against Put.  PutsComplete is checked by the run disk_puts, where  *)
(* only Puts run and no syscall fails; PutsOnly states that setting.  It  *)
(* is needed: a Get's Delete of a blob it read half-written removes the   *)
(* stored blob (run disk_put_get), and a failed deferred Flush is         *)
(* discarded, so a Put may return nil over a short file.                   *)
(*                                                                         *)
(* PutsComplete is not inductive: it says nothing until every Put has     *)
(* returned.  PutsInv strengthens it by following the inodes: every Put   *)
(* past its OpenFile owns an inode; the temporary path, once some Put has *)
(* opened it, names an inode some Put owns, so a Rename moves an owned    *)
(* inode over the blob path; a Put that has returned has flushed its      *)
(* inode whole; and Written keeps a whole inode whole, so a later io.Copy *)
(* by another Put into the same inode does not shorten it.                *)
(***************************************************************************)

PutsOnly == MaxFaults = 0 /\ Gets = {} /\ Deletes = {}

\* Put q is past its OpenFile (line 120).
Opened(q) == ppc[q] # "open"

OpenedFd == \A q \in Puts : Opened(q) => pfd[q] \in Inodes

TmpOwned ==
    tmp # NoFile /\ (\E q \in Puts : Opened(q))
      => \E q \in Puts : Opened(q) /\ pfd[q] = tmp

DoneFull == \A q \in Puts : ppc[q] = "done" => data[pfd[q]] = "full"

StoredOwned ==
    (\E q \in Puts : pres[q] = "ok")
      => path # NoFile /\ \E q \in Puts : Opened(q) /\ pfd[q] = path

PutsInv == OpenedFd /\ TmpOwned /\ DoneFull /\ StoredOwned

\* With no I/O error left to return, no syscall fails.
LEMMA NoFault ==
  ASSUME PutsOnly, TypeOK
  PROVE  ~Fault
BY DEF PutsOnly, TypeOK, Fault

\* No Put has opened anything at the start.
LEMMA InitPutsInv == Init => PutsInv
<1> SUFFICES ASSUME Init PROVE PutsInv
  OBVIOUS
<1>1. \A q \in Puts : ~Opened(q) /\ ppc[q] # "done" /\ pres[q] # "ok"
  BY DEF Init, Opened
<1> QED BY <1>1 DEF PutsInv, OpenedFd, TmpOwned, DoneFull, StoredOwned


\* The hypotheses of every Put step below.
StepHyp == PutsOnly /\ TypeOK /\ PutsInv

\* OpenFile: the Put now owns the inode at the temporary path, which it
\* found there or created.
LEMMA OpenPutsInv ==
  ASSUME StepHyp, NEW p \in Puts, PutOpen(p)
  PROVE  PutsInv'
<1> DEFINE fd == IF tmp = NoFile THEN p ELSE tmp
<1>1. ~Fault BY NoFault DEF StepHyp
<1>2. /\ ppc[p] = "open"
      /\ pfd' = [pfd EXCEPT ![p] = fd] /\ tmp' = fd
      /\ ppc' = [ppc EXCEPT ![p] = "write"]
      /\ UNCHANGED <<pres, path, data>>
  BY <1>1 DEF PutOpen, fd
<1>3. fd \in Inodes BY DEF StepHyp, TypeOK, Inodes, fd
<1>4. ppc \in [Puts -> {"open", "write", "rename", "flush", "done"}]
      /\ pfd \in [Puts -> Inodes \cup {NoFile}]
  BY DEF StepHyp, TypeOK
<1>5. \A q \in Puts : q # p => ppc'[q] = ppc[q] /\ pfd'[q] = pfd[q]
  BY <1>2, <1>4
<1>6. Opened(p)' /\ pfd'[p] = fd /\ ppc'[p] # "done"
  BY <1>2, <1>4 DEF Opened
<1>7. OpenedFd' BY <1>3, <1>5, <1>6 DEF StepHyp, PutsInv, OpenedFd, Opened
<1>8. TmpOwned' BY <1>2, <1>6 DEF TmpOwned
<1>9. DoneFull' BY <1>2, <1>5, <1>6 DEF StepHyp, PutsInv, DoneFull
<1>10. StoredOwned'
  <2>1. \A q \in Puts : Opened(q) => q # p BY <1>2 DEF Opened
  <2> QED BY <1>2, <1>5, <2>1 DEF StepHyp, PutsInv, StoredOwned, Opened
<1> QED BY <1>7, <1>8, <1>9, <1>10 DEF PutsInv

\* io.Copy: the same Puts are past OpenFile, and an inode that was whole
\* stays whole.
LEMMA WritePutsInv ==
  ASSUME StepHyp, NEW p \in Puts, PutWrite(p)
  PROVE  PutsInv'
<1>1. ~Fault BY NoFault DEF StepHyp
<1>2. /\ ppc[p] = "write"
      /\ data' = [data EXCEPT ![pfd[p]] = Written(pfd[p])]
      /\ ppc' = [ppc EXCEPT ![p] = "rename"]
      /\ UNCHANGED <<pres, path, tmp, pfd>>
  BY <1>1 DEF PutWrite
<1>3. ppc \in [Puts -> {"open", "write", "rename", "flush", "done"}]
      /\ data \in [Inodes -> Contents]
  BY DEF StepHyp, TypeOK
<1>4. \A q \in Puts : Opened(q)' <=> Opened(q) BY <1>2, <1>3 DEF Opened
<1>5. OpenedFd' /\ TmpOwned' /\ StoredOwned'
  BY <1>2, <1>4 DEF StepHyp, PutsInv, OpenedFd, TmpOwned, StoredOwned
<1>6. DoneFull'
  <2> SUFFICES ASSUME NEW q \in Puts, ppc'[q] = "done"
               PROVE  data'[pfd'[q]] = "full"
    BY DEF DoneFull
  <2>1. q # p /\ ppc[q] = "done" BY <1>2, <1>3
  <2>2. data[pfd[q]] = "full" BY <2>1 DEF StepHyp, PutsInv, DoneFull
  <2>3. pfd[q] \in Inodes BY <2>1 DEF StepHyp, PutsInv, OpenedFd, Opened
  <2> QED BY <1>2, <1>3, <2>2, <2>3 DEF Written
<1> QED BY <1>5, <1>6 DEF PutsInv

\* Rename: the inode it moves over the blob path is one a Put owns.
LEMMA RenamePutsInv ==
  ASSUME StepHyp, NEW p \in Puts, PutRename(p)
  PROVE  PutsInv'
<1>1. ~Fault BY NoFault DEF StepHyp
<1>2. ppc \in [Puts -> {"open", "write", "rename", "flush", "done"}]
      /\ pres \in [Puts -> {"pending", "ok", "err"}]
  BY DEF StepHyp, TypeOK
<1>3. /\ ppc[p] = "rename"
      /\ ppc' = [ppc EXCEPT ![p] = "flush"]
      /\ UNCHANGED <<data, pfd>>
  BY DEF PutRename
<1>4. \A q \in Puts : (Opened(q)' <=> Opened(q)) /\ (q # p => pres'[q] = pres[q])
  BY <1>1, <1>2, <1>3 DEF PutRename, Opened
<1>5. OpenedFd' /\ DoneFull'
  <2>1. \A q \in Puts : ppc'[q] = "done" => ppc[q] = "done" BY <1>2, <1>3
  <2> QED BY <1>3, <1>4, <2>1 DEF StepHyp, PutsInv, OpenedFd, DoneFull
<1>6. CASE tmp # NoFile /\ path' = tmp /\ tmp' = NoFile
             /\ pres' = [pres EXCEPT ![p] = "ok"]
  <2>1. PICK o \in Puts : Opened(o) /\ pfd[o] = tmp
    BY <1>3, <1>6 DEF StepHyp, PutsInv, TmpOwned, Opened
  <2>2. StoredOwned' BY <1>3, <1>4, <1>6, <2>1 DEF StoredOwned
  <2>3. TmpOwned' BY <1>6 DEF TmpOwned
  <2> QED BY <1>5, <2>2, <2>3 DEF PutsInv
<1>7. CASE tmp = NoFile /\ pres' = [pres EXCEPT ![p] = "err"]
             /\ UNCHANGED <<path, tmp>>
  <2>1. \A q \in Puts : pres'[q] = "ok" => pres[q] = "ok" BY <1>2, <1>7
  <2> QED BY <1>3, <1>4, <1>5, <1>7, <2>1
          DEF StepHyp, PutsInv, TmpOwned, StoredOwned
<1> QED BY <1>1, <1>6, <1>7 DEF PutRename

\* The deferred Flush: the Put's inode is whole when it returns.
LEMMA FlushPutsInv ==
  ASSUME StepHyp, NEW p \in Puts, PutFlush(p)
  PROVE  PutsInv'
<1>1. ~Fault BY NoFault DEF StepHyp
<1>2. /\ ppc[p] = "flush"
      /\ data' = [data EXCEPT ![pfd[p]] = "full"]
      /\ ppc' = [ppc EXCEPT ![p] = "done"]
      /\ UNCHANGED <<pres, path, tmp, pfd>>
  BY <1>1 DEF PutFlush
<1>3. ppc \in [Puts -> {"open", "write", "rename", "flush", "done"}]
      /\ data \in [Inodes -> Contents]
  BY DEF StepHyp, TypeOK
<1>4. \A q \in Puts : Opened(q)' <=> Opened(q) BY <1>2, <1>3 DEF Opened
<1>5. OpenedFd' /\ TmpOwned' /\ StoredOwned'
  BY <1>2, <1>4 DEF StepHyp, PutsInv, OpenedFd, TmpOwned, StoredOwned
<1>6. pfd[p] \in Inodes BY <1>2 DEF StepHyp, PutsInv, OpenedFd, Opened
<1>7. DoneFull'
  <2> SUFFICES ASSUME NEW q \in Puts, ppc'[q] = "done"
               PROVE  data'[pfd'[q]] = "full"
    BY DEF DoneFull
  <2>1. CASE q = p BY <1>2, <1>3, <1>6, <2>1
  <2>2. CASE q # p
    <3>1. ppc[q] = "done" BY <1>2, <1>3, <2>2
    <3>2. data[pfd[q]] = "full" /\ pfd[q] \in Inodes
      BY <3>1 DEF StepHyp, PutsInv, DoneFull, OpenedFd, Opened
    <3> QED BY <1>2, <1>3, <3>2
  <2> QED BY <2>1, <2>2
<1> QED BY <1>5, <1>7 DEF PutsInv


\* Every step keeps PutsInv; with no Get and no Delete every step is a
\* Put's.
LEMMA NextPutsInv ==
  ASSUME StepHyp, [Next]_vars
  PROVE  PutsInv'
<1>1. CASE \E p \in Puts : PutOpen(p) \/ PutWrite(p) \/ PutRename(p)
                           \/ PutFlush(p)
  BY <1>1, OpenPutsInv, WritePutsInv, RenamePutsInv, FlushPutsInv
<1>2. CASE UNCHANGED vars
  <2>1. UNCHANGED <<ppc, pfd, pres, path, tmp, data>> BY <1>2 DEF vars
  <2> QED BY <2>1 DEF StepHyp, PutsInv, OpenedFd, TmpOwned, DoneFull,
                      StoredOwned, Opened
<1>3. ~\E g \in Gets : TRUE BY DEF StepHyp, PutsOnly
<1>4. ~\E d \in Deletes : TRUE BY DEF StepHyp, PutsOnly
<1> QED BY <1>1, <1>2, <1>3, <1>4 DEF Next

\* "Put stores the blob on disk" (line 107): however any number of Puts
\* of one hash interleave their OpenFile, io.Copy, Rename and deferred
\* Flush, once all have returned and one returned nil, the blob path holds
\* the whole blob.
THEOREM PutsStore ==
  ASSUME PutsOnly
  PROVE  Spec => []PutsComplete
<1>1. Init => IInv /\ PutsInv BY InitIInv, InitPutsInv
<1>2. IInv /\ PutsInv /\ [Next]_vars => (IInv /\ PutsInv)'
  BY NextIInv, NextPutsInv DEF StepHyp, IInv
<1>3. PutsInv => PutsComplete
  BY DEF PutsInv, StoredOwned, DoneFull, Opened, PutsComplete
<1> QED BY <1>1, <1>2, <1>3, PTL DEF Spec


\* Every variable of the store keeps its type, d.concurrentChecks a
\* natural number included, however Puts, Gets and Deletes interleave and
\* whatever syscalls fail.
THEOREM DiskTypeCorrect == Spec => []TypeOK
BY ChecksCorrect, PTL

=============================================================================
