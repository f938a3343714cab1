------------------------------ MODULE DiskStore ------------------------------
(***************************************************************************)
(* The local blob store of package store (src/unnamed/part_000): Put, Get *)
(* and Delete of one blob hash, called by concurrent goroutines.          *)
(*                                                                         *)
(* The file system is abstracted to the two names the store uses for the *)
(* hash, the blob path d.path(hash) and the temporary path                *)
(* d.tmpPath(hash), each naming an inode or nothing, and to what each     *)
(* inode holds: "empty" (just created), "partial" (written through the    *)
(* directio buffer but not flushed: the tail is missing), "full" (the     *)
(* blob) or "corrupt" (bytes whose hash is not the blob's).  Every Put of *)
(* the hash writes the same bytes, so content is all a reader tells apart.*)
(* Any syscall the code checks may fail with an I/O error; such faults    *)
(* are bounded by MaxFaults.                                               *)
(***************************************************************************)
EXTENDS Naturals, FiniteSets

CONSTANTS
    Puts,          \* goroutines calling Put(hash, blob)
    Gets,          \* goroutines calling Get(hash)
    Deletes,       \* goroutines calling Delete(hash)
    MaxChecks,     \* maxConcurrentChecks (30 in the code)
    MaxFaults,     \* bound on I/O errors returned by syscalls
    OldBlob,       \* model value: an inode at the blob path before the run
    OldTmp,        \* model value: a leftover temporary file of a lost Put
    NoFile         \* model value: the name does not exist

ASSUME DiskAssumption ==
    /\ IsFiniteSet(Puts) /\ IsFiniteSet(Gets) /\ IsFiniteSet(Deletes)
    /\ MaxChecks \in Nat \ {0}
    /\ MaxFaults \in Nat
    /\ OldBlob \notin Puts /\ OldTmp \notin Puts /\ OldBlob # OldTmp
    /\ NoFile \notin Puts \cup {OldBlob, OldTmp}

\* A Put that creates the temporary file creates the inode named after it.
Inodes == Puts \cup {OldBlob, OldTmp}
Contents == {"empty", "partial", "full", "corrupt"}

\* Where a Get is; between Add(1) and its return it is checking.
GetLabels == {"read", "load", "add", "check", "has", "remove", "done"}
Checking == {"check", "has", "remove"}

VARIABLES
    initialized,   \* d.initialized
    checks,        \* d.concurrentChecks
    path,          \* inode at d.path(hash), or NoFile
    tmp,           \* inode at d.tmpPath(hash), or NoFile
    data,          \* data[i]: what inode i holds
    faults,        \* I/O errors returned so far
    ppc, pfd, pres,       \* Put: step, inode of f, return value
    gpc, gblob, gres,     \* Get: step, bytes read, return value
    dpc, dres             \* Delete: step, return value

vars == <<initialized, checks, path, tmp, data, faults,
          ppc, pfd, pres, gpc, gblob, gres, dpc, dres>>

TypeOK ==
    /\ initialized \in BOOLEAN
    /\ checks \in Nat
    /\ path \in Inodes \cup {NoFile}
    /\ tmp \in Inodes \cup {NoFile}
    /\ data \in [Inodes -> Contents]
    /\ faults \in 0..MaxFaults
    /\ ppc \in [Puts -> {"open", "write", "rename", "flush", "done"}]
    /\ pfd \in [Puts -> Inodes \cup {NoFile}]
    /\ pres \in [Puts -> {"pending", "ok", "err"}]
    /\ gpc \in [Gets -> GetLabels]
    /\ gblob \in [Gets -> Contents \cup {NoFile}]
    /\ gres \in [Gets -> {"pending", "blob", "notFound", "err"}]
    /\ dpc \in [Deletes -> {"has", "remove", "done"}]
    /\ dres \in [Deletes -> {"pending", "nil", "err"}]

\* The disk as a process may find it: a blob stored earlier, sound or
\* corrupted, or none; and perhaps the temporary file of a Put that was
\* lost between io.Copy and Rename.
Init ==
    /\ initialized = FALSE
    /\ checks = 0
    /\ path \in {NoFile, OldBlob}
    /\ tmp \in {NoFile, OldTmp}
    /\ \E old \in {"full", "corrupt"} :
          data = [i \in Inodes |-> CASE i = OldBlob -> old
                                     [] i = OldTmp  -> "partial"
                                     [] OTHER       -> "empty"]
    /\ faults = 0
    /\ ppc = [p \in Puts |-> "open"]
    /\ pfd = [p \in Puts |-> NoFile]
    /\ pres = [p \in Puts |-> "pending"]
    /\ gpc = [g \in Gets |-> "read"]
    /\ gblob = [g \in Gets |-> NoFile]
    /\ gres = [g \in Gets |-> "pending"]
    /\ dpc = [d \in Deletes |-> "has"]
    /\ dres = [d \in Deletes |-> "pending"]

\* A syscall returns an I/O error.
Fault == faults < MaxFaults /\ faults' = faults + 1

\* initOnce (lines 194-209), run at the start of every call: its MkdirAll
\* calls succeed and d.initialized is set.  Its failure is the Fault
\* alternative of the step that calls it.
InitOnce == initialized' = TRUE

PutVars == <<ppc, pfd, pres>>
GetVars == <<gpc, gblob, gres>>
DelVars == <<dpc, dres>>

-----------------------------------------------------------------------------
(***************************************************************************)
(* Put (lines 108-139).  Steps: open the temporary file, io.Copy through  *)
(* the directio buffer, Rename, and the deferred dio.Flush and f.Close,   *)
(* which Go runs after the return value has been computed.               *)
(***************************************************************************)

\* initOnce, ensureDirExists and os.OpenFile(tmpPath, O_WRONLY|O_CREATE)
\* (lines 109-130).  OpenFile opens the inode already at the temporary
\* path (no O_EXCL, no O_TRUNC) or creates one; either a syscall before
\* it fails and nothing is created, or directio.New fails after it and
\* the temporary file stays behind.
PutOpen(p) ==
    LET fd == IF tmp = NoFile THEN p ELSE tmp IN
    /\ ppc[p] = "open"
    /\ \/ /\ InitOnce
          /\ pfd' = [pfd EXCEPT ![p] = fd]
          /\ tmp' = fd
          /\ ppc' = [ppc EXCEPT ![p] = "write"]
          /\ UNCHANGED <<pres, faults>>
       \/ /\ Fault
          /\ ppc' = [ppc EXCEPT ![p] = "done"]
          /\ pres' = [pres EXCEPT ![p] = "err"]
          /\ UNCHANGED <<initialized, tmp, pfd>>
       \/ /\ Fault
          /\ InitOnce
          /\ tmp' = fd
          /\ ppc' = [ppc EXCEPT ![p] = "done"]
          /\ pres' = [pres EXCEPT ![p] = "err"]
          /\ UNCHANGED pfd
    /\ UNCHANGED <<checks, path, data, GetVars, DelVars>>

\* What io.Copy leaves in the inode: the bytes up to the last whole
\* directio block; writing the same bytes over a full file leaves it full.
Written(i) == IF data[i] = "full" THEN "full" ELSE "partial"

\* io.Copy (lines 133-136).  On an error Put returns at once; the deferred
\* Flush then writes what the buffer holds, and the file stays short.
PutWrite(p) ==
    /\ ppc[p] = "write"
    /\ data' = [data EXCEPT ![pfd[p]] = Written(pfd[p])]
    /\ \/ /\ ppc' = [ppc EXCEPT ![p] = "rename"]
          /\ UNCHANGED <<pres, faults>>
       \/ /\ Fault
          /\ ppc' = [ppc EXCEPT ![p] = "done"]
          /\ pres' = [pres EXCEPT ![p] = "err"]
    /\ UNCHANGED <<initialized, checks, path, tmp, pfd, GetVars, DelVars>>

\* os.Rename(tmpPath, path) (lines 137-138): moves whatever inode is at
\* the temporary path over the blob path, or fails with ENOENT when a
\* concurrent Put has already renamed it.  Its error is the return value.
PutRename(p) ==
    /\ ppc[p] = "rename"
    /\ ppc' = [ppc EXCEPT ![p] = "flush"]
    /\ \/ /\ tmp # NoFile
          /\ path' = tmp
          /\ tmp' = NoFile
          /\ pres' = [pres EXCEPT ![p] = "ok"]
          /\ UNCHANGED faults
       \/ /\ tmp = NoFile
          /\ pres' = [pres EXCEPT ![p] = "err"]
          /\ UNCHANGED <<path, tmp, faults>>
       \/ /\ tmp # NoFile
          /\ Fault
          /\ pres' = [pres EXCEPT ![p] = "err"]
          /\ UNCHANGED <<path, tmp>>
    /\ UNCHANGED <<initialized, checks, data, pfd, GetVars, DelVars>>

\* Mutant: the deferred dio.Flush left out; only f.Close runs.
PutFlushDropped(p) ==
    /\ ppc[p] = "flush"
    /\ ppc' = [ppc EXCEPT ![p] = "done"]
    /\ UNCHANGED <<initialized, checks, path, tmp, data, faults, pfd, pres,
                   GetVars, DelVars>>

\* The deferred dio.Flush and f.Close (lines 124, 131), after Rename: the
\* tail block reaches the inode, wherever it is linked now.  The error of
\* Flush is discarded, so a failed Flush leaves the file short and Put
\* still returns what Rename returned.
PutFlush(p) ==
    /\ ppc[p] = "flush"
    /\ ppc' = [ppc EXCEPT ![p] = "done"]
    /\ \/ /\ data' = [data EXCEPT ![pfd[p]] = "full"]
          /\ UNCHANGED faults
       \/ /\ Fault
          /\ UNCHANGED data
    /\ UNCHANGED <<initialized, checks, path, tmp, pfd, pres,
                   GetVars, DelVars>>

-----------------------------------------------------------------------------
(***************************************************************************)
(* Get (lines 71-105), with the Delete it calls on a broken blob.         *)
(***************************************************************************)

\* initOnce and ioutil.ReadFile(path) (lines 73-84): a snapshot of the
\* bytes, ErrBlobNotFound, or an I/O error.
GetRead(g) ==
    /\ gpc[g] = "read"
    /\ \/ /\ path = NoFile
          /\ InitOnce
          /\ gpc' = [gpc EXCEPT ![g] = "done"]
          /\ gres' = [gres EXCEPT ![g] = "notFound"]
          /\ UNCHANGED <<gblob, faults>>
       \/ /\ path # NoFile
          /\ InitOnce
          /\ gblob' = [gblob EXCEPT ![g] = data[path]]
          /\ gpc' = [gpc EXCEPT ![g] = "load"]
          /\ UNCHANGED <<gres, faults>>
       \/ /\ Fault
          /\ gpc' = [gpc EXCEPT ![g] = "done"]
          /\ gres' = [gres EXCEPT ![g] = "err"]
          /\ UNCHANGED <<initialized, gblob>>
    /\ UNCHANGED <<checks, path, tmp, data, PutVars, DelVars>>

\* The throttle (line 88): d.concurrentChecks.Load() < maxConcurrentChecks.
\* Over the limit the bytes are returned unchecked (line 104).
GetLoad(g) ==
    /\ gpc[g] = "load"
    /\ \/ /\ checks < MaxChecks
          /\ gpc' = [gpc EXCEPT ![g] = "add"]
          /\ UNCHANGED gres
       \/ /\ checks >= MaxChecks
          /\ gpc' = [gpc EXCEPT ![g] = "done"]
          /\ gres' = [gres EXCEPT ![g] = "blob"]
    /\ UNCHANGED <<initialized, checks, path, tmp, data, faults, gblob,
                   PutVars, DelVars>>

\* d.concurrentChecks.Add(1) (line 89), a separate atomic step after Load.
GetAdd(g) ==
    /\ gpc[g] = "add"
    /\ checks' = checks + 1
    /\ gpc' = [gpc EXCEPT ![g] = "check"]
    /\ UNCHANGED <<initialized, path, tmp, data, faults, gblob, gres,
                   PutVars, DelVars>>

\* Return from Get with result res; the deferred Sub(1) (line 90) runs.
GetReturnChecked(g, res) ==
    /\ gpc' = [gpc EXCEPT ![g] = "done"]
    /\ gres' = [gres EXCEPT ![g] = res]
    /\ checks' = checks - 1

\* sha512.Sum384 of the bytes read against the hash (lines 91-93): a sound
\* blob is returned, a broken one is deleted.
GetCheck(g) ==
    /\ gpc[g] = "check"
    /\ \/ /\ gblob[g] = "full"
          /\ GetReturnChecked(g, "blob")
       \/ /\ gblob[g] # "full"
          /\ gpc' = [gpc EXCEPT ![g] = "has"]
          /\ UNCHANGED <<checks, gres>>
    /\ UNCHANGED <<initialized, path, tmp, data, faults, gblob,
                   PutVars, DelVars>>

\* Mutant: the Has-false return of Delete skips the decrement.
GetHasNoSub(g) ==
    /\ gpc[g] = "has"
    /\ \/ /\ path = NoFile
          /\ gpc' = [gpc EXCEPT ![g] = "done"]
          /\ gres' = [gres EXCEPT ![g] = "err"]
          /\ UNCHANGED <<checks, faults>>
       \/ /\ path # NoFile
          /\ gpc' = [gpc EXCEPT ![g] = "remove"]
          /\ UNCHANGED <<checks, gres, faults>>
       \/ /\ Fault
          /\ GetReturnChecked(g, "err")
    /\ UNCHANGED <<initialized, path, tmp, data, gblob, PutVars, DelVars>>

\* d.Delete(hash) from Get (line 96), up to its Has (lines 147-159): the
\* stat sees the blob path now, which need not hold the bytes read.  A
\* missing file makes Delete return nil and Get the broken-blob error
\* (line 100); a stat error is returned as is (line 98).
GetHas(g) ==
    /\ gpc[g] = "has"
    /\ \/ /\ path = NoFile
          /\ GetReturnChecked(g, "err")
          /\ UNCHANGED faults
       \/ /\ path # NoFile
          /\ gpc' = [gpc EXCEPT ![g] = "remove"]
          /\ UNCHANGED <<checks, gres, faults>>
       \/ /\ Fault
          /\ GetReturnChecked(g, "err")
    /\ UNCHANGED <<initialized, path, tmp, data, gblob, PutVars, DelVars>>

\* Mutant: an explicit Sub(1) on the Delete-error path besides the deferred one.
GetRemoveDoubleSub(g) ==
    /\ gpc[g] = "remove"
    /\ gpc' = [gpc EXCEPT ![g] = "done"]
    /\ gres' = [gres EXCEPT ![g] = "err"]
    /\ checks' = checks - 2
    /\ \/ /\ path # NoFile
          /\ path' = NoFile
          /\ UNCHANGED faults
       \/ /\ path = NoFile
          /\ UNCHANGED <<path, faults>>
       \/ /\ path # NoFile
          /\ Fault
          /\ UNCHANGED path
    /\ UNCHANGED <<initialized, tmp, data, gblob, PutVars, DelVars>>

\* os.Remove(path) of Delete (lines 161-162): unlinks whatever inode is at
\* the blob path, or fails with ENOENT; Get returns an error either way.
GetRemove(g) ==
    /\ gpc[g] = "remove"
    /\ GetReturnChecked(g, "err")
    /\ \/ /\ path # NoFile
          /\ path' = NoFile
          /\ UNCHANGED faults
       \/ /\ path = NoFile
          /\ UNCHANGED <<path, faults>>
       \/ /\ path # NoFile
          /\ Fault
          /\ UNCHANGED path
    /\ UNCHANGED <<initialized, tmp, data, gblob, PutVars, DelVars>>

-----------------------------------------------------------------------------
(***************************************************************************)
(* Delete (lines 147-163), called directly.                               *)
(***************************************************************************)

\* initOnce and Has (lines 148-159): os.Stat of the blob path.
DelHas(d) ==
    /\ dpc[d] = "has"
    /\ \/ /\ path = NoFile
          /\ InitOnce
          /\ dpc' = [dpc EXCEPT ![d] = "done"]
          /\ dres' = [dres EXCEPT ![d] = "nil"]
          /\ UNCHANGED faults
       \/ /\ path # NoFile
          /\ InitOnce
          /\ dpc' = [dpc EXCEPT ![d] = "remove"]
          /\ UNCHANGED <<dres, faults>>
       \/ /\ Fault
          /\ dpc' = [dpc EXCEPT ![d] = "done"]
          /\ dres' = [dres EXCEPT ![d] = "err"]
          /\ UNCHANGED initialized
    /\ UNCHANGED <<checks, path, tmp, data, PutVars, GetVars>>

\* os.Remove(path) (lines 161-162): ENOENT if the file went away since Has.
DelRemove(d) ==
    /\ dpc[d] = "remove"
    /\ dpc' = [dpc EXCEPT ![d] = "done"]
    /\ \/ /\ path # NoFile
          /\ path' = NoFile
          /\ dres' = [dres EXCEPT ![d] = "nil"]
          /\ UNCHANGED faults
       \/ /\ path = NoFile
          /\ dres' = [dres EXCEPT ![d] = "err"]
          /\ UNCHANGED <<path, faults>>
       \/ /\ path # NoFile
          /\ Fault
          /\ dres' = [dres EXCEPT ![d] = "err"]
          /\ UNCHANGED path
    /\ UNCHANGED <<initialized, checks, tmp, data, PutVars, GetVars>>

-----------------------------------------------------------------------------
Next ==
    \/ \E p \in Puts : PutOpen(p) \/ PutWrite(p) \/ PutRename(p) \/ PutFlush(p)
    \/ \E g \in Gets : \/ GetRead(g) \/ GetLoad(g) \/ GetAdd(g)
                       \/ GetCheck(g) \/ GetHas(g) \/ GetRemove(g)
    \/ \E d \in Deletes : DelHas(d) \/ DelRemove(d)

\* Every call runs to its return once started; no liveness is claimed, so
\* the specification carries no fairness.
Spec == Init /\ [][Next]_vars

-----------------------------------------------------------------------------
(***************************************************************************)
(* Properties.                                                             *)
(***************************************************************************)

\* The throttle counter of Get (lines 88-90) counts exactly the Gets
\* between their Add(1) and their return, on every path out of the check,
\* the Delete it calls included: no path forgets the deferred Sub(1).
ChecksAccurate ==
    checks = Cardinality({g \in Gets : gpc[g] \in Checking})

\* "Put stores the blob on disk" (line 107): once every call has returned
\* and some Put returned nil, the blob path holds the whole blob, however
\* the Puts' open, copy, rename and deferred flush interleaved.
PutsComplete ==
    ( /\ \A p \in Puts : ppc[p] = "done"
      /\ \E p \in Puts : pres[p] = "ok" )
    => path # NoFile /\ data[path] = "full"

\* A blob that a Put reported stored (line 107) is never removed by the
\* store itself: with no Delete caller, the blob path is never emptied
\* after a Put has returned nil.
BlobStored ==
    (\E p \in Puts : ppc[p] = "done" /\ pres[p] = "ok") => path # NoFile

\* "Delete deletes the blob from the store" (line 146), and an absent blob
\* is not an error (lines 157-159): Delete fails only on an I/O error.
DeleteFailsOnlyOnIO ==
    \A d \in Deletes : dres[d] = "err" => faults > 0
=============================================================================
