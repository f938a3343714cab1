------------------------------ MODULE HTTPStore ------------------------------
(***************************************************************************)
(* HTTPStore.Get (src/store/http.go, lines 61-139): concurrent Gets that  *)
(* share the package's sync.Pool of 2 MB buffers.  Each Get reads the     *)
(* response body into a pooled buffer, copies it into a fresh blob, and   *)
(* the deferred putBuffer resets the buffer and returns it to the pool.   *)
(*                                                                         *)
(* The bytes a Get receives are abstracted to the name of the Get: a      *)
(* buffer holds the sequence of the Gets whose bodies were written into   *)
(* it since its last Reset, so bytes left over from an earlier Get show   *)
(* up as a longer sequence.  The other statuses, the Via trace header and *)
(* the transport errors of httpClient.Do are chosen by the environment.   *)
(***************************************************************************)
EXTENDS Naturals, Sequences

CONSTANTS
    Gets,    \* goroutines calling Get, one call each
    Bufs,    \* the buffers buffers.New may allocate
    NoBuf    \* model value: no buffer held

ASSUME HTTPAssumption == NoBuf \notin Bufs

\* A response of httpClient.Do: its status, and a Via header that is
\* absent, parses, or does not parse.
Statuses == {"200", "404", "other"}
Vias == {"none", "ok", "bad"}

VARIABLES
    pool,       \* buffers sitting in the pool
    allocated,  \* buffers New has made so far
    bufData,    \* bufData[b]: the bodies written into b since its Reset
    hpc,        \* where each Get is
    hbuf,       \* tmp: the buffer each Get took, or NoBuf
    hres,       \* what each Get returned
    hblob       \* the blob each Get returned: the bytes it copied out

vars == <<pool, allocated, bufData, hpc, hbuf, hres, hblob>>

TypeOK ==
    /\ pool \subseteq Bufs
    /\ allocated \subseteq Bufs
    /\ bufData \in [Bufs -> Seq(Gets)]
    /\ hpc \in [Gets -> {"do", "copy", "out", "put", "done"}]
    /\ hbuf \in [Gets -> Bufs \cup {NoBuf}]
    /\ hres \in [Gets -> {"pending", "blob", "notFound", "err"}]
    /\ hblob \in [Gets -> Seq(Gets)]

\* The package-level pool starts empty; New makes zeroed buffers.
Init ==
    /\ pool = {}
    /\ allocated = {}
    /\ bufData = [b \in Bufs |-> <<>>]
    /\ hpc = [g \in Gets |-> "do"]
    /\ hbuf = [g \in Gets |-> NoBuf]
    /\ hres = [g \in Gets |-> "pending"]
    /\ hblob = [g \in Gets |-> <<>>]

\* getBuffer (lines 131-133): buffers.Get() hands out a pooled buffer, or
\* calls New when the pool has none to give (sync.Pool may also ignore
\* its pooled buffers and call New).
GetBuffer(g, b) ==
    /\ \/ /\ b \in pool
          /\ pool' = pool \ {b}
          /\ UNCHANGED allocated
       \/ /\ b \in Bufs \ allocated
          /\ allocated' = allocated \cup {b}
          /\ UNCHANGED pool
    /\ hbuf' = [hbuf EXCEPT ![g] = b]

\* Lines 77-90 and 101-106: the Via header is parsed before the status is
\* looked at, so a header that does not parse fails Get whatever the
\* status; then 404 is ErrBlobNotFound, 200 goes on to read the body and
\* any other status is an upstream error.  The next step and the result.
AfterHeaders(status, via) ==
    CASE via = "bad"      -> <<"put", "err">>
      [] status = "404"   -> <<"put", "notFound">>
      [] status = "200"   -> <<"copy", "pending">>
      [] OTHER            -> <<"put", "err">>

\* Lines 63-90: NewRequest and httpClient.Do, whose transport error
\* returns before a buffer is taken; otherwise getBuffer and the headers.
\* Every return after getBuffer runs the deferred putBuffer, the "put"
\* step.
GetDo(g) ==
    /\ hpc[g] = "do"
    /\ \/ /\ hpc' = [hpc EXCEPT ![g] = "done"]
          /\ hres' = [hres EXCEPT ![g] = "err"]
          /\ UNCHANGED <<pool, allocated, hbuf>>
       \/ \E b \in Bufs, status \in Statuses, via \in Vias :
            /\ GetBuffer(g, b)
            /\ hpc' = [hpc EXCEPT ![g] = AfterHeaders(status, via)[1]]
            /\ hres' = [hres EXCEPT ![g] = AfterHeaders(status, via)[2]]
    /\ UNCHANGED <<bufData, hblob>>

\* io.Copy(tmp, res.Body) (lines 91-94): appends the body to whatever the
\* buffer holds; a read error returns after part of it was written.
GetCopyIn(g) ==
    /\ hpc[g] = "copy"
    /\ bufData' = [bufData EXCEPT ![hbuf[g]] = Append(@, g)]
    /\ \/ hpc' = [hpc EXCEPT ![g] = "out"] /\ UNCHANGED hres
       \/ /\ hpc' = [hpc EXCEPT ![g] = "put"]
          /\ hres' = [hres EXCEPT ![g] = "err"]
    /\ UNCHANGED <<pool, allocated, hbuf, hblob>>

\* putBuffer (lines 136-139): buf.Reset(), then buffers.Put(buf).
PutBuffer(b) ==
    /\ bufData' = [bufData EXCEPT ![b] = <<>>]
    /\ pool' = pool \cup {b}

\* Mutant: putBuffer also called explicitly before the return, besides
\* the deferred call.
GetCopyOutEarlyPut(g) ==
    /\ hpc[g] = "out"
    /\ hblob' = [hblob EXCEPT ![g] = bufData[hbuf[g]]]
    /\ hres' = [hres EXCEPT ![g] = "blob"]
    /\ hpc' = [hpc EXCEPT ![g] = "put"]
    /\ PutBuffer(hbuf[g])
    /\ UNCHANGED <<allocated, hbuf>>

\* make([]byte, written) and copy(blob, tmp.Bytes()) (lines 96-99): the
\* blob returned is a copy of the buffer's bytes, taken before the
\* deferred putBuffer runs.
GetCopyOut(g) ==
    /\ hpc[g] = "out"
    /\ hblob' = [hblob EXCEPT ![g] = bufData[hbuf[g]]]
    /\ hres' = [hres EXCEPT ![g] = "blob"]
    /\ hpc' = [hpc EXCEPT ![g] = "put"]
    /\ UNCHANGED <<pool, allocated, bufData, hbuf>>

\* Mutant: putBuffer without buf.Reset().
GetPutNoReset(g) ==
    /\ hpc[g] = "put"
    /\ pool' = pool \cup {hbuf[g]}
    /\ hbuf' = [hbuf EXCEPT ![g] = NoBuf]
    /\ hpc' = [hpc EXCEPT ![g] = "done"]
    /\ UNCHANGED <<allocated, bufData, hres, hblob>>

\* The deferred putBuffer(tmp) (line 76) as Get returns.
GetPut(g) ==
    /\ hpc[g] = "put"
    /\ PutBuffer(hbuf[g])
    /\ hbuf' = [hbuf EXCEPT ![g] = NoBuf]
    /\ hpc' = [hpc EXCEPT ![g] = "done"]
    /\ UNCHANGED <<allocated, hres, hblob>>

Next ==
    \E g \in Gets : GetDo(g) \/ GetCopyIn(g) \/ GetCopyOut(g) \/ GetPut(g)

\* A Get runs to its return; no liveness is claimed, so no fairness.
Spec == Init /\ [][Next]_vars

-----------------------------------------------------------------------------
\* The blob a Get returns is exactly the body it received (lines 90-99):
\* nothing another Get wrote into the same pooled buffer, before or while
\* this Get used it, leaks into it, since every buffer is Reset before it
\* is pooled again and the copy is taken before that Reset.
BlobIntact ==
    \A g \in Gets : hres[g] = "blob" => hblob[g] = <<g>>

\* No pooled buffer is used by two Gets at once, and a buffer in use is
\* not in the pool (the deferred putBuffer of line 76 runs exactly once).
BufferExclusive ==
    /\ \A g \in Gets : hbuf[g] # NoBuf => hbuf[g] \notin pool
    /\ \A g, h \in Gets : g # h /\ hbuf[g] # NoBuf => hbuf[g] # hbuf[h]
=============================================================================
