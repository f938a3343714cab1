--------------------------- MODULE HTTPStoreProofs ---------------------------
(***************************************************************************)
(* Proof that a blob returned by HTTPStore.Get is exactly the body that   *)
(* Get received, for any number of concurrent Gets and any number of      *)
(* buffers the pool may allocate.                                          *)
(*                                                                         *)
(* BlobIntact is not inductive: a Get copies out whatever its buffer      *)
(* holds.  The strengthening says where the buffers are: a buffer held by *)
(* a Get is allocated and held by no other Get and not pooled; a pooled   *)
(* or never-allocated buffer is empty; and a Get about to read the body   *)
(* holds an empty buffer, one about to copy out holds just its body.      *)
(***************************************************************************)
EXTENDS HTTPStore, TLAPS

\* A Get holds a buffer exactly between getBuffer and its deferred putBuffer.
Holding == {"copy", "out", "put"}

BuffersPlaced ==
    /\ \A g \in Gets : (hbuf[g] # NoBuf) <=> (hpc[g] \in Holding)
    /\ \A g \in Gets : hbuf[g] # NoBuf => hbuf[g] \in allocated
    /\ \A b \in pool : bufData[b] = <<>>
    /\ \A b \in Bufs \ allocated : bufData[b] = <<>> /\ b \notin pool

BuffersFilled ==
    /\ \A g \in Gets : hpc[g] = "copy" => bufData[hbuf[g]] = <<>>
    /\ \A g \in Gets : hpc[g] = "out" => bufData[hbuf[g]] = <<g>>

IInv == TypeOK /\ BuffersPlaced /\ BufferExclusive /\ BuffersFilled
        /\ BlobIntact

\* The initial state: every buffer is unallocated and empty, no Get holds one.
THEOREM InitIInv == Init => IInv
BY HTTPAssumption DEF Init, IInv, TypeOK, BuffersPlaced, BufferExclusive,
                      BuffersFilled, BlobIntact, Holding

\* getBuffer and the header checks: the buffer taken is pooled or new,
\* hence empty and held by nobody.
LEMMA GetDoIInv ==
  ASSUME IInv, NEW g \in Gets, GetDo(g)
  PROVE  IInv'
<1> USE HTTPAssumption DEF IInv, TypeOK, BuffersPlaced, BufferExclusive,
                           BuffersFilled, BlobIntact, Holding
<1>1. CASE /\ hpc' = [hpc EXCEPT ![g] = "done"]
           /\ hres' = [hres EXCEPT ![g] = "err"]
           /\ UNCHANGED <<pool, allocated, hbuf>>
  BY <1>1 DEF GetDo
<1>2. CASE \E b \in Bufs, status \in Statuses, via \in Vias :
            /\ GetBuffer(g, b)
            /\ hpc' = [hpc EXCEPT ![g] = AfterHeaders(status, via)[1]]
            /\ hres' = [hres EXCEPT ![g] = AfterHeaders(status, via)[2]]
  <2>1. PICK b \in Bufs, status \in Statuses, via \in Vias :
            /\ GetBuffer(g, b)
            /\ hpc' = [hpc EXCEPT ![g] = AfterHeaders(status, via)[1]]
            /\ hres' = [hres EXCEPT ![g] = AfterHeaders(status, via)[2]]
    BY <1>2
  <2>2. AfterHeaders(status, via) \in {<<"put", "err">>, <<"put", "notFound">>,
                                      <<"copy", "pending">>}
    BY DEF AfterHeaders
  <2>3. /\ bufData[b] = <<>>
        /\ \A h \in Gets : hbuf[h] # b
    BY <2>1 DEF GetBuffer
  <2> QED BY <2>1, <2>2, <2>3 DEF GetDo, GetBuffer
<1> QED BY <1>1, <1>2 DEF GetDo

\* io.Copy appends the Get's body to its own, empty, buffer.
LEMMA GetCopyInIInv ==
  ASSUME IInv, NEW g \in Gets, GetCopyIn(g)
  PROVE  IInv'
<1> DEFINE b == hbuf[g]
<1>1. /\ b \in Bufs /\ b \in allocated /\ b \notin pool
      /\ bufData[b] = <<>>
      /\ \A h \in Gets : h # g => hbuf[h] # b
  BY HTTPAssumption DEF GetCopyIn, IInv, TypeOK, BuffersPlaced,
                        BufferExclusive, BuffersFilled, Holding
<1>2. bufData' = [bufData EXCEPT ![b] = <<g>>]
  BY <1>1 DEF GetCopyIn
<1>3. UNCHANGED <<pool, allocated, hbuf, hblob>>
  BY DEF GetCopyIn
<1>4. hpc' \in {[hpc EXCEPT ![g] = "out"], [hpc EXCEPT ![g] = "put"]}
      /\ hres' \in {hres, [hres EXCEPT ![g] = "err"]}
  BY DEF GetCopyIn
<1>5. TypeOK'
  <2>1. bufData' \in [Bufs -> Seq(Gets)]
    BY <1>1, <1>2 DEF IInv, TypeOK
  <2>2. hpc' \in [Gets -> {"do", "copy", "out", "put", "done"}]
        /\ hres' \in [Gets -> {"pending", "blob", "notFound", "err"}]
    BY DEF GetCopyIn, IInv, TypeOK
  <2> QED BY <1>3, <2>1, <2>2 DEF IInv, TypeOK
<1>6. BuffersPlaced'
  <2>1. \A h \in Gets : (hbuf'[h] # NoBuf) <=> (hpc'[h] \in Holding)
    BY <1>1, <1>3, <1>4 DEF IInv, TypeOK, BuffersPlaced, Holding, GetCopyIn
  <2>2. \A h \in Gets : hbuf'[h] # NoBuf => hbuf'[h] \in allocated'
    BY <1>3 DEF IInv, BuffersPlaced
  <2>3. \A c \in pool' : bufData'[c] = <<>>
    BY <1>1, <1>2, <1>3 DEF IInv, TypeOK, BuffersPlaced
  <2>4. \A c \in Bufs \ allocated' : bufData'[c] = <<>> /\ c \notin pool'
    BY <1>1, <1>2, <1>3 DEF IInv, TypeOK, BuffersPlaced
  <2> QED BY <2>1, <2>2, <2>3, <2>4 DEF BuffersPlaced
<1>7. BufferExclusive'
  BY <1>3 DEF IInv, BufferExclusive
<1>8. BuffersFilled'
  BY <1>1, <1>2, <1>3, <1>4 DEF IInv, TypeOK, BuffersFilled, GetCopyIn
<1>9. BlobIntact'
  BY <1>3, <1>4 DEF IInv, TypeOK, BlobIntact, GetCopyIn
<1> QED BY <1>5, <1>6, <1>7, <1>8, <1>9 DEF IInv

\* The copy taken out is the buffer's content, the Get's body alone.
LEMMA GetCopyOutIInv ==
  ASSUME IInv, NEW g \in Gets, GetCopyOut(g)
  PROVE  IInv'
BY HTTPAssumption DEF GetCopyOut, IInv, TypeOK, BuffersPlaced,
                      BufferExclusive, BuffersFilled, BlobIntact, Holding

\* putBuffer resets the buffer before pooling it, and only its holder
\* returns it.
LEMMA GetPutIInv ==
  ASSUME IInv, NEW g \in Gets, GetPut(g)
  PROVE  IInv'
BY HTTPAssumption DEF GetPut, PutBuffer, IInv, TypeOK, BuffersPlaced,
                      BufferExclusive, BuffersFilled, BlobIntact, Holding

THEOREM NextIInv == IInv /\ [Next]_vars => IInv'
<1> SUFFICES ASSUME IInv, [Next]_vars PROVE IInv'
  OBVIOUS
<1>1. CASE UNCHANGED vars
  BY <1>1 DEF vars, IInv, TypeOK, BuffersPlaced, BufferExclusive,
              BuffersFilled, BlobIntact
<1> QED BY <1>1, GetDoIInv, GetCopyInIInv, GetCopyOutIInv, GetPutIInv
        DEF Next

\* A blob returned by Get is exactly the body that Get received, and no
\* pooled buffer is ever used by two Gets at once (lines 75-99, 131-139),
\* whatever the interleaving of the Gets and the choices of sync.Pool.
THEOREM PoolSafe == Spec => [](BlobIntact /\ BufferExclusive)
<1>1. IInv => BlobIntact /\ BufferExclusive BY DEF IInv
<1> QED BY InitIInv, NextIInv, <1>1, PTL DEF Spec

\* A pooled buffer of Get is used by one call at a time: no buffer is in
\* the pool while a call still reads through it, and no two calls hold
\* the same one (lines 75-99 and 130-139), for every number of concurrent Gets.
THEOREM BuffersExclusive == Spec => []BufferExclusive
BY PoolSafe, PTL

=============================================================================
