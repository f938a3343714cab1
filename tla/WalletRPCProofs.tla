-------------------------- MODULE WalletRPCProofs ---------------------------
(***************************************************************************)
(* The Node implements the request contract WalletRPC (Spec => RPC!Spec)  *)
(* when there is one caller, its requests do not wrap the id counter     *)
(* (Calls <= 2^IdWidth) and the server sends no pushes or undecodable    *)
(* frames.  Each hypothesis is needed: two callers race on nextID         *)
(* (WalletDuplicateId.cfg), unsolicited frames decode to id 0             *)
(* (WalletUnsolicited.cfg), and with more calls than ids a late answer   *)
(* reaches the later request that reused its id.                         *)
(***************************************************************************)
EXTENDS WalletNodeProofs

Hyp ==
    /\ \E cc : Callers = {cc}
    /\ Calls <= IdMod
    /\ MaxUnsolicited = 0

\* A caller's requests run one after the other: once one has started,
\* every earlier one of the same caller has returned (line 398 is reached
\* only after the previous call of request returned).
Sequential ==
    \A r, s \in Reqs :
        s[1] = r[1] /\ s[2] < r[2] /\ pc[r] # "idle" => pc[s] = "done"

\* The k-th request took id k - 1, and nextID is what its Inc left.
Counter ==
    /\ \A r \in Reqs : pc[r] # "idle" => myId[r] = r[2] - 1
    /\ \A r \in Reqs : pc[r] = "inc" => nextID = r[2] - 1
    /\ \A r \in Reqs :
         /\ pc[r] \notin {"idle", "inc"}
         /\ r[2] = Calls \/ pc[<<r[1], r[2] + 1>>] = "idle"
         => nextID = r[2] % IdMod
    /\ \A r \in Reqs : r[2] = 1 /\ pc[r] = "idle" => nextID = 0

\* Everything that carries an id belongs to the request that took it: the
\* entries of n.handlers, the requests at the server, the frames on the
\* transport, the response listen is sending and the channels' contents.
Owned ==
    /\ \A i \in Ids : handlers[i] # NoReq => handlers[i][2] = i + 1
    /\ \A q \in srvPending : q.id = q.origin[2] - 1
    /\ \A j \in 1..Len(inbox) :
         /\ inbox[j].origin \in Reqs
         /\ inbox[j].id = inbox[j].origin[2] - 1
         /\ inbox[j].shape \in ServerShapes
    /\ lpc = "deliver" => ldst \in Reqs /\ lresp.origin = ldst
                          /\ lresp.kind \in FrameKinds
    /\ \A r \in Reqs : \A j \in 1..Len(chan[r]) :
         chan[r][j].origin = r /\ chan[r][j].kind \in FrameKinds

\* What a request holds once its select is over, and once it returned.
Results ==
    /\ \A r \in Reqs : pc[r] = "del" =>
         \/ resp[r] = Returned("timeout")
         \/ resp[r].origin = r /\ resp[r].kind \in FrameKinds
    /\ \A r \in Reqs : pc[r] = "done" =>
         \/ resp[r].origin = r /\ resp[r].kind \in FrameKinds
         \/ resp[r].origin = NoReq /\ resp[r].kind \in {"timeout", "sendErr"}
         \/ resp[r].origin = NoReq /\ resp[r].kind = "shutdown" /\ stopped
    /\ stopped <=> shutPc # "idle"

RInv == TypeOK /\ Sequential /\ Counter /\ Owned /\ Results

-----------------------------------------------------------------------------
\* With one caller, a request is named by its position alone.
LEMMA OneCaller ==
  ASSUME Hyp, NEW r \in Reqs, NEW s \in Reqs, r[2] = s[2]
  PROVE  r = s
  <1>1. PICK cc : Callers = {cc}
    BY DEF Hyp
  <1>2. r[1] = cc /\ s[1] = cc
    BY <1>1 DEF Reqs
  <1> QED
    BY <1>2 DEF Reqs

\* A request is the pair of its caller and its position.
LEMMA ReqPair ==
  ASSUME NEW r \in Reqs
  PROVE  r = <<r[1], r[2]>> /\ r[1] \in Callers /\ r[2] \in 1..Calls
  BY DEF Reqs

\* The id k - 1 of the k-th request is an id of the counter's range.
LEMMA ReqId ==
  ASSUME Hyp, NEW r \in Reqs
  PROVE  r[2] - 1 \in Ids /\ r[2] \in 1..Calls
  BY IdModPositive, ConstAssumption DEF Hyp, Reqs, Ids

THEOREM InitRInv == Init => RInv
  <1> SUFFICES ASSUME Init PROVE RInv
    OBVIOUS
  <1>1. TypeOK
    BY InitTypeOK
  <1>2. Counter
    BY DEF Init, Counter
  <1> QED
    BY <1>1, <1>2 DEF Init, RInv, Sequential, Owned, Results

\* A step that touches no request, no frame and no channel, and does not
\* start the listener's send, keeps every part of RInv but the types.
LEMMA QuietStep ==
  ASSUME RInv,
         UNCHANGED <<pc, myId, nextID, handlers, chan, resp, srvPending,
                     inbox, ldst, lresp, stopped, shutPc>>,
         lpc' = "deliver" => lpc = "deliver"
  PROVE  (Sequential /\ Counter /\ Owned /\ Results)'
  BY DEF RInv, Sequential, Counter, Owned, Results

\* A number below the modulus is its own remainder.
LEMMA ModSmall ==
  ASSUME NEW x \in Nat, x < IdMod
  PROVE  x % IdMod = x
  BY IdModPositive

\* When request r loads nextID, the counter holds r's id: zero for the
\* first request, otherwise what the previous request's Inc left.
LEMMA LoadSeesId ==
  ASSUME Hyp, RInv, NEW r \in Reqs, pc[r] = "idle",
         r[2] > 1 => pc[<<r[1], r[2] - 1>>] = "done"
  PROVE  nextID = r[2] - 1
  <1>1. CASE r[2] = 1
    BY <1>1 DEF RInv, Counter
  <1>2. CASE r[2] > 1
    <2> DEFINE p == <<r[1], r[2] - 1>>
    <2>1. p \in Reqs /\ p[2] = r[2] - 1 /\ <<p[1], p[2] + 1>> = r
      BY <1>2, ReqPair, ConstAssumption DEF Reqs
    <2>2. nextID = (r[2] - 1) % IdMod
      BY <1>2, <2>1 DEF RInv, Counter
    <2>3. r[2] - 1 \in Nat /\ r[2] - 1 < IdMod
      BY ReqId, IdModPositive DEF Ids
    <2> QED
      BY <2>2, <2>3, ModSmall
  <1> QED
    BY <1>1, <1>2 DEF Reqs

LEMMA LoadRInv ==
  ASSUME Hyp, RInv, NEW r \in Reqs, RequestLoad(r)
  PROVE  (Sequential /\ Counter /\ Owned /\ Results)'
  <1>1. nextID = r[2] - 1
    BY LoadSeesId DEF RequestLoad
  <1>2. pc \in [Reqs -> PcLabels] /\ pc' = [pc EXCEPT ![r] = "inc"]
    BY DEF RInv, TypeOK, RequestLoad
  <1>3. Sequential'
    <2> SUFFICES ASSUME NEW x \in Reqs, NEW y \in Reqs, y[1] = x[1],
                        y[2] < x[2], pc'[x] # "idle"
                 PROVE  pc'[y] = "done"
      BY DEF Sequential
    <2>1. CASE x = r
      <3>1. y # r /\ y = <<r[1], y[2]>>
        BY <2>1 DEF Reqs
      <3>2. CASE y[2] = r[2] - 1
        <4>0. y[2] \in 1..Calls /\ r[2] \in 1..Calls /\ Calls \in Nat
          BY ReqPair, ConstAssumption
        <4>1. y = <<r[1], r[2] - 1>> /\ r[2] > 1
          BY <2>1, <3>2, <4>0, ReqPair
        <4>2. pc[y] = "done"
          BY <4>1 DEF RequestLoad
        <4> QED
          BY <4>2, <3>1, <1>2
      <3>3. CASE y[2] < r[2] - 1
        <4> DEFINE p == <<r[1], r[2] - 1>>
        <4>0. y[2] \in 1..Calls /\ r[2] \in 1..Calls /\ r[1] \in Callers
          BY ReqPair
        <4>1. p \in Reqs /\ r[2] > 1
          BY <3>3, <4>0, ConstAssumption DEF Reqs, p
        <4>2. pc[p] = "done"
          BY <4>1, <2>1 DEF RequestLoad, p
        <4>3. pc[y] = "done"
          <5>1. p[1] = r[1] /\ p[2] = r[2] - 1 /\ y[1] = r[1]
            BY <2>1 DEF p
          <5>2. y[2] < p[2] /\ pc[p] # "idle"
            BY <5>1, <4>0, <4>2, <3>3
          <5>3. \A u, v \in Reqs :
                  v[1] = u[1] /\ v[2] < u[2] /\ pc[u] # "idle" => pc[v] = "done"
            BY DEF RInv, Sequential
          <5> QED
            BY <4>1, <5>1, <5>2, <5>3
        <4> QED
          BY <4>3, <3>1, <1>2
      <3> QED
        BY <2>1, <3>2, <3>3 DEF Reqs
    <2>2. CASE x # r
      <3>1. pc[x] # "idle"
        BY <2>2, <1>2
      <3>2. y # r
        BY <3>1, <2>2, <1>2 DEF RInv, Sequential, RequestLoad
      <3> QED
        BY <3>1, <3>2, <1>2 DEF RInv, Sequential
    <2> QED
      BY <2>1, <2>2
  <1>4. Counter'
    <2>1. \A x \in Reqs : pc'[x] # "idle" => myId'[x] = x[2] - 1
      BY <1>1, <1>2 DEF RequestLoad, RInv, Counter, TypeOK
    <2>2. \A x \in Reqs : pc'[x] = "inc" => nextID' = x[2] - 1
      BY <1>1, <1>2 DEF RequestLoad, RInv, Counter
    <2>3. \A x \in Reqs :
            /\ pc'[x] \notin {"idle", "inc"}
            /\ x[2] = Calls \/ pc'[<<x[1], x[2] + 1>>] = "idle"
            => nextID' = x[2] % IdMod
      <3> SUFFICES ASSUME NEW x \in Reqs, pc'[x] \notin {"idle", "inc"},
                          x[2] = Calls \/ pc'[<<x[1], x[2] + 1>>] = "idle"
                   PROVE  nextID' = x[2] % IdMod
        OBVIOUS
      <3>1. x # r /\ pc[x] = pc'[x]
        BY <1>2
      <3>2. x[2] = Calls \/ pc[<<x[1], x[2] + 1>>] = "idle"
        BY <1>2 DEF Reqs
      <3> QED
        BY <3>1, <3>2 DEF RequestLoad, RInv, Counter
    <2>4. \A x \in Reqs : x[2] = 1 /\ pc'[x] = "idle" => nextID' = 0
      BY <1>2 DEF RequestLoad, RInv, Counter
    <2> QED
      BY <2>1, <2>2, <2>3, <2>4 DEF Counter
  <1>5. Owned'
    BY DEF RequestLoad, RInv, Owned
  <1>6. Results'
    BY <1>2 DEF RequestLoad, RInv, Results
  <1> QED
    BY <1>3, <1>4, <1>5, <1>6

\* A started request that has not returned moving on keeps the callers'
\* requests in order.
LEMMA MoveSequential ==
  ASSUME Sequential, pc \in [Reqs -> PcLabels], NEW r \in Reqs, NEW B,
         pc[r] \notin {"idle", "done"}, B # "idle",
         pc' = [pc EXCEPT ![r] = B]
  PROVE  Sequential'
  <1> SUFFICES ASSUME NEW x \in Reqs, NEW y \in Reqs, y[1] = x[1],
                      y[2] < x[2], pc'[x] # "idle"
               PROVE  pc'[y] = "done"
    BY DEF Sequential
  <1>1. pc[x] # "idle"
    BY DEF Reqs
  <1>2. pc[y] = "done"
    BY <1>1 DEF Sequential
  <1> QED
    BY <1>2

\* Past its Inc, a request moving on leaves the counter's relation alone.
LEMMA MoveCounter ==
  ASSUME Counter, pc \in [Reqs -> PcLabels], NEW r \in Reqs, NEW B,
         pc[r] \notin {"idle", "inc"}, B \notin {"idle", "inc"},
         pc' = [pc EXCEPT ![r] = B], UNCHANGED <<nextID, myId>>
  PROVE  Counter'
  <1>1. \A x \in Reqs : (pc'[x] = "idle") = (pc[x] = "idle")
    OBVIOUS
  <1>2. \A x \in Reqs : (pc'[x] = "inc") = (pc[x] = "inc")
    OBVIOUS
  <1>3. \A x \in Reqs : (pc'[x] \notin {"idle", "inc"}) = (pc[x] \notin {"idle", "inc"})
    OBVIOUS
  <1>4. \A x \in Reqs : x[2] = Calls \/ pc'[<<x[1], x[2] + 1>>] = "idle"
                        => x[2] = Calls \/ pc[<<x[1], x[2] + 1>>] = "idle"
    <2> SUFFICES ASSUME NEW x \in Reqs, x[2] # Calls,
                        pc'[<<x[1], x[2] + 1>>] = "idle"
                 PROVE  pc[<<x[1], x[2] + 1>>] = "idle"
      OBVIOUS
    <2>1. <<x[1], x[2] + 1>> \in Reqs
      BY ReqPair, ConstAssumption DEF Reqs
    <2> QED
      BY <2>1, <1>1
  <1> QED
    BY <1>1, <1>2, <1>3, <1>4 DEF Counter

LEMMA IncRInv ==
  ASSUME Hyp, RInv, NEW r \in Reqs, RequestInc(r)
  PROVE  (Sequential /\ Counter /\ Owned /\ Results)'
  <1>1. pc \in [Reqs -> PcLabels] /\ pc' = [pc EXCEPT ![r] = "reg"]
        /\ pc[r] = "inc"
    BY DEF RInv, TypeOK, RequestInc
  <1>2. Sequential'
    BY <1>1, MoveSequential DEF RInv
  <1>3. nextID' = r[2] % IdMod
    <2>1. nextID = r[2] - 1 /\ r[2] \in 1..Calls
      BY <1>1, ReqPair DEF RInv, Counter
    <2> QED
      BY <2>1 DEF RequestInc
  \* Every other started request of the caller is earlier, so returned.
  <1>4. \A x \in Reqs : x # r /\ pc[x] # "idle" => pc[x] = "done" /\ x[2] < r[2]
    <2> SUFFICES ASSUME NEW x \in Reqs, x # r, pc[x] # "idle"
                 PROVE  pc[x] = "done" /\ x[2] < r[2]
      OBVIOUS
    <2>1. x[1] = r[1] /\ x[2] # r[2]
      BY OneCaller, ReqPair DEF Hyp, Reqs
    <2>2. ~(r[2] < x[2])
      BY <1>1, <2>1 DEF RInv, Sequential
    <2>3. x[2] < r[2]
      BY <2>1, <2>2, ReqPair
    <2> QED
      BY <1>1, <2>1, <2>3 DEF RInv, Sequential
  <1>6. Counter'
    <2>1. \A x \in Reqs : pc'[x] # "idle" => myId'[x] = x[2] - 1
      BY <1>1 DEF RequestInc, RInv, Counter
    <2>2. \A x \in Reqs : pc'[x] = "inc" => nextID' = x[2] - 1
      BY <1>1, <1>4
    <2>3. ASSUME NEW x \in Reqs, pc'[x] \notin {"idle", "inc"},
                 x[2] = Calls \/ pc'[<<x[1], x[2] + 1>>] = "idle"
          PROVE  nextID' = x[2] % IdMod
      <3>1. CASE x = r
        BY <3>1, <1>3
      <3>2. CASE x # r
        <4>1. pc[x] = "done" /\ x[2] < r[2]
          BY <3>2, <1>1, <1>4, <2>3
        <4>2. x[2] + 1 <= r[2] /\ <<x[1], x[2] + 1>> \in Reqs
          BY <4>1, ReqPair, ConstAssumption DEF Reqs
        <4>3. CASE x[2] + 1 = r[2]
          <5>1. <<x[1], x[2] + 1>> = r
            BY <4>3, <4>2, OneCaller, ReqPair DEF Hyp
          <5> QED
            BY <5>1, <4>1, <4>2, <1>1, <2>3, ReqPair
        <4>4. CASE x[2] + 1 < r[2]
          <5> DEFINE v == <<x[1], x[2] + 1>>
          <5>0. v[1] = r[1] /\ v[2] < r[2] /\ pc[r] # "idle"
            BY <4>4, <1>1, <4>2, OneCaller, ReqPair DEF Hyp, Reqs, v
          <5>1. pc[v] = "done"
            BY <5>0, <4>2 DEF RInv, Sequential, v
          <5> QED
            BY <5>1, <4>2, <4>4, <2>3, <1>1, ReqPair
        <4> QED
          BY <4>2, <4>3, <4>4, ReqPair
      <3> QED
        BY <3>1, <3>2
    <2>4. \A x \in Reqs : x[2] = 1 /\ pc'[x] = "idle" => nextID' = 0
      <3> SUFFICES ASSUME NEW x \in Reqs, x[2] = 1, pc'[x] = "idle"
                   PROVE  FALSE
        OBVIOUS
      <3>1. x # r /\ pc[x] = "idle"
        BY <1>1
      <3>2. r[2] > 1
        BY <3>1, OneCaller, ReqPair
      <3>3. r[1] = x[1]
        BY OneCaller, ReqPair DEF Hyp, Reqs
      <3> QED
        BY <3>1, <3>2, <3>3, <1>1 DEF RInv, Sequential
    <2> QED
      BY <2>1, <2>2, <2>3, <2>4 DEF Counter
  <1>7. Owned'
    BY DEF RequestInc, RInv, Owned
  <1>8. Results'
    BY <1>1 DEF RequestInc, RInv, Results
  <1> QED
    BY <1>2, <1>6, <1>7, <1>8

LEMMA RegisterRInv ==
  ASSUME Hyp, RInv, NEW r \in Reqs, RequestRegister(r)
  PROVE  (Sequential /\ Counter /\ Owned /\ Results)'
  <1>1. pc \in [Reqs -> PcLabels] /\ pc' = [pc EXCEPT ![r] = "send"]
        /\ pc[r] = "reg"
    BY DEF RInv, TypeOK, RequestRegister
  <1>2. Sequential'
    BY <1>1, MoveSequential DEF RInv
  <1>3. Counter'
    BY <1>1, MoveCounter DEF RInv, RequestRegister
  <1>4. Owned'
    <2>1. myId[r] = r[2] - 1 /\ myId[r] \in Ids
      BY <1>1 DEF RInv, Counter, TypeOK
    <2>2. \A i \in Ids : handlers'[i] # NoReq => handlers'[i][2] = i + 1
      <3> SUFFICES ASSUME NEW i \in Ids, handlers'[i] # NoReq
                   PROVE  handlers'[i][2] = i + 1
        OBVIOUS
      <3>0. handlers \in [Ids -> Reqs \cup {NoReq}]
            /\ handlers' = [handlers EXCEPT ![myId[r]] = r]
        BY DEF RInv, TypeOK, RequestRegister
      <3>1. CASE i = myId[r]
        <4>1. handlers'[i] = r
          BY <3>0, <3>1, <2>1
        <4>2. r[2] \in Nat
          BY ReqPair
        <4> QED
          BY <4>1, <4>2, <3>1, <2>1
      <3>2. CASE i # myId[r]
        BY <3>0, <3>2 DEF RInv, Owned
      <3> QED
        BY <3>1, <3>2
    <2> QED
      BY <2>2 DEF RequestRegister, RInv, Owned
  <1>5. Results'
    BY <1>1 DEF RequestRegister, RInv, Results
  <1> QED
    BY <1>2, <1>3, <1>4, <1>5

LEMMA SendRInv ==
  ASSUME Hyp, RInv, NEW r \in Reqs, RequestSend(r)
  PROVE  (Sequential /\ Counter /\ Owned /\ Results)'
  <1>0. pc \in [Reqs -> PcLabels] /\ pc[r] = "send" /\ myId[r] = r[2] - 1
        /\ resp \in [Reqs -> Response]
    BY DEF RInv, TypeOK, Counter, RequestSend
  <1>1. CASE /\ transport = "up"
             /\ srvPending' = srvPending \cup {[id |-> myId[r], origin |-> r]}
             /\ pc' = [pc EXCEPT ![r] = "wait"]
             /\ UNCHANGED resp
    <2>1. Sequential' /\ Counter'
      BY <1>0, <1>1, MoveSequential, MoveCounter DEF RInv, RequestSend
    <2>2. Owned'
      BY <1>0, <1>1 DEF RequestSend, RInv, Owned
    <2>3. Results'
      BY <1>0, <1>1 DEF RequestSend, RInv, Results
    <2> QED
      BY <2>1, <2>2, <2>3
  <1>2. CASE /\ resp' = [resp EXCEPT ![r] = Returned("sendErr")]
             /\ pc' = [pc EXCEPT ![r] = "done"]
             /\ UNCHANGED srvPending
    <2>1. Sequential' /\ Counter'
      BY <1>0, <1>2, MoveSequential, MoveCounter DEF RInv, RequestSend
    <2>2. Owned'
      BY <1>2 DEF RequestSend, RInv, Owned
    <2>3. Results'
      BY <1>0, <1>2 DEF RequestSend, RInv, Results, Returned
    <2> QED
      BY <2>1, <2>2, <2>3
  <1> QED
    BY <1>1, <1>2 DEF RequestSend

LEMMA WaitRInv ==
  ASSUME Hyp, RInv, NEW r \in Reqs, RequestWait(r)
  PROVE  (Sequential /\ Counter /\ Owned /\ Results)'
  <1>0. pc \in [Reqs -> PcLabels] /\ pc[r] = "wait"
        /\ resp \in [Reqs -> Response] /\ chan \in [Reqs -> Seq(Response)]
    BY DEF RInv, TypeOK, RequestWait
  <1>1. CASE /\ stopped
             /\ resp' = [resp EXCEPT ![r] = Returned("shutdown")]
             /\ pc' = [pc EXCEPT ![r] = "done"]
             /\ UNCHANGED chan
    <2>1. Sequential' /\ Counter'
      BY <1>0, <1>1, MoveSequential, MoveCounter DEF RInv, RequestWait
    <2>2. Owned'
      BY <1>1 DEF RequestWait, RInv, Owned
    <2>3. Results'
      BY <1>0, <1>1 DEF RequestWait, RInv, Results, Returned
    <2> QED
      BY <2>1, <2>2, <2>3
  <1>2. CASE /\ chan[r] # <<>>
             /\ resp' = [resp EXCEPT ![r] = Head(chan[r])]
             /\ chan' = [chan EXCEPT ![r] = Tail(chan[r])]
             /\ pc' = [pc EXCEPT ![r] = "del"]
    <2>1. Sequential' /\ Counter'
      BY <1>0, <1>2, MoveSequential, MoveCounter DEF RInv, RequestWait
    <2>2. Head(chan[r]).origin = r /\ Head(chan[r]).kind \in FrameKinds
      BY <1>0, <1>2 DEF RInv, Owned
    <2>3. Owned'
      <3>1. \A x \in Reqs : \A j \in 1..Len(chan'[x]) :
              chan'[x][j].origin = x /\ chan'[x][j].kind \in FrameKinds
        BY <1>0, <1>2 DEF RInv, Owned
      <3> QED
        BY <3>1, <1>2 DEF RequestWait, RInv, Owned
    <2>4. Results'
      BY <1>0, <1>2, <2>2 DEF RequestWait, RInv, Results
    <2> QED
      BY <2>1, <2>3, <2>4
  <1>3. CASE /\ resp' = [resp EXCEPT ![r] = Returned("timeout")]
             /\ pc' = [pc EXCEPT ![r] = "del"]
             /\ UNCHANGED chan
    <2>1. Sequential' /\ Counter'
      BY <1>0, <1>3, MoveSequential, MoveCounter DEF RInv, RequestWait
    <2>2. Owned'
      BY <1>3 DEF RequestWait, RInv, Owned
    <2>3. Results'
      BY <1>0, <1>3 DEF RequestWait, RInv, Results
    <2> QED
      BY <2>1, <2>2, <2>3
  <1> QED
    BY <1>1, <1>2, <1>3 DEF RequestWait

LEMMA DeleteRInv ==
  ASSUME Hyp, RInv, NEW r \in Reqs, RequestDelete(r)
  PROVE  (Sequential /\ Counter /\ Owned /\ Results)'
  <1>0. pc \in [Reqs -> PcLabels] /\ pc[r] = "del"
        /\ pc' = [pc EXCEPT ![r] = "done"]
    BY DEF RInv, TypeOK, RequestDelete
  <1>1. Sequential' /\ Counter'
    BY <1>0, MoveSequential, MoveCounter DEF RInv, RequestDelete
  <1>2. Owned'
    <2>1. handlers \in [Ids -> Reqs \cup {NoReq}]
          /\ handlers' = [handlers EXCEPT ![myId[r]] = NoReq]
      BY DEF RInv, TypeOK, RequestDelete
    <2>2. \A i \in Ids : handlers'[i] # NoReq => handlers'[i][2] = i + 1
      BY <2>1 DEF RInv, Owned
    <2> QED
      BY <2>2 DEF RequestDelete, RInv, Owned
  <1>3. Results'
    BY <1>0 DEF RequestDelete, RInv, Results, Returned
  <1> QED
    BY <1>1, <1>2, <1>3

\* A frame the server sends is classified as data or as an error.
LEMMA ServerKinds ==
  ASSUME NEW sh \in ServerShapes PROVE KindOf[sh] \in FrameKinds
  <1>1. sh \in {"ok", "errA", "errB", "errNoMsg"}
    BY ConstAssumption
  <1>2. CASE sh = "ok"
    BY <1>2 DEF KindOf, FrameKinds
  <1>3. CASE sh = "errA"
    BY <1>3 DEF KindOf, FrameKinds
  <1>4. CASE sh = "errB"
    BY <1>4 DEF KindOf, FrameKinds
  <1>5. CASE sh = "errNoMsg"
    BY <1>5 DEF KindOf, FrameKinds
  <1> QED
    BY <1>1, <1>2, <1>3, <1>4, <1>5

\* With no pushes and no undecodable frames, the listener finds under a
\* frame's id only the channel of the request the frame answers.
LEMMA SelectRInv ==
  ASSUME Hyp, RInv, ListenSelect
  PROVE  (Sequential /\ Counter /\ Owned /\ Results)'
  <1>1. CASE stopped /\ lpc' = "off" /\ UNCHANGED <<ldst, lresp, inbox>>
    BY <1>1, QuietStep DEF ListenSelect
  <1>2. CASE ~(stopped /\ lpc' = "off" /\ UNCHANGED <<ldst, lresp, inbox>>)
    <2> DEFINE f == Head(inbox)
               c == handlers[DecodedId(f)]
    <2>0. inbox \in Seq(Frame) /\ handlers \in [Ids -> Reqs \cup {NoReq}]
          /\ inbox # <<>>
      BY <1>2 DEF RInv, TypeOK, ListenSelect
    <2>1. f.origin \in Reqs /\ f.id = f.origin[2] - 1 /\ f.shape \in ServerShapes
      BY <1>2, <2>0 DEF RInv, Owned, f
    <2>2. DecodedId(f) = f.id /\ f.id \in Ids
      BY <2>1, ConstAssumption, ReqId DEF DecodedId
    <2>3. c # NoReq => c \in Reqs /\ c = f.origin
      <3> SUFFICES ASSUME c # NoReq PROVE c \in Reqs /\ c = f.origin
        OBVIOUS
      <3>1. c \in Reqs /\ c[2] = f.id + 1
        BY <2>0, <2>2 DEF RInv, Owned, c
      <3>2. c[2] = f.origin[2]
        BY <3>1, <2>1, ReqPair
      <3> QED
        BY <3>1, <3>2, <2>1, OneCaller
    <2>4. KindOf[f.shape] \in FrameKinds
      BY <2>1, ServerKinds
    <2>5. /\ inbox' = Tail(inbox)
          /\ IF c = NoReq
               THEN lpc' = "check" /\ UNCHANGED <<ldst, lresp>>
               ELSE /\ lpc' = "deliver"
                    /\ ldst' = c
                    /\ lresp' = [kind |-> KindOf[f.shape],
                                 origin |-> f.origin, shape |-> f.shape]
      BY <1>2 DEF ListenSelect, f, c
    <2>6. \A j \in 1..Len(inbox') :
            /\ inbox'[j].origin \in Reqs
            /\ inbox'[j].id = inbox'[j].origin[2] - 1
            /\ inbox'[j].shape \in ServerShapes
      BY <1>2, <2>0, <2>5 DEF RInv, Owned
    <2>7. lpc' = "deliver" => ldst' \in Reqs /\ lresp'.origin = ldst'
                              /\ lresp'.kind \in FrameKinds
      BY <2>3, <2>4, <2>5
    <2>8. Owned'
      BY <2>6, <2>7 DEF ListenSelect, RInv, Owned
    <2> QED
      BY <2>8 DEF ListenSelect, RInv, Sequential, Counter, Results
  <1> QED
    BY <1>1, <1>2

LEMMA DeliverRInv ==
  ASSUME RInv, ListenDeliver
  PROVE  (Sequential /\ Counter /\ Owned /\ Results)'
  <1>1. ldst \in Reqs /\ lresp.origin = ldst /\ lresp.kind \in FrameKinds
        /\ chan \in [Reqs -> Seq(Response)]
    BY DEF ListenDeliver, RInv, Owned, TypeOK
  <1>2. \A x \in Reqs : \A j \in 1..Len(chan'[x]) :
          chan'[x][j].origin = x /\ chan'[x][j].kind \in FrameKinds
    BY <1>1 DEF ListenDeliver, RInv, Owned
  <1> QED
    BY <1>2 DEF ListenDeliver, RInv, Sequential, Counter, Owned, Results

LEMMA ReplyRInv ==
  ASSUME RInv, ServerReply
  PROVE  (Sequential /\ Counter /\ Owned /\ Results)'
  <1>1. PICK q \in srvPending, sh \in ServerShapes :
          /\ srvPending' = srvPending \ {q}
          /\ inbox' = Append(inbox, [id |-> q.id, origin |-> q.origin, shape |-> sh])
    BY DEF ServerReply
  <1>2. q.origin \in Reqs /\ q.id = q.origin[2] - 1 /\ inbox \in Seq(Frame)
    BY DEF RInv, TypeOK, Owned
  <1>3. \A j \in 1..Len(inbox') :
          /\ inbox'[j].origin \in Reqs
          /\ inbox'[j].id = inbox'[j].origin[2] - 1
          /\ inbox'[j].shape \in ServerShapes
    BY <1>1, <1>2 DEF RInv, Owned
  <1> QED
    BY <1>1, <1>3 DEF ServerReply, RInv, Sequential, Counter, Owned, Results

LEMMA StopRInv ==
  ASSUME RInv, ShutdownStop
  PROVE  (Sequential /\ Counter /\ Owned /\ Results)'
  BY DEF ShutdownStop, RInv, Sequential, Counter, Owned, Results

THEOREM NextRInv ==
  ASSUME Hyp PROVE RInv /\ [Next]_vars => RInv'
  <1> SUFFICES ASSUME RInv, [Next]_vars PROVE RInv'
    OBVIOUS
  <1>0. TypeOK'
    BY NextTypeOK DEF RInv
  <1> SUFFICES (Sequential /\ Counter /\ Owned /\ Results)'
    BY <1>0 DEF RInv
  <1>1. CASE ConnectConnected
    BY <1>1, QuietStep DEF ConnectConnected
  <1>2. CASE ConnectDial
    BY <1>2, QuietStep DEF ConnectDial
  <1>3. CASE ShutdownStop
    BY <1>3, StopRInv
  <1>4. CASE ShutdownWait
    BY <1>4 DEF ShutdownWait, RInv, Sequential, Counter, Owned, Results
  <1>5. CASE Teardown
    BY <1>5, QuietStep DEF Teardown
  <1>6. CASE HandleErrors
    BY <1>6, QuietStep DEF HandleErrors
  <1>7. CASE ListenCheck
    BY <1>7, QuietStep DEF ListenCheck
  <1>8. CASE ListenSelect
    BY <1>8, SelectRInv
  <1>9. CASE ListenDeliver
    BY <1>9, DeliverRInv
  <1>10. ASSUME NEW r \in Reqs, RequestLoad(r) \/ RequestStep(r)
         PROVE  (Sequential /\ Counter /\ Owned /\ Results)'
    BY <1>10, LoadRInv, IncRInv, RegisterRInv, SendRInv, WaitRInv, DeleteRInv
    DEF RequestStep
  <1>11. CASE ServerReply
    BY <1>11, ReplyRInv
  <1>12. CASE ServerUnsolicited
    <2>1. nunsol \in 0..MaxUnsolicited /\ MaxUnsolicited = 0
      BY DEF Hyp, RInv, TypeOK
    <2>2. FALSE
      BY <1>12, <2>1 DEF ServerUnsolicited
    <2> QED
      BY <2>2
  <1>13. CASE TransportError
    BY <1>13, QuietStep DEF TransportError
  <1>14. CASE UNCHANGED vars
    BY <1>14, QuietStep DEF vars
  <1> QED
    BY <1>1, <1>2, <1>3, <1>4, <1>5, <1>6, <1>7, <1>8, <1>9, <1>10, <1>11,
       <1>12, <1>13, <1>14 DEF Next, ListenStep

THEOREM RInvariant ==
  ASSUME Hyp PROVE Spec => []RInv
  BY InitRInv, NextRInv, PTL DEF Spec

-----------------------------------------------------------------------------
(* The refinement mapping RPC of WalletNode, step by step.                 *)

Mid == {"inc", "reg", "send", "wait", "del"}

\* The contract names the same requests as the Node.
LEMMA RPCReqs == RPC!Reqs = Reqs
  BY DEF RPC!Reqs, Reqs

\* A step that touches no request's position or result, nor the stop
\* signal, is a stutter of the contract.
LEMMA AbsUnchanged ==
  ASSUME UNCHANGED <<pc, resp, stopped>>
  PROVE  UNCHANGED RPC!avars
  BY DEF RPC!avars, AbsPc, AbsResult

\* A request moving between the steps of request that come before it
\* returns is a stutter of the contract.
LEMMA AbsStutter ==
  ASSUME NEW r \in Reqs, NEW B \in Mid, pc \in [Reqs -> PcLabels],
         pc[r] \in Mid, pc' = [pc EXCEPT ![r] = B],
         \A x \in Reqs : x # r => resp'[x] = resp[x],
         UNCHANGED stopped
  PROVE  UNCHANGED RPC!avars
  <1>1. AbsPc' = AbsPc
    BY DEF AbsPc, Mid
  <1>2. AbsResult' = AbsResult
    BY DEF AbsResult, Mid
  <1> QED
    BY <1>1, <1>2 DEF RPC!avars

\* A request returning with a result the contract allows it to end with.
LEMMA AbsReturn ==
  ASSUME NEW r \in Reqs, pc \in [Reqs -> PcLabels], pc[r] \in Mid,
         pc' = [pc EXCEPT ![r] = "done"],
         resp \in [Reqs -> Response], resp' \in [Reqs -> Response],
         \A x \in Reqs : x # r => resp'[x] = resp[x],
         UNCHANGED stopped,
         \/ resp'[r].kind \in FrameKinds /\ resp'[r].origin = r
         \/ resp'[r].kind \in {"timeout", "sendErr"} /\ resp'[r].origin = NoReq
         \/ resp'[r].kind = "shutdown" /\ resp'[r].origin = NoReq /\ stopped
  PROVE  RPC!Answer(r) \/ RPC!Fail(r) \/ RPC!Abort(r)
  <1> DEFINE out == [kind |-> resp'[r].kind, answers |-> resp'[r].origin]
  <1>1. AbsPc[r] = "pending" /\ AbsPc' = [AbsPc EXCEPT ![r] = "done"]
    BY DEF AbsPc, Mid
  <1>2. AbsResult' = [AbsResult EXCEPT ![r] = out]
    BY DEF AbsResult, out
  <1>3. CASE resp'[r].kind \in FrameKinds /\ resp'[r].origin = r
    <2>1. out = [kind |-> resp'[r].kind, answers |-> r]
      BY <1>3 DEF out
    <2> QED
      BY <1>1, <1>2, <1>3, <2>1 DEF RPC!Answer, RPC!AnswerKinds, FrameKinds
  <1>4. CASE resp'[r].kind \in {"timeout", "sendErr"} /\ resp'[r].origin = NoReq
    <2>1. out = [kind |-> resp'[r].kind, answers |-> NoReq]
      BY <1>4 DEF out
    <2> QED
      BY <1>1, <1>2, <1>4, <2>1 DEF RPC!Fail, RPC!FailKinds
  <1>5. CASE resp'[r].kind = "shutdown" /\ resp'[r].origin = NoReq /\ stopped
    <2>1. out = [kind |-> "shutdown", answers |-> NoReq]
      BY <1>5 DEF out
    <2> QED
      BY <1>1, <1>2, <1>5, <2>1 DEF RPC!Abort
  <1> QED
    BY <1>3, <1>4, <1>5

\* What request does from its id Load on, seen through the contract.
LEMMA RequestRefines ==
  ASSUME RInv, TypeOK', NEW r \in Reqs, RequestLoad(r) \/ RequestStep(r)
  PROVE  [RPC!Next]_RPC!avars
  <1>0. pc \in [Reqs -> PcLabels] /\ resp \in [Reqs -> Response]
        /\ resp' \in [Reqs -> Response]
    BY DEF RInv, TypeOK
  <1>1. CASE RequestLoad(r)
    <2>1. AbsPc[r] = "idle" /\ AbsPc' = [AbsPc EXCEPT ![r] = "pending"]
      BY <1>0, <1>1 DEF RequestLoad, AbsPc
    <2>2. r[2] > 1 => AbsPc[<<r[1], r[2] - 1>>] = "done"
      BY <1>1, ReqPair, ConstAssumption DEF RequestLoad, AbsPc, Reqs
    <2>3. AbsResult' = AbsResult
      BY <1>0, <1>1 DEF RequestLoad, AbsResult
    <2> QED
      BY <1>1, <2>1, <2>2, <2>3, RPCReqs DEF RPC!Issue, RPC!Next, RequestLoad
  <1>2. CASE RequestInc(r)
    BY <1>0, <1>2, AbsStutter DEF RequestInc, Mid
  <1>3. CASE RequestRegister(r)
    BY <1>0, <1>3, AbsStutter DEF RequestRegister, Mid
  <1>4. CASE RequestSend(r)
    <2>1. CASE pc' = [pc EXCEPT ![r] = "wait"] /\ UNCHANGED resp
      BY <1>0, <1>4, <2>1, AbsStutter DEF RequestSend, Mid
    <2>2. CASE resp' = [resp EXCEPT ![r] = Returned("sendErr")]
               /\ pc' = [pc EXCEPT ![r] = "done"]
      BY <1>0, <1>4, <2>2, AbsReturn, RPCReqs DEF RequestSend, Mid, Returned, RPC!Next
    <2> QED
      BY <1>4, <2>1, <2>2 DEF RequestSend
  <1>5. CASE RequestWait(r)
    <2>1. CASE stopped /\ resp' = [resp EXCEPT ![r] = Returned("shutdown")]
               /\ pc' = [pc EXCEPT ![r] = "done"]
      BY <1>0, <1>5, <2>1, AbsReturn, RPCReqs DEF RequestWait, Mid, Returned, RPC!Next
    <2>2. CASE pc' = [pc EXCEPT ![r] = "del"] /\ resp' = [resp EXCEPT ![r] = resp'[r]]
      BY <1>0, <1>5, <2>2, AbsStutter DEF RequestWait, Mid
    <2> QED
      BY <1>0, <1>5, <2>1, <2>2 DEF RequestWait
  <1>6. CASE RequestDelete(r)
    <2>1. \/ resp[r] = Returned("timeout")
          \/ resp[r].origin = r /\ resp[r].kind \in FrameKinds
      BY <1>6 DEF RequestDelete, RInv, Results
    <2>2. /\ pc[r] \in Mid /\ pc' = [pc EXCEPT ![r] = "done"]
          /\ resp' = resp /\ UNCHANGED stopped
      BY <1>6 DEF RequestDelete, Mid
    <2>3. \/ resp'[r].kind \in FrameKinds /\ resp'[r].origin = r
          \/ resp'[r].kind \in {"timeout", "sendErr"} /\ resp'[r].origin = NoReq
      BY <2>1, <2>2 DEF Returned
    <2>4. RPC!Answer(r) \/ RPC!Fail(r) \/ RPC!Abort(r)
      BY <1>0, <2>2, <2>3, AbsReturn
    <2> QED
      BY <2>4, RPCReqs DEF RPC!Next
  <1> QED
    BY <1>1, <1>2, <1>3, <1>4, <1>5, <1>6 DEF RequestStep

\* Every step of the Node is a step of the contract or leaves it alone.
LEMMA StepRefines ==
  ASSUME RInv, [Next]_vars
  PROVE  [RPC!Next]_RPC!avars
  <1>1. CASE ShutdownStop
    <2>1. ~stopped
      BY <1>1 DEF ShutdownStop, RInv, Results
    <2>2. UNCHANGED <<AbsPc, AbsResult>>
      BY <1>1 DEF ShutdownStop, AbsPc, AbsResult
    <2> QED
      BY <1>1, <2>1, <2>2 DEF ShutdownStop, RPC!Stop, RPC!Next
  <1>2. CASE \E r \in Reqs : RequestLoad(r) \/ RequestStep(r)
    BY <1>2, RequestRefines, NextTypeOK DEF RInv
  <1>3. CASE ~ShutdownStop /\ ~\E r \in Reqs : RequestLoad(r) \/ RequestStep(r)
    <2>1. UNCHANGED <<pc, resp, stopped>>
      BY <1>3 DEF Next, vars, ConnectConnected, ConnectDial, ShutdownWait,
                 Teardown, HandleErrors, ListenStep, ListenCheck, ListenSelect,
                 ListenDeliver, ServerReply, ServerUnsolicited, TransportError
    <2> QED
      BY <2>1, AbsUnchanged
  <1> QED
    BY <1>1, <1>2, <1>3

(***************************************************************************)
(* With one caller whose requests do not wrap the id counter, and no      *)
(* pushes or undecodable frames, the Node implements the request contract *)
(* (RPCSpec): each request returns exactly once, with the server's answer *)
(* to that very request, a timeout or send error, or the shutdown return  *)
(* once Shutdown has begun (request, lines 392-439; listen, 372-377).     *)
(***************************************************************************)
THEOREM Refinement ==
  ASSUME Hyp PROVE Spec => RPCSpec
  <1>1. Init => RPC!Init
    BY RPCReqs DEF Init, RPC!Init, AbsPc, AbsResult, RPC!NoOutcome
  <1>2. RInv /\ [Next]_vars => [RPC!Next]_RPC!avars
    BY StepRefines
  <1>3. Spec => []RInv
    BY RInvariant
  <1> QED
    BY <1>1, <1>2, <1>3, PTL DEF Spec, RPCSpec, RPC!Spec

-----------------------------------------------------------------------------
(* ResponseMatches for every state, not only for returned requests.        *)

\* The labels of request before its select is over.
Early == {"idle", "inc", "reg", "send", "wait"}

\* A request holds no response until its select is over: resp[r] is only
\* written by the Send error (line 418) and the select (lines 421-428).
Fresh == \A r \in Reqs : pc[r] \in Early => resp[r] = NoResp

\* A step of request r moves it forward, and writes resp[r] only when it
\* leaves the early labels; no other request moves.
LEMMA RequestFresh ==
  ASSUME TypeOK, Fresh, NEW r \in Reqs, RequestLoad(r) \/ RequestStep(r)
  PROVE  Fresh'
<1>1. pc \in [Reqs -> PcLabels] /\ resp \in [Reqs -> Response]
  BY DEF TypeOK
<1>2. \E l \in PcLabels : pc' = [pc EXCEPT ![r] = l]
  BY DEF RequestLoad, RequestStep, RequestInc, RequestRegister, RequestSend,
         RequestWait, RequestDelete, PcLabels
<1>3. \E v : resp' = [resp EXCEPT ![r] = v]
  BY <1>1 DEF RequestLoad, RequestStep, RequestInc, RequestRegister,
              RequestSend, RequestWait, RequestDelete
<1>4. pc'[r] \in Early => resp'[r] = resp[r] /\ pc[r] \in Early
  BY <1>1 DEF RequestLoad, RequestStep, RequestInc, RequestRegister,
              RequestSend, RequestWait, RequestDelete, Early
<1> QED BY <1>1, <1>2, <1>3, <1>4 DEF Fresh

\* Every step keeps Fresh: only request steps touch pc or resp.
LEMMA NextFresh ==
  ASSUME TypeOK, Fresh, [Next]_vars
  PROVE  Fresh'
<1>1. CASE \E r \in Reqs : RequestLoad(r) \/ RequestStep(r)
  BY <1>1, RequestFresh
<1>2. CASE ~\E r \in Reqs : RequestLoad(r) \/ RequestStep(r)
  <2>1. UNCHANGED <<pc, resp>>
    BY <1>2 DEF Next, vars, ConnectConnected, ConnectDial, ShutdownStop,
                ShutdownWait, Teardown, HandleErrors, ListenStep,
                ListenCheck, ListenSelect, ListenDeliver, ServerReply,
                ServerUnsolicited, TransportError
  <2> QED BY <2>1 DEF Fresh
<1> QED BY <1>1, <1>2

\* Correlation (listen lines 372-377 with request lines 398-414): with
\* one caller and no more requests than ids, a request that holds a
\* server answer, at any point of its life, holds the answer to its own
\* message.  The early requests hold NoResp; RInv's Results covers the
\* requests whose select is over.
THEOREM ResponsesCorrelated ==
  ASSUME Hyp PROVE Spec => []ResponseMatches
<1>1. Init => Fresh BY DEF Init, Fresh
<1>2. RInv /\ Fresh /\ [Next]_vars => Fresh' BY NextFresh DEF RInv
<1>3. RInv /\ Fresh => ResponseMatches
  <2> SUFFICES ASSUME RInv, Fresh, NEW r \in Reqs, resp[r].kind \in FrameKinds
               PROVE  resp[r].origin = r
    BY DEF ResponseMatches
  <2>1. pc[r] \in PcLabels BY DEF RInv, TypeOK
  <2>2. pc[r] \notin Early BY DEF Fresh, NoResp, FrameKinds
  <2>3. pc[r] \in {"del", "done"} BY <2>1, <2>2 DEF PcLabels, Early
  <2>4. "timeout" \notin FrameKinds /\ "sendErr" \notin FrameKinds
        /\ "shutdown" \notin FrameKinds
    BY DEF FrameKinds
  <2>5. CASE pc[r] = "del"
    <3>1. resp[r] # Returned("timeout") BY <2>4 DEF Returned
    <3> QED BY <2>5, <3>1 DEF RInv, Results
  <2>6. CASE pc[r] = "done"
    BY <2>4, <2>6 DEF RInv, Results
  <2> QED BY <2>3, <2>5, <2>6
<1> QED BY <1>1, <1>2, <1>3, InitRInv, NextRInv, PTL DEF Spec

=============================================================================
