----------------------------- MODULE WalletNode -----------------------------
(***************************************************************************)
(* The multiplexed JSON-RPC client of package wallet (src/store/http.go,  *)
(* lines 161-439): Connect, Shutdown, request, the listen loop, the error *)
(* relay and the transport-teardown worker, with the remote server and    *)
(* the transport as the environment.                                      *)
(*                                                                         *)
(* Each caller goroutine issues Calls requests one after the other; a      *)
(* request is the pair <<caller, k>> and owns the buffered channel         *)
(* chan[<<caller, k>>] (make(chan response, 1)).  A response carries, as a *)
(* ghost, the request whose frame the server answered (origin), so that    *)
(* the properties can tell which answer a request really received.        *)
(***************************************************************************)
EXTENDS Naturals, Sequences, FiniteSets, FiniteSetsExt, SequencesExt

CONSTANTS
    Callers,            \* goroutines that call request (sequentially each)
    Calls,              \* requests issued by each caller
    IdWidth,            \* width of the nextID counter (atomic.Uint32: 32)
    Addrs,              \* candidate server addresses given to Connect
    ServerShapes,       \* envelope shapes the server answers with
    MaxUnsolicited,     \* bound on server pushes and undecodable frames
    MaxTransportErrors, \* bound on errors the transport reports
    NoReq               \* model value: no request / no channel

ASSUME ConstAssumption ==
    /\ Callers # {} /\ IsFiniteSet(Callers)
    /\ Calls \in Nat \ {0}
    /\ IdWidth \in Nat \ {0}
    /\ 2^IdWidth \in Nat \ {0}   \* arithmetic the provers lack for ^
    /\ Addrs # {} /\ IsFiniteSet(Addrs)
    /\ ServerShapes \subseteq {"ok", "errA", "errB", "errNoMsg"}
    /\ MaxUnsolicited \in Nat
    /\ MaxTransportErrors \in Nat

Reqs == Callers \X (1..Calls)

ASSUME NoReqAssumption == NoReq \notin Reqs

\* uint32 arithmetic of n.nextID, at width IdWidth.
IdMod == 2^IdWidth
Ids == 0..(IdMod - 1)

(***************************************************************************)
(* Envelope shapes of an inbound frame (listen, lines 317-348):           *)
(*   "ok"       no error object: a result or a push notification;        *)
(*   "errA"     error {code, message: string};                            *)
(*   "errB"     error {code, message: {code, message}}, decoded by msg2;  *)
(*   "errNoMsg" error {code, message: ""}: an error with an empty message;*)
(*   "bad"      not JSON: both Unmarshal calls fail and msg stays zero.   *)
(***************************************************************************)
Shapes == {"ok", "errA", "errB", "errNoMsg", "bad"}
UnsolicitedShapes == {"ok", "bad"}

\* The classification of lines 350-357: err set, Error.Message non-empty,
\* otherwise data.  errB is normalised by lines 342-347 into msg.Error.
KindOf == [ok |-> "data", errA |-> "srvErr", errB |-> "srvErr",
           errNoMsg |-> "data", bad |-> "decodeErr"]

\* json.Unmarshal of a syntax error leaves msg.ID at zero; a push carries
\* no "id" field, so its ID is zero too.
DecodedId(f) == IF f.shape = "bad" THEN 0 ELSE f.id

Frame == [id : Ids, origin : Reqs \cup {NoReq}, shape : Shapes]
Kinds == {"data", "srvErr", "decodeErr", "timeout", "shutdown", "sendErr"}
Response == [kind : Kinds, origin : Reqs \cup {NoReq}, shape : Shapes \cup {"none"}]
NoResp == [kind |-> "timeout", origin |-> NoReq, shape |-> "none"]
Returned(k) == [kind |-> k, origin |-> NoReq, shape |-> "none"]

\* Outcome of NewTransport for one address.
DialOutcomes == {"ok", "timeout", "noSuchHost", "refused"}
ConnResults == {"none", "ok", "ErrNodeConnected", "ErrConnectFailed", "dialErr"}

PcLabels == {"idle", "inc", "reg", "send", "wait", "del", "done"}
ListenLabels == {"off", "check", "select", "deliver"}

VARIABLES
    transport,  \* n.transport: "none" (nil), "up", "down" (Shutdown called)
    stopped,    \* n.grp.Ch() is closed
    workers,    \* teardown and error-relay goroutines still running
    lpc,        \* where the listen goroutine is ("off": not running)
    ldst,       \* listen: the channel c found in n.handlers
    lresp,      \* listen: the response r it is sending on c
    shutPc,     \* the goroutine calling Shutdown: "idle", "wait", "done"
    connRes,    \* what the last Connect returned
    nextID,     \* n.nextID
    handlers,   \* n.handlers: id -> owning request's channel, or NoReq
    chan,       \* the buffered channel of each request
    pc,         \* where each request is
    myId,       \* msg.ID of each request
    resp,       \* the response r each request ended with
    srvPending, \* requests the server has received and not answered
    inbox,      \* frames in order on transport.Responses()
    nunsol,     \* unsolicited frames sent so far
    errPending, \* an error is waiting on transport.Errors()
    nterr       \* transport errors reported so far

vars == <<transport, stopped, workers, lpc, ldst, lresp, shutPc, connRes,
          nextID, handlers, chan, pc, myId, resp, srvPending, inbox, nunsol,
          errPending, nterr>>

TypeOK ==
    /\ transport \in {"none", "up", "down"}
    /\ stopped \in BOOLEAN
    /\ workers \subseteq {"teardown", "errors"}
    /\ lpc \in ListenLabels
    /\ ldst \in Reqs \cup {NoReq}
    /\ lresp \in Response
    /\ shutPc \in {"idle", "wait", "done"}
    /\ connRes \in ConnResults
    /\ nextID \in Ids
    /\ handlers \in [Ids -> Reqs \cup {NoReq}]
    /\ chan \in [Reqs -> Seq(Response)]
    /\ pc \in [Reqs -> PcLabels]
    /\ myId \in [Reqs -> Ids]
    /\ resp \in [Reqs -> Response]
    /\ srvPending \subseteq [id : Ids, origin : Reqs]
    /\ inbox \in Seq(Frame)
    /\ nunsol \in 0..MaxUnsolicited
    /\ errPending \in BOOLEAN
    /\ nterr \in 0..MaxTransportErrors

\* NewNode (lines 212-221).
Init ==
    /\ transport = "none"
    /\ stopped = FALSE
    /\ workers = {}
    /\ lpc = "off"
    /\ ldst = NoReq
    /\ lresp = NoResp
    /\ shutPc = "idle"
    /\ connRes = "none"
    /\ nextID = 0
    /\ handlers = [i \in Ids |-> NoReq]
    /\ chan = [r \in Reqs |-> <<>>]
    /\ pc = [r \in Reqs |-> "idle"]
    /\ myId = [r \in Reqs |-> 0]
    /\ resp = [r \in Reqs |-> NoResp]
    /\ srvPending = {}
    /\ inbox = <<>>
    /\ nunsol = 0
    /\ errPending = FALSE
    /\ nterr = 0
-----------------------------------------------------------------------------
(***************************************************************************)
(* Connect (lines 224-275).  The loop over the shuffled addresses stops at *)
(* the first address whose NewTransport does not fail with a timeout or   *)
(* "no such host"; that address either connects or aborts Connect.        *)
(***************************************************************************)
Continuable == {"timeout", "noSuchHost"}

DialResult(outcome, order) ==
    LET stops == {i \in 1..Len(order) : outcome[order[i]] \notin Continuable}
    IN  IF stops = {} THEN "ErrConnectFailed"
        ELSE IF outcome[order[Min(stops)]] = "ok" THEN "ok" ELSE "dialErr"

ConnectConnected ==
    /\ transport # "none"
    /\ connRes' = "ErrNodeConnected"
    /\ UNCHANGED <<transport, stopped, workers, lpc, ldst, lresp, shutPc,
                   nextID, handlers, chan, pc, myId, resp, srvPending, inbox,
                   nunsol, errPending, nterr>>

ConnectDial ==
    /\ transport = "none"
    /\ \E outcome \in [Addrs -> DialOutcomes], order \in SetToSeqs(Addrs) :
         LET res == DialResult(outcome, order) IN
         /\ connRes' = res
         /\ IF res = "ok"
              THEN /\ transport' = "up"
                   /\ workers' = {"teardown", "errors"}
                   /\ lpc' = "check"
              ELSE UNCHANGED <<transport, workers, lpc>>
    /\ UNCHANGED <<stopped, ldst, lresp, shutPc, nextID, handlers, chan, pc,
                   myId, resp, srvPending, inbox, nunsol, errPending, nterr>>

\* Shutdown (lines 277-285): n.grp.StopAndWait() closes the channel, then
\* waits for every goroutine added to the group.
ShutdownStop ==
    /\ shutPc = "idle"
    /\ stopped' = TRUE
    /\ shutPc' = "wait"
    /\ UNCHANGED <<transport, workers, lpc, ldst, lresp, connRes, nextID,
                   handlers, chan, pc, myId, resp, srvPending, inbox, nunsol,
                   errPending, nterr>>

ShutdownWait ==
    /\ shutPc = "wait"
    /\ workers = {}
    /\ lpc = "off"
    /\ shutPc' = "done"
    /\ UNCHANGED <<transport, stopped, workers, lpc, ldst, lresp, connRes,
                   nextID, handlers, chan, pc, myId, resp, srvPending, inbox,
                   nunsol, errPending, nterr>>

\* The first goroutine of Connect (lines 256-260).
Teardown ==
    /\ "teardown" \in workers
    /\ stopped
    /\ transport' = "down"
    /\ workers' = workers \ {"teardown"}
    /\ UNCHANGED <<stopped, lpc, ldst, lresp, shutPc, connRes, nextID,
                   handlers, chan, pc, myId, resp, srvPending, inbox, nunsol,
                   errPending, nterr>>

\* handleErrors (lines 287-296): the error is only logged by n.err.
HandleErrors ==
    /\ "errors" \in workers
    /\ \/ /\ stopped
          /\ workers' = workers \ {"errors"}
          /\ UNCHANGED errPending
       \/ /\ errPending
          /\ errPending' = FALSE
          /\ UNCHANGED workers
    /\ UNCHANGED <<transport, stopped, lpc, ldst, lresp, shutPc, connRes,
                   nextID, handlers, chan, pc, myId, resp, srvPending, inbox,
                   nunsol, nterr>>
-----------------------------------------------------------------------------
(***************************************************************************)
(* request (lines 392-439), one action per step that another goroutine    *)
(* can interleave with.  A caller only calls request on a connected Node  *)
(* (with n.transport nil, line 416 would dereference nil), and calls its  *)
(* k-th request once its (k-1)-th has returned.  json.Marshal of the      *)
(* struct of an id, a string and strings cannot fail.                     *)
(***************************************************************************)

\* Line 398: ID: n.nextID.Load().
RequestLoad(r) ==
    /\ pc[r] = "idle"
    /\ transport # "none"
    /\ r[2] > 1 => pc[<<r[1], r[2] - 1>>] = "done"
    /\ myId' = [myId EXCEPT ![r] = nextID]
    /\ pc' = [pc EXCEPT ![r] = "inc"]
    /\ UNCHANGED <<transport, stopped, workers, lpc, ldst, lresp, shutPc,
                   connRes, nextID, handlers, chan, resp, srvPending, inbox,
                   nunsol, errPending, nterr>>

\* Mutant: the counter incremented without the uint32 wraparound.
RequestIncNoWrap(r) ==
    /\ pc[r] = "inc"
    /\ nextID' = nextID + 1
    /\ pc' = [pc EXCEPT ![r] = "reg"]
    /\ UNCHANGED <<transport, stopped, workers, lpc, ldst, lresp, shutPc,
                   connRes, handlers, chan, myId, resp, srvPending, inbox,
                   nunsol, errPending, nterr>>

\* Mutant: n.nextID.Inc() left out.
RequestIncDropped(r) ==
    /\ pc[r] = "inc"
    /\ pc' = [pc EXCEPT ![r] = "reg"]
    /\ UNCHANGED <<transport, stopped, workers, lpc, ldst, lresp, shutPc,
                   connRes, nextID, handlers, chan, myId, resp, srvPending,
                   inbox, nunsol, errPending, nterr>>

\* Lines 402-410: n.nextID.Inc() wraps at 2^32; marshal; c := make(chan, 1).
RequestInc(r) ==
    /\ pc[r] = "inc"
    /\ nextID' = (nextID + 1) % IdMod
    /\ pc' = [pc EXCEPT ![r] = "reg"]
    /\ UNCHANGED <<transport, stopped, workers, lpc, ldst, lresp, shutPc,
                   connRes, handlers, chan, myId, resp, srvPending, inbox,
                   nunsol, errPending, nterr>>

\* Mutant: the handler registered under n.nextID read again, not msg.ID.
RequestRegisterReloaded(r) ==
    /\ pc[r] = "reg"
    /\ handlers' = [handlers EXCEPT ![nextID] = r]
    /\ pc' = [pc EXCEPT ![r] = "send"]
    /\ UNCHANGED <<transport, stopped, workers, lpc, ldst, lresp, shutPc,
                   connRes, nextID, chan, myId, resp, srvPending, inbox,
                   nunsol, errPending, nterr>>

\* Lines 412-414: n.handlers[msg.ID] = c under the write lock.
RequestRegister(r) ==
    /\ pc[r] = "reg"
    /\ handlers' = [handlers EXCEPT ![myId[r]] = r]
    /\ pc' = [pc EXCEPT ![r] = "send"]
    /\ UNCHANGED <<transport, stopped, workers, lpc, ldst, lresp, shutPc,
                   connRes, nextID, chan, myId, resp, srvPending, inbox,
                   nunsol, errPending, nterr>>

\* Lines 416-419: Send fails on a closed transport, and may fail on any
\* I/O error; a failed Send returns at once.
RequestSend(r) ==
    /\ pc[r] = "send"
    /\ \/ /\ transport = "up"
          /\ srvPending' = srvPending \cup {[id |-> myId[r], origin |-> r]}
          /\ pc' = [pc EXCEPT ![r] = "wait"]
          /\ UNCHANGED resp
       \/ /\ resp' = [resp EXCEPT ![r] = Returned("sendErr")]
          /\ pc' = [pc EXCEPT ![r] = "done"]
          /\ UNCHANGED srvPending
    /\ UNCHANGED <<transport, stopped, workers, lpc, ldst, lresp, shutPc,
                   connRes, nextID, handlers, chan, myId, inbox, nunsol,
                   errPending, nterr>>

\* Mutant: the select without the time.After case.
RequestWaitNoTimeout(r) ==
    /\ pc[r] = "wait"
    /\ \/ /\ stopped
          /\ resp' = [resp EXCEPT ![r] = Returned("shutdown")]
          /\ pc' = [pc EXCEPT ![r] = "done"]
          /\ UNCHANGED chan
       \/ /\ chan[r] # <<>>
          /\ resp' = [resp EXCEPT ![r] = Head(chan[r])]
          /\ chan' = [chan EXCEPT ![r] = Tail(chan[r])]
          /\ pc' = [pc EXCEPT ![r] = "del"]
    /\ UNCHANGED <<transport, stopped, workers, lpc, ldst, lresp, shutPc,
                   connRes, nextID, handlers, myId, srvPending, inbox, nunsol,
                   errPending, nterr>>

\* Lines 421-428: the select.  Shutdown returns nil at once (line 424);
\* time.After(n.timeout) may fire at any moment of the wait.
RequestWait(r) ==
    /\ pc[r] = "wait"
    /\ \/ /\ stopped
          /\ resp' = [resp EXCEPT ![r] = Returned("shutdown")]
          /\ pc' = [pc EXCEPT ![r] = "done"]
          /\ UNCHANGED chan
       \/ /\ chan[r] # <<>>
          /\ resp' = [resp EXCEPT ![r] = Head(chan[r])]
          /\ chan' = [chan EXCEPT ![r] = Tail(chan[r])]
          /\ pc' = [pc EXCEPT ![r] = "del"]
       \/ /\ resp' = [resp EXCEPT ![r] = Returned("timeout")]
          /\ pc' = [pc EXCEPT ![r] = "del"]
          /\ UNCHANGED chan
    /\ UNCHANGED <<transport, stopped, workers, lpc, ldst, lresp, shutPc,
                   connRes, nextID, handlers, myId, srvPending, inbox, nunsol,
                   errPending, nterr>>

\* Lines 430-438: delete(n.handlers, msg.ID), whoever's channel is there,
\* then return r.err or unmarshal r.data.
RequestDelete(r) ==
    /\ pc[r] = "del"
    /\ handlers' = [handlers EXCEPT ![myId[r]] = NoReq]
    /\ pc' = [pc EXCEPT ![r] = "done"]
    /\ UNCHANGED <<transport, stopped, workers, lpc, ldst, lresp, shutPc,
                   connRes, nextID, chan, myId, resp, srvPending, inbox,
                   nunsol, errPending, nterr>>

-----------------------------------------------------------------------------
(***************************************************************************)
(* listen (lines 305-380).  n.pushHandlers is never written (listenPush,  *)
(* lines 382-389, is commented out), so the fan-out of lines 359-370      *)
(* ranges over an empty list and changes nothing.                         *)
(***************************************************************************)

\* Lines 307-311: the non-blocking check of n.grp.Ch().
ListenCheck ==
    /\ lpc = "check"
    /\ lpc' = IF stopped THEN "off" ELSE "select"
    /\ UNCHANGED <<transport, stopped, workers, ldst, lresp, shutPc, connRes,
                   nextID, handlers, chan, pc, myId, resp, srvPending, inbox,
                   nunsol, errPending, nterr>>

\* Mutant: the blocking select waits on Responses() only.
ListenSelectNoStop ==
    /\ lpc = "select"
    /\ inbox # <<>>
    /\ LET f == Head(inbox)
           c == handlers[DecodedId(f)]
       IN  /\ inbox' = Tail(inbox)
           /\ IF c = NoReq
                THEN /\ lpc' = "check"
                     /\ UNCHANGED <<ldst, lresp>>
                ELSE /\ lpc' = "deliver"
                     /\ ldst' = c
                     /\ lresp' = [kind |-> KindOf[f.shape],
                                  origin |-> f.origin, shape |-> f.shape]
    /\ UNCHANGED <<transport, stopped, workers, shutPc, connRes, nextID,
                   handlers, chan, pc, myId, resp, srvPending, nunsol,
                   errPending, nterr>>

\* Lines 313-374: either case of the select that is ready; a frame is
\* decoded, and the channel registered under msg.ID (if any) looked up.
ListenSelect ==
    /\ lpc = "select"
    /\ \/ /\ stopped
          /\ lpc' = "off"
          /\ UNCHANGED <<ldst, lresp, inbox>>
       \/ /\ inbox # <<>>
          /\ LET f == Head(inbox)
                 c == handlers[DecodedId(f)]
             IN  /\ inbox' = Tail(inbox)
                 /\ IF c = NoReq
                      THEN /\ lpc' = "check"
                           /\ UNCHANGED <<ldst, lresp>>
                      ELSE /\ lpc' = "deliver"
                           /\ ldst' = c
                           /\ lresp' = [kind |-> KindOf[f.shape],
                                        origin |-> f.origin, shape |-> f.shape]
    /\ UNCHANGED <<transport, stopped, workers, shutPc, connRes, nextID,
                   handlers, chan, pc, myId, resp, srvPending, nunsol,
                   errPending, nterr>>

\* Lines 375-377: c <- r blocks while c's one slot is full.
ListenDeliver ==
    /\ lpc = "deliver"
    /\ Len(chan[ldst]) < 1
    /\ chan' = [chan EXCEPT ![ldst] = Append(chan[ldst], lresp)]
    /\ lpc' = "check"
    /\ ldst' = NoReq
    /\ lresp' = NoResp
    /\ UNCHANGED <<transport, stopped, workers, shutPc, connRes,
                   nextID, handlers, pc, myId, resp, srvPending, inbox,
                   nunsol, errPending, nterr>>

-----------------------------------------------------------------------------
(* The environment: the server and the transport.                          *)

\* The server answers a request it received, in any order, with any shape.
ServerReply ==
    /\ transport = "up"
    /\ \E q \in srvPending, s \in ServerShapes :
         /\ srvPending' = srvPending \ {q}
         /\ inbox' = Append(inbox, [id |-> q.id, origin |-> q.origin, shape |-> s])
    /\ UNCHANGED <<transport, stopped, workers, lpc, ldst, lresp, shutPc,
                   connRes, nextID, handlers, chan, pc, myId, resp, nunsol,
                   errPending, nterr>>

\* A push notification (no "id") or a frame that is not JSON.
ServerUnsolicited ==
    /\ transport = "up"
    /\ nunsol < MaxUnsolicited
    /\ \E s \in UnsolicitedShapes :
         inbox' = Append(inbox, [id |-> 0, origin |-> NoReq, shape |-> s])
    /\ nunsol' = nunsol + 1
    /\ UNCHANGED <<transport, stopped, workers, lpc, ldst, lresp, shutPc,
                   connRes, nextID, handlers, chan, pc, myId, resp, srvPending,
                   errPending, nterr>>

TransportError ==
    /\ transport = "up"
    /\ ~errPending
    /\ nterr < MaxTransportErrors
    /\ errPending' = TRUE
    /\ nterr' = nterr + 1
    /\ UNCHANGED <<transport, stopped, workers, lpc, ldst, lresp, shutPc,
                   connRes, nextID, handlers, chan, pc, myId, resp, srvPending,
                   inbox, nunsol>>

-----------------------------------------------------------------------------
RequestStep(r) ==
    \/ RequestInc(r) \/ RequestRegister(r) \/ RequestSend(r)
    \/ RequestWait(r) \/ RequestDelete(r)

ListenStep == ListenCheck \/ ListenSelect \/ ListenDeliver

Next ==
    \/ ConnectConnected \/ ConnectDial
    \/ ShutdownStop \/ ShutdownWait
    \/ Teardown \/ HandleErrors \/ ListenStep
    \/ \E r \in Reqs : RequestLoad(r) \/ RequestStep(r)
    \/ ServerReply \/ ServerUnsolicited \/ TransportError

(***************************************************************************)
(* Fairness: every goroutine of the Node that can run eventually runs:    *)
(* the workers, the listener, the Shutdown caller once it waits, and a    *)
(* request once it has started (its timer always fires).  Callers, the    *)
(* server and the transport get none: a caller may never call, a server   *)
(* may never answer.                                                      *)
(***************************************************************************)
Fairness ==
    /\ WF_vars(Teardown)
    /\ WF_vars(HandleErrors)
    /\ WF_vars(ListenStep)
    /\ WF_vars(ShutdownWait)
    /\ \A r \in Reqs : WF_vars(RequestStep(r))

Spec == Init /\ [][Next]_vars /\ Fairness

-----------------------------------------------------------------------------
(* Properties.                                                             *)

FrameKinds == {"data", "srvErr", "decodeErr"}

(***************************************************************************)
(* Correlation (listen lines 372-377 with request lines 398-414): a       *)
(* request that returns a server answer returns the answer the server     *)
(* gave to that very request, never another request's answer, a push or  *)
(* an undecodable frame.                                                  *)
(***************************************************************************)
ResponseMatches ==
    \A r \in Reqs : resp[r].kind \in FrameKinds => resp[r].origin = r

\* The id listen reads from the frame an answer came in (lines 338-357):
\* the id of the request it answers, or zero for a push or a frame that
\* does not decode.
AnswerId(a) ==
    IF a.origin = NoReq \/ a.shape = "bad" THEN 0 ELSE myId[a.origin]

(***************************************************************************)
(* Routing by id (lines 372-377 with 410-414): whatever the callers' race *)
(* on nextID and whatever the server pushes, every answer a request holds *)
(* or has waiting in its channel came in a frame carrying the request's  *)
(* own id.  So a misrouted answer (WalletDuplicateId, WalletUnsolicited) *)
(* only ever goes to a request that shares the frame's id.               *)
(***************************************************************************)
IdRouted ==
    \A r \in Reqs :
        /\ resp[r].kind \in FrameKinds => AnswerId(resp[r]) = myId[r]
        /\ \A j \in 1..Len(chan[r]) : AnswerId(chan[r][j]) = myId[r]

(***************************************************************************)
(* Once Shutdown has closed the group channel, it returns: every worker   *)
(* and the listen loop observe n.grp.Ch() and exit (lines 256-296,        *)
(* 305-315), none stays blocked, e.g. on c <- r at line 376.              *)
(***************************************************************************)
ShutdownCompletes == shutPc = "wait" ~> shutPc = "done"

(***************************************************************************)
(* No request hangs: a request that has started returns, by an answer,   *)
(* its timeout, a send error or shutdown (lines 416-438).                *)
(***************************************************************************)
RequestsTerminate == \A r \in Reqs : pc[r] = "inc" ~> pc[r] = "done"

(***************************************************************************)
(* No leak (request lines 410-432): once a request has returned, no entry *)
(* of n.handlers refers to its channel; the entry is removed on delivery, *)
(* timeout or shutdown alike.                                             *)
(***************************************************************************)
NoLeak ==
    \A r \in Reqs : pc[r] = "done" => \A i \in Ids : handlers[i] # r

\* "Shutdown transitions it to terminated exactly once; terminated is final
\* (no reconnection support)" (spec.md section 3): once Shutdown has
\* closed the group channel, no Connect brings a transport up.  Connect
\* (line 225) only asks whether n.transport is nil.
TerminatedFinal ==
    [][stopped /\ transport' = "up" => transport = "up"]_vars


-----------------------------------------------------------------------------
(***************************************************************************)
(* Refinement: the Node seen through what request promises (WalletRPC).  *)
(* A request is pending from its id Load until it returns; what it        *)
(* returned, and whose answer that was, becomes visible when it returns.  *)
(***************************************************************************)
AbsPc == [r \in Reqs |-> CASE pc[r] = "idle" -> "idle"
                           [] pc[r] = "done" -> "done"
                           [] OTHER          -> "pending"]

AbsResult == [r \in Reqs |-> IF pc[r] = "done"
                               THEN [kind |-> resp[r].kind,
                                     answers |-> resp[r].origin]
                               ELSE [kind |-> "none", answers |-> NoReq]]

RPC == INSTANCE WalletRPC WITH apc <- AbsPc, aresult <- AbsResult,
                               astopped <- stopped

\* The Node implements the request contract (spec.md 4.2 and properties
\* 8.4 and 8.8): every request returns exactly once, with the answer the
\* server gave to that request, a timeout or send error, or the shutdown
\* return once Shutdown has begun, and a caller's requests in order.
RPCSpec == RPC!Spec

=============================================================================
