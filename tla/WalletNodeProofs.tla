-------------------------- MODULE WalletNodeProofs --------------------------
(* Proofs about WalletNode for every value of its constants.               *)
EXTENDS WalletNode, TLAPS

\* The id space of the wrapping counter is not empty.
LEMMA IdModPositive == IdMod \in Nat \ {0}
  BY ConstAssumption DEF IdMod

\* The decoded id of a frame is an id of the counter's range.
LEMMA DecodedIdType ==
  ASSUME NEW f \in Frame PROVE DecodedId(f) \in Ids
  BY IdModPositive DEF DecodedId, Frame, Ids

\* What Connect's address loop returns is one of its three results.
LEMMA DialResultType ==
  ASSUME NEW outcome, NEW order
  PROVE  DialResult(outcome, order) \in {"ok", "dialErr", "ErrConnectFailed"}
  BY DEF DialResult

\* The response the listener builds from a frame is a Response.
LEMMA FrameResponseType ==
  ASSUME NEW f \in Frame
  PROVE  [kind |-> KindOf[f.shape], origin |-> f.origin, shape |-> f.shape]
           \in Response
  BY DEF Frame, Response, KindOf, Shapes, Kinds

THEOREM InitTypeOK == Init => TypeOK
  <1> SUFFICES ASSUME Init PROVE TypeOK
    OBVIOUS
  <1>1. 0 \in Ids
    BY IdModPositive DEF Ids
  <1>2. NoResp \in Response
    BY DEF NoResp, Response, Kinds
  <1> QED
    BY <1>1, <1>2 DEF Init, TypeOK, ListenLabels, ConnResults, PcLabels

THEOREM NextTypeOK == TypeOK /\ [Next]_vars => TypeOK'
  <1> SUFFICES ASSUME TypeOK, [Next]_vars PROVE TypeOK'
    OBVIOUS
  <1> USE DEF TypeOK
  <1>0. IdMod \in Nat \ {0}
    BY IdModPositive
  <1>1. CASE ConnectConnected
    BY <1>1 DEF ConnectConnected, ConnResults
  <1>2. CASE ConnectDial
    <2>1. PICK outcome \in [Addrs -> DialOutcomes], order \in SetToSeqs(Addrs) :
            LET res == DialResult(outcome, order) IN
            /\ connRes' = res
            /\ IF res = "ok"
                 THEN /\ transport' = "up"
                      /\ workers' = {"teardown", "errors"}
                      /\ lpc' = "check"
                 ELSE UNCHANGED <<transport, workers, lpc>>
      BY <1>2 DEF ConnectDial
    <2>2. DialResult(outcome, order) \in {"ok", "dialErr", "ErrConnectFailed"}
      BY DialResultType
    <2> QED
      BY <1>2, <2>1, <2>2 DEF ConnectDial, ConnResults, ListenLabels
  <1>3. CASE ShutdownStop
    BY <1>3 DEF ShutdownStop
  <1>4. CASE ShutdownWait
    BY <1>4 DEF ShutdownWait
  <1>5. CASE Teardown
    BY <1>5 DEF Teardown
  <1>6. CASE HandleErrors
    BY <1>6 DEF HandleErrors
  <1>7. CASE ListenCheck
    BY <1>7 DEF ListenCheck, ListenLabels
  <1>8. CASE ListenSelect
    <2>1. CASE stopped /\ lpc' = "off" /\ UNCHANGED <<ldst, lresp, inbox>>
      BY <1>8, <2>1 DEF ListenSelect, ListenLabels
    <2>2. CASE inbox # <<>>
      <3>1. Head(inbox) \in Frame /\ Tail(inbox) \in Seq(Frame)
        BY <2>2
      <3>2. DecodedId(Head(inbox)) \in Ids
        BY <3>1, DecodedIdType
      <3>3. [kind |-> KindOf[Head(inbox).shape], origin |-> Head(inbox).origin,
             shape |-> Head(inbox).shape] \in Response
        BY <3>1, FrameResponseType
      <3> QED
        BY <1>8, <3>1, <3>2, <3>3 DEF ListenSelect, ListenLabels
    <2> QED
      BY <1>8, <2>1, <2>2 DEF ListenSelect
  <1>9. CASE ListenDeliver
    <2>1. NoResp \in Response
      BY DEF NoResp, Response, Kinds
    <2>2. CASE ldst \in Reqs
      <3>1. Append(chan[ldst], lresp) \in Seq(Response)
        BY <2>2
      <3> QED
        BY <1>9, <2>1, <2>2, <3>1 DEF ListenDeliver, ListenLabels
    <2>3. CASE ldst = NoReq
      <3>1. [chan EXCEPT ![ldst] = Append(chan[ldst], lresp)] = chan
        BY <2>3, NoReqAssumption
      <3> QED
        BY <1>9, <2>1, <3>1 DEF ListenDeliver, ListenLabels
    <2> QED
      BY <2>2, <2>3
  <1>10. ASSUME NEW r \in Reqs, RequestLoad(r)
         PROVE TypeOK'
    BY <1>10 DEF RequestLoad, PcLabels
  <1>11. ASSUME NEW r \in Reqs, RequestInc(r)
         PROVE TypeOK'
    BY <1>0, <1>11 DEF RequestInc, PcLabels, Ids
  <1>12. ASSUME NEW r \in Reqs, RequestRegister(r)
         PROVE TypeOK'
    BY <1>12 DEF RequestRegister, PcLabels
  <1>13. ASSUME NEW r \in Reqs, RequestSend(r)
         PROVE TypeOK'
    <2>1. Returned("sendErr") \in Response
      BY DEF Returned, Response, Kinds
    <2>2. [id |-> myId[r], origin |-> r] \in [id : Ids, origin : Reqs]
      OBVIOUS
    <2>3. CASE transport = "up"
              /\ srvPending' = srvPending \cup {[id |-> myId[r], origin |-> r]}
              /\ pc' = [pc EXCEPT ![r] = "wait"]
              /\ UNCHANGED resp
      BY <1>13, <2>2, <2>3 DEF RequestSend, PcLabels
    <2>4. CASE resp' = [resp EXCEPT ![r] = Returned("sendErr")]
              /\ pc' = [pc EXCEPT ![r] = "done"]
              /\ UNCHANGED srvPending
      BY <1>13, <2>1, <2>4 DEF RequestSend, PcLabels
    <2> QED
      BY <1>13, <2>3, <2>4 DEF RequestSend
  <1>14. ASSUME NEW r \in Reqs, RequestWait(r)
         PROVE TypeOK'
    <2>1. Returned("shutdown") \in Response /\ Returned("timeout") \in Response
      BY DEF Returned, Response, Kinds
    <2>2. CASE chan[r] # <<>>
      <3>1. Head(chan[r]) \in Response /\ Tail(chan[r]) \in Seq(Response)
        BY <2>2
      <3> QED
        BY <1>14, <2>1, <3>1 DEF RequestWait, PcLabels
    <2>3. CASE chan[r] = <<>>
      BY <1>14, <2>1, <2>3 DEF RequestWait, PcLabels
    <2> QED
      BY <2>2, <2>3
  <1>15. ASSUME NEW r \in Reqs, RequestDelete(r)
         PROVE TypeOK'
    BY <1>15 DEF RequestDelete, PcLabels
  <1>16. CASE ServerReply
    BY <1>16, ConstAssumption DEF ServerReply, Frame, Shapes
  <1>17. CASE ServerUnsolicited
    <2>1. 0 \in Ids
      BY <1>0 DEF Ids
    <2> QED
      BY <1>17, <2>1, ConstAssumption
      DEF ServerUnsolicited, Frame, UnsolicitedShapes, Shapes
  <1>18. CASE TransportError
    BY <1>18, ConstAssumption DEF TransportError
  <1>19. CASE UNCHANGED vars
    BY <1>19 DEF vars
  <1> QED
    BY <1>1, <1>2, <1>3, <1>4, <1>5, <1>6, <1>7, <1>8, <1>9, <1>10, <1>11,
       <1>12, <1>13, <1>14, <1>15, <1>16, <1>17, <1>18, <1>19
    DEF Next, ListenStep, RequestStep

(***************************************************************************)
(* Type correctness of the Node: every variable keeps its type in every   *)
(* behaviour, for every number of callers, requests, addresses and every  *)
(* counter width.                                                         *)
(***************************************************************************)
THEOREM TypeCorrect == Spec => []TypeOK
  BY InitTypeOK, NextTypeOK, PTL DEF Spec

-----------------------------------------------------------------------------
(***************************************************************************)
(* Routing by id, for any number of callers and any counter width.        *)
(*                                                                         *)
(* IdRouted is not inductive: a frame in the inbox, a request at the      *)
(* server, a handler entry or the response listen is delivering could     *)
(* carry an id other than its request's, and then end up in a channel.   *)
(* RouteInv follows the id along that path.  Each of these items names a *)
(* request that has started (it loaded its id at line 398), and a started *)
(* request never loads again, so the ids the items are compared with do  *)
(* not move.                                                              *)
(***************************************************************************)

\* o is no request, or one that has loaded its id.
Named(o) == o \in Reqs => pc[o] # "idle"

\* n.handlers[i] holds the channel of a started request whose msg.ID is i.
HandlersRouted ==
    \A i \in Ids : handlers[i] # NoReq =>
        pc[handlers[i]] # "idle" /\ myId[handlers[i]] = i

\* The server answers with the id the request sent.
PendingRouted ==
    \A q \in srvPending : pc[q.origin] # "idle" /\ q.id = myId[q.origin]

\* What listen decodes from a frame on the transport is the frame's id.
InboxRouted ==
    \A j \in 1..Len(inbox) :
        Named(inbox[j].origin) /\ DecodedId(inbox[j]) = AnswerId(inbox[j])

\* The response listen is sending goes to the request of its id.
DeliverRouted ==
    lpc = "deliver" =>
        /\ ldst \in Reqs /\ pc[ldst] # "idle"
        /\ Named(lresp.origin) /\ AnswerId(lresp) = myId[ldst]

ChanRouted ==
    \A r \in Reqs : \A j \in 1..Len(chan[r]) :
        pc[r] # "idle" /\ Named(chan[r][j].origin)
        /\ AnswerId(chan[r][j]) = myId[r]

RespRouted ==
    \A r \in Reqs : resp[r].kind \in FrameKinds =>
        pc[r] # "idle" /\ Named(resp[r].origin) /\ AnswerId(resp[r]) = myId[r]

RouteInv ==
    HandlersRouted /\ PendingRouted /\ InboxRouted /\ DeliverRouted
    /\ ChanRouted /\ RespRouted

\* A step keeps every started request started, with the id it loaded.
Stable ==
    \A r \in Reqs : pc[r] # "idle" => pc'[r] # "idle" /\ myId'[r] = myId[r]

\* No request goes back to idle, and only RequestLoad of an idle request
\* writes myId (line 398).
LEMMA StartedStable ==
  ASSUME TypeOK, [Next]_vars
  PROVE  Stable
<1>1. ASSUME NEW r \in Reqs, RequestLoad(r) \/ RequestStep(r) PROVE Stable
  <2>1. \E l \in PcLabels \ {"idle"} : pc' = [pc EXCEPT ![r] = l]
    BY <1>1 DEF RequestLoad, RequestStep, RequestInc, RequestRegister,
               RequestSend, RequestWait, RequestDelete, PcLabels
  <2>2. myId' = myId \/ (pc[r] = "idle" /\ \E v : myId' = [myId EXCEPT ![r] = v])
    BY <1>1 DEF RequestLoad, RequestStep, RequestInc, RequestRegister,
               RequestSend, RequestWait, RequestDelete
  <2> QED BY <2>1, <2>2 DEF Stable, TypeOK
<1>2. CASE ~\E r \in Reqs : RequestLoad(r) \/ RequestStep(r)
  <2>1. UNCHANGED <<pc, myId>>
    BY <1>2 DEF Next, vars, ConnectConnected, ConnectDial, ShutdownStop,
                ShutdownWait, Teardown, HandleErrors, ListenStep,
                ListenCheck, ListenSelect, ListenDeliver, ServerReply,
                ServerUnsolicited, TransportError
  <2> QED BY <2>1 DEF Stable
<1> QED BY <1>1, <1>2

\* The id an answer was sent with does not move while its request stays
\* started.
LEMMA AnswerStable ==
  ASSUME Stable, NEW a, a.origin \in Reqs \cup {NoReq}, Named(a.origin)
  PROVE  AnswerId(a)' = AnswerId(a) /\ Named(a.origin)'
BY DEF Stable, AnswerId, Named


\* Each part of RouteInv survives a step that leaves its variables alone.
LEMMA KeepRouted ==
  ASSUME TypeOK, RouteInv, Stable
  PROVE  /\ UNCHANGED handlers => HandlersRouted'
         /\ UNCHANGED srvPending => PendingRouted'
         /\ UNCHANGED inbox => InboxRouted'
         /\ UNCHANGED <<ldst, lresp>> /\ (lpc' = "deliver" => lpc = "deliver")
              => DeliverRouted'
         /\ UNCHANGED chan => ChanRouted'
         /\ UNCHANGED resp => RespRouted'
<1>1. UNCHANGED handlers => HandlersRouted'
  BY DEF TypeOK, RouteInv, HandlersRouted, Stable
<1>2. UNCHANGED srvPending => PendingRouted'
  BY DEF TypeOK, RouteInv, PendingRouted, Stable
<1>3. UNCHANGED inbox => InboxRouted'
  <2> SUFFICES ASSUME UNCHANGED inbox, NEW j \in 1..Len(inbox)
               PROVE  (Named(inbox[j].origin)
                       /\ DecodedId(inbox[j]) = AnswerId(inbox[j]))'
    BY DEF InboxRouted
  <2>1. inbox[j] \in Frame BY DEF TypeOK
  <2>2. Named(inbox[j].origin) /\ DecodedId(inbox[j]) = AnswerId(inbox[j])
    BY DEF RouteInv, InboxRouted
  <2> QED BY <2>1, <2>2, AnswerStable DEF Frame
<1>4. UNCHANGED <<ldst, lresp>> /\ (lpc' = "deliver" => lpc = "deliver")
        => DeliverRouted'
  <2> SUFFICES ASSUME UNCHANGED <<ldst, lresp>>, lpc' = "deliver" => lpc = "deliver",
                      lpc' = "deliver"
               PROVE  (/\ ldst \in Reqs /\ pc[ldst] # "idle"
                       /\ Named(lresp.origin) /\ AnswerId(lresp) = myId[ldst])'
    BY DEF DeliverRouted
  <2>1. ldst \in Reqs /\ pc[ldst] # "idle" /\ Named(lresp.origin)
        /\ AnswerId(lresp) = myId[ldst]
    BY DEF RouteInv, DeliverRouted
  <2>2. lresp.origin \in Reqs \cup {NoReq} BY DEF TypeOK, Response
  <2> QED BY <2>1, <2>2, AnswerStable DEF Stable
<1>5. UNCHANGED chan => ChanRouted'
  <2> SUFFICES ASSUME UNCHANGED chan, NEW r \in Reqs, NEW j \in 1..Len(chan[r])
               PROVE  (pc[r] # "idle" /\ Named(chan[r][j].origin)
                       /\ AnswerId(chan[r][j]) = myId[r])'
    BY DEF ChanRouted
  <2>1. pc[r] # "idle" /\ Named(chan[r][j].origin)
        /\ AnswerId(chan[r][j]) = myId[r]
    BY DEF RouteInv, ChanRouted
  <2>2. chan[r] \in Seq(Response) BY DEF TypeOK
  <2>3. chan[r][j] \in Response BY <2>2
  <2>4. chan[r][j].origin \in Reqs \cup {NoReq} BY <2>3 DEF Response
  <2> QED BY <2>1, <2>4, AnswerStable DEF Stable
<1>6. UNCHANGED resp => RespRouted'
  <2> SUFFICES ASSUME UNCHANGED resp, NEW r \in Reqs, (resp[r].kind \in FrameKinds)'
               PROVE  (pc[r] # "idle" /\ Named(resp[r].origin)
                       /\ AnswerId(resp[r]) = myId[r])'
    BY DEF RespRouted
  <2>1. pc[r] # "idle" /\ Named(resp[r].origin) /\ AnswerId(resp[r]) = myId[r]
    BY DEF RouteInv, RespRouted
  <2>2. resp[r].origin \in Reqs \cup {NoReq} BY DEF TypeOK, Response
  <2> QED BY <2>1, <2>2, AnswerStable DEF Stable
<1> QED BY <1>1, <1>2, <1>3, <1>4, <1>5, <1>6


\* The hypotheses of every step of the routing proof.
RouteHyp == TypeOK /\ RouteInv /\ Stable

\* n.handlers[msg.ID] = c (line 413): the entry is the registering
\* request's, under the id it loaded.
LEMMA RegisterRouted ==
  ASSUME RouteHyp, NEW r \in Reqs, RequestRegister(r)
  PROVE  RouteInv'
<1>1. handlers \in [Ids -> Reqs \cup {NoReq}] /\ myId \in [Reqs -> Ids]
      /\ pc \in [Reqs -> PcLabels]
  BY DEF RouteHyp, TypeOK
<1>2. /\ handlers' = [handlers EXCEPT ![myId[r]] = r]
      /\ pc' = [pc EXCEPT ![r] = "send"]
      /\ UNCHANGED <<myId, srvPending, inbox, lpc, ldst, lresp, chan, resp>>
  BY DEF RequestRegister
<1>3. HandlersRouted'
  <2> SUFFICES ASSUME NEW i \in Ids, (handlers[i] # NoReq)'
               PROVE  (pc[handlers[i]] # "idle" /\ myId[handlers[i]] = i)'
    BY DEF HandlersRouted
  <2>1. CASE i = myId[r]
    <3>1. handlers'[i] = r BY <1>1, <1>2, <2>1
    <3> QED BY <1>1, <1>2, <2>1, <3>1
  <2>2. CASE i # myId[r]
    <3>1. handlers'[i] = handlers[i] BY <1>1, <1>2, <2>2
    <3>2. pc[handlers[i]] # "idle" /\ myId[handlers[i]] = i
      BY <3>1 DEF RouteHyp, RouteInv, HandlersRouted
    <3>3. handlers[i] \in Reqs BY <1>1, <3>1
    <3> QED BY <3>1, <3>2, <3>3 DEF RouteHyp, Stable
  <2> QED BY <2>1, <2>2
<1>4. (PendingRouted /\ InboxRouted /\ DeliverRouted /\ ChanRouted /\ RespRouted)'
  BY <1>2, KeepRouted DEF RouteHyp
<1> QED BY <1>3, <1>4 DEF RouteInv

\* delete(n.handlers, msg.ID) (line 431) only empties an entry.
LEMMA DeleteRouted ==
  ASSUME RouteHyp, NEW r \in Reqs, RequestDelete(r)
  PROVE  RouteInv'
<1>1. handlers \in [Ids -> Reqs \cup {NoReq}] /\ myId \in [Reqs -> Ids]
  BY DEF RouteHyp, TypeOK
<1>2. /\ handlers' = [handlers EXCEPT ![myId[r]] = NoReq]
      /\ UNCHANGED <<myId, srvPending, inbox, lpc, ldst, lresp, chan, resp>>
  BY DEF RequestDelete
<1>3. HandlersRouted'
  <2> SUFFICES ASSUME NEW i \in Ids, (handlers[i] # NoReq)'
               PROVE  (pc[handlers[i]] # "idle" /\ myId[handlers[i]] = i)'
    BY DEF HandlersRouted
  <2>1. i # myId[r] /\ handlers'[i] = handlers[i] BY <1>1, <1>2
  <2>2. pc[handlers[i]] # "idle" /\ myId[handlers[i]] = i
    BY <2>1 DEF RouteHyp, RouteInv, HandlersRouted
  <2>3. handlers[i] \in Reqs BY <1>1, <2>1
  <2> QED BY <2>1, <2>2, <2>3 DEF RouteHyp, Stable
<1>4. (PendingRouted /\ InboxRouted /\ DeliverRouted /\ ChanRouted /\ RespRouted)'
  BY <1>2, KeepRouted DEF RouteHyp
<1> QED BY <1>3, <1>4 DEF RouteInv


\* Writing resp[r]: the other requests keep theirs, and r's new value is
\* either no answer or an answer routed to r.
LEMMA RespWrite ==
  ASSUME RouteHyp, NEW r \in Reqs, NEW v, resp' = [resp EXCEPT ![r] = v],
         v.kind \in FrameKinds =>
           (pc[r] # "idle" /\ Named(v.origin) /\ AnswerId(v) = myId[r])'
  PROVE  RespRouted'
<1>1. resp \in [Reqs -> Response] BY DEF RouteHyp, TypeOK
<1> SUFFICES ASSUME NEW s \in Reqs, (resp[s].kind \in FrameKinds)'
             PROVE  (pc[s] # "idle" /\ Named(resp[s].origin)
                     /\ AnswerId(resp[s]) = myId[s])'
  BY DEF RespRouted
<1>2. CASE s = r BY <1>1, <1>2
<1>3. CASE s # r
  <2>1. resp'[s] = resp[s] BY <1>1, <1>3
  <2>2. pc[s] # "idle" /\ Named(resp[s].origin) /\ AnswerId(resp[s]) = myId[s]
    BY <2>1 DEF RouteHyp, RouteInv, RespRouted
  <2>3. resp[s].origin \in Reqs \cup {NoReq} BY <1>1 DEF Response
  <2> QED BY <2>1, <2>2, <2>3, AnswerStable DEF RouteHyp, Stable
<1> QED BY <1>2, <1>3

\* The return values of request that carry no answer.
LEMMA ReturnedNoAnswer ==
  ASSUME NEW k \in {"sendErr", "shutdown", "timeout"}
  PROVE  Returned(k).kind \notin FrameKinds
BY DEF Returned, FrameKinds

\* transport.Send (line 416): the request reaches the server with the id
\* it loaded; a failed Send returns an error, not an answer.
LEMMA SendRouted ==
  ASSUME RouteHyp, NEW r \in Reqs, RequestSend(r)
  PROVE  RouteInv'
<1>1. pc \in [Reqs -> PcLabels] /\ myId \in [Reqs -> Ids] BY DEF RouteHyp, TypeOK
<1>2. UNCHANGED <<handlers, myId, inbox, lpc, ldst, lresp, chan>>
  BY DEF RequestSend
<1>3. (HandlersRouted /\ InboxRouted /\ DeliverRouted /\ ChanRouted)'
  BY <1>2, KeepRouted DEF RouteHyp
<1>4. CASE /\ srvPending' = srvPending \cup {[id |-> myId[r], origin |-> r]}
           /\ pc' = [pc EXCEPT ![r] = "wait"]
           /\ UNCHANGED resp
  <2>1. RespRouted' BY <1>2, <1>4, KeepRouted DEF RouteHyp
  <2>2. PendingRouted'
    <3> SUFFICES ASSUME NEW q \in srvPending'
                 PROVE  (pc[q.origin] # "idle" /\ q.id = myId[q.origin])'
      BY DEF PendingRouted
    <3>1. CASE q \in srvPending
      <4>1. pc[q.origin] # "idle" /\ q.id = myId[q.origin]
        BY <3>1 DEF RouteHyp, RouteInv, PendingRouted
      <4>2. q.origin \in Reqs BY <3>1 DEF RouteHyp, TypeOK
      <4> QED BY <4>1, <4>2 DEF RouteHyp, Stable
    <3>2. CASE q = [id |-> myId[r], origin |-> r]
      BY <1>1, <1>2, <1>4, <3>2
    <3> QED BY <1>4, <3>1, <3>2
  <2> QED BY <1>3, <2>1, <2>2 DEF RouteInv
<1>5. CASE /\ resp' = [resp EXCEPT ![r] = Returned("sendErr")]
           /\ UNCHANGED srvPending
  <2>1. Returned("sendErr").kind \notin FrameKinds BY ReturnedNoAnswer
  <2>2. RespRouted' BY <1>5, <2>1, RespWrite
  <2>3. PendingRouted' BY <1>5, KeepRouted DEF RouteHyp
  <2> QED BY <1>3, <2>2, <2>3 DEF RouteInv
<1> QED BY <1>4, <1>5 DEF RequestSend

\* The select (lines 421-428): the answer taken from the channel is routed
\* to the request; the other returns carry no answer.
LEMMA WaitRouted ==
  ASSUME RouteHyp, NEW r \in Reqs, RequestWait(r)
  PROVE  RouteInv'
<1>1. pc \in [Reqs -> PcLabels] /\ chan \in [Reqs -> Seq(Response)]
  BY DEF RouteHyp, TypeOK
<1>2. UNCHANGED <<handlers, myId, srvPending, inbox, lpc, ldst, lresp>>
  BY DEF RequestWait
<1>3. (HandlersRouted /\ PendingRouted /\ InboxRouted /\ DeliverRouted)'
  BY <1>2, KeepRouted DEF RouteHyp
<1>4. CASE /\ \E k \in {"shutdown", "timeout"} :
                resp' = [resp EXCEPT ![r] = Returned(k)]
           /\ UNCHANGED chan
  <2>1. PICK k \in {"shutdown", "timeout"} : resp' = [resp EXCEPT ![r] = Returned(k)]
    BY <1>4
  <2>2. Returned(k).kind \notin FrameKinds BY ReturnedNoAnswer
  <2>3. RespRouted' BY <2>1, <2>2, RespWrite
  <2>4. ChanRouted' BY <1>4, KeepRouted DEF RouteHyp
  <2> QED BY <1>3, <2>3, <2>4 DEF RouteInv
<1>5. CASE /\ chan[r] # <<>>
           /\ resp' = [resp EXCEPT ![r] = Head(chan[r])]
           /\ chan' = [chan EXCEPT ![r] = Tail(chan[r])]
           /\ pc' = [pc EXCEPT ![r] = "del"]
  <2>1. Len(chan[r]) >= 1 /\ Head(chan[r]) = chan[r][1] /\ chan[r][1] \in Response
    BY <1>1, <1>5
  <2>2. PICK a \in Response : a = chan[r][1] BY <2>1
  <2>3. pc[r] # "idle" /\ Named(a.origin) /\ AnswerId(a) = myId[r]
    BY <2>1, <2>2 DEF RouteHyp, RouteInv, ChanRouted
  <2>4. (Named(a.origin) /\ AnswerId(a) = myId[r])'
    BY <1>2, <2>3, AnswerStable DEF RouteHyp, Response
  <2>6. RespRouted' BY <1>1, <1>5, <2>1, <2>2, <2>4, RespWrite
  <2>5. ChanRouted'
    <3> SUFFICES ASSUME NEW s \in Reqs, NEW j \in 1..Len(chan'[s])
                 PROVE  (pc[s] # "idle" /\ Named(chan[s][j].origin)
                         /\ AnswerId(chan[s][j]) = myId[s])'
      BY DEF ChanRouted
    <3>1. CASE s = r
      <4>1. Len(chan'[r]) = Len(chan[r]) - 1 /\ chan'[r][j] = chan[r][j + 1]
            /\ j + 1 \in 1..Len(chan[r])
        BY <1>1, <1>5, <2>1, <3>1
      <4>2. pc[r] # "idle" /\ Named(chan[r][j + 1].origin)
            /\ AnswerId(chan[r][j + 1]) = myId[r]
        BY <4>1 DEF RouteHyp, RouteInv, ChanRouted
      <4>3. chan[r][j + 1] \in Response BY <1>1, <4>1
      <4> QED BY <1>2, <3>1, <4>1, <4>2, <4>3, AnswerStable
              DEF RouteHyp, Stable, Response
    <3>2. CASE s # r
      <4>1. chan'[s] = chan[s] BY <1>1, <1>5, <3>2
      <4>2. pc[s] # "idle" /\ Named(chan[s][j].origin)
            /\ AnswerId(chan[s][j]) = myId[s]
        BY <4>1 DEF RouteHyp, RouteInv, ChanRouted
      <4>3. chan[s][j] \in Response BY <1>1, <4>1
      <4> QED BY <1>2, <4>1, <4>2, <4>3, AnswerStable
              DEF RouteHyp, Stable, Response
    <3> QED BY <3>1, <3>2
  <2> QED BY <1>3, <2>6, <2>5 DEF RouteInv
<1> QED BY <1>4, <1>5 DEF RequestWait


\* The listener's select (lines 365-377): the handler found under the
\* decoded id of the frame is the request the frame answers, so the
\* response it builds is routed to it.
LEMMA SelectRouted ==
  ASSUME RouteHyp, ListenSelect
  PROVE  RouteInv'
<1>1. /\ handlers \in [Ids -> Reqs \cup {NoReq}] /\ inbox \in Seq(Frame)
      /\ pc \in [Reqs -> PcLabels]
  BY DEF RouteHyp, TypeOK
<1>2. UNCHANGED <<handlers, chan, pc, myId, resp, srvPending>>
  BY DEF ListenSelect
<1>3. (HandlersRouted /\ PendingRouted /\ ChanRouted /\ RespRouted)'
  BY <1>2, KeepRouted DEF RouteHyp
<1>4. CASE lpc' = "off" /\ UNCHANGED <<ldst, lresp, inbox>>
  BY <1>3, <1>4, KeepRouted DEF RouteHyp, RouteInv
<1>5. CASE /\ inbox # <<>>
           /\ inbox' = Tail(inbox)
           /\ LET f == Head(inbox)
                  c == handlers[DecodedId(f)]
              IN  IF c = NoReq
                    THEN lpc' = "check" /\ UNCHANGED <<ldst, lresp>>
                    ELSE /\ lpc' = "deliver"
                         /\ ldst' = c
                         /\ lresp' = [kind |-> KindOf[f.shape],
                                      origin |-> f.origin, shape |-> f.shape]
  <2>1. PICK f \in Frame : f = Head(inbox) BY <1>1, <1>5
  <2>2. Named(f.origin) /\ DecodedId(f) = AnswerId(f)
    BY <1>1, <1>5, <2>1 DEF RouteHyp, RouteInv, InboxRouted
  <2>3. DecodedId(f) \in Ids
    <3>1. 0 \in Ids BY ConstAssumption DEF Ids, IdMod
    <3> QED BY <2>1, <3>1 DEF DecodedId, Frame
  <2>4. InboxRouted'
    <3> SUFFICES ASSUME NEW j \in 1..Len(inbox')
                 PROVE  (Named(inbox[j].origin)
                         /\ DecodedId(inbox[j]) = AnswerId(inbox[j]))'
      BY DEF InboxRouted
    <3>1. inbox'[j] = inbox[j + 1] /\ j + 1 \in 1..Len(inbox)
      BY <1>1, <1>5
    <3> QED BY <1>2, <3>1 DEF RouteHyp, RouteInv, InboxRouted, Named, AnswerId
  <2>5. CASE handlers[DecodedId(f)] = NoReq
    <3>1. lpc' = "check" /\ UNCHANGED <<ldst, lresp>> BY <1>5, <2>1, <2>5
    <3> QED BY <1>3, <2>4, <3>1, KeepRouted DEF RouteHyp, RouteInv
  <2>6. CASE handlers[DecodedId(f)] # NoReq
    <3> DEFINE c == handlers[DecodedId(f)]
    <3>1. /\ lpc' = "deliver" /\ ldst' = c
          /\ lresp' = [kind |-> KindOf[f.shape], origin |-> f.origin,
                       shape |-> f.shape]
      BY <1>5, <2>1, <2>6
    <3>2. c \in Reqs /\ pc[c] # "idle" /\ myId[c] = DecodedId(f)
      BY <1>1, <2>3, <2>6 DEF RouteHyp, RouteInv, HandlersRouted
    <3>3. DeliverRouted'
      BY <1>2, <2>2, <3>1, <3>2 DEF DeliverRouted, Named, AnswerId
    <3> QED BY <1>3, <2>4, <3>3 DEF RouteInv
  <2> QED BY <2>5, <2>6
<1> QED BY <1>4, <1>5 DEF ListenSelect

\* The send on the handler's channel (line 377): the response joins the
\* channel of the request it is routed to.
LEMMA DeliverStepRouted ==
  ASSUME RouteHyp, ListenDeliver
  PROVE  RouteInv'
<1>1. chan \in [Reqs -> Seq(Response)] /\ lresp \in Response
  BY DEF RouteHyp, TypeOK
<1>2. UNCHANGED <<handlers, pc, myId, resp, srvPending, inbox>> /\ lpc' = "check"
  BY DEF ListenDeliver
<1>3. (HandlersRouted /\ PendingRouted /\ InboxRouted /\ RespRouted)'
  BY <1>2, KeepRouted DEF RouteHyp
<1>4. DeliverRouted' BY <1>2 DEF DeliverRouted
<1>5. ldst \in Reqs /\ pc[ldst] # "idle" /\ Named(lresp.origin)
      /\ AnswerId(lresp) = myId[ldst]
  BY DEF ListenDeliver, RouteHyp, RouteInv, DeliverRouted
<1>6. ChanRouted'
  <2> SUFFICES ASSUME NEW s \in Reqs, NEW j \in 1..Len(chan'[s])
               PROVE  (pc[s] # "idle" /\ Named(chan[s][j].origin)
                       /\ AnswerId(chan[s][j]) = myId[s])'
    BY DEF ChanRouted
  <2>1. chan' = [chan EXCEPT ![ldst] = Append(chan[ldst], lresp)]
    BY DEF ListenDeliver
  <2>2. CASE s = ldst /\ j = Len(chan[ldst]) + 1
    <3>1. chan'[s][j] = lresp BY <1>1, <1>5, <2>1, <2>2
    <3> QED BY <1>2, <1>5, <2>2, <3>1 DEF Named, AnswerId
  <2>3. CASE s = ldst /\ j # Len(chan[ldst]) + 1
    <3>1. chan'[s][j] = chan[s][j] /\ j \in 1..Len(chan[s])
      BY <1>1, <1>5, <2>1, <2>3
    <3> QED BY <1>2, <3>1 DEF RouteHyp, RouteInv, ChanRouted, Named, AnswerId
  <2>4. CASE s # ldst
    <3>1. chan'[s] = chan[s] BY <1>1, <2>1, <2>4
    <3> QED BY <1>2, <3>1 DEF RouteHyp, RouteInv, ChanRouted, Named, AnswerId
  <2> QED BY <2>2, <2>3, <2>4
<1> QED BY <1>3, <1>4, <1>6 DEF RouteInv

\* The server answers a pending request with the id it was sent with.
LEMMA ReplyRouted ==
  ASSUME RouteHyp, ServerReply
  PROVE  RouteInv'
<1>1. inbox \in Seq(Frame) /\ srvPending \subseteq [id : Ids, origin : Reqs]
  BY DEF RouteHyp, TypeOK
<1>2. UNCHANGED <<handlers, lpc, ldst, lresp, chan, pc, myId, resp>>
  BY DEF ServerReply
<1>3. (HandlersRouted /\ DeliverRouted /\ ChanRouted /\ RespRouted)'
  BY <1>2, KeepRouted DEF RouteHyp
<1>4. PICK q \in srvPending, s \in ServerShapes :
        /\ srvPending' = srvPending \ {q}
        /\ inbox' = Append(inbox, [id |-> q.id, origin |-> q.origin, shape |-> s])
  BY DEF ServerReply
<1>5. PendingRouted' BY <1>2, <1>4 DEF RouteHyp, RouteInv, PendingRouted
<1>6. InboxRouted'
  <2> SUFFICES ASSUME NEW j \in 1..Len(inbox')
               PROVE  (Named(inbox[j].origin)
                       /\ DecodedId(inbox[j]) = AnswerId(inbox[j]))'
    BY DEF InboxRouted
  <2>1. CASE j = Len(inbox) + 1
    <3>1. q.origin \in Reqs /\ pc[q.origin] # "idle" /\ q.id = myId[q.origin]
      BY <1>1 DEF RouteHyp, RouteInv, PendingRouted
    <3>2. s # "bad" BY ConstAssumption
    <3>3. q.origin # NoReq BY <3>1, NoReqAssumption
    <3> QED BY <1>1, <1>2, <1>4, <2>1, <3>1, <3>2, <3>3
            DEF Named, DecodedId, AnswerId
  <2>2. CASE j # Len(inbox) + 1
    <3>1. inbox'[j] = inbox[j] /\ j \in 1..Len(inbox) BY <1>1, <1>4, <2>2
    <3> QED BY <1>2, <3>1 DEF RouteHyp, RouteInv, InboxRouted, Named, AnswerId
  <2> QED BY <2>1, <2>2
<1> QED BY <1>3, <1>5, <1>6 DEF RouteInv

\* A push (id 0, line 372) is routed nowhere: it answers no request.
LEMMA UnsolicitedRouted ==
  ASSUME RouteHyp, ServerUnsolicited
  PROVE  RouteInv'
<1>1. inbox \in Seq(Frame) BY DEF RouteHyp, TypeOK
<1>2. UNCHANGED <<handlers, lpc, ldst, lresp, chan, pc, myId, resp, srvPending>>
  BY DEF ServerUnsolicited
<1>3. (HandlersRouted /\ PendingRouted /\ DeliverRouted /\ ChanRouted
       /\ RespRouted)'
  BY <1>2, KeepRouted DEF RouteHyp
<1>4. PICK s \in UnsolicitedShapes :
        inbox' = Append(inbox, [id |-> 0, origin |-> NoReq, shape |-> s])
  BY DEF ServerUnsolicited
<1>5. InboxRouted'
  <2> SUFFICES ASSUME NEW j \in 1..Len(inbox')
               PROVE  (Named(inbox[j].origin)
                       /\ DecodedId(inbox[j]) = AnswerId(inbox[j]))'
    BY DEF InboxRouted
  <2>1. CASE j = Len(inbox) + 1
    BY <1>1, <1>4, <2>1, NoReqAssumption DEF Named, DecodedId, AnswerId
  <2>2. CASE j # Len(inbox) + 1
    <3>1. inbox'[j] = inbox[j] /\ j \in 1..Len(inbox) BY <1>1, <1>4, <2>2
    <3> QED BY <1>2, <3>1 DEF RouteHyp, RouteInv, InboxRouted, Named, AnswerId
  <2> QED BY <2>1, <2>2
<1> QED BY <1>3, <1>5 DEF RouteInv


\* The steps that touch none of the routing state but the listener's pc,
\* and never start a delivery.
LEMMA OtherRouted ==
  ASSUME RouteHyp,
         UNCHANGED <<handlers, srvPending, inbox, ldst, lresp, chan, resp>>,
         lpc' = "deliver" => lpc = "deliver"
  PROVE  RouteInv'
BY KeepRouted DEF RouteHyp, RouteInv

LEMMA InitRouteInv == Init => RouteInv
<1> SUFFICES ASSUME Init PROVE RouteInv OBVIOUS
<1>1. NoResp.kind \notin FrameKinds BY DEF NoResp, FrameKinds
<1> QED BY <1>1 DEF Init, RouteInv, HandlersRouted, PendingRouted,
                   InboxRouted, DeliverRouted, ChanRouted, RespRouted

LEMMA NextRouteInv ==
  ASSUME TypeOK, RouteInv, [Next]_vars
  PROVE  RouteInv'
<1>1. RouteHyp BY StartedStable DEF RouteHyp
<1>2. CASE \/ ConnectConnected \/ ConnectDial \/ ShutdownStop \/ ShutdownWait
           \/ Teardown \/ HandleErrors \/ ListenCheck \/ TransportError
           \/ UNCHANGED vars
  BY <1>1, <1>2, OtherRouted
     DEF ConnectConnected, ConnectDial, ShutdownStop, ShutdownWait, Teardown,
         HandleErrors, ListenCheck, TransportError, vars
<1>3. CASE ListenSelect BY <1>1, <1>3, SelectRouted
<1>4. CASE ListenDeliver BY <1>1, <1>4, DeliverStepRouted
<1>5. CASE ServerReply BY <1>1, <1>5, ReplyRouted
<1>6. CASE ServerUnsolicited BY <1>1, <1>6, UnsolicitedRouted
<1>7. CASE \E r \in Reqs : RequestLoad(r) \/ RequestInc(r)
  BY <1>1, <1>7, OtherRouted DEF RequestLoad, RequestInc
<1>8. ASSUME NEW r \in Reqs, RequestRegister(r) PROVE RouteInv'
  BY <1>1, <1>8, RegisterRouted
<1>9. ASSUME NEW r \in Reqs, RequestSend(r) PROVE RouteInv'
  BY <1>1, <1>9, SendRouted
<1>10. ASSUME NEW r \in Reqs, RequestWait(r) PROVE RouteInv'
  BY <1>1, <1>10, WaitRouted
<1>11. ASSUME NEW r \in Reqs, RequestDelete(r) PROVE RouteInv'
  BY <1>1, <1>11, DeleteRouted
<1> QED BY <1>2, <1>3, <1>4, <1>5, <1>6, <1>7, <1>8, <1>9, <1>10, <1>11
        DEF Next, ListenStep, RequestStep

\* Routing by id (listen lines 372-377, request lines 398-414), for every
\* number of callers, calls and id width: an answer in a request's channel,
\* or the one a request returned, carries that request's own msg.ID.  A
\* request can only get another request's answer when both loaded the same
\* id, after the counter wrapped.
THEOREM IdsRouted == Spec => []IdRouted
<1>1. Init => TypeOK /\ RouteInv BY InitTypeOK, InitRouteInv
<1>2. TypeOK /\ RouteInv /\ [Next]_vars => (TypeOK /\ RouteInv)'
  BY NextTypeOK, NextRouteInv
<1>3. RouteInv => IdRouted BY DEF RouteInv, ChanRouted, RespRouted, IdRouted
<1> QED BY <1>1, <1>2, <1>3, PTL DEF Spec

=============================================================================
