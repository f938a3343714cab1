------------------------------ MODULE WalletRPC ------------------------------
(***************************************************************************)
(* What Node.request promises its callers (src/store/http.go, lines       *)
(* 392-439), with the Node's internals hidden: each caller issues its     *)
(* requests one after the other, and each request ends exactly once,      *)
(* either with the server's answer to that very request, or with a        *)
(* timeout or send error, or, once Shutdown has begun, with the shutdown  *)
(* return.  WalletNode implements it when responses are correlated       *)
(* correctly; its refinement mapping is RPC in WalletNode.                 *)
(***************************************************************************)
EXTENDS Naturals

CONSTANTS Callers, Calls, NoReq

Reqs == Callers \X (1..Calls)

\* How a request ended, and whose answer it returned (NoReq: none).
AnswerKinds == {"data", "srvErr", "decodeErr"}
FailKinds == {"timeout", "sendErr"}
Outcome == [kind : AnswerKinds \cup FailKinds \cup {"shutdown", "none"},
            answers : Reqs \cup {NoReq}]
NoOutcome == [kind |-> "none", answers |-> NoReq]

VARIABLES
    apc,       \* each request: "idle", "pending" or "done"
    aresult,   \* how each finished request ended
    astopped   \* Shutdown has begun

avars == <<apc, aresult, astopped>>

Init ==
    /\ apc = [r \in Reqs |-> "idle"]
    /\ aresult = [r \in Reqs |-> NoOutcome]
    /\ astopped = FALSE

\* A caller calls request for its k-th call once its (k-1)-th returned.
Issue(r) ==
    /\ apc[r] = "idle"
    /\ r[2] > 1 => apc[<<r[1], r[2] - 1>>] = "done"
    /\ apc' = [apc EXCEPT ![r] = "pending"]
    /\ UNCHANGED <<aresult, astopped>>

\* request returns the server's answer to this request (lines 425-438).
Answer(r) ==
    /\ apc[r] = "pending"
    /\ \E k \in AnswerKinds :
         aresult' = [aresult EXCEPT ![r] = [kind |-> k, answers |-> r]]
    /\ apc' = [apc EXCEPT ![r] = "done"]
    /\ UNCHANGED astopped

\* request fails on its own: Send's error or the timeout (lines 416-427).
Fail(r) ==
    /\ apc[r] = "pending"
    /\ \E k \in FailKinds :
         aresult' = [aresult EXCEPT ![r] = [kind |-> k, answers |-> NoReq]]
    /\ apc' = [apc EXCEPT ![r] = "done"]
    /\ UNCHANGED astopped

\* request returns at once when the Node shuts down (line 424).
Abort(r) ==
    /\ apc[r] = "pending"
    /\ astopped
    /\ aresult' = [aresult EXCEPT ![r] = [kind |-> "shutdown", answers |-> NoReq]]
    /\ apc' = [apc EXCEPT ![r] = "done"]
    /\ UNCHANGED astopped

\* Shutdown begins (line 283).
Stop ==
    /\ ~astopped
    /\ astopped' = TRUE
    /\ UNCHANGED <<apc, aresult>>

Next ==
    \/ Stop
    \/ \E r \in Reqs : Issue(r) \/ Answer(r) \/ Fail(r) \/ Abort(r)

Spec == Init /\ [][Next]_avars
=============================================================================
