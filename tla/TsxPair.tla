------------------------------- MODULE TsxPair -------------------------------
(***************************************************************************)
(* A client and a server transaction of two endpoints and the network      *)
(* between them, over an unreliable transport: a message may be lost,      *)
(* delayed, reordered or duplicated.  The handlers are those of            *)
(* SipTransaction; each endpoint runs one thread, so a timer that fires is *)
(* popped and dispatched in one step.                                      *)
(***************************************************************************)
EXTENDS SipTransaction

CONSTANTS Invites,      \* the methods of the run
          Answers       \* the responses the user of the server may give

ASSUME PairAssumption == Invites \subseteq BOOLEAN /\ Answers \subseteq Responses

VARIABLES uac,          \* the client transaction
          uas,          \* the server transaction, in NULL until it is created
          toUas, toUac, \* what was sent, and may arrive any number of times
          given         \* the final responses the server accepted from its user

vars == <<uac, uas, toUas, toUac, given>>

Init == /\ \E i \in Invites :
             /\ uac = NewTsx("UAC", i, FALSE, TRUE, FALSE)
             /\ uas = NewTsx("UAS", i, FALSE, TRUE, TRUE)
        /\ toUas = {} /\ toUac = {} /\ given = {}

Clear(t) == [t EXCEPT !.wire = {}]

(* The endpoint's transaction becomes t; what it sent is on its way.       *)
Client(t) == /\ uac' = t /\ toUas' = toUas \cup t.wire
             /\ UNCHANGED <<uas, toUac>>
Server(t) == /\ uas' = t /\ toUac' = toUac \cup t.wire
             /\ UNCHANGED <<uac, toUas>>

(* A message reaches a transaction that is registered and not TERMINATED   *)
(* (mod_tsx_layer_on_rx_request and _response).                            *)
Reaches(t) == t.reg /\ t.state # TERMINATED

(* A timer entry taken off the heap, its callback and the release of its   *)
(* reference (pj_timer_heap_poll, tsx_timer_callback).                     *)
Expire(t, e) ==
    LET p == [Clear(t) EXCEPT !.heap = @ \ {e}, !.id[e] = TIMER_INACTIVE]
    IN  {[x EXCEPT !.refs = @ - 1] : x \in StateHandler(p, Timer(e))}

(* transport_callback() without an error.                                  *)
Completed(t) == [Drop(Clear(t), {"transport"}) EXCEPT !.out = @ - 1, !.refs = @ - 1]

SendRequest == /\ uac.state = NULL
               /\ \E t \in StateHandler(Clear(uac), Tx(REQ)) : Client(t)
               /\ UNCHANGED given

ReceiveResponse(m) == /\ m \in toUac /\ Reaches(uac)
                      /\ \E t \in StateHandler(Clear(uac), Rx(m)) : Client(t)
                      /\ UNCHANGED given

ReceiveRequest(m) == /\ m \in toUas /\ Reaches(uas)
                     /\ uas.state = NULL => m = REQ
                     /\ \E t \in StateHandler(Clear(uas), Rx(m)) : Server(t)
                     /\ UNCHANGED given

(* pjsip_tsx_send_msg() on the server; a second final response may be      *)
(* tried while the first is being acknowledged.                            *)
Answer(m) == /\ m \in Answers
             /\ uas.told \in {TRYING, PROCEEDING, COMPLETED}
             /\ \E t \in StateHandler(Clear(uas), Tx(m)) :
                  /\ Server(t)
                  /\ given' = IF m >= 200 /\ uas.told # COMPLETED
                              THEN given \cup {m} ELSE given

ClientTimer(e) == /\ e \in uac.heap
                  /\ \E t \in Expire(uac, e) : Client(t)
                  /\ UNCHANGED given

ServerTimer(e) == /\ e \in uas.heap
                  /\ \E t \in Expire(uas, e) : Server(t)
                  /\ UNCHANGED given

(* The transport and the resolver answer.                                  *)
ClientSent == /\ \/ uac.out > 0 /\ Client(Completed(uac))
                 \/ uac.tx /\ \E t \in SentOk(Clear(uac)) : Client(t)
              /\ UNCHANGED given

ServerSent == /\ \/ uas.out > 0 /\ Server(Completed(uas))
                 \/ uas.tx /\ \E t \in SentOk(Clear(uas)) : Server(t)
              /\ UNCHANGED given

Next == \/ SendRequest
        \/ \E m \in Msgs : ReceiveResponse(m) \/ ReceiveRequest(m) \/ Answer(m)
        \/ \E e \in Entries : ClientTimer(e) \/ ServerTimer(e)
        \/ ClientSent \/ ServerSent

Spec == Init /\ [][Next]_vars

(* Both users act, a timeout expires though retransmissions come first,    *)
(* sends are answered, and the request and the final response arrive.      *)
Fairness ==
    /\ WF_vars(SendRequest)
    /\ WF_vars(ClientSent \/ ServerSent)
    /\ WF_vars(uas.told < COMPLETED /\ \E m \in Answers \cap {200, 300} : Answer(m))
    /\ SF_vars(ClientTimer("to")) /\ SF_vars(ServerTimer("to"))
    /\ WF_vars(ReceiveRequest(REQ) /\ uas.state = NULL)
    /\ SF_vars(\E m \in Responses \ {100, 180} : ReceiveResponse(m))

LiveSpec == Spec /\ Fairness

-----------------------------------------------------------------------------
(* A final status the client's user reads is the one final response the    *)
(* server took from its own user: the two never tell different stories.    *)
Agreement == /\ Cardinality(given) <= 1
             /\ uac.code \in {200, 300} => given = {uac.code}

(* The server leaves COMPLETED as confirmed only when the client has the   *)
(* rejection and has acknowledged it.                                      *)
ConfirmedRejected == uas.state = CONFIRMED
                     => uac.state >= COMPLETED /\ given = {300}

(* An answer the server gave that its transport never sends: queued behind *)
(* a send on the transport attached, whose callback forgets it.            *)
Withheld == given # {} /\ given \cap toUac = {}

(* With a network that delivers what is repeated and users that act, both  *)
(* transactions end and are given back; only an INVITE client that was     *)
(* told to wait waits on for an answer that was withheld from it.          *)
BothEnd ==
    /\ uac.state # NULL ~> \/ uac.state = DESTROYED /\ uac.refs = 0
                           \/ uac.invite /\ uac.state = PROCEEDING /\ Withheld
    /\ uas.state # NULL ~> uas.state = DESTROYED /\ uas.refs = 0
=============================================================================
