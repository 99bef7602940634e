---------------------------- MODULE InviteSession ----------------------------
(***************************************************************************)
(* The invite sessions of the two ends of a call (sip_inv.c), with the     *)
(* negotiation of each (SdpNegotiator) and the messages between them, in   *)
(* any order.  A handler, and a call of the user with the message it       *)
(* sends, is one step: both hold the dialog's lock.                        *)
(*                                                                         *)
(* The transactions are what TsxPair shows: a request and its final        *)
(* response arrive once, a 200 to an INVITE again until it is              *)
(* acknowledged or given up.  Left out: 100rel, session timers, UPDATE,    *)
(* forking, redirection, challenges, and an INVITE without any response.   *)
(***************************************************************************)
EXTENDS SdpNegotiator, FiniteSets

CONSTANTS MaxInvites,   \* bound: the initial INVITE and the re-INVITEs
          Codes,        \* what the user may end the session with
          Faults        \* what may go wrong in the run

FaultKinds == {"ack",        \* an ACK may come too late, or never
               "noanswer"}   \* the user may leave an offer unanswered

ASSUME InviteAssumption == /\ MaxInvites \in Nat \ {0} /\ Codes \subseteq Nat
                           /\ Faults \subseteq FaultKinds

Ids == 1..MaxInvites
Ends == {"uac", "uas"}
Peer(e) == IF e = "uac" THEN "uas" ELSE "uac"

(* pjsip_inv_state, in its order.                                          *)
NULL == 0
CALLING == 1
INCOMING == 2
EARLY == 3
CONNECTING == 4
CONFIRMED == 5
DISCONNECTED == 6

VARIABLES inv,     \* the session of each end
          net      \* the messages under way

vars == <<inv, net>>

(* tsx: the INVITE transactions of this end, client or server; "over" is   *)
(* TERMINATED, and the COMPLETED of a client.                              *)
TsxStates == {"none", "calling", "proceeding", "accepted", "rejected", "over"}

New(e) == [role |-> e, state |-> NULL,
           itsx |-> 0,                           \* invite_tsx
           tsx |-> [i \in Ids |-> "none"],
           mine |-> {},                          \* the INVITEs of this end
           neg |-> NewNeg,
           done |-> {},                          \* INVITEs with sdp_done
           ack |-> [i |-> 0, sdp |-> 0],         \* last_ack
           cancelling |-> FALSE, pending_cancel |-> FALSE, pending_bye |-> FALSE,
           cause |-> 0,
           bye |-> FALSE,                        \* a BYE waits for its response
           lapsed |-> FALSE,                     \* an ACK did not come in time
           out |-> {}]                           \* sent in this step

Init == /\ inv = [e \in Ends |-> New(e)]
        /\ net = {}

-----------------------------------------------------------------------------
Rejections == {"487", "491", "481", "488"}

Send(v, t, i, sdp) ==
    [v EXCEPT !.out = @ \cup {[to |-> Peer(v.role), t |-> t, i |-> i, sdp |-> sdp]}]

(* inv_set_cause(): the largest code stays.  Only a callee that waits for  *)
(* an ACK reads it, and only a callee keeps it here.                       *)
SetCause(v, c) == IF v.role = "uas" /\ c > v.cause THEN [v EXCEPT !.cause = c] ELSE v

(* Plausible fault: the callee does not wait for the ACK.                  *)
SendBye_early(v) == Send([v EXCEPT !.bye = TRUE], "BYE", 0, 0)

(* PJSIP_SC_REQUEST_TIMEOUT and PJSIP_SC_TSX_TRANSPORT_ERROR: what a       *)
(* callee's INVITE transaction ends with when its ACK does not come.       *)
Passing == {408, 503}

(* pjsip_inv_send_msg() of a BYE: the callee's waits for the ACK, unless   *)
(* the cause of the session is one of those two.                           *)
SendBye(v) ==
    IF v.role = "uas" /\ v.state = CONNECTING /\ v.cause \notin Passing
    THEN [v EXCEPT !.pending_bye = TRUE]
    ELSE Send([v EXCEPT !.bye = TRUE], "BYE", 0, 0)

(* pjsip_inv_end_session() from CONNECTING on.                             *)
EndSession(v, c) == SendBye([SetCause(v, c) EXCEPT !.cancelling = TRUE])

(* The cause is read no more.                                              *)
Disconnect(v) == [v EXCEPT !.state = DISCONNECTED, !.pending_bye = FALSE, !.cause = 0]

(* inv_set_state(CONFIRMED): without a negotiation the session is ended.   *)
Confirm(v) == IF v.neg.st # "DONE" /\ v.itsx # 0 /\ v.itsx \notin v.done
              THEN EndSession(v, 406)
              ELSE [v EXCEPT !.state = CONFIRMED]

(* mod_inv_on_tsx_state() drops the transaction that is over.              *)
Over(v, i) == [v EXCEPT !.tsx[i] = "over", !.itsx = IF @ = i THEN 0 ELSE @]

(* A server transaction sends its final response.                          *)
Reject(v, i, t) == Send([v EXCEPT !.tsx[i] = "rejected"], t, i, 0)
Accept(v, i, sdp) == Send([v EXCEPT !.tsx[i] = "accepted"], "200", i, sdp)

(* The user is asked for an answer (on_rx_offer).                          *)
Answered(n) == {LocalAnswer(n)} \cup (IF "noanswer" \in Faults THEN {n} ELSE {})

(* inv_check_sdp_in_incoming_msg(): what the body is depends on the state  *)
(* of the negotiator.                                                      *)
CheckSdp(v, m) ==
    IF m.sdp = 0 \/ m.i \in v.done THEN {v}
    ELSE CASE v.neg.st \in {"NULL", "DONE"} ->
                {[v EXCEPT !.neg = n] : n \in Answered(RemoteOffer(v.neg, m.sdp))}
           [] v.neg.st = "LOCAL_OFFER" ->
                {[v EXCEPT !.neg = Negotiate(RemoteAnswer(v.neg, m.sdp)),
                           !.done = @ \cup {m.i}]}
           [] OTHER -> {v}

(* pjsip_inv_create_ack(): an ACK takes the answer that is pending.        *)
CreateAck(v, i) ==
    IF v.ack.i = i THEN v
    ELSE IF v.neg.st = "WAIT_NEGO"
    THEN [v EXCEPT !.neg = Negotiate(v.neg), !.done = @ \cup ({v.itsx} \ {0}),
                   !.ack = [i |-> i, sdp |-> v.neg.loc]]
    ELSE [v EXCEPT !.ack = [i |-> i, sdp |-> 0]]

(* inv_send_ack().                                                         *)
SendAck(v, i) ==
    LET a == CreateAck(v, i)
        s == Send(a, "ACK", i, a.ack.sdp)
    IN  IF s.state < CONFIRMED THEN Confirm(s) ELSE s

-----------------------------------------------------------------------------
(* The client's handlers.  Each gives the sessions that may result.        *)

Cancel(v) == Send([v EXCEPT !.cancelling = TRUE], "CANCEL", v.itsx, 0)

OnProvisional(v, m) ==
    LET p == [v EXCEPT !.tsx[m.i] = "proceeding"]
        c == IF v.state = CALLING /\ v.pending_cancel
             THEN Cancel([p EXCEPT !.pending_cancel = FALSE]) ELSE p
    IN  IF v.state \in {CALLING, EARLY} /\ m.t = "18x"
        THEN CheckSdp([c EXCEPT !.state = EARLY], m)
        ELSE {c}

(* A 200 ends the transaction; one that is sent again is acknowledged      *)
(* again, unless another INVITE is out.                                    *)
OnAccepted(v, m) ==
    IF v.tsx[m.i] = "over"
    THEN {IF v.itsx = 0 \/ v.ack.i = m.i THEN SendAck(v, m.i) ELSE v}
    ELSE CASE v.state \in {CALLING, EARLY} ->
                {Over(SendAck(u, m.i), m.i)
                   : u \in CheckSdp([v EXCEPT !.state = CONNECTING], m)}
           [] v.state = CONFIRMED ->
                {Over(SendAck(IF u.neg.st = "LOCAL_OFFER"
                              THEN [u EXCEPT !.neg = CancelOffer(u.neg)] ELSE u, m.i), m.i)
                   : u \in CheckSdp(v, m)}
           [] OTHER -> {Over(v, m.i)}

(* Plausible fault: a rejected re-INVITE leaves its offer.                 *)
OnRejected_offer(v, m) ==
    LET o == Send(Over(v, m.i), "NACK", m.i, 0)
    IN  CASE v.state < CONFIRMED -> {Disconnect(o)}
          [] v.state = CONFIRMED /\ m.t = "481" -> {SendBye(Disconnect(o))}
          [] OTHER -> {o}

(* The client transaction acknowledges a rejection.  A 481 stands for a    *)
(* 408 as well: both end the session.                                      *)
OnRejected(v, m) ==
    LET o == Send(Over(v, m.i), "NACK", m.i, 0)
    IN  CASE v.state < CONFIRMED -> {Disconnect(o)}
          [] v.state = CONFIRMED /\ m.t = "481" -> {SendBye(Disconnect(o))}
          [] v.state = CONFIRMED /\ m.t # "481" ->
               {IF o.neg.st = "LOCAL_OFFER" THEN [o EXCEPT !.neg = CancelOffer(o.neg)] ELSE o}
          [] OTHER -> {o}

-----------------------------------------------------------------------------
(* The server's handlers.                                                  *)

(* The initial INVITE creates the session, and pjsua sends a 100.          *)
OnInvite(v, m) ==
    {Send([v EXCEPT !.state = INCOMING, !.itsx = m.i, !.tsx[m.i] = "proceeding",
                    !.neg = IF m.sdp = 0 THEN @ ELSE RemoteOffer(@, m.sdp)],
          "100", m.i, 0)}

(* Plausible fault: a pending INVITE of this end is not looked at.         *)
OnReinvite_glare(v, m) ==
    IF v.neg.st = "REMOTE_OFFER" THEN {Reject(v, m.i, "491")}
    ELSE {LET w == [v EXCEPT !.itsx = m.i]
          IN  IF m.sdp = 0
              THEN LET o == LocalOffer(w.neg, m.i) IN Accept([w EXCEPT !.neg = o], m.i, o.loc)
              ELSE IF n.st = "REMOTE_OFFER"
              THEN Reject([w EXCEPT !.neg = CancelOffer(n)], m.i, "488")
              ELSE Accept([w EXCEPT !.neg = Negotiate(n), !.done = @ \cup {m.i}], m.i, n.loc)
            : n \in Answered(RemoteOffer(v.neg, m.sdp))}

(* A re-INVITE, which is answered at once.                                 *)
OnReinvite(v, m) ==
    IF v.itsx # 0 THEN {Reject(v, m.i, "491")}         \* or 500: both reject
    ELSE LET w == [v EXCEPT !.itsx = m.i]
         IN  IF v.neg.st # "DONE" THEN {Reject(w, m.i, "491")}
             ELSE IF m.sdp = 0
             THEN LET n == LocalOffer(w.neg, m.i)
                  IN  {Accept([w EXCEPT !.neg = n], m.i, n.loc)}
             ELSE {IF n.st = "REMOTE_OFFER"
                   THEN Reject([w EXCEPT !.neg = CancelOffer(n)], m.i, "488")
                   ELSE Accept([w EXCEPT !.neg = Negotiate(n), !.done = @ \cup {m.i}],
                               m.i, n.loc)
                     : n \in Answered(RemoteOffer(v.neg, m.sdp))}

(* mod_inv_on_rx_request(): the ACK of the INVITE that was accepted last.  *)
OnAck(v, m) ==
    IF v.itsx # m.i \/ v.tsx[m.i] # "accepted" THEN {v}
    ELSE {LET w == Over(IF u.neg.st = "LOCAL_OFFER" /\ u.state = CONFIRMED
                        THEN [u EXCEPT !.neg = CancelOffer(u.neg)] ELSE u, m.i)
          IN  IF w.state # CONNECTING THEN w
              ELSE LET c == Confirm(w)
                   IN  IF c.pending_bye THEN SendBye([c EXCEPT !.pending_bye = FALSE]) ELSE c
            : u \in IF v.state < DISCONNECTED THEN CheckSdp(v, m) ELSE {v}}

(* The ACK of a rejection ends the server transaction.                     *)
OnNack(v, m) == {IF v.tsx[m.i] = "rejected" THEN Over(v, m.i) ELSE v}

(* Plausible fault: the session is not ended with its transaction.         *)
OnCancel_stays(v, m) ==
    {IF v.tsx[m.i] = "proceeding" /\ v.state \in {INCOMING, EARLY}
     THEN Reject(v, m.i, "487") ELSE v}

(* inv_respond_incoming_cancel(): only an INVITE without a final response  *)
(* is ended, and with it the session.                                      *)
OnCancel(v, m) ==
    {IF v.tsx[m.i] = "proceeding" /\ v.state \in {INCOMING, EARLY}
     THEN Disconnect(Reject(v, m.i, "487")) ELSE v}

-----------------------------------------------------------------------------
(* Either end.                                                             *)

(* A BYE is not answered before the client has seen the callee's tag.      *)
OnBye(v, m) ==
    {IF v.state \in {NULL, CALLING, INCOMING} THEN v
     ELSE LET o == Send(v, "OK", 0, 0)
          IN  IF v.state = DISCONNECTED THEN o ELSE Disconnect(o)}

(* inv_handle_bye_response().                                              *)
OnByeResponse(v, m) ==
    {IF v.state \in {CONNECTING, CONFIRMED} THEN Disconnect([v EXCEPT !.bye = FALSE])
     ELSE [v EXCEPT !.bye = FALSE]}

Handle(v, m) ==
    CASE m.t = "INVITE" -> CASE v.state = NULL -> OnInvite(v, m)
                             [] v.state = CONFIRMED -> OnReinvite(v, m)
                             [] v.state = CONNECTING -> {Reject(v, m.i, "491")}
                             [] OTHER -> {Reject(v, m.i, "481")}
      [] m.t \in {"100", "18x"} -> OnProvisional(v, m)
      [] m.t = "200" -> OnAccepted(v, m)
      [] m.t \in Rejections -> OnRejected(v, m)
      [] m.t = "ACK" -> OnAck(v, m)
      [] m.t = "NACK" -> OnNack(v, m)
      [] m.t = "CANCEL" -> OnCancel(v, m)
      [] m.t = "BYE" -> OnBye(v, m)
      [] OTHER -> OnByeResponse(v, m)

(* A session is replaced, and what it has sent is on its way.              *)
Becomes(e, v, rest) == /\ inv' = [inv EXCEPT ![e] = [v EXCEPT !.out = {}]]
                       /\ net' = rest \cup v.out

(* A message is used up, but for a 200 that the server would repeat.  What *)
(* comes too late is left out: a provisional response after the final one, *)
(* and a 200 after its ACK.                                                *)
Late(m) == IF m.t \in {"200"} \cup Rejections THEN {"100", "18x"}
           ELSE IF m.t = "ACK" THEN {"200"} ELSE {}

Rest(e, m) == {n \in net : /\ n.i = m.i => n.t \notin Late(m)
                           /\ n = m => m.t = "200" /\ inv[Peer(e)].tsx[m.i] = "accepted"}

Receive(e, m) ==
    /\ m \in net /\ m.to = e
    /\ \E v \in Handle(inv[e], m) : Becomes(e, v, Rest(e, m))

-----------------------------------------------------------------------------
(* The transactions time out.                                              *)

(* No ACK in 64*T1, or the 200 can not be sent again: a callee that is     *)
(* CONNECTING ends the session with the status of the transaction.         *)
AckTimeout(e) ==
    /\ "ack" \in Faults
    /\ \E i \in Ids, s \in Passing :
         /\ inv[e].tsx[i] = "accepted"
         /\ LET l == [inv[e] EXCEPT !.lapsed = TRUE]
                t == IF l.state = CONNECTING /\ l.itsx = i
                     THEN SendBye(SetCause(l, s)) ELSE l
            IN  Becomes(e, Over(t, i), net)

(* A BYE times out if the other end has not answered it.                   *)
ByeTimeout(e) ==
    /\ inv[e].bye
    /\ ~ \E m \in net : <<m.t, m.to>> \in {<<"BYE", Peer(e)>>, <<"OK", e>>}
    /\ \E v \in OnByeResponse(inv[e], [t |-> "OK"]) : Becomes(e, v, net)

-----------------------------------------------------------------------------
(* The users.                                                              *)

Used == inv["uac"].mine \cup inv["uas"].mine

(* pjsip_inv_create_uac() and pjsip_inv_invite(), or pjsip_inv_reinvite(), *)
(* with or without an offer, and pjsip_inv_send_msg().  An offer that is   *)
(* there already is sent, and an answer that is due with it.               *)
Invite(e, offer) ==
    LET v == inv[e]
        i == Cardinality(Used) + 1
        n == IF ~offer THEN v.neg
             ELSE IF v.neg.st = "REMOTE_OFFER" THEN LocalAnswer(v.neg)
             ELSE LocalOffer(v.neg, i)
    IN  /\ i \in Ids
        /\ \/ v.state = NULL /\ e = "uac"
           \/ v.state = CONFIRMED /\ v.itsx = 0
        /\ Becomes(e, Send([v EXCEPT !.state = IF @ = NULL THEN CALLING ELSE @,
                                     !.neg = n, !.itsx = i, !.tsx[i] = "calling",
                                     !.mine = @ \cup {i}],
                           "INVITE", i, IF n.st \in {"LOCAL_OFFER", "WAIT_NEGO"}
                                        THEN n.loc ELSE 0), net)

(* process_answer() of the initial INVITE, with an answer or an offer.     *)
Describe(v) == IF v.neg.st = "REMOTE_OFFER"
               THEN [v EXCEPT !.neg = Negotiate(LocalAnswer(v.neg)), !.done = @ \cup {v.itsx}]
               ELSE [v EXCEPT !.neg = LocalOffer(v.neg, v.itsx)]

(* The description that was negotiated is kept for the response to come.   *)
Description(v) == IF v.neg.st = "LOCAL_OFFER" THEN v.neg.loc ELSE v.neg.act[1]

Incoming(v) == v.state \in {INCOMING, EARLY} /\ v.role = "uas" /\ v.itsx # 0

(* pjsip_inv_answer() with 180, or with 183 and a description; bound: not  *)
(* again with nothing new.                                                 *)
Ring(media) ==
    LET v == inv["uas"]
        d == IF media /\ v.neg.st # "DONE" THEN Describe(v) ELSE v
    IN  /\ Incoming(v)
        /\ v.state = EARLY => d # v
        /\ Becomes("uas", Send([d EXCEPT !.state = EARLY], "18x", v.itsx,
                               IF media THEN Description(d) ELSE 0), net)

(* pjsip_inv_answer() with 200.                                            *)
Answer ==
    LET v == inv["uas"]
        d == IF v.neg.st # "DONE" THEN Describe(v) ELSE v
    IN  /\ Incoming(v)
        /\ Becomes("uas", Accept([d EXCEPT !.state = CONNECTING], v.itsx, Description(d)), net)

(* Plausible fault: a CANCEL that has to wait is forgotten.                *)
End_forget(e, c) ==
    LET v == inv[e]
        s == [SetCause(v, c) EXCEPT !.cancelling = TRUE]
    IN  /\ v.state \notin {NULL, DISCONNECTED} /\ ~v.bye
        /\ v.cancelling \/ v.itsx = 0 => v.state \in {CONNECTING, CONFIRMED}
        /\ Becomes(e, CASE v.state \in {CONNECTING, CONFIRMED} -> EndSession(v, c)
                        [] e = "uas" /\ v.state < CONNECTING ->
                             Disconnect(Reject(s, v.itsx, "487"))
                        [] OTHER -> IF v.tsx[v.itsx] = "calling" THEN s ELSE Cancel(s), net)

(* pjsip_inv_end_session() and pjsip_inv_send_msg(); a user that has ended *)
(* the call does so again if it sees the call answered.                    *)
End(e, c) ==
    LET v == inv[e]
        s == [SetCause(v, c) EXCEPT !.cancelling = TRUE]
    IN  /\ v.state \notin {NULL, DISCONNECTED} /\ ~v.bye
        /\ v.cancelling \/ v.itsx = 0 => v.state \in {CONNECTING, CONFIRMED}
        /\ Becomes(e, CASE v.state \in {CONNECTING, CONFIRMED} -> EndSession(v, c)
                        [] e = "uas" /\ v.state < CONNECTING ->
                             Disconnect(Reject(s, v.itsx, "487"))
                        [] OTHER -> IF v.tsx[v.itsx] = "calling"
                                    THEN [s EXCEPT !.pending_cancel = TRUE] ELSE Cancel(s),
                   net)

-----------------------------------------------------------------------------
User == \/ \E e \in Ends, offer \in BOOLEAN : Invite(e, offer)
        \/ \E media \in BOOLEAN : Ring(media)
        \/ Answer
        \/ \E e \in Ends, c \in Codes : End(e, c)

Next == \/ User
        \/ \E e \in Ends : \/ \E m \in net : Receive(e, m)
                           \/ AckTimeout(e) \/ ByeTimeout(e)

Spec == Init /\ [][Next]_vars

(* What was sent arrives; that a 200 may be sent again hinders nothing     *)
(* else.  No user has to act, and no ACK has to time out.                  *)
Fairness == /\ WF_vars(\E e \in Ends, m \in net : m.t = "200" /\ Receive(e, m))
            /\ WF_vars(\E e \in Ends, m \in net : m.t # "200" /\ Receive(e, m))
            /\ WF_vars(\E e \in Ends : ByeTimeout(e))

LiveSpec == Spec /\ Fairness

-----------------------------------------------------------------------------
Quiet(e) == inv[e].state = CONFIRMED /\ inv[e].itsx = 0 /\ inv[e].neg.st = "DONE"

(* When both ends have negotiated and no INVITE is pending at either, each *)
(* uses the answer that the other gave to the same offer, unless an ACK    *)
(* did not come in time.                                                   *)
Agreement == (\A e \in Ends : Quiet(e) /\ ~inv[e].lapsed)
             => /\ inv["uac"].neg.act = inv["uas"].neg.act
                /\ inv["uac"].neg.act[1] = inv["uac"].neg.act[2]

(* Two INVITEs that cross are not both accepted: an end whose INVITE is    *)
(* not answered yet has accepted none that waits for its ACK.              *)
NoGlare == \A e \in Ends :
    (\E i \in Ids : inv[e].tsx[i] = "accepted")
    => \A i \in inv[e].mine : inv[e].tsx[i] = "over"

(* "so that we have consistent CONFIRMED state between caller and callee": *)
(* no BYE meets a caller that has not seen the answer, unless its ACK did  *)
(* not come in time, or a user ends the call with 408 or 503: the callee's *)
(* BYE does not wait with such a cause, and may overtake the answer.       *)
CallerKnows == /\ \E m \in net : m.t = "BYE" /\ m.to = "uac"
               /\ ~inv["uas"].lapsed /\ Codes \cap Passing = {}
               => inv["uac"].state >= CONNECTING

(* An offer in the 200 to an INVITE of this end that its user leaves       *)
(* unanswered: only LOCAL_OFFER is cancelled then.                         *)
LeftOpen(v) == /\ "noanswer" \in Faults /\ v.neg.rem \in v.mine
               /\ v.neg.st \in {"REMOTE_OFFER", "WAIT_NEGO"}

(* A negotiation to change an established session, whoever has offered and *)
(* however far it is, has an INVITE that will close it, whatever the       *)
(* outcome.  Two cases in which nothing closes it are exempt: an offer     *)
(* that is left open, and an ACK that did not come in time.                *)
NoStuckOffer == \A e \in Ends :
    /\ inv[e].state = CONFIRMED /\ ~inv[e].lapsed
    /\ inv[e].neg.act # <<0, 0>> /\ inv[e].neg.st # "DONE" /\ ~LeftOpen(inv[e])
    => inv[e].itsx # 0

(* A caller that has asked for a CANCEL and was answered instead; and a    *)
(* callee whose BYE waits for an ACK that does not come any more.          *)
Crossed(e) == e = "uac" /\ inv[e].state = CONFIRMED /\ ~inv[e].bye
Waiting(e) == e = "uas" /\ inv[e].pending_bye /\ inv[e].lapsed

(* A session that its user ends is over in the end, but for those two.     *)
Ends_(e) == inv[e].cancelling ~> (inv[e].state = DISCONNECTED \/ Crossed(e) \/ Waiting(e))
EndedEnds == Ends_("uac") /\ Ends_("uas")

(* When one session is over, so is the other, unless an ACK came too late. *)
Follows(e) == inv[e].state = DISCONNECTED
              ~> (inv[Peer(e)].state = DISCONNECTED \/ inv["uas"].lapsed)
BothEnd == Follows("uac") /\ Follows("uas")

=============================================================================
