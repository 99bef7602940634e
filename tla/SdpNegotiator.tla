---------------------------- MODULE SdpNegotiator ----------------------------
(***************************************************************************)
(* The offer/answer state of one end (pjmedia sdp_neg.c).  A session       *)
(* description is abstracted to the offer it belongs to, by number: an     *)
(* offer to its own, an answer to the one it answers.  Left out: the       *)
(* codecs, and a negotiation that fails.                                   *)
(***************************************************************************)
EXTENDS Naturals

NegStates == {"NULL",           \* no negotiator yet, or one without an SDP
              "LOCAL_OFFER", "REMOTE_OFFER", "WAIT_NEGO", "DONE"}

(* loc, rem: neg_local_sdp and neg_remote_sdp; act: the active pair.       *)
NewNeg == [st |-> "NULL", loc |-> 0, rem |-> 0, act |-> <<0, 0>>]

(* create_w_local_offer, modify_local_offer2, and send_local_offer, which  *)
(* keeps an offer that is there already.                                   *)
LocalOffer(n, o) == IF n.st \in {"NULL", "DONE"}
                    THEN [n EXCEPT !.st = "LOCAL_OFFER", !.loc = o] ELSE n

(* create_w_remote_offer, set_remote_offer.                                *)
RemoteOffer(n, o) == [n EXCEPT !.st = "REMOTE_OFFER", !.rem = o]

LocalAnswer(n) == [n EXCEPT !.st = "WAIT_NEGO", !.loc = n.rem]
RemoteAnswer(n, o) == [n EXCEPT !.st = "WAIT_NEGO", !.rem = o]

(* Plausible fault: the pair is replaced by what is offered, not answered. *)
Negotiate_local(n) == [n EXCEPT !.st = "DONE", !.act = <<n.loc, n.act[2]>>, !.loc = 0, !.rem = 0]

Negotiate(n) == [n EXCEPT !.st = "DONE", !.act = <<n.loc, n.rem>>, !.loc = 0, !.rem = 0]

(* An own offer that is cancelled before anything was negotiated (an ACK   *)
(* without the answer) makes the code follow a null active_local_sdp: the  *)
(* model goes on, with nothing in force.                                   *)
CancelOffer(n) == IF n.st \in {"LOCAL_OFFER", "REMOTE_OFFER"}
                  THEN [n EXCEPT !.st = "DONE", !.loc = 0, !.rem = 0] ELSE n
=============================================================================
