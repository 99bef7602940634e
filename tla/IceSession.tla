------------------------------ MODULE IceSession ------------------------------
(***************************************************************************)
(* Two ICE sessions (ice_session.c) that check the paths between them: the *)
(* check list and its periodic timer, triggered checks, early checks,      *)
(* regular and aggressive nomination, role conflicts, and how each session *)
(* comes to its end.  A callback or call that holds the session's group    *)
(* lock is one step.  on_timer() is three: a thread takes the entry from   *)
(* the heap, reads what it is to do, and only then takes the lock.         *)
(*                                                                         *)
(* A pair is a component and the rank of its candidates, and means the     *)
(* same path to both ends.  The STUN session below promises that a request *)
(* is handled once, and is answered or times out.  Left out: the           *)
(* gathering and pruning of candidates, credentials, keep-alives once they *)
(* run, data, and destruction.                                             *)
(***************************************************************************)
EXTENDS Naturals, Sequences

CONSTANTS Lists,      \* the sets of candidate pairs to try: [comp, rank], rank 1 is best
          Modes,      \* opt.aggressive: the modes of nomination to try
          Workers,    \* the threads of an end that poll the timer heap
          Faults      \* what may go wrong, one of them in a behaviour

FaultKinds == {"conflict",   \* both ends start in the same role
               "learned",    \* the caller knows of a pair from a check only
               "lost",       \* any request or its response may be lost for good
               "unsent",     \* every send fails at once on some pair
               "race"}       \* other threads run where the lock is let go, and waits are short

ASSUME IceAssumption == /\ \A ps \in Lists : /\ ps \subseteq [comp : Nat \ {0}, rank : Nat \ {0}]
                                              /\ \E p \in ps : p.comp = 1
                        /\ Modes \subseteq BOOLEAN
                        /\ Workers # {}
                        /\ Faults \subseteq FaultKinds

Ends == {"caller", "callee"}
Peer(e) == IF e = "caller" THEN "callee" ELSE "caller"
Roles == {"CONTROLLING", "CONTROLLED"}
Other(r) == IF r = "CONTROLLING" THEN "CONTROLLED" ELSE "CONTROLLING"
None == [comp |-> 0, rank |-> 0]

VARIABLES ice,     \* the two sessions
          net,     \* the STUN messages under way
          env      \* what the network and the tie-breakers are, once and for all

vars == <<ice, net, env>>

CompsOf(ps) == {p.comp : p \in ps}
Comps == CompsOf(env.pairs)
TimerIds == {"NONE", "CALLBACK", "WAIT_NOM", "START_NOM", "KEEP_ALIVE"}

(* f with x at p.                                                          *)
With(f, p, x) == [q \in DOMAIN f \cup {p} |-> IF q = p THEN x ELSE f[q]]

(* CALC_CHECK_PRIO(): the rank decides, then the component.                *)
Above(p, q) == p.rank < q.rank \/ (p.rank = q.rank /\ p.comp < q.comp)

(* The callee has a candidate for each rank, the caller one for all.       *)
Foundation(e, p) == IF e = "callee" THEN p.rank ELSE 0

New(e, r, a) ==
    [end |-> e, role |-> r, aggressive |-> a,
     st |-> "NEW",                           \* NEW, CREATED, STARTED, STOPPED
     comps |-> Comps,                        \* the components, comp_cnt of them
     nominating |-> FALSE,                   \* is_nominating
     chk |-> << >>,                          \* clist: the checks
     learned |-> {},                         \* the pairs a request has added to it
     valid |-> << >>,                        \* valid_list: nominated or not
     vc |-> [c \in Comps |-> None],          \* valid_check
     nc |-> [c \in Comps |-> None],          \* nominated_check
     timer |-> "NONE", heap |-> FALSE,       \* timer.id; the timer is scheduled
     hand |-> [w \in Workers |-> "IDLE"],    \* IDLE, POPPED, or the id on_timer() has read
     late |-> FALSE,                         \* scheduled while a thread had it in hand
     periodic |-> FALSE,                     \* clist.timer is scheduled
     early |-> << >>,                        \* early_check
     done |-> "no",                          \* is_complete and ice_status
     told |-> 0,                             \* calls of on_ice_complete(), 2 for more
     out |-> {}]                             \* sent in this step

Init ==
    /\ \E ps \in Lists :
         env \in [pairs : {ps}, open : SUBSET ps, fault : Faults \cup {"none"},
                 pair : ps, greater : Ends]
    /\ env.fault \in {"learned", "unsent"} \/ env.pair = CHOOSE p \in env.pairs : TRUE
    /\ env.fault = "conflict" \/ env.greater = "caller"
    /\ \E r \in Roles, a \in Modes :
         /\ env.fault = "conflict" \/ r = "CONTROLLING"
         /\ ice = [e \in Ends |->
                     New(e, IF e = "caller" \/ env.fault = "conflict" THEN r ELSE Other(r), a)]
    /\ net = {}

-----------------------------------------------------------------------------
(* The checks of a session.                                                *)

Send(v, k, p, uc, ctl) ==
    IF p \in env.open
    THEN [v EXCEPT !.out = @ \cup {[k |-> k, to |-> Peer(v.end), p |-> p, uc |-> uc, ctl |-> ctl]}]
    ELSE v

Free(v) == {w \in Workers : v.hand[w] = "IDLE"}
InHand(v) == Free(v) # Workers

Schedule(v, id) == IF v.heap THEN v
                   ELSE [v EXCEPT !.timer = id, !.heap = TRUE, !.late = @ \/ InHand(v)]
CancelTimer(v) == [v EXCEPT !.timer = "NONE", !.heap = FALSE]

Unsent(p) == env.fault = "unsent" /\ p = env.pair

(* perform_check(): a failed send leaves the check as it was.              *)
Perform(v, p, nominate) ==
    LET ctl == v.role = "CONTROLLING"
        n == [v EXCEPT !.chk[p].nominated = @ \/ (ctl /\ nominate)]
    IN  IF Unsent(p) THEN n
        ELSE Send([n EXCEPT !.chk[p].state = "PROGRESS"], "REQUEST", p, ctl /\ nominate, ctl)

(* update_comp_check(): p is in the valid list.                            *)
UpdateComp(v, p) ==
    LET better(q) == IF q = None \/ Above(p, q) THEN p ELSE q
    IN  [v EXCEPT !.vc[p.comp] = better(@),
                  !.nc[p.comp] = IF v.valid[p] THEN better(@) ELSE @]

(* Plausible bug: a session that is complete completes again.              *)
IceComplete_again(v, status) ==
    Schedule(CancelTimer([v EXCEPT !.done = status]), "CALLBACK")

(* on_ice_complete(): the user is told by the timer.                       *)
IceComplete(v, status) ==
    IF v.done # "no" THEN v
    ELSE Schedule(CancelTimer([v EXCEPT !.done = status]), "CALLBACK")

(* start_nominated_check(): the best valid pairs are checked once more.    *)
StartNominated(v) ==
    LET w == IF v.timer = "START_NOM" THEN CancelTimer(v) ELSE v
    IN  [w EXCEPT !.chk = [p \in DOMAIN @ |->
                             IF p = v.vc[p.comp] THEN [@[p] EXCEPT !.state = "WAITING"] ELSE @[p]],
                  !.periodic = TRUE, !.nominating = TRUE]

AllValid(v) == \A c \in v.comps : v.vc[c] # None
AllNominated(v) == \A c \in v.comps : v.nc[c] # None
Unfinished == {"FROZEN", "WAITING", "PROGRESS"}

(* The states that the success of p changes: what is frozen with its       *)
(* foundation waits, and once p is nominated its component is decided.     *)
Updated(v, p) ==
    [q \in DOMAIN v.chk |->
       LET c == v.chk[q]
           w == IF c.state = "FROZEN" /\ Foundation(v.end, q) = Foundation(v.end, p)
                THEN "WAITING" ELSE c.state
       IN  [c EXCEPT !.state = IF v.chk[p].nominated /\ q.comp = p.comp /\ w \in Unfinished
                               THEN "FAILED" ELSE w]]

(* on_check_complete().                                                    *)
CheckComplete(v, p) ==
    LET ok == v.chk[p].state = "SUCCEEDED"
        u == IF ok THEN [v EXCEPT !.chk = Updated(v, p)] ELSE v
        ctl == u.role = "CONTROLLING"
    IN  CASE AllNominated(u) -> IceComplete(u, "ok")
          [] ~AllNominated(u) /\ \A q \in DOMAIN u.chk : u.chk[q].state \notin Unfinished ->
               IF ~AllValid(u) \/ (ctl /\ u.nominating) THEN IceComplete(u, "failed")
               ELSE IF ctl THEN StartNominated(u)
               ELSE IF u.timer = "NONE" THEN Schedule(u, "WAIT_NOM") ELSE u
          [] OTHER -> IF ok /\ ctl /\ ~u.nominating /\ u.timer = "NONE" /\ AllValid(u)
                      THEN Schedule(CancelTimer(u), "START_NOM") ELSE u

Fail(v, p) == CheckComplete([v EXCEPT !.chk[p].state = "FAILED"], p)

(* Plausible bug: while nominating, every valid pair counts as nominated.  *)
Succeed_nominating(v, p) ==
    LET a == [v EXCEPT !.valid = With(@, p, v.chk[p].nominated \/ v.nominating)]
        b == UpdateComp(a, p)
    IN  CheckComplete([b EXCEPT !.chk[p].state = "SUCCEEDED"], p)

(* A success response: the pair is valid, and nominated if its check is.   *)
Succeed(v, p) ==
    LET a == [v EXCEPT !.valid = With(@, p, v.chk[p].nominated)]
        b == UpdateComp(a, p)
    IN  CheckComplete([b EXCEPT !.chk[p].state = "SUCCEEDED"], p)

(* Plausible bug: each 487 toggles the role.                               *)
Conflict_toggles(v, m) ==
    LET w == [v EXCEPT !.role = Other(@), !.chk[m.p].state = "WAITING"]
    IN  Perform(w, m.p, w.chk[m.p].nominated \/ w.nominating)

(* 487: the role is the other one now, and the check is sent again.        *)
Conflict(v, m) ==
    LET w == [v EXCEPT !.role = IF m.ctl THEN "CONTROLLED" ELSE "CONTROLLING",
                       !.chk[m.p].state = "WAITING"]
    IN  Perform(w, m.p, w.chk[m.p].nominated \/ w.nominating)

(* Plausible bug: the nomination of a check that has succeeded is lost.    *)
Incoming_forgets(v, p, uc) ==
    IF p.comp \notin CompsOf(DOMAIN v.chk) THEN v
    ELSE IF p \notin DOMAIN v.chk
    THEN Perform([v EXCEPT !.learned = @ \cup {p},
                           !.chk = With(@, p, [state |-> "WAITING", nominated |-> uc])],
                 p, uc \/ v.nominating)
    ELSE LET w == [v EXCEPT !.chk[p].nominated = @ \/ uc]
         IN  CASE w.chk[p].state \in {"FROZEN", "WAITING"} ->
                    Perform(w, p, w.chk[p].nominated \/ w.nominating)
               [] w.chk[p].state = "SUCCEEDED" -> CheckComplete(w, p)
               [] OTHER -> w

(* handle_incoming_check(): a triggered check, unless no check of the list *)
(* is for its component.                                                   *)
Incoming(v, p, uc) ==
    IF p.comp \notin CompsOf(DOMAIN v.chk) THEN v
    ELSE IF p \notin DOMAIN v.chk
    THEN Perform([v EXCEPT !.learned = @ \cup {p},
                           !.chk = With(@, p, [state |-> "WAITING", nominated |-> uc])],
                 p, uc \/ v.nominating)
    ELSE LET w == [v EXCEPT !.chk[p].nominated = @ \/ uc]
             n == IF uc /\ p \in DOMAIN w.valid
                  THEN UpdateComp([w EXCEPT !.valid[p] = TRUE], p) ELSE w
         IN  CASE w.chk[p].state \in {"FROZEN", "WAITING"} ->
                    Perform(w, p, w.chk[p].nominated \/ w.nominating)
               [] w.chk[p].state = "SUCCEEDED" -> CheckComplete(n, p)
               [] OTHER -> w

(* on_stun_rx_request(): conflicts of role first, by the tie-breakers.     *)
Request(v, m) ==
    LET ctl == v.role = "CONTROLLING"
        wins == env.greater = v.end
        w == IF ctl = m.ctl /\ ctl # wins THEN [v EXCEPT !.role = Other(@)] ELSE v
        r == Send(w, "OK", m.p, m.uc, m.ctl)
    IN  IF ctl = m.ctl /\ ctl = wins THEN Send(v, "487", m.p, m.uc, m.ctl)
        ELSE IF v.st = "NEW" THEN [r EXCEPT !.early = Append(@, [p |-> m.p, uc |-> m.uc])]
        ELSE Incoming(r, m.p, m.uc)

(* on_stun_request_complete(): a response to a check that was cancelled,   *)
(* or has one, is not waited for.                                          *)
Response(v, m) == IF v.chk[m.p].state \notin {"PROGRESS", "WAITING"} THEN v
                  ELSE IF m.k = "OK" THEN Succeed(v, m.p) ELSE Conflict(v, m)

-----------------------------------------------------------------------------
Becomes(e, v, rest) == /\ ice' = [ice EXCEPT ![e] = [v EXCEPT !.out = {}]]
                       /\ net' = rest \cup v.out
                       /\ UNCHANGED env

(* pj_ice_sess_create_check_list(): the caller has the answer when the     *)
(* callee has started.  The components above the highest one of a remote   *)
(* candidate are given up.                                                 *)
CreateCheckList(e) ==
    LET v == ice[e]
        known == IF e = "caller" /\ env.fault = "learned" THEN env.pairs \ {env.pair} ELSE env.pairs
    IN  /\ v.st = "NEW" /\ known # {}
        /\ e = "caller" => ice[Peer(e)].st = "STARTED"
        /\ Becomes(e, [v EXCEPT !.st = "CREATED",
                                !.comps = {c \in Comps : \E p \in known : c <= p.comp},
                                !.chk = [p \in known |-> [state |-> "FROZEN", nominated |-> FALSE]]],
                   net)

(* The early checks, in the order they came.                               *)
Handled(v, early) ==
    LET after[i \in 0..Len(early)] ==
            IF i = 0 THEN v ELSE Incoming(after[i - 1], early[i].p, early[i].uc)
    IN  after[Len(early)]

(* pj_ice_strans_stop_ice(): the session is destroyed.                     *)
Stop(v) == [CancelTimer(v) EXCEPT !.st = "STOPPED", !.periodic = FALSE]

(* pj_ice_sess_start_check(): the best pair of component 1 and the first   *)
(* of each other foundation wait, then come the early checks.  It fails,   *)
(* and the session is stopped, if component 1 has no check or the periodic *)
(* timer runs already.                                                     *)
StartCheck(e) ==
    LET v == ice[e]
        first(p) == /\ p.comp = 1
                    /\ \A q \in DOMAIN v.chk :
                         q.comp = 1 /\ Above(q, p) => Foundation(e, q) # Foundation(e, p)
        w == [v EXCEPT !.st = "STARTED", !.nominating = @ \/ v.aggressive,
                       !.chk = [p \in DOMAIN @ |->
                                  IF @[p].state = "FROZEN" /\ first(p)
                                  THEN [@[p] EXCEPT !.state = "WAITING"] ELSE @[p]]]
        h == [Handled(w, v.early) EXCEPT !.early = << >>]
    IN  /\ v.st = "CREATED"
        /\ Becomes(e, IF 1 \notin CompsOf(DOMAIN v.chk) THEN Stop(v)
                      ELSE IF h.periodic THEN Stop(h)
                      ELSE [h EXCEPT !.periodic = TRUE], net)

(* The order of the list: by priority, and a learned pair at its end.      *)
Before(v, p, q) == p \notin v.learned /\ (q \in v.learned \/ Above(p, q))

(* start_periodic_check(): what waits first, then what is frozen, in the   *)
(* order of the list.  The timer goes on unless nothing was sent.          *)
PeriodicCheck(e) ==
    LET v == ice[e]
        of(s) == {p \in DOMAIN v.chk : v.chk[p].state = s}
        next == IF of("WAITING") # {} THEN of("WAITING") ELSE of("FROZEN")
    IN  /\ v.periodic
        /\ \/ next = {} /\ Becomes(e, [v EXCEPT !.periodic = FALSE], net)
           \/ \E p \in next :
                /\ \A q \in next \ {p} : Before(v, p, q)
                /\ Becomes(e, [Perform(v, p, v.nominating) EXCEPT !.periodic = ~Unsent(p)], net)

(* Nothing is under way, and nothing more will come by itself.             *)
Quiet == /\ net = {}
         /\ \A e \in Ends : \/ ice[e].st = "STOPPED"
                            \/ /\ ice[e].st = "STARTED" /\ ~ice[e].periodic
                               /\ ice[e].timer # "START_NOM"
                               /\ \A p \in DOMAIN ice[e].chk : ice[e].chk[p].state # "PROGRESS"

(* pj_timer_heap_poll() takes the entry from the heap, and lets go of its  *)
(* lock.  The threads are alike, so let one that is free do it.  But for a *)
(* race the wait for the nomination is longer than anything the other end  *)
(* may still do.                                                           *)
TimerPop(e, w) ==
    LET v == ice[e]
    IN  /\ v.heap /\ v.timer # "KEEP_ALIVE"
        /\ Free(v) # {} /\ w = CHOOSE x \in Free(v) : TRUE
        /\ v.timer = "WAIT_NOM" /\ env.fault # "race" => Quiet
        /\ Becomes(e, [v EXCEPT !.heap = FALSE, !.hand[w] = "POPPED"], net)

(* on_timer() reads te->id, with no lock.                                  *)
TimerRead(e, w) ==
    /\ ice[e].hand[w] = "POPPED"
    /\ Becomes(e, [ice[e] EXCEPT !.hand[w] = ice[e].timer], net)

(* ... and has the lock.                                                   *)
TimerRun(e, w) ==
    LET id == ice[e].hand[w]
        v == [ice[e] EXCEPT !.timer = "NONE", !.hand[w] = "IDLE"]
        kept == IF v.done = "ok" THEN Schedule(v, "KEEP_ALIVE") ELSE v
    IN  /\ id \in TimerIds
        /\ Becomes(e, CASE v.st = "STOPPED" \/ id = "NONE" -> v
                        [] v.st # "STOPPED" /\ id = "WAIT_NOM" -> IceComplete(v, "failed")
                        [] v.st # "STOPPED" /\ id = "START_NOM" -> StartNominated(v)
                        [] v.st # "STOPPED" /\ id = "KEEP_ALIVE" -> Schedule(v, id)
                        [] OTHER -> [kept EXCEPT !.told = IF @ = 0 THEN 1 ELSE 2], net)

(* A packet finds no STUN session any more.                                *)
Deaf(v, p) == v.st = "STOPPED" \/ p.comp \notin v.comps

Receive(e, m) ==
    /\ m \in net /\ m.to = e
    /\ Becomes(e, IF Deaf(ice[e], m.p) THEN ice[e]
                  ELSE IF m.k = "REQUEST" THEN Request(ice[e], m) ELSE Response(ice[e], m),
               net \ {m})

(* The STUN transaction of a check gives up, and takes its messages along. *)
Timeout(e, p) ==
    LET own == {m \in net : m.p = p /\ (m.k = "REQUEST") # (m.to = e)}
    IN  /\ ice[e].st # "STOPPED"
        /\ p \in DOMAIN ice[e].chk /\ ice[e].chk[p].state = "PROGRESS"
        /\ \/ p \notin env.open \/ env.fault = "lost"
           \/ Deaf(ice[Peer(e)], p) /\ own = {}
        /\ Becomes(e, Fail(ice[e], p), net \ own)

(* But for a race nothing comes between the steps of on_timer(), or        *)
(* between the two calls of pj_ice_strans_start_ice().                     *)
Unhindered(e) == env.fault = "race" \/ (~InHand(ice[e]) /\ ice[e].st # "CREATED")

Step(e) == \/ CreateCheckList(e) \/ PeriodicCheck(e)
           \/ \E w \in Workers : TimerPop(e, w)
           \/ \E m \in net : Receive(e, m)
           \/ \E p \in env.pairs : Timeout(e, p)

Next == \E e \in Ends : \/ StartCheck(e)
                        \/ \E w \in Workers : TimerRead(e, w) \/ TimerRun(e, w)
                        \/ Unhindered(e) /\ Step(e)

Spec == Init /\ [][Next]_vars

(* No step is possible.                                                    *)
AtRest == Quiet /\ \A e \in Ends : ~InHand(ice[e]) /\ (ice[e].heap => ice[e].timer = "KEEP_ALIVE")

(* The ends go on while they can.  This is WF_vars(Next): AtRest stands    *)
(* for ~ENABLED Next, and under Spec only a step of Next changes vars.     *)
LiveSpec == Spec /\ ([]<>AtRest \/ []<><<TRUE>>_vars)

-----------------------------------------------------------------------------
(* The properties.                                                         *)

Succeeded == \A e \in Ends : ice[e].done = "ok"

(* Two sessions that succeed are not both controlling or both controlled,  *)
(* whichever roles they started in and however their requests and 487s     *)
(* crossed.                                                                *)
OneController == Succeeded => ice["caller"].role # ice["callee"].role

(* A pair that one end takes for nominated is open, and the other end has  *)
(* marked its check too: neither nominates on its own.  A conflict is left *)
(* out, as the marks of the former controlling end survive its new role.   *)
NominatedByBoth ==
    Succeeded /\ env.fault # "conflict" =>
      \A e \in Ends : \A c \in ice[e].comps :
         LET p == ice[e].nc[c]  theirs == ice[Peer(e)].chk
         IN  p \in env.open /\ p \in DOMAIN theirs /\ theirs[p].nominated

(* A failed send has stopped the checks of an end, and nothing can go on.  *)
Halted == /\ env.fault = "unsent" /\ AtRest
          /\ \E e \in Ends : \E p \in DOMAIN ice[e].chk : ice[e].chk[p].state \in {"FROZEN", "WAITING"}

Reported(e) == ice[e].told > 0 \/ ice[e].st = "STOPPED" \/ ice[e].late

(* Each user is told how it ended, and once: unless the call that starts   *)
(* the session fails, or the timer is scheduled while a thread has it in   *)
(* hand, and on_timer() then acts on the new id twice or wipes it out; or  *)
(* a failed send has halted the checks.                                    *)
Told == /\ [](\A e \in Ends : ice[e].told = 2 => ice[e].late)
        /\ <>(Halted \/ \A e \in Ends : Reported(e))

(* Both ends succeed when some pair of every component is open and known   *)
(* to both, and nothing is lost: whoever is first to check or to nominate, *)
(* what comes early or crosses, and even if both start in the same role.   *)
(* Left out are a send that fails, if only on another pair, and a second   *)
(* thread; and the wait of the controlled end is always long enough.       *)
Success ==
    /\ env.fault \in {"none", "conflict", "learned"}
    /\ \A c \in Comps : \E p \in env.open : p.comp = c /\ (env.fault = "learned" => p # env.pair)
    => <>Succeeded

=============================================================================
