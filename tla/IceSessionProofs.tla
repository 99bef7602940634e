--------------------------- MODULE IceSessionProofs ---------------------------
(***************************************************************************)
(* Proofs about two ICE sessions, for any set of candidate pairs, any      *)
(* number of threads and any of the faults, one kind in a behaviour: who   *)
(* controls in the end, and that no end takes a pair for nominated on its  *)
(* own.                                                                    *)
(*                                                                         *)
(* Messages are answered in another step than they are sent in, so the     *)
(* invariant says of each what its sender or its receiver has done.        *)
(***************************************************************************)
EXTENDS IceSession, WellFoundedInduction, TLAPS

-----------------------------------------------------------------------------
(* Types.                                                                  *)

Fields == {"end", "role", "aggressive", "st", "nominating", "chk", "learned", "valid",
           "comps", "vc", "nc", "timer", "heap", "hand", "late", "periodic", "early", "done", "told", "out"}

States == {"FROZEN", "WAITING", "PROGRESS", "SUCCEEDED", "FAILED"}
Check == [state: States, nominated: BOOLEAN]
Early == [p: env.pairs, uc: BOOLEAN]
Message == [k: {"REQUEST", "OK", "487"}, to: Ends, p: env.open, uc: BOOLEAN, ctl: BOOLEAN]

(* The checks and the valid list of a session: a nominated pair is valid,  *)
(* its check is nominated, and a session succeeds with one per component.  *)
Typed(v) ==
    /\ Fields \subseteq DOMAIN v
    /\ v.end \in Ends /\ v.role \in Roles /\ v.nominating \in BOOLEAN
    /\ DOMAIN v.chk \subseteq env.pairs
    /\ \A p \in DOMAIN v.chk : v.chk[p] \in Check
    /\ DOMAIN v.valid \subseteq DOMAIN v.chk \cap env.open
    /\ \A p \in DOMAIN v.valid : /\ v.valid[p] \in BOOLEAN
                                 /\ v.valid[p] => v.chk[p].nominated
    /\ v.comps \subseteq Comps /\ v.comps # {}
    /\ DOMAIN v.vc = Comps /\ DOMAIN v.nc = Comps
    /\ \A c \in Comps : v.vc[c] # None => v.vc[c] \in DOMAIN v.valid
    /\ \A c \in Comps : v.nc[c] # None => /\ v.nc[c] \in DOMAIN v.valid
                                          /\ v.valid[v.nc[c]] /\ v.nc[c].comp = c
    /\ v.done = "ok" => AllNominated(v)

-----------------------------------------------------------------------------
(* Roles.                                                                  *)

Calm == env.fault # "conflict"

(* The greater tie-breaker controls.                                       *)
Correct(v) == v.role = "CONTROLLING" <=> env.greater = v.end

-----------------------------------------------------------------------------
(* Nominations.                                                            *)

Marked(v, p) == p \in DOMAIN v.chk /\ v.chk[p].nominated
Idle(v, p) == p \in DOMAIN v.chk /\ v.chk[p].state \in {"FROZEN", "WAITING"}

(* A request of the check that the end e makes of p, or its answer.        *)
About(m, e, p) == m.p = p /\ m.to = IF m.k = "REQUEST" THEN Peer(e) ELSE e

(* The end that nominates, and the messages: what is under way of a check  *)
(* that is nominated says so.  This is why a response can be taken for one *)
(* to the request that nominated: of a check that is not nominated, and    *)
(* that might be made again, no other request is left.                     *)
Nominates(v, ms) ==
    \A p \in env.pairs :
      /\ Marked(v, p) => /\ v.nominating
                         /\ \A m \in ms : About(m, v.end, p) => m.uc
      /\ ~Marked(v, p) => /\ \A m, n \in ms : About(m, v.end, p) /\ About(n, v.end, p) => m = n
                          /\ p \notin DOMAIN v.chk \/ Idle(v, p) \/ p \in DOMAIN v.valid
                             => \A m \in ms : ~About(m, v.end, p)
      /\ Idle(v, p) /\ p \in DOMAIN v.valid => v.nominating

(* A session, with what else is under way.                                 *)
Good(v, rest) == /\ Typed(v)
                 /\ Calm /\ v.role = "CONTROLLING" => Nominates(v, rest \cup v.out)

-----------------------------------------------------------------------------
(* The invariant.                                                          *)

World == /\ env.pairs \subseteq [comp : Nat \ {0}, rank : Nat \ {0}]
         /\ \E p \in env.pairs : p.comp = 1
         /\ env.open \subseteq env.pairs
         /\ env.greater \in Ends
         /\ Calm => env.greater = "caller"

Sessions == /\ DOMAIN ice = Ends
            /\ \A e \in Ends : /\ ice[e].end = e /\ ice[e].out = {}
                               /\ Good(ice[e], net)
                               /\ ice[e].early \in Seq(Early)
                               /\ ice[e].st = "NEW" => DOMAIN ice[e].chk = {}
            /\ net \subseteq Message
            /\ ice["callee"].st # "NEW" => env.pairs \subseteq DOMAIN ice["callee"].chk

(* One end has the right role from the start.  The other may have the      *)
(* wrong one, in a conflict, but not once one of its checks has succeeded. *)
RolesOk == /\ \E e \in Ends : Correct(ice[e])
           /\ \A e \in Ends : Correct(ice[e]) \/ (~Calm /\ DOMAIN ice[e].valid = {})

(* What a message on its way from p to v shows.                            *)
Shows(m, v, p) ==
    /\ m.k = "REQUEST" => /\ m.p \in DOMAIN p.chk
                          /\ m.ctl = (env.greater = p.end) => Correct(p)
                          /\ Calm => /\ m.ctl = (env.greater = p.end)
                                     /\ m.uc => p.end = "caller" /\ Marked(p, m.p)
                                     /\ p.end = "caller" => v.st = "STARTED"
    /\ m.k # "REQUEST" => m.p \in DOMAIN v.chk
    /\ m.k = "OK" => /\ Correct(v)
                     /\ Calm /\ m.uc => v.end = "caller" /\ Marked(p, m.p)
    /\ m.k = "487" => ~Calm /\ m.ctl = (env.greater = p.end)

(* Where roles are right from the start: the caller nominates.             *)
Nominated ==
    /\ ice["callee"].early = << >>
    /\ \A i \in 1..Len(ice["caller"].early) : ~ice["caller"].early[i].uc
    /\ ice["caller"].st # "NEW" => ice["callee"].st = "STARTED"
    /\ \A p \in env.pairs : Marked(ice["callee"], p) => Marked(ice["caller"], p)
    /\ \A p \in DOMAIN ice["caller"].valid : ice["caller"].valid[p] => Marked(ice["callee"], p)

IInv == /\ World /\ Sessions /\ RolesOk
        /\ \A m \in net : Shows(m, ice[m.to], ice[Peer(m.to)])
        /\ Calm => Nominated

-----------------------------------------------------------------------------
(* What an operator does to a session: the checks and their nominations    *)
(* only grow, and what it sends are requests.  xs are the pairs the peer   *)
(* nominates, vs those whose check has succeeded.                          *)

(* A request that the session sends.                                       *)
Asks(m, v) == /\ m \in Message /\ m.k = "REQUEST" /\ m.to = Peer(v.end)
              /\ m.p \in DOMAIN v.chk
              /\ m.ctl = (v.role = "CONTROLLING")
              /\ m.uc => v.role = "CONTROLLING" /\ Marked(v, m.p)

Goes(v, w, xs, vs) ==
    /\ w.end = v.end /\ w.role = v.role /\ w.st = v.st /\ w.early = v.early
    /\ DOMAIN v.chk \subseteq DOMAIN w.chk
    /\ \A p \in env.pairs : Marked(v, p) => Marked(w, p)
    /\ Calm /\ v.role = "CONTROLLED" =>
         \A p \in env.pairs : Marked(w, p) => Marked(v, p) \/ p \in xs
    /\ DOMAIN w.valid \subseteq DOMAIN v.valid \cup vs
    /\ Calm /\ v.role = "CONTROLLING" =>
         \A p \in DOMAIN w.valid : w.valid[p] => \/ p \in DOMAIN v.valid /\ v.valid[p]
                                                 \/ p \in vs /\ Marked(v, p)
    /\ v.out \subseteq w.out
    /\ \A m \in w.out \ v.out : Asks(m, w)

(* One operator after the other.                                           *)
LEMMA GoesTrans ==
    ASSUME NEW u, NEW v, NEW w, NEW xs, NEW ys, NEW vs, Typed(u), Typed(v), Typed(w),
           Goes(u, v, xs, vs), Goes(v, w, ys, {})
    PROVE  Goes(u, w, xs \cup ys, vs)
<1>1. DOMAIN w.valid \subseteq DOMAIN u.valid \cup vs
  BY DEF Goes
<1>2. \A p \in env.pairs : Marked(u, p) => Marked(w, p)
  BY DEF Goes
<1>3. Calm /\ u.role = "CONTROLLED" =>
         \A p \in env.pairs : Marked(w, p) => Marked(u, p) \/ p \in xs \cup ys
  BY DEF Goes
<1>4. Calm /\ u.role = "CONTROLLING" =>
         \A p \in DOMAIN w.valid : w.valid[p] => \/ p \in DOMAIN u.valid /\ u.valid[p]
                                                 \/ p \in vs /\ Marked(u, p)
  BY DEF Goes
<1>5. \A m \in w.out \ u.out : Asks(m, w)
  <2> TAKE m \in w.out \ u.out
  <2>1. CASE m \in v.out
    <3>1. Asks(m, v)
      BY <2>1 DEF Goes
    <3>2. m.p \in env.pairs /\ w.end = v.end /\ w.role = v.role
      BY <3>1 DEF Asks, Typed, Goes
    <3>3. m.p \in DOMAIN w.chk /\ (Marked(v, m.p) => Marked(w, m.p))
      BY <3>1, <3>2 DEF Asks, Goes
    <3> QED BY <3>1, <3>2, <3>3 DEF Asks
  <2>2. CASE m \notin v.out
    BY <2>2 DEF Goes
  <2> QED BY <2>1, <2>2
<1> QED BY <1>1, <1>2, <1>3, <1>4, <1>5 DEF Goes

(* Doing nothing.                                                          *)
LEMMA GoesRefl == \A v : Goes(v, v, {}, {})
BY DEF Goes

(* What only concerns the timers, or the end with all nominated.           *)
LEMMA SameGood ==
    ASSUME NEW v, NEW w, NEW rest, Good(v, rest), Fields \subseteq DOMAIN w,
           w.end = v.end, w.role = v.role, w.st = v.st, w.nominating = v.nominating,
           w.chk = v.chk, w.valid = v.valid, w.vc = v.vc, w.nc = v.nc, w.comps = v.comps, w.early = v.early,
           w.out = v.out, w.done = "ok" => AllNominated(v)
    PROVE  Good(w, rest) /\ Goes(v, w, {}, {})
<1>1. Typed(w)
  BY DEF Good, Typed, AllNominated
<1>2. \A p : (Marked(w, p) <=> Marked(v, p)) /\ (Idle(w, p) <=> Idle(v, p))
  BY DEF Marked, Idle
<1>3. Calm /\ w.role = "CONTROLLING" => Nominates(w, rest \cup w.out)
  BY <1>2 DEF Good, Nominates
<1>4. Goes(v, w, {}, {})
  BY <1>2 DEF Goes
<1> QED BY <1>1, <1>3, <1>4 DEF Good

(* The timer of a session is scheduled or cancelled.                       *)
LEMMA TimersGood ==
    ASSUME NEW v, NEW rest, Good(v, rest), NEW id
    PROVE  /\ Good(Schedule(v, id), rest) /\ Goes(v, Schedule(v, id), {}, {})
           /\ Good(CancelTimer(v), rest) /\ Goes(v, CancelTimer(v), {}, {})
<1>1. Fields \subseteq DOMAIN v /\ (v.done = "ok" => AllNominated(v))
  BY DEF Good, Typed
<1>2. ASSUME NEW w, w = Schedule(v, id) PROVE Good(w, rest) /\ Goes(v, w, {}, {})
  <2>1. /\ Fields \subseteq DOMAIN w
        /\ w.end = v.end /\ w.role = v.role /\ w.st = v.st /\ w.nominating = v.nominating
        /\ w.chk = v.chk /\ w.valid = v.valid /\ w.vc = v.vc /\ w.nc = v.nc /\ w.comps = v.comps /\ w.early = v.early
        /\ w.out = v.out /\ w.done = v.done
    BY <1>1, <1>2 DEF Schedule, Fields
  <2> QED BY <1>1, <2>1, SameGood
<1>3. ASSUME NEW w, w = CancelTimer(v) PROVE Good(w, rest) /\ Goes(v, w, {}, {})
  <2>1. /\ Fields \subseteq DOMAIN w
        /\ w.end = v.end /\ w.role = v.role /\ w.st = v.st /\ w.nominating = v.nominating
        /\ w.chk = v.chk /\ w.valid = v.valid /\ w.vc = v.vc /\ w.nc = v.nc /\ w.comps = v.comps /\ w.early = v.early
        /\ w.out = v.out /\ w.done = v.done
    BY <1>1, <1>3 DEF CancelTimer, Fields
  <2> QED BY <1>1, <2>1, SameGood
<1> QED BY <1>2, <1>3

(* on_ice_complete().                                                      *)
LEMMA IceCompleteGood ==
    ASSUME NEW v, NEW rest, Good(v, rest), NEW status \in {"ok", "failed"},
           status = "ok" => AllNominated(v)
    PROVE  Good(IceComplete(v, status), rest) /\ Goes(v, IceComplete(v, status), {}, {})
<1> DEFINE w == IceComplete(v, status)
<1>1. Fields \subseteq DOMAIN v /\ (v.done = "ok" => AllNominated(v))
  BY DEF Good, Typed
<1>2. /\ Fields \subseteq DOMAIN w
      /\ w.end = v.end /\ w.role = v.role /\ w.st = v.st /\ w.nominating = v.nominating
      /\ w.chk = v.chk /\ w.valid = v.valid /\ w.vc = v.vc /\ w.nc = v.nc /\ w.comps = v.comps /\ w.early = v.early
      /\ w.out = v.out /\ w.done \in {v.done, status}
  BY <1>1 DEF IceComplete, Schedule, CancelTimer, Fields
<1> HIDE DEF w
<1>3. Good(w, rest) /\ Goes(v, w, {}, {})
  BY <1>1, <1>2, SameGood
<1> QED BY <1>3 DEF w

(* perform_check(): the check of a pair that waits; it is nominated as     *)
(* soon as the session nominates.                                          *)
LEMMA PerformGood ==
    ASSUME NEW v, NEW rest, Good(v, rest), NEW p \in DOMAIN v.chk, NEW nominate \in BOOLEAN,
           Calm /\ v.role = "CONTROLLING" =>
             Idle(v, p) /\ (nominate <=> Marked(v, p) \/ v.nominating)
    PROVE  /\ Good(Perform(v, p, nominate), rest)
           /\ Goes(v, Perform(v, p, nominate), {}, {})
<1> DEFINE w == Perform(v, p, nominate)
           ctl == v.role = "CONTROLLING"
           msg == [k |-> "REQUEST", to |-> Peer(v.end), p |-> p, uc |-> ctl /\ nominate, ctl |-> ctl]
<1>1. Fields \subseteq DOMAIN v /\ p \in env.pairs /\ v.chk[p] \in Check
  BY DEF Good, Typed
<1>2. /\ Fields \subseteq DOMAIN w
      /\ w.end = v.end /\ w.role = v.role /\ w.st = v.st /\ w.nominating = v.nominating
      /\ w.valid = v.valid /\ w.vc = v.vc /\ w.nc = v.nc /\ w.comps = v.comps /\ w.early = v.early
      /\ w.done = v.done
      /\ DOMAIN w.chk = DOMAIN v.chk
      /\ \A q \in DOMAIN v.chk \ {p} : w.chk[q] = v.chk[q]
  BY <1>1 DEF Perform, Send, Fields
<1>3. /\ w.chk[p].nominated = (v.chk[p].nominated \/ (ctl /\ nominate))
      /\ w.chk[p] \in Check
      /\ w.chk[p].state \in {v.chk[p].state, "PROGRESS"}
      /\ w.chk[p].state # "PROGRESS" => w.out = v.out
  BY <1>1 DEF Perform, Send, Fields, Check, States
<1>4. \/ w.out = v.out
      \/ w.out = v.out \cup {msg} /\ p \in env.open
  BY <1>1 DEF Perform, Send, Fields
<1> HIDE DEF w
<1>5. Typed(w)
  <2>1. \A q \in DOMAIN v.valid : w.valid[q] => w.chk[q].nominated
    BY <1>2, <1>3 DEF Good, Typed
  <2>2. AllNominated(w) <=> AllNominated(v)
    BY <1>2 DEF AllNominated
  <2>3. \A q \in DOMAIN w.chk : w.chk[q] \in Check
    BY <1>2, <1>3 DEF Good, Typed
  <2> QED BY <1>1, <1>2, <2>1, <2>2, <2>3 DEF Good, Typed
<1>6. /\ \A q \in env.pairs : Marked(v, q) => Marked(w, q)
      /\ \A q \in env.pairs : Marked(w, q) => Marked(v, q) \/ (q = p /\ ctl /\ nominate)
      /\ \A q \in env.pairs : Idle(w, q) => Idle(v, q)
  BY <1>2, <1>3 DEF Marked, Idle
<1>7. ctl /\ nominate => Marked(w, p)
  BY <1>2, <1>3 DEF Marked
<1>8. Goes(v, w, {}, {})
  <2>1. msg \in Message \/ p \notin env.open
    BY DEF Message, Good, Typed, Ends, Peer
  <2>2. \A m \in w.out \ v.out : Asks(m, w)
    <3> SUFFICES ASSUME NEW m \in w.out \ v.out PROVE Asks(m, w)
      OBVIOUS
    <3>1. m = msg /\ p \in env.open
      BY <1>4
    <3>2. m.k = "REQUEST" /\ m.to = Peer(v.end) /\ m.p = p /\ m.ctl = ctl
          /\ m.uc = (ctl /\ nominate)
      BY <3>1
    <3> QED BY <1>2, <1>7, <2>1, <3>1, <3>2 DEF Asks
  <2> QED BY <1>2, <1>4, <1>6, <2>2 DEF Goes, Roles
<1>9. ASSUME Calm, ctl PROVE Nominates(w, rest \cup w.out)
  <2> SUFFICES ASSUME NEW q \in env.pairs
               PROVE  /\ Marked(w, q) => /\ w.nominating
                                         /\ \A m \in rest \cup w.out : About(m, w.end, q) => m.uc
                      /\ ~Marked(w, q) =>
                           /\ \A m, n \in rest \cup w.out :
                                About(m, w.end, q) /\ About(n, w.end, q) => m = n
                           /\ q \notin DOMAIN w.chk \/ Idle(w, q) \/ q \in DOMAIN w.valid
                                => \A m \in rest \cup w.out : ~About(m, w.end, q)
                      /\ Idle(w, q) /\ q \in DOMAIN w.valid => w.nominating
    BY DEF Nominates
  <2>1. Nominates(v, rest \cup v.out)
    BY <1>9 DEF Good
  <2>2. ASSUME NEW m \in w.out \ v.out PROVE m = msg
    BY <1>4, <2>2
  <2>3. CASE q # p
    <3>1. /\ Marked(w, q) <=> Marked(v, q)
          /\ Idle(w, q) => Idle(v, q)
          /\ \A m \in w.out \ v.out : ~About(m, w.end, q)
      BY <2>2, <2>3, <1>6 DEF About
    <3> QED BY <3>1, <2>1, <1>2 DEF Nominates
  <2>4. CASE q = p
    <3>1. /\ Marked(v, p) => v.nominating /\ nominate
          /\ p \in DOMAIN v.valid => v.nominating /\ nominate
          /\ nominate => v.nominating
          /\ ~Marked(v, p) => \A m \in rest \cup v.out : ~About(m, v.end, p)
          /\ Marked(v, p) => \A m \in rest \cup v.out : About(m, v.end, p) => m.uc
      BY <2>1, <1>1, <1>9 DEF Nominates
    <3>2. Marked(w, p) <=> nominate
      BY <1>1, <1>6, <1>7, <1>9, <3>1
    <3>3. nominate => msg.uc
      BY <1>9
    <3>4. Idle(w, p) => w.out = v.out
      BY <1>3 DEF Idle
    <3> QED BY <2>2, <2>4, <3>1, <3>2, <3>3, <3>4, <1>2
  <2> QED BY <2>3, <2>4
<1> QED BY <1>2, <1>5, <1>8, <1>9 DEF w, Good

(* No pair is None.                                                        *)
LEMMA NoPair == World => None \notin env.pairs
BY DEF World, None

(* update_comp_check(): of a pair in the valid list.                       *)
LEMMA UpdateCompGood ==
    ASSUME NEW v, NEW rest, World, Good(v, rest), NEW p \in DOMAIN v.valid
    PROVE  /\ Good(UpdateComp(v, p), rest) /\ Goes(v, UpdateComp(v, p), {}, {})
           /\ UpdateComp(v, p).chk = v.chk
           /\ UpdateComp(v, p).valid = v.valid /\ UpdateComp(v, p).out = v.out
<1> DEFINE w == UpdateComp(v, p)
<1>1. /\ Fields \subseteq DOMAIN v /\ p \in env.pairs /\ p # None /\ p.comp \in Comps
      /\ DOMAIN v.vc = Comps /\ DOMAIN v.nc = Comps
  BY NoPair DEF Good, Typed, Comps, CompsOf
<1>2. /\ Fields \subseteq DOMAIN w
      /\ w.end = v.end /\ w.role = v.role /\ w.st = v.st /\ w.nominating = v.nominating
      /\ w.chk = v.chk /\ w.valid = v.valid /\ w.early = v.early /\ w.comps = v.comps
      /\ w.out = v.out /\ w.done = v.done
  BY <1>1 DEF UpdateComp, Fields
<1>3. /\ DOMAIN w.vc = Comps /\ DOMAIN w.nc = Comps
      /\ \A c \in Comps \ {p.comp} : w.vc[c] = v.vc[c] /\ w.nc[c] = v.nc[c]
      /\ w.vc[p.comp] \in {v.vc[p.comp], p}
      /\ w.nc[p.comp] \in {v.nc[p.comp], p}
      /\ w.nc[p.comp] = p => v.valid[p] \/ v.nc[p.comp] = p
  BY <1>1 DEF UpdateComp, Fields
<1> HIDE DEF w
<1>4. Typed(w)
  <2>1. \A c \in Comps : w.vc[c] # None => w.vc[c] \in DOMAIN w.valid
    BY <1>1, <1>2, <1>3 DEF Good, Typed
  <2>2. \A c \in Comps : w.nc[c] # None => /\ w.nc[c] \in DOMAIN w.valid
                                           /\ w.valid[w.nc[c]] /\ w.nc[c].comp = c
    BY <1>1, <1>2, <1>3 DEF Good, Typed
  <2>3. AllNominated(v) => AllNominated(w)
    BY <1>1, <1>2, <1>3 DEF AllNominated, Good, Typed
  <2> QED BY <1>2, <1>3, <2>1, <2>2, <2>3 DEF Good, Typed
<1>5. \A q : (Marked(w, q) <=> Marked(v, q)) /\ (Idle(w, q) <=> Idle(v, q))
  BY <1>2 DEF Marked, Idle
<1>6. Calm /\ w.role = "CONTROLLING" => Nominates(w, rest \cup w.out)
  BY <1>2, <1>5 DEF Good, Nominates
<1>7. Goes(v, w, {}, {})
  BY <1>2, <1>5 DEF Goes
<1> QED BY <1>2, <1>4, <1>6, <1>7 DEF Good, w

(* start_nominated_check(): what is checked again is valid.                *)
LEMMA StartNominatedGood ==
    ASSUME NEW v, NEW rest, World, Good(v, rest)
    PROVE  Good(StartNominated(v), rest) /\ Goes(v, StartNominated(v), {}, {})
<1> DEFINE u == IF v.timer = "START_NOM" THEN CancelTimer(v) ELSE v
           w == StartNominated(v)
<1>1. Fields \subseteq DOMAIN v
  BY DEF Good, Typed
<1>2. /\ Fields \subseteq DOMAIN w
      /\ w.end = v.end /\ w.role = v.role /\ w.st = v.st /\ w.nominating = TRUE
      /\ w.valid = v.valid /\ w.vc = v.vc /\ w.nc = v.nc /\ w.comps = v.comps /\ w.early = v.early
      /\ w.done = v.done /\ w.out = v.out
  BY <1>1 DEF StartNominated, CancelTimer, Fields
<1>3. w.chk = [p \in DOMAIN v.chk |-> IF p = v.vc[p.comp] THEN [v.chk[p] EXCEPT !.state = "WAITING"]
                                      ELSE v.chk[p]]
  BY <1>1 DEF StartNominated, CancelTimer, Fields
<1> HIDE DEF w
<1>4. \A p \in DOMAIN v.chk :
        /\ w.chk[p] \in Check
        /\ w.chk[p].nominated = v.chk[p].nominated
        /\ w.chk[p].state # v.chk[p].state => p = v.vc[p.comp]
  BY <1>3 DEF Good, Typed, Check, States
<1>5. \A p \in DOMAIN v.chk : p = v.vc[p.comp] => p \in DOMAIN v.valid
  <2> TAKE p \in DOMAIN v.chk
  <2>1. p # None /\ p.comp \in Comps
    BY NoPair DEF Good, Typed, Comps, CompsOf
  <2> QED BY <2>1 DEF Good, Typed
<1>6. Typed(w)
  <2>1. DOMAIN w.chk = DOMAIN v.chk /\ Typed(v)
    BY <1>3 DEF Good
  <2>2. AllNominated(v) <=> AllNominated(w)
    BY <1>2 DEF AllNominated
  <2>3. w.nominating \in BOOLEAN
    BY <1>2
  <2>4. \A p \in DOMAIN w.valid : /\ w.valid[p] \in BOOLEAN
                                  /\ w.valid[p] => w.chk[p].nominated
    BY <1>2, <1>4, <2>1 DEF Typed
  <2>5. \A p \in DOMAIN w.chk : w.chk[p] \in Check
    BY <1>4, <2>1
  <2> QED BY <1>2, <2>1, <2>2, <2>3, <2>4, <2>5 DEF Typed
<1>7. \A p : /\ Marked(w, p) <=> Marked(v, p)
             /\ Idle(w, p) => Idle(v, p) \/ p \in DOMAIN v.valid
  BY <1>3, <1>4, <1>5 DEF Marked, Idle
<1>8. Calm /\ w.role = "CONTROLLING" => Nominates(w, rest \cup w.out)
  <2> SUFFICES ASSUME Calm, w.role = "CONTROLLING", Nominates(v, rest \cup v.out)
               PROVE  Nominates(w, rest \cup w.out)
    BY <1>2 DEF Good
  <2>1. DOMAIN w.chk = DOMAIN v.chk
    BY <1>3
  <2> QED BY <1>2, <1>7, <2>1 DEF Nominates
<1>9. Goes(v, w, {}, {})
  BY <1>2, <1>3, <1>7 DEF Goes
<1> QED BY <1>6, <1>8, <1>9 DEF Good, w

(* The states that change with a success: none waits again.                *)
LEMMA UpdatedGood ==
    ASSUME NEW v, NEW rest, Good(v, rest), NEW p \in DOMAIN v.chk
    PROVE  /\ Good([v EXCEPT !.chk = Updated(v, p)], rest)
           /\ Goes(v, [v EXCEPT !.chk = Updated(v, p)], {}, {})
<1> DEFINE w == [v EXCEPT !.chk = Updated(v, p)]
<1>1. Fields \subseteq DOMAIN v
  BY DEF Good, Typed
<1>2. /\ Fields \subseteq DOMAIN w
      /\ w.end = v.end /\ w.role = v.role /\ w.st = v.st /\ w.nominating = v.nominating
      /\ w.valid = v.valid /\ w.vc = v.vc /\ w.nc = v.nc /\ w.comps = v.comps /\ w.early = v.early
      /\ w.done = v.done /\ w.out = v.out /\ w.chk = Updated(v, p)
  BY <1>1 DEF Fields
<1> HIDE DEF w
<1>3. DOMAIN Updated(v, p) = DOMAIN v.chk
  BY DEF Updated
<1>4. \A q \in DOMAIN v.chk :
        /\ Updated(v, p)[q] \in Check
        /\ Updated(v, p)[q].nominated = v.chk[q].nominated
        /\ Updated(v, p)[q].state \in {"FROZEN", "WAITING"} =>
             v.chk[q].state \in {"FROZEN", "WAITING"}
  BY DEF Updated, Good, Typed, Check, States, Unfinished
<1>5. \A q : /\ Marked(w, q) <=> Marked(v, q)
             /\ Idle(w, q) => Idle(v, q)
  BY <1>2, <1>3, <1>4 DEF Marked, Idle
<1>6. Typed(w)
  BY <1>2, <1>3, <1>4 DEF Good, Typed, AllNominated
<1>7. Calm /\ w.role = "CONTROLLING" => Nominates(w, rest \cup w.out)
  BY <1>2, <1>3, <1>5 DEF Good, Nominates
<1>8. Goes(v, w, {}, {})
  BY <1>2, <1>3, <1>5 DEF Goes
<1> QED BY <1>6, <1>7, <1>8 DEF Good, w

(* on_check_complete().                                                    *)
LEMMA CheckCompleteGood ==
    ASSUME NEW v, NEW rest, World, Good(v, rest), NEW p \in DOMAIN v.chk
    PROVE  Good(CheckComplete(v, p), rest) /\ Goes(v, CheckComplete(v, p), {}, {})
<1> DEFINE ok == v.chk[p].state = "SUCCEEDED"
           u == IF ok THEN [v EXCEPT !.chk = Updated(v, p)] ELSE v
           w == CheckComplete(v, p)
<1>1. Good(u, rest) /\ Goes(v, u, {}, {})
  BY UpdatedGood, GoesRefl
<1>2. \/ w = u
      \/ \E status \in {"ok", "failed"} : /\ w = IceComplete(u, status)
                                          /\ status = "ok" => AllNominated(u)
      \/ w = StartNominated(u)
      \/ \E id : w = Schedule(u, id)
      \/ \E id : w = Schedule(CancelTimer(u), id)
  BY DEF CheckComplete
<1> HIDE DEF u, w
<1>3. Good(w, rest) /\ Goes(u, w, {}, {})
  <2>1. CASE \E id : w = Schedule(CancelTimer(u), id)
    <3>1. PICK c : c = CancelTimer(u)
      OBVIOUS
    <3>2. Good(c, rest) /\ Goes(u, c, {}, {})
      BY <1>1, <3>1, TimersGood
    <3>3. Good(w, rest) /\ Goes(c, w, {}, {})
      BY <2>1, <3>1, <3>2, TimersGood
    <3>4. Goes(u, w, {} \cup {}, {})
      BY <1>1, <3>2, <3>3, GoesTrans DEF Good
    <3>5. {} \cup {} = {}
      OBVIOUS
    <3> QED BY <3>3, <3>4, <3>5
  <2> QED BY <1>1, <1>2, <2>1, IceCompleteGood, StartNominatedGood, TimersGood, GoesRefl
<1>4. Goes(v, w, {}, {})
  BY <1>1, <1>3, GoesTrans DEF Good
<1> QED BY <1>3, <1>4 DEF w

(* A pair as far as the peer nominates it.                                 *)
Given(p, uc) == {q \in {p} : uc}

(* A pair that is learned from a request: of its check nothing is out.     *)
LEMMA LearnedGood ==
    ASSUME NEW v, NEW rest, Good(v, rest), NEW p \in env.pairs \ DOMAIN v.chk, NEW uc \in BOOLEAN,
           Calm /\ v.role = "CONTROLLING" => ~uc,
           NEW w,
           /\ Fields \subseteq DOMAIN w
           /\ w.end = v.end /\ w.role = v.role /\ w.st = v.st /\ w.nominating = v.nominating
           /\ w.valid = v.valid /\ w.vc = v.vc /\ w.nc = v.nc /\ w.comps = v.comps /\ w.early = v.early
           /\ w.done = v.done /\ w.out = v.out
           /\ w.chk = With(v.chk, p, [state |-> "WAITING", nominated |-> uc])
    PROVE  /\ Good(w, rest) /\ Goes(v, w, Given(p, uc), {})
           /\ p \in DOMAIN w.chk /\ Idle(w, p) /\ (Marked(w, p) <=> uc)
           /\ w.nominating = v.nominating
<1> DEFINE c == [state |-> "WAITING", nominated |-> uc]
<1>1. /\ DOMAIN w.chk = DOMAIN v.chk \cup {p}
      /\ w.chk[p] = c
      /\ \A q \in DOMAIN v.chk : w.chk[q] = v.chk[q]
  BY DEF With
<1>2. Typed(w)
  <2>1. AllNominated(v) <=> AllNominated(w)
    BY DEF AllNominated
  <2>2. \A q \in DOMAIN w.chk : w.chk[q] \in Check
    BY <1>1 DEF Good, Typed, Check, States
  <2>3. \A q \in DOMAIN w.valid : /\ w.valid[q] \in BOOLEAN
                                  /\ w.valid[q] => w.chk[q].nominated
    BY <1>1 DEF Good, Typed
  <2>4. DOMAIN w.chk \subseteq env.pairs
    BY <1>1 DEF Good, Typed
  <2>5. DOMAIN w.valid \subseteq DOMAIN w.chk \cap env.open
    BY <1>1 DEF Good, Typed
  <2> QED BY <2>1, <2>2, <2>3, <2>4, <2>5 DEF Good, Typed
<1>3. /\ \A q : q # p => (Marked(w, q) <=> Marked(v, q)) /\ (Idle(w, q) <=> Idle(v, q))
      /\ Marked(w, p) <=> uc
      /\ ~Marked(v, p) /\ Idle(w, p)
  BY <1>1 DEF Marked, Idle
<1>4. ASSUME Calm, w.role = "CONTROLLING" PROVE Nominates(w, rest \cup w.out)
  <2>1. Nominates(v, rest \cup v.out) /\ ~uc /\ p \notin DOMAIN v.valid
    BY <1>4 DEF Good, Typed
  <2> QED BY <1>1, <1>3, <2>1 DEF Nominates
<1>5. Goes(v, w, Given(p, uc), {})
  BY <1>1, <1>3 DEF Goes, Given
<1> QED BY <1>1, <1>2, <1>3, <1>4, <1>5 DEF Good

(* The peer nominates a pair, or does not.                                 *)
LEMMA MarkGood ==
    ASSUME NEW v, NEW rest, Good(v, rest), NEW p \in DOMAIN v.chk, NEW uc \in BOOLEAN,
           Calm /\ v.role = "CONTROLLING" => ~uc,
           NEW w, w = [v EXCEPT !.chk[p].nominated = @ \/ uc]
    PROVE  /\ Good(w, rest) /\ Goes(v, w, Given(p, uc), {})
           /\ p \in DOMAIN w.chk /\ (uc => Marked(w, p)) /\ w.valid = v.valid
<1>1. Fields \subseteq DOMAIN v /\ v.chk[p] \in Check /\ p \in env.pairs
  BY DEF Good, Typed
<1>2. /\ Fields \subseteq DOMAIN w
      /\ w.end = v.end /\ w.role = v.role /\ w.st = v.st /\ w.nominating = v.nominating
      /\ w.valid = v.valid /\ w.vc = v.vc /\ w.nc = v.nc /\ w.comps = v.comps /\ w.early = v.early
      /\ w.done = v.done /\ w.out = v.out
  BY <1>1 DEF Fields
<1>3. /\ DOMAIN w.chk = DOMAIN v.chk
      /\ w.chk[p] \in Check
      /\ w.chk[p].state = v.chk[p].state
      /\ w.chk[p].nominated <=> v.chk[p].nominated \/ uc
      /\ \A q \in DOMAIN v.chk \ {p} : w.chk[q] = v.chk[q]
  BY <1>1 DEF Fields, Check
<1>4. Typed(w)
  <2>1. AllNominated(v) <=> AllNominated(w)
    BY <1>2 DEF AllNominated
  <2>2. \A q \in DOMAIN w.chk : w.chk[q] \in Check
    BY <1>3 DEF Good, Typed
  <2>3. \A q \in DOMAIN w.valid : /\ w.valid[q] \in BOOLEAN
                                  /\ w.valid[q] => w.chk[q].nominated
    BY <1>2, <1>3 DEF Good, Typed
  <2> QED BY <1>2, <1>3, <2>1, <2>2, <2>3 DEF Good, Typed
<1>5. /\ \A q : q # p => (Marked(w, q) <=> Marked(v, q))
      /\ \A q : Idle(w, q) <=> Idle(v, q)
      /\ Marked(w, p) <=> Marked(v, p) \/ uc
  BY <1>3 DEF Marked, Idle
<1>6. ASSUME Calm, w.role = "CONTROLLING" PROVE Nominates(w, rest \cup w.out)
  <2>1. Nominates(v, rest \cup v.out) /\ ~uc
    BY <1>2, <1>6 DEF Good
  <2> QED BY <1>2, <1>3, <1>5, <2>1 DEF Nominates
<1>7. Goes(v, w, Given(p, uc), {})
  BY <1>2, <1>3, <1>5 DEF Goes, Given
<1> QED BY <1>2, <1>3, <1>4, <1>5, <1>6, <1>7 DEF Good

(* A valid pair becomes a nominated one.                                   *)
LEMMA NominatedGood ==
    ASSUME NEW v, NEW rest, World, Good(v, rest), NEW p \in DOMAIN v.valid, Marked(v, p),
           ~(Calm /\ v.role = "CONTROLLING"),
           NEW w, w = UpdateComp([v EXCEPT !.valid[p] = TRUE], p)
    PROVE  Good(w, rest) /\ Goes(v, w, {}, {}) /\ w.chk = v.chk
<1> DEFINE u == [v EXCEPT !.valid[p] = TRUE]
<1>1. Fields \subseteq DOMAIN v
  BY DEF Good, Typed
<1>2. /\ Fields \subseteq DOMAIN u
      /\ u.end = v.end /\ u.role = v.role /\ u.st = v.st /\ u.nominating = v.nominating
      /\ u.chk = v.chk /\ u.vc = v.vc /\ u.nc = v.nc /\ u.comps = v.comps /\ u.early = v.early
      /\ u.done = v.done /\ u.out = v.out
      /\ DOMAIN u.valid = DOMAIN v.valid /\ u.valid[p] = TRUE
      /\ \A q \in DOMAIN v.valid \ {p} : u.valid[q] = v.valid[q]
  BY <1>1 DEF Fields
<1> HIDE DEF u
<1>3. Typed(u)
  <2>1. AllNominated(v) <=> AllNominated(u)
    BY <1>2 DEF AllNominated
  <2>2. \A q \in DOMAIN u.valid : /\ u.valid[q] \in BOOLEAN
                                  /\ u.valid[q] => u.chk[q].nominated
    BY <1>2 DEF Good, Typed, Marked
  <2>3. \A c \in Comps : u.nc[c] # None => /\ u.nc[c] \in DOMAIN u.valid
                                           /\ u.valid[u.nc[c]] /\ u.nc[c].comp = c
    BY <1>2 DEF Good, Typed
  <2> QED BY <1>2, <2>1, <2>2, <2>3 DEF Good, Typed
<1>4. \A q : Marked(u, q) <=> Marked(v, q)
  BY <1>2 DEF Marked
<1>5. Good(u, rest) /\ Goes(v, u, {}, {})
  BY <1>2, <1>3, <1>4 DEF Good, Goes
<1>6. Good(w, rest) /\ Goes(u, w, {}, {}) /\ w.chk = u.chk
  BY <1>2, <1>5, UpdateCompGood DEF u
<1>7. Goes(v, w, {}, {})
  BY <1>5, <1>6, GoesTrans DEF Good
<1> QED BY <1>2, <1>6, <1>7

(* handle_incoming_check(): a request for a nominated pair nominates it    *)
(* here too, in whatever state its check is.                               *)
LEMMA IncomingGood ==
    ASSUME NEW v, NEW rest, World, Good(v, rest), NEW p \in env.pairs, NEW uc \in BOOLEAN,
           Calm /\ v.role = "CONTROLLING" => ~uc
    PROVE  /\ Good(Incoming(v, p, uc), rest)
           /\ Goes(v, Incoming(v, p, uc), Given(p, uc), {})
           /\ p.comp \in CompsOf(DOMAIN v.chk) /\ uc => Marked(Incoming(v, p, uc), p)
<1> DEFINE w == Incoming(v, p, uc)
           xs == Given(p, uc)
<1>1. CASE p.comp \in CompsOf(DOMAIN v.chk) /\ p \notin DOMAIN v.chk
  <2> DEFINE u == [v EXCEPT !.learned = @ \cup {p},
                            !.chk = With(@, p, [state |-> "WAITING", nominated |-> uc])]
  <2>1. w = Perform(u, p, uc \/ v.nominating)
    BY <1>1 DEF Incoming
  <2>2. /\ Good(u, rest) /\ Goes(v, u, xs, {})
        /\ p \in DOMAIN u.chk /\ Idle(u, p) /\ (Marked(u, p) <=> uc)
        /\ u.nominating = v.nominating
    <3>1. Fields \subseteq DOMAIN v
      BY DEF Good, Typed
    <3>2. /\ Fields \subseteq DOMAIN u
          /\ u.end = v.end /\ u.role = v.role /\ u.st = v.st /\ u.nominating = v.nominating
          /\ u.valid = v.valid /\ u.vc = v.vc /\ u.nc = v.nc /\ u.comps = v.comps /\ u.early = v.early
          /\ u.done = v.done /\ u.out = v.out
          /\ u.chk = With(v.chk, p, [state |-> "WAITING", nominated |-> uc])
      BY <3>1 DEF Fields
    <3> HIDE DEF u, xs
    <3>3. p \in env.pairs \ DOMAIN v.chk
      BY <1>1
    <3> QED BY <3>2, <3>3, LearnedGood DEF xs
  <2> HIDE DEF u, w
  <2>3. (uc \/ v.nominating) \in BOOLEAN /\ ((uc \/ v.nominating) <=> Marked(u, p) \/ u.nominating)
    BY <2>2
  <2>4. Good(w, rest) /\ Goes(u, w, {}, {})
    BY <2>1, <2>2, <2>3, PerformGood
  <2>5. Goes(v, w, xs, {})
    <3>1. Goes(v, w, xs \cup {}, {})
      BY <2>2, <2>4, GoesTrans DEF Good
    <3> QED BY <3>1
  <2>6. p \in DOMAIN w.chk /\ (uc => Marked(w, p))
    BY <2>2, <2>4 DEF Goes
  <2> QED BY <2>4, <2>5, <2>6 DEF w
<1>2. CASE p.comp \in CompsOf(DOMAIN v.chk) /\ p \in DOMAIN v.chk
  <2> DEFINE u == [v EXCEPT !.chk[p].nominated = @ \/ uc]
             n == IF uc /\ p \in DOMAIN u.valid
                  THEN UpdateComp([u EXCEPT !.valid[p] = TRUE], p) ELSE u
  <2>1. /\ Good(u, rest) /\ Goes(v, u, xs, {})
        /\ p \in DOMAIN u.chk /\ (uc => Marked(u, p))
    BY <1>2, MarkGood
  <2>2. \/ w = u
        \/ Idle(u, p) /\ w = Perform(u, p, u.chk[p].nominated \/ u.nominating)
        \/ w = CheckComplete(n, p)
    BY <1>2, <2>1 DEF Incoming, Idle
  <2>3. /\ u.role = v.role
        /\ u.chk[p].nominated \in BOOLEAN /\ u.nominating \in BOOLEAN
    BY <2>1 DEF Goes, Good, Typed, Check
  <2> HIDE DEF u
  <2>4. /\ Good(n, rest) /\ Goes(u, n, {}, {}) /\ n.chk = u.chk
    <3>1. CASE uc /\ p \in DOMAIN u.valid
      BY <3>1, <2>1, <2>3, NominatedGood
    <3>2. CASE ~(uc /\ p \in DOMAIN u.valid)
      BY <3>2, <2>1, GoesRefl
    <3> QED BY <3>1, <3>2
  <2> HIDE DEF n, w
  <2>5. Good(w, rest) /\ Goes(u, w, {}, {})
    <3>1. CASE w = u
      BY <3>1, <2>1, GoesRefl
    <3>2. CASE Idle(u, p) /\ w = Perform(u, p, u.chk[p].nominated \/ u.nominating)
      <4>1. /\ (u.chk[p].nominated \/ u.nominating) \in BOOLEAN
            /\ (u.chk[p].nominated \/ u.nominating) <=> Marked(u, p) \/ u.nominating
        BY <2>1 DEF Marked
      <4> QED BY <2>1, <3>2, <4>1, PerformGood
    <3>3. CASE w = CheckComplete(n, p)
      <4>1. Good(w, rest) /\ Goes(n, w, {}, {})
        BY <2>1, <2>4, <3>3, CheckCompleteGood
      <4> QED BY <2>1, <2>4, <4>1, GoesTrans DEF Good
    <3> QED BY <2>2, <3>1, <3>2, <3>3
  <2>6. Goes(v, w, xs, {})
    <3>1. Goes(v, w, xs \cup {}, {})
      BY <2>1, <2>5, GoesTrans DEF Good
    <3> QED BY <3>1
  <2>7. p \in DOMAIN w.chk /\ (uc => Marked(w, p))
    BY <2>1, <2>5 DEF Goes
  <2> QED BY <2>5, <2>6, <2>7 DEF w
<1>3. CASE p.comp \notin CompsOf(DOMAIN v.chk)
  <2>1. w = v
    BY <1>3 DEF Incoming
  <2> QED BY <1>3, <2>1 DEF Goes
<1> QED BY <1>1, <1>2, <1>3

-----------------------------------------------------------------------------
(* The early checks.  after[] is a recursive function over the natural     *)
(* numbers; that there is such a function, and what it keeps, follow from  *)
(* the least number for which they would be wrong.                         *)

(* Every set of numbers has a least one.                                   *)
LEMMA Least ==
    ASSUME NEW S, S \subseteq Nat, S # {}
    PROVE  \E k \in S : \A j \in S : k <= j
<1>1. PICK k \in S : \A j \in S : <<j, k>> \notin OpToRel(<, Nat)
  BY NatLessThanWellFounded, WFMin
<1>2. \A j \in S : ~(j < k)
  BY <1>1 DEF OpToRel
<1> QED BY <1>2

IsAfter(after, n, v, early) ==
    after = [i \in 0..n |-> IF i = 0 THEN v ELSE Incoming(after[i - 1], early[i].p, early[i].uc)]

(* They can be handled one after the other, however many there are.        *)
LEMMA AfterExists ==
    ASSUME NEW v, NEW early, NEW n \in Nat
    PROVE  \E after : IsAfter(after, n, v, early)
<1> DEFINE Wrong == {k \in Nat : ~\E after : IsAfter(after, k, v, early)}
<1>1. SUFFICES Wrong = {}
  OBVIOUS
<1>2. SUFFICES ASSUME NEW k \in Wrong, \A j \in Wrong : k <= j PROVE FALSE
  BY Least
<1>3. CASE k = 0
  <2>1. IsAfter([i \in 0..0 |-> v], 0, v, early)
    BY DEF IsAfter
  <2> QED BY <1>3, <2>1
<1>4. CASE k # 0
  <2>1. k - 1 \in Nat /\ k - 1 \notin Wrong
    BY <1>2, <1>4
  <2>2. PICK f : IsAfter(f, k - 1, v, early)
    BY <2>1
  <2> DEFINE g == [i \in 0..k |-> IF i = k THEN Incoming(f[k - 1], early[k].p, early[k].uc) ELSE f[i]]
  <2>3. ASSUME NEW i \in 0..k
        PROVE  g[i] = IF i = 0 THEN v ELSE Incoming(g[i - 1], early[i].p, early[i].uc)
    <3>1. CASE i = 0
      BY <2>1, <2>2, <3>1, <1>4 DEF IsAfter
    <3>2. CASE i # 0 /\ i # k
      <4>1. i \in 0..(k - 1) /\ i - 1 \in 0..(k - 1) /\ i - 1 \in 0..k /\ i - 1 # k
        BY <3>2
      <4>2. f[i] = Incoming(f[i - 1], early[i].p, early[i].uc)
        BY <2>2, <3>2, <4>1 DEF IsAfter
      <4>3. g[i] = f[i] /\ g[i - 1] = f[i - 1]
        BY <3>2, <4>1
      <4> QED BY <3>2, <4>2, <4>3
    <3>3. CASE i # 0 /\ i = k
      <4>1. g[i - 1] = f[k - 1]
        BY <2>1, <3>3
      <4>2. g[i] = Incoming(f[k - 1], early[k].p, early[k].uc)
        BY <3>3
      <4> QED BY <3>3, <4>1, <4>2
    <3> QED BY <3>1, <3>2, <3>3
  <2>4. g = [i \in 0..k |-> g[i]]
    OBVIOUS
  <2> HIDE DEF g
  <2>5. IsAfter(g, k, v, early)
    BY <2>3, <2>4 DEF IsAfter
  <2> QED BY <2>5
<1> QED BY <1>3, <1>4

(* And so they are handled.                                                *)
LEMMA HandledGood ==
    ASSUME NEW v, NEW rest, World, Good(v, rest), NEW early \in Seq(Early),
           Calm => \A i \in 1..Len(early) : ~early[i].uc
    PROVE  /\ Good(Handled(v, early), rest)
           /\ Goes(v, Handled(v, early), {}, {})
<1> DEFINE n == Len(early)
           after == CHOOSE f : IsAfter(f, n, v, early)
<1>1. n \in Nat
  OBVIOUS
<1>2. Handled(v, early) = after[n]
  BY DEF Handled, IsAfter
<1>3. IsAfter(after, n, v, early)
  BY <1>1, AfterExists
<1> HIDE DEF after
<1> DEFINE Right(w) == Good(w, rest) /\ Goes(v, w, {}, {})
           Wrong == {k \in 0..n : ~Right(after[k])}
<1>4. SUFFICES Wrong = {}
  BY <1>1, <1>2
<1>5. SUFFICES ASSUME NEW k \in Wrong, \A j \in Wrong : k <= j PROVE FALSE
  <2> HIDE DEF Right
  <2>1. Wrong \subseteq Nat
    BY <1>1
  <2> HIDE DEF Wrong
  <2> QED BY <2>1, Least
<1>6. after[0] = v /\ Right(v)
  BY <1>1, <1>3, GoesRefl DEF IsAfter
<1>7. k # 0
  BY <1>6
<1> DEFINE u == after[k - 1]
           w == after[k]
<1>8. k - 1 \in 0..n /\ k \in 1..n /\ Right(u)
  BY <1>5, <1>7, <1>1
<1>9. w = Incoming(u, early[k].p, early[k].uc)
  BY <1>3, <1>7, <1>8 DEF IsAfter
<1>10. early[k] \in Early
  BY <1>8
<1> HIDE DEF u, w
<1>11. Good(w, rest) /\ Goes(u, w, Given(early[k].p, early[k].uc), {})
  BY <1>8, <1>9, <1>10, IncomingGood DEF Early
<1>12. Calm => Given(early[k].p, early[k].uc) = {}
  BY <1>8 DEF Given
<1>13. Goes(u, w, {}, {})
  BY <1>11, <1>12 DEF Goes
<1>14. Goes(v, w, {}, {})
  <2>1. Goes(v, w, {} \cup {}, {})
    BY <1>8, <1>11, <1>13, GoesTrans DEF Good
  <2> QED BY <2>1
<1>15. Right(w)
  BY <1>11, <1>14
<1> QED BY <1>5, <1>15 DEF w

-----------------------------------------------------------------------------
(* Steps.                                                                  *)

(* What a step of the end e shows that leaves w and, of the messages under *)
(* way, rest.                                                              *)
Kept(e, w, rest) ==
    LET v == ice[e]  p == ice[Peer(e)]
    IN  /\ rest \subseteq net /\ Good(w, rest)
        /\ w.end = e /\ w.early \in Seq(Early)
        /\ w.st = "NEW" => DOMAIN w.chk = {}
        /\ e = "callee" /\ w.st # "NEW" => env.pairs \subseteq DOMAIN w.chk
        /\ v.st = "STARTED" => w.st = "STARTED"
        /\ DOMAIN v.chk \subseteq DOMAIN w.chk
        /\ \A q \in env.pairs : Marked(v, q) => Marked(w, q)
        /\ Correct(v) => Correct(w)
        /\ Correct(w) \/ (~Calm /\ DOMAIN w.valid = {})
        /\ \A m \in w.out : m \in Message /\ m.to = Peer(e) /\ Shows(m, p, w)
        /\ Calm /\ e = "callee" =>
             /\ Nominates(p, rest \cup w.out)
             /\ w.early = << >>
             /\ \A q \in env.pairs : Marked(w, q) => Marked(p, q)
        /\ Calm /\ e = "caller" =>
             /\ \A i \in 1..Len(w.early) : ~w.early[i].uc
             /\ w.st # "NEW" => p.st = "STARTED"
             /\ \A q \in DOMAIN w.valid : w.valid[q] => Marked(p, q)

(* Each end has one peer.                                                  *)
LEMMA PeerEnds == /\ \A e \in Ends : Peer(e) \in Ends /\ Peer(Peer(e)) = e /\ Peer(e) # e
                  /\ \A e, f \in Ends : f = e \/ f = Peer(e)
                  /\ Peer("caller") = "callee" /\ Peer("callee") = "caller"
                  /\ Ends = {"caller", "callee"}
BY DEF Ends, Peer

(* A step that shows this keeps the invariant.                             *)
LEMMA StepKept ==
    ASSUME IInv, NEW e \in Ends, NEW w, NEW rest, Kept(e, w, rest), Becomes(e, w, rest)
    PROVE  IInv'
<1> DEFINE v == ice[e]
           p == ice[Peer(e)]
           z == [w EXCEPT !.out = {}]
<1>1. /\ ice'[e] = z /\ ice'[Peer(e)] = p /\ DOMAIN ice' = Ends
      /\ net' = rest \cup w.out /\ env' = env
  BY PeerEnds DEF Becomes, IInv, Sessions
<1>2. /\ World' /\ (World' <=> World) /\ (Calm' <=> Calm) /\ Comps' = Comps
      /\ Message' = Message /\ Early' = Early
  BY <1>1 DEF IInv, World, Calm, Comps, CompsOf, Message, Early
<1>3. /\ Fields \subseteq DOMAIN z /\ z.out = {}
      /\ z.end = w.end /\ z.role = w.role /\ z.st = w.st /\ z.nominating = w.nominating
      /\ z.chk = w.chk /\ z.valid = w.valid /\ z.vc = w.vc /\ z.nc = w.nc /\ z.comps = w.comps /\ z.early = w.early
      /\ z.done = w.done
  BY DEF Kept, Good, Typed, Fields
<1> HIDE DEF z
<1>4. /\ \A q : (Marked(z, q) <=> Marked(w, q)) /\ (Idle(z, q) <=> Idle(w, q))
      /\ Correct(z) <=> Correct(w)
  BY <1>3 DEF Marked, Idle, Correct
<1>5. /\ Typed(v) /\ Typed(p) /\ Typed(w) /\ v.end = e /\ p.end = Peer(e)
      /\ Good(v, net) /\ Good(p, net) /\ v.out = {} /\ p.out = {}
  BY PeerEnds DEF IInv, Sessions, Kept, Good
<1>6. /\ \A x : /\ Typed(x)' <=> Typed(x)
                /\ Correct(x)' <=> Correct(x)
      /\ \A x, ms : Nominates(x, ms)' <=> Nominates(x, ms)
      /\ \A m, x, y : Shows(m, x, y)' <=> Shows(m, x, y)
  BY <1>1, <1>2 DEF Typed, AllNominated, Correct, Nominates, Shows, Marked, Idle, About
<1>7. \A x, ms : Good(x, ms)' <=> Good(x, ms)
  BY <1>2, <1>6 DEF Good
<1>8. Good(z, net')
  <2>1. Typed(z)
    BY <1>3, <1>5 DEF Typed, AllNominated
  <2>2. Calm /\ z.role = "CONTROLLING" => Nominates(z, rest \cup w.out)
    BY <1>3, <1>4 DEF Kept, Good, Nominates
  <2>3. net' \cup z.out = rest \cup w.out
    BY <1>1, <1>3
  <2> QED BY <2>1, <2>2, <2>3 DEF Good
<1>9. Good(p, net')
  <2>1. CASE ~(Calm /\ p.role = "CONTROLLING")
    BY <2>1, <1>5 DEF Good
  <2>2. CASE Calm /\ p.role = "CONTROLLING"
    <3>1. e = "callee"
      BY <2>2, <1>5, PeerEnds DEF IInv, World, RolesOk, Correct
    <3>2. Nominates(p, rest \cup w.out)
      BY <2>2, <3>1 DEF Kept
    <3>3. net' \cup p.out = rest \cup w.out
      BY <1>1, <1>5
    <3> QED BY <3>2, <3>3, <1>5 DEF Good
  <2> QED BY <2>1, <2>2
<1>10. Sessions'
  <2>1. \A f \in Ends : f = e \/ f = Peer(e)
    BY PeerEnds
  <2>2. net' \subseteq Message'
    BY <1>1, <1>2 DEF Kept, IInv, Sessions
  <2>3. /\ ice'[e].end = e /\ ice'[e].out = {}
        /\ Good(ice[e], net)'
        /\ ice'[e].early \in Seq(Early')
        /\ ice'[e].st = "NEW" => DOMAIN ice'[e].chk = {}
    BY <1>1, <1>2, <1>3, <1>7, <1>8 DEF Kept
  <2>4. /\ ice'[Peer(e)].end = Peer(e) /\ ice'[Peer(e)].out = {}
        /\ Good(ice[Peer(e)], net)'
        /\ ice'[Peer(e)].early \in Seq(Early')
        /\ ice'[Peer(e)].st = "NEW" => DOMAIN ice'[Peer(e)].chk = {}
    BY <1>1, <1>2, <1>5, <1>7, <1>9, PeerEnds DEF IInv, Sessions
  <2>5. ice'["callee"].st # "NEW" => env.pairs \subseteq DOMAIN ice'["callee"].chk
    <3>1. CASE e = "callee"
      BY <3>1, <1>1, <1>3 DEF Kept
    <3>2. CASE e = "caller"
      BY <3>2, <1>1, PeerEnds DEF IInv, Sessions
    <3> QED BY <3>1, <3>2, PeerEnds
  <2> QED BY <1>1, <2>1, <2>2, <2>3, <2>4, <2>5 DEF Sessions
<1>11. RolesOk'
  <2>1. /\ Correct(v) \/ Correct(p)
        /\ Correct(p) \/ (~Calm /\ DOMAIN p.valid = {})
    BY PeerEnds DEF IInv, RolesOk
  <2>2. /\ Correct(z) \/ Correct(p)
        /\ Correct(z) \/ (~Calm /\ DOMAIN z.valid = {})
    BY <2>1, <1>3, <1>4 DEF Kept
  <2>3. Correct(ice[e])' <=> Correct(z)
    BY <1>1, <1>6
  <2>4. Correct(ice[Peer(e)])' <=> Correct(p)
    BY <1>1, <1>6
  <2> QED BY <1>1, <1>2, <2>1, <2>2, <2>3, <2>4, PeerEnds DEF RolesOk
<1>12. ASSUME NEW m \in net' PROVE Shows(m, ice[m.to], ice[Peer(m.to)])'
  <2>1. m \in Message /\ m.to \in Ends /\ m.p \in env.pairs
    BY <1>1, <1>2, <1>10 DEF Sessions, Message, IInv, World
  <2>2. CASE m \in w.out
    <3>1. m.to = Peer(e) /\ Shows(m, p, w)
      BY <2>2 DEF Kept
    <3>2. Shows(m, p, z)
      BY <3>1, <1>3, <1>4 DEF Shows
    <3> QED BY <3>1, <3>2, <1>1, <1>6, PeerEnds
  <2>3. CASE m \in net /\ m.to = e
    <3>1. Shows(m, v, p)
      BY <2>3 DEF IInv
    <3>2. /\ DOMAIN v.chk \subseteq DOMAIN z.chk /\ z.end = v.end
          /\ Correct(v) => Correct(z)
          /\ v.st = "STARTED" => z.st = "STARTED"
      BY <1>3, <1>4, <1>5 DEF Kept
    <3>3. Shows(m, z, p)
      BY <3>1, <3>2 DEF Shows
    <3> QED BY <2>3, <3>3, <1>1, <1>6
  <2>4. CASE m \in net /\ m.to = Peer(e)
    <3>1. Shows(m, p, v)
      BY <2>4, PeerEnds DEF IInv
    <3>2. /\ DOMAIN v.chk \subseteq DOMAIN z.chk /\ z.end = v.end
          /\ Marked(v, m.p) => Marked(z, m.p)
          /\ Correct(v) => Correct(z)
      BY <2>1, <1>3, <1>4, <1>5 DEF Kept
    <3>3. Shows(m, p, z)
      BY <3>1, <3>2 DEF Shows
    <3> QED BY <2>4, <3>3, <1>1, <1>6, PeerEnds
  <2>5. m \in w.out \/ m \in net
    BY <1>1 DEF Kept
  <2> QED BY <2>1, <2>2, <2>3, <2>4, <2>5, PeerEnds
<1>13. Calm => Nominated'
  <2> SUFFICES ASSUME Calm PROVE Nominated'
    OBVIOUS
  <2>1. Nominated
    BY DEF IInv
  <2>2. CASE e = "caller"
    <3>1. ice'["caller"] = z /\ ice'["callee"] = ice["callee"] /\ Peer(e) = "callee"
      BY <2>2, <1>1, PeerEnds
    <3>2. /\ \A q \in env.pairs : Marked(ice["callee"], q) => Marked(z, q)
          /\ \A q \in DOMAIN z.valid : z.valid[q] => Marked(ice["callee"], q)
      BY <2>1, <2>2, <3>1, <1>3, <1>4 DEF Kept, Nominated
    <3>3. /\ \A i \in 1..Len(z.early) : ~z.early[i].uc
          /\ z.st # "NEW" => ice["callee"].st = "STARTED"
      BY <2>2, <3>1, <1>3 DEF Kept
    <3> QED BY <1>1, <2>1, <3>1, <3>2, <3>3 DEF Nominated, Marked
  <2>3. CASE e = "callee"
    <3>1. ice'["callee"] = z /\ ice'["caller"] = ice["caller"] /\ Peer(e) = "caller"
      BY <2>3, <1>1, PeerEnds
    <3>2. /\ \A q \in env.pairs : Marked(z, q) => Marked(ice["caller"], q)
          /\ \A q \in env.pairs : Marked(ice["callee"], q) => Marked(z, q)
          /\ DOMAIN ice["caller"].valid \subseteq env.pairs
      BY <2>3, <3>1, <1>4, <1>5 DEF Kept, Typed
    <3>3. /\ z.early = << >>
          /\ ice["callee"].st = "STARTED" => z.st = "STARTED"
      BY <2>3, <3>1, <1>3 DEF Kept
    <3> QED BY <1>1, <2>1, <3>1, <3>2, <3>3 DEF Nominated, Marked
  <2> QED BY <2>2, <2>3, PeerEnds
<1> QED BY <1>2, <1>10, <1>11, <1>12, <1>13 DEF IInv

(* The roles of the ends where they are right.                             *)
LEMMA CalmRoles ==
    ASSUME IInv, Calm, NEW e \in Ends
    PROVE  Correct(ice[e]) /\ ice[e].role = IF e = "caller" THEN "CONTROLLING" ELSE "CONTROLLED"
BY PeerEnds DEF IInv, World, RolesOk, Correct, Sessions, Good, Typed, Roles

(* A session u, with the answers it has given, that an operator turns into *)
(* w.  The peer has nominated xs; the checks of vs have succeeded.         *)
Ready(e, u, w, rest, xs, vs) ==
    LET v == ice[e]  p == ice[Peer(e)]
    IN  /\ rest \subseteq net /\ Typed(u)
        /\ u.end = e
        /\ u.st = v.st \/ (v.st = "CREATED" /\ u.st \in {"STARTED", "STOPPED"})
        /\ DOMAIN u.chk = DOMAIN v.chk /\ \A q : Marked(u, q) <=> Marked(v, q)
        /\ u.valid = v.valid
        /\ u.early \in Seq(Early)
        /\ Correct(v) => Correct(u)
        /\ Correct(u) \/ (~Calm /\ DOMAIN u.valid \cup vs = {})
        /\ \A m \in u.out : m \in Message /\ m.to = Peer(e) /\ Shows(m, p, w)
        /\ Calm /\ e = "callee" => /\ Nominates(p, rest \cup u.out)
                                   /\ u.early = << >>
                                   /\ \A q \in xs : Marked(p, q)
        /\ Calm /\ e = "caller" => /\ \A i \in 1..Len(u.early) : ~u.early[i].uc
                                   /\ \A q \in vs : Marked(u, q) => Marked(p, q)

(* Then the step shows what keeps the invariant.                           *)
LEMMA GoesKept ==
    ASSUME IInv, NEW e \in Ends, NEW u, NEW w, NEW rest, NEW xs, NEW vs,
           Ready(e, u, w, rest, xs, vs), Good(w, rest), Goes(u, w, xs, vs),
           w.st = "NEW" => DOMAIN w.chk = {}
    PROVE  Kept(e, w, rest)
<1> DEFINE v == ice[e]
           p == ice[Peer(e)]
<1>1. /\ w.end = e /\ w.role = u.role /\ w.st = u.st /\ w.early = u.early
      /\ DOMAIN v.chk \subseteq DOMAIN w.chk
      /\ \A q \in env.pairs : Marked(v, q) => Marked(w, q)
  BY DEF Ready, Goes, Marked
<1>2. /\ Correct(v) => Correct(w)
      /\ Correct(w) \/ (~Calm /\ DOMAIN w.valid = {})
  <2>1. Correct(w) <=> Correct(u)
    BY DEF Ready, Goes, Correct
  <2>2. DOMAIN w.valid \subseteq DOMAIN u.valid \cup vs
    BY DEF Goes
  <2> QED BY <2>1, <2>2 DEF Ready
<1>3. Calm => p.st = "STARTED" \/ e = "callee" \/ w.st = "NEW"
  BY <1>1, PeerEnds DEF IInv, Nominated, Ready
<1>4. ASSUME NEW m \in w.out PROVE m \in Message /\ m.to = Peer(e) /\ Shows(m, p, w)
  <2>1. CASE m \in u.out
    BY <2>1 DEF Ready
  <2>2. CASE m \notin u.out
    <3>1. Asks(m, w)
      BY <2>2 DEF Goes
    <3>2. w.role \in Roles /\ env.greater \in Ends
      BY DEF Good, Typed, IInv, World
    <3>3. w.st # "NEW"
      BY <3>1 DEF Asks
    <3>4. Calm => (w.role = "CONTROLLING" <=> w.end = "caller")
      BY <1>2, <3>2 DEF IInv, World, Correct
    <3>5. /\ m.ctl = (env.greater = w.end) => Correct(w)
          /\ Calm => m.ctl = (env.greater = w.end)
      BY <1>2, <3>1 DEF Asks, Correct
    <3> QED BY <1>1, <1>3, <3>1, <3>3, <3>4, <3>5, PeerEnds DEF Asks, Shows
  <2> QED BY <2>1, <2>2
<1>5. ASSUME Calm, e = "callee"
      PROVE  /\ Nominates(p, rest \cup w.out)
             /\ \A q \in env.pairs : Marked(w, q) => Marked(p, q)
  <2>1. p.end = "caller"
    BY <1>5, PeerEnds DEF IInv, Sessions
  <2>2. Nominates(p, rest \cup u.out)
    BY <1>5 DEF Ready
  <2>3. \A m \in w.out \ u.out : \A q : ~About(m, "caller", q)
    <3> TAKE m \in w.out \ u.out
    <3>1. Asks(m, w)
      BY DEF Goes
    <3> QED BY <3>1, <1>1, <1>5, PeerEnds DEF Asks, About
  <2>4. Nominates(p, rest \cup w.out)
    BY <2>1, <2>2, <2>3 DEF Nominates
  <2>5. u.role = "CONTROLLED"
    BY <1>2, <1>5 DEF Ready, IInv, World, Correct, Typed, Roles
  <2>6. \A q \in env.pairs : Marked(v, q) => Marked(p, q)
    BY <1>5, PeerEnds DEF IInv, Nominated
  <2>7. \A q : Marked(u, q) <=> Marked(v, q)
    BY DEF Ready, Marked
  <2>8. ASSUME NEW q \in env.pairs, Marked(w, q) PROVE Marked(p, q)
    <3>1. Marked(u, q) \/ q \in xs
      BY <1>5, <2>5, <2>8 DEF Goes
    <3> QED BY <1>5, <2>6, <2>7, <3>1 DEF Ready
  <2> QED BY <2>4, <2>8
<1>6. ASSUME Calm, e = "caller"
      PROVE  \A q \in DOMAIN w.valid : w.valid[q] => Marked(p, q)
  <2>1. u.role = "CONTROLLING"
    BY <1>2, <1>6 DEF Ready, IInv, World, Correct
  <2>2. \A q \in DOMAIN v.valid : v.valid[q] => Marked(p, q)
    BY <1>6, PeerEnds DEF IInv, Nominated
  <2>3. ASSUME NEW q \in DOMAIN w.valid, w.valid[q] PROVE Marked(p, q)
    <3>1. \/ q \in DOMAIN u.valid /\ u.valid[q]
          \/ q \in vs /\ Marked(u, q)
      BY <1>6, <2>1, <2>3 DEF Goes
    <3> QED BY <1>6, <2>2, <3>1 DEF Ready
  <2> QED BY <2>3
<1>7. e = "callee" /\ w.st # "NEW" => env.pairs \subseteq DOMAIN w.chk
  BY <1>1 DEF IInv, Sessions, Ready
<1> QED BY <1>1, <1>2, <1>3, <1>4, <1>5, <1>6, <1>7, PeerEnds DEF Kept, Ready

-----------------------------------------------------------------------------
(* How a check ends.                                                       *)

(* A check in another state: that of the nominating end does not wait.     *)
LEMMA StateGood ==
    ASSUME NEW v, NEW rest, Good(v, rest), NEW p \in DOMAIN v.chk, NEW s \in States,
           Calm /\ v.role = "CONTROLLING" => s \notin {"FROZEN", "WAITING"},
           NEW w, w = [v EXCEPT !.chk[p].state = s]
    PROVE  Good(w, rest) /\ Goes(v, w, {}, {}) /\ p \in DOMAIN w.chk
<1>1. Fields \subseteq DOMAIN v /\ v.chk[p] \in Check /\ p \in env.pairs
  BY DEF Good, Typed
<1>2. /\ Fields \subseteq DOMAIN w
      /\ w.end = v.end /\ w.role = v.role /\ w.st = v.st /\ w.nominating = v.nominating
      /\ w.valid = v.valid /\ w.vc = v.vc /\ w.nc = v.nc /\ w.comps = v.comps /\ w.early = v.early
      /\ w.done = v.done /\ w.out = v.out
  BY <1>1 DEF Fields
<1>3. /\ DOMAIN w.chk = DOMAIN v.chk
      /\ w.chk[p] \in Check
      /\ w.chk[p].state = s
      /\ w.chk[p].nominated = v.chk[p].nominated
      /\ \A q \in DOMAIN v.chk \ {p} : w.chk[q] = v.chk[q]
  BY <1>1 DEF Fields, Check
<1>4. Typed(w)
  <2>1. AllNominated(v) <=> AllNominated(w)
    BY <1>2 DEF AllNominated
  <2>2. \A q \in DOMAIN w.chk : w.chk[q] \in Check
    BY <1>3 DEF Good, Typed
  <2>3. \A q \in DOMAIN w.valid : /\ w.valid[q] \in BOOLEAN
                                  /\ w.valid[q] => w.chk[q].nominated
    BY <1>2, <1>3 DEF Good, Typed
  <2> QED BY <1>2, <1>3, <2>1, <2>2, <2>3 DEF Good, Typed
<1>5. /\ \A q : Marked(w, q) <=> Marked(v, q)
      /\ \A q : q # p => (Idle(w, q) <=> Idle(v, q))
      /\ Calm /\ v.role = "CONTROLLING" => ~Idle(w, p)
  BY <1>3 DEF Marked, Idle
<1>6. ASSUME Calm, w.role = "CONTROLLING" PROVE Nominates(w, rest \cup w.out)
  <2>1. Nominates(v, rest \cup v.out)
    BY <1>2, <1>6 DEF Good
  <2> QED BY <1>2, <1>3, <1>5, <1>6, <2>1 DEF Nominates
<1>7. Goes(v, w, {}, {})
  BY <1>2, <1>3, <1>5 DEF Goes
<1> QED BY <1>3, <1>4, <1>6, <1>7 DEF Good

(* A pair becomes valid, nominated if its check is.                        *)
LEMMA ValidGood ==
    ASSUME NEW v, NEW rest, Good(v, rest), NEW p \in DOMAIN v.chk \cap env.open,
           Calm /\ v.role = "CONTROLLING" /\ ~Marked(v, p) =>
             ~Idle(v, p) /\ \A m \in rest \cup v.out : ~About(m, v.end, p),
           NEW w, w = [v EXCEPT !.valid = With(@, p, v.chk[p].nominated)]
    PROVE  Good(w, rest) /\ Goes(v, w, {}, {p}) /\ p \in DOMAIN w.valid
<1>1. Fields \subseteq DOMAIN v /\ v.chk[p] \in Check /\ p \in env.pairs
  BY DEF Good, Typed
<1>2. /\ Fields \subseteq DOMAIN w
      /\ w.end = v.end /\ w.role = v.role /\ w.st = v.st /\ w.nominating = v.nominating
      /\ w.chk = v.chk /\ w.vc = v.vc /\ w.nc = v.nc /\ w.comps = v.comps /\ w.early = v.early
      /\ w.done = v.done /\ w.out = v.out
  BY <1>1 DEF Fields
<1>3. w.valid = With(v.valid, p, v.chk[p].nominated)
  BY <1>1 DEF Fields
<1>4. /\ DOMAIN w.valid = DOMAIN v.valid \cup {p}
      /\ w.valid[p] = v.chk[p].nominated
      /\ \A q \in DOMAIN v.valid \ {p} : w.valid[q] = v.valid[q]
  BY <1>3 DEF With
<1>5. \A q \in DOMAIN v.valid : v.valid[q] => w.valid[q] = TRUE
  <2> TAKE q \in DOMAIN v.valid
  <2>1. CASE q = p
    BY <1>1, <1>4, <2>1 DEF Good, Typed, Check
  <2>2. CASE q # p
    BY <1>4, <2>2 DEF Good, Typed
  <2> QED BY <2>1, <2>2
<1>6. Typed(w)
  <2>1. AllNominated(v) <=> AllNominated(w)
    BY <1>2 DEF AllNominated
  <2>2. DOMAIN w.valid \subseteq DOMAIN w.chk \cap env.open
    BY <1>2, <1>4 DEF Good, Typed
  <2>3. \A q \in DOMAIN w.valid : /\ w.valid[q] \in BOOLEAN
                                  /\ w.valid[q] => w.chk[q].nominated
    BY <1>1, <1>2, <1>4 DEF Good, Typed, Check
  <2>4. \A c \in Comps : w.nc[c] # None => /\ w.nc[c] \in DOMAIN w.valid
                                           /\ w.valid[w.nc[c]] /\ w.nc[c].comp = c
    <3> TAKE c \in Comps
    <3>1. w.nc[c] # None => w.nc[c] \in DOMAIN v.valid /\ v.valid[w.nc[c]] /\ w.nc[c].comp = c
      BY <1>2 DEF Good, Typed
    <3> QED BY <3>1, <1>4, <1>5
  <2>5. \A c \in Comps : w.vc[c] # None => w.vc[c] \in DOMAIN w.valid
    BY <1>2, <1>4 DEF Good, Typed
  <2> QED BY <1>2, <2>1, <2>2, <2>3, <2>4, <2>5 DEF Good, Typed
<1>7. \A q : (Marked(w, q) <=> Marked(v, q)) /\ (Idle(w, q) <=> Idle(v, q))
  BY <1>2 DEF Marked, Idle
<1>8. Calm /\ v.role = "CONTROLLING" => ~Idle(v, p) \/ v.nominating
  BY <1>1 DEF Good, Nominates
<1>9. ASSUME Calm, w.role = "CONTROLLING" PROVE Nominates(w, rest \cup w.out)
  <2>1. Nominates(v, rest \cup v.out)
    BY <1>2, <1>9 DEF Good
  <2>2. ~Marked(v, p) => \A m \in rest \cup w.out : ~About(m, w.end, p)
    BY <1>2, <1>9
  <2> QED BY <1>2, <1>4, <1>7, <1>8, <1>9, <2>1, <2>2 DEF Nominates
<1>10. Goes(v, w, {}, {p})
  <2>1. w.valid[p] => Marked(v, p)
    BY <1>4 DEF Marked
  <2> QED BY <1>2, <1>4, <1>7, <2>1 DEF Goes
<1> QED BY <1>4, <1>6, <1>9, <1>10 DEF Good

(* A success response to a check that nothing else is out of, unless it    *)
(* nominates.                                                              *)
LEMMA SucceedGood ==
    ASSUME NEW v, NEW rest, World, Good(v, rest), NEW p \in DOMAIN v.chk \cap env.open,
           Calm /\ v.role = "CONTROLLING" /\ ~Marked(v, p) =>
             ~Idle(v, p) /\ \A m \in rest \cup v.out : ~About(m, v.end, p)
    PROVE  Good(Succeed(v, p), rest) /\ Goes(v, Succeed(v, p), {}, {p})
<1> DEFINE a == [v EXCEPT !.valid = With(@, p, v.chk[p].nominated)]
           b == UpdateComp(a, p)
           c == [b EXCEPT !.chk[p].state = "SUCCEEDED"]
           w == Succeed(v, p)
<1>1. w = CheckComplete(c, p)
  BY DEF Succeed
<1>2. Good(a, rest) /\ Goes(v, a, {}, {p}) /\ p \in DOMAIN a.valid
  BY ValidGood
<1> HIDE DEF a, w
<1>3. Good(b, rest) /\ Goes(a, b, {}, {}) /\ b.valid = a.valid
  BY <1>2, UpdateCompGood
<1>4. p \in DOMAIN b.chk
  BY <1>2, <1>3 DEF Good, Typed
<1> HIDE DEF b
<1>5. Good(c, rest) /\ Goes(b, c, {}, {}) /\ p \in DOMAIN c.chk
  <2>1. "SUCCEEDED" \in States /\ "SUCCEEDED" \notin {"FROZEN", "WAITING"}
    BY DEF States
  <2> QED BY <1>3, <1>4, <2>1, StateGood
<1> HIDE DEF c
<1>6. Good(w, rest) /\ Goes(c, w, {}, {})
  BY <1>1, <1>5, CheckCompleteGood
<1>7. Typed(v) /\ Typed(a) /\ Typed(b) /\ Typed(c) /\ Typed(w)
  BY <1>2, <1>3, <1>5, <1>6 DEF Good
<1>8. Goes(v, b, {} \cup {}, {p})
  BY <1>2, <1>3, <1>7, GoesTrans
<1>9. Goes(v, c, ({} \cup {}) \cup {}, {p})
  BY <1>5, <1>7, <1>8, GoesTrans
<1>10. Goes(v, w, (({} \cup {}) \cup {}) \cup {}, {p})
  BY <1>6, <1>7, <1>9, GoesTrans
<1>11. (({} \cup {}) \cup {}) \cup {} = {}
  OBVIOUS
<1> QED BY <1>6, <1>10, <1>11 DEF w

(* A check that failed.                                                    *)
LEMMA FailGood ==
    ASSUME NEW v, NEW rest, World, Good(v, rest), NEW p \in DOMAIN v.chk
    PROVE  Good(Fail(v, p), rest) /\ Goes(v, Fail(v, p), {}, {})
<1> DEFINE c == [v EXCEPT !.chk[p].state = "FAILED"]
           w == Fail(v, p)
<1>1. w = CheckComplete(c, p)
  BY DEF Fail
<1>2. Good(c, rest) /\ Goes(v, c, {}, {}) /\ p \in DOMAIN c.chk
  <2>1. "FAILED" \in States /\ "FAILED" \notin {"FROZEN", "WAITING"}
    BY DEF States
  <2> QED BY <2>1, StateGood
<1> HIDE DEF c, w
<1>3. Good(w, rest) /\ Goes(c, w, {}, {})
  BY <1>1, <1>2, CheckCompleteGood
<1>4. Goes(v, w, {} \cup {}, {})
  BY <1>2, <1>3, GoesTrans DEF Good
<1>5. {} \cup {} = {}
  OBVIOUS
<1> QED BY <1>3, <1>4, <1>5 DEF w

(* A 487: the check is made again, in the other role.                      *)
LEMMA ConflictGood ==
    ASSUME NEW v, NEW rest, World, Good(v, rest), NEW m, m.p \in DOMAIN v.chk, ~Calm,
           NEW u, u = [v EXCEPT !.role = IF m.ctl THEN "CONTROLLED" ELSE "CONTROLLING"]
    PROVE  /\ Good(u, rest) /\ Good(Conflict(v, m), rest)
           /\ Goes(u, Conflict(v, m), {}, {})
<1> DEFINE c == [u EXCEPT !.chk[m.p].state = "WAITING"]
           w == Conflict(v, m)
<1>1. Fields \subseteq DOMAIN v /\ v.nominating \in BOOLEAN
  BY DEF Good, Typed
<1>2. /\ Fields \subseteq DOMAIN u
      /\ u.end = v.end /\ u.role \in Roles /\ u.nominating = v.nominating
      /\ u.chk = v.chk /\ u.valid = v.valid /\ u.vc = v.vc /\ u.nc = v.nc /\ u.comps = v.comps
      /\ u.done = v.done
  BY <1>1 DEF Fields, Roles
<1>3. Good(u, rest)
  BY <1>2 DEF Good, Typed, AllNominated
<1>4. c = [v EXCEPT !.role = IF m.ctl THEN "CONTROLLED" ELSE "CONTROLLING",
                    !.chk[m.p].state = "WAITING"]
  BY <1>1 DEF Fields
<1>5. w = Perform(c, m.p, c.chk[m.p].nominated \/ c.nominating)
  BY <1>4 DEF Conflict
<1>6. Good(c, rest) /\ Goes(u, c, {}, {}) /\ m.p \in DOMAIN c.chk
  <2>1. "WAITING" \in States /\ m.p \in DOMAIN u.chk
    BY <1>2 DEF States
  <2> HIDE DEF c
  <2>2. c = [u EXCEPT !.chk[m.p].state = "WAITING"]
    BY DEF c
  <2> QED BY <1>3, <2>1, <2>2, StateGood
<1> HIDE DEF c, w
<1>7. (c.chk[m.p].nominated \/ c.nominating) \in BOOLEAN
  OBVIOUS
<1>8. Good(w, rest) /\ Goes(c, w, {}, {})
  BY <1>5, <1>6, <1>7, PerformGood
<1>9. Goes(u, w, {} \cup {}, {})
  BY <1>3, <1>6, <1>8, GoesTrans DEF Good
<1>10. {} \cup {} = {}
  OBVIOUS
<1> QED BY <1>3, <1>8, <1>9, <1>10 DEF w

-----------------------------------------------------------------------------
(* The actions.                                                            *)

(* Fewer messages show no less.                                            *)
LEMMA FewerGood ==
    ASSUME NEW ms, NEW rest \in SUBSET ms, NEW v
    PROVE  /\ Nominates(v, ms) => Nominates(v, rest)
           /\ Good(v, ms) => Good(v, rest)
<1>1. \A xs, ys : xs \subseteq ys /\ Nominates(v, ys) => Nominates(v, xs)
  BY DEF Nominates
<1>2. rest \subseteq ms /\ rest \cup v.out \subseteq ms \cup v.out
  OBVIOUS
<1> QED BY <1>1, <1>2 DEF Good

(* What an operator does to the session as it is.                          *)
LEMMA SelfReady ==
    ASSUME IInv, NEW e \in Ends, NEW w, NEW rest \in SUBSET net
    PROVE  Ready(e, ice[e], w, rest, {}, {}) /\ Good(ice[e], rest)
<1> DEFINE v == ice[e]
           p == ice[Peer(e)]
<1>1. /\ v.end = e /\ v.out = {} /\ Good(v, net) /\ Typed(v) /\ v.early \in Seq(Early)
      /\ Good(p, net) /\ p.out = {}
  BY PeerEnds DEF IInv, Sessions, Good
<1>2. Good(v, rest)
  BY <1>1, FewerGood
<1>3. Correct(v) \/ (~Calm /\ DOMAIN v.valid = {})
  BY DEF IInv, RolesOk
<1>4. ASSUME Calm, e = "callee" PROVE Nominates(p, rest) /\ v.early = << >>
  <2>1. p.role = "CONTROLLING"
    BY <1>4, CalmRoles, PeerEnds
  <2>2. Nominates(p, net)
    <3>1. net \cup {} = net
      OBVIOUS
    <3> QED BY <1>1, <1>4, <2>1, <3>1 DEF Good
  <2> QED BY <1>4, <2>2, FewerGood DEF IInv, Nominated
<1>5. Calm /\ e = "caller" => \A i \in 1..Len(v.early) : ~v.early[i].uc
  BY DEF IInv, Nominated
<1>6. v.valid = v.valid /\ rest \cup v.out = rest /\ DOMAIN v.valid \cup {} = DOMAIN v.valid
  BY <1>1
<1> QED BY <1>1, <1>2, <1>3, <1>4, <1>5, <1>6 DEF Ready

(* What only concerns the timers, and the early checks that are handled.   *)
LEMMA SameKept ==
    ASSUME NEW e \in Ends, NEW w, NEW z, NEW rest, Kept(e, w, rest), Fields \subseteq DOMAIN z,
           z.end = w.end, z.role = w.role, z.st = w.st, z.nominating = w.nominating,
           z.chk = w.chk, z.valid = w.valid, z.vc = w.vc, z.nc = w.nc, z.comps = w.comps,
           z.early \in {w.early, << >>}, z.out = w.out, z.done = w.done
    PROVE  Kept(e, z, rest)
<1> DEFINE v == ice[e]
           p == ice[Peer(e)]
<1>1. /\ \A q : (Marked(z, q) <=> Marked(w, q)) /\ (Idle(z, q) <=> Idle(w, q))
      /\ Correct(z) <=> Correct(w)
  BY DEF Marked, Idle, Correct
<1>2. Typed(z)
  BY DEF Kept, Good, Typed, AllNominated
<1>3. Good(z, rest)
  BY <1>1, <1>2 DEF Kept, Good, Nominates
<1>4. \A m \in z.out : m \in Message /\ m.to = Peer(e) /\ Shows(m, p, z)
  BY <1>1 DEF Kept, Shows
<1>5. /\ z.early \in Seq(Early)
      /\ Calm /\ e = "callee" => z.early = << >>
      /\ Calm /\ e = "caller" => \A i \in 1..Len(z.early) : ~z.early[i].uc
  <2>1. CASE z.early = w.early
    BY <2>1 DEF Kept
  <2>2. CASE z.early = << >>
    <3>1. Len(z.early) = 0 /\ z.early \in Seq(Early)
      BY <2>2
    <3>2. \A i \in 1..Len(z.early) : FALSE
      BY <3>1
    <3> QED BY <2>2, <3>1, <3>2
  <2> QED BY <2>1, <2>2
<1> QED BY <1>1, <1>3, <1>4, <1>5 DEF Kept

(* A session that could not be started is stopped as it is.                *)
LEMMA StoppedKept ==
    ASSUME IInv, NEW e \in Ends, NEW w, NEW z, NEW rest, Kept(e, w, rest), Fields \subseteq DOMAIN z,
           ice[e].st = "CREATED", w.st # "NEW",
           z.end = w.end, z.role = w.role, z.st = "STOPPED", z.nominating = w.nominating,
           z.chk = w.chk, z.valid = w.valid, z.vc = w.vc, z.nc = w.nc, z.comps = w.comps,
           z.early \in {w.early, << >>}, z.out = w.out, z.done = w.done
    PROVE  Kept(e, z, rest)
<1> DEFINE p == ice[Peer(e)]
<1>1. /\ \A q : (Marked(z, q) <=> Marked(w, q)) /\ (Idle(z, q) <=> Idle(w, q))
      /\ Correct(z) <=> Correct(w)
  BY DEF Marked, Idle, Correct
<1>2. Typed(z)
  BY DEF Kept, Good, Typed, AllNominated
<1>3. Good(z, rest)
  BY <1>1, <1>2 DEF Kept, Good, Nominates
<1>4. \A m \in z.out : m \in Message /\ m.to = Peer(e) /\ Shows(m, p, z)
  BY <1>1 DEF Kept, Shows
<1>5. /\ z.early \in Seq(Early)
      /\ Calm /\ e = "callee" => z.early = << >>
      /\ Calm /\ e = "caller" => \A i \in 1..Len(z.early) : ~z.early[i].uc
  <2>1. CASE z.early = w.early
    BY <2>1 DEF Kept
  <2>2. CASE z.early = << >>
    <3>1. Len(z.early) = 0 /\ z.early \in Seq(Early)
      BY <2>2
    <3>2. \A i \in 1..Len(z.early) : FALSE
      BY <3>1
    <3> QED BY <2>2, <3>1, <3>2
  <2> QED BY <2>1, <2>2
<1> QED BY <1>1, <1>3, <1>4, <1>5 DEF Kept

(* What only concerns the timers, of the session as it is.                 *)
LEMMA TimersKept ==
    ASSUME IInv, NEW e \in Ends, NEW z, Fields \subseteq DOMAIN z,
           z.end = ice[e].end, z.role = ice[e].role, z.st = ice[e].st,
           z.nominating = ice[e].nominating, z.chk = ice[e].chk, z.valid = ice[e].valid,
           z.vc = ice[e].vc, z.nc = ice[e].nc, z.comps = ice[e].comps, z.early = ice[e].early,
           z.out = ice[e].out, z.done = ice[e].done
    PROVE  Kept(e, z, net)
<1>1. Ready(e, ice[e], ice[e], net, {}, {}) /\ Good(ice[e], net)
  BY SelfReady
<1>2. ice[e].st = "NEW" => DOMAIN ice[e].chk = {}
  BY DEF IInv, Sessions
<1>3. Kept(e, ice[e], net)
  BY <1>1, <1>2, GoesKept, GoesRefl
<1> QED BY <1>3, SameKept

(* An operator on the session as it is.                                    *)
LEMMA OperatorKept ==
    ASSUME IInv, NEW e \in Ends, NEW w, NEW rest \in SUBSET net,
           Good(w, rest), Goes(ice[e], w, {}, {}), w.st = "NEW" => DOMAIN w.chk = {}
    PROVE  Kept(e, w, rest)
BY SelfReady, GoesKept

(* pj_ice_sess_create_check_list(): of a check not made yet nothing is out.*)
LEMMA CreateCheckListKept ==
    ASSUME IInv, NEW e \in Ends, CreateCheckList(e)
    PROVE  IInv'
<1> DEFINE v == ice[e]
           p == ice[Peer(e)]
           known == IF e = "caller" /\ env.fault = "learned" THEN env.pairs \ {env.pair} ELSE env.pairs
           comps == {c \in Comps : \E q \in known : c <= q.comp}
           w == [v EXCEPT !.st = "CREATED", !.comps = comps,
                          !.chk = [q \in known |-> [state |-> "FROZEN", nominated |-> FALSE]]]
<1>1. /\ v.st = "NEW" /\ known # {} /\ (e = "caller" => p.st = "STARTED")
      /\ Becomes(e, w, net)
  BY DEF CreateCheckList
<1>2. /\ v.end = e /\ v.out = {} /\ Good(v, net) /\ Typed(v) /\ v.early \in Seq(Early)
      /\ DOMAIN v.chk = {} /\ Fields \subseteq DOMAIN v /\ World
  BY <1>1 DEF IInv, Sessions, Good, Typed
<1>3. /\ Fields \subseteq DOMAIN w
      /\ w.end = v.end /\ w.role = v.role /\ w.nominating = v.nominating
      /\ w.valid = v.valid /\ w.vc = v.vc /\ w.nc = v.nc /\ w.comps = comps /\ w.early = v.early
      /\ w.done = v.done /\ w.out = v.out /\ w.st = "CREATED"
      /\ w.chk = [q \in known |-> [state |-> "FROZEN", nominated |-> FALSE]]
  BY <1>2 DEF Fields
<1>4. known \subseteq env.pairs /\ (e = "callee" => known = env.pairs)
  BY PeerEnds
<1> HIDE DEF known
<1>12. comps \subseteq Comps /\ comps # {}
  <2>1. PICK q \in known : TRUE
    BY <1>1
  <2>2. q.comp \in Nat /\ q.comp \in Comps
    BY <1>2, <1>4 DEF World, Comps, CompsOf
  <2>3. q.comp <= q.comp
    BY <2>2
  <2> QED BY <2>2, <2>3
<1> HIDE DEF w, comps
<1>5. DOMAIN v.valid = {}
  BY <1>2 DEF Typed
<1>6. \A q : ~Marked(v, q) /\ ~Marked(w, q)
  BY <1>2, <1>3 DEF Marked
<1>7. Typed(w)
  <2>1. v.done # "ok"
    BY <1>2, <1>5 DEF Typed, AllNominated
  <2>2. \A q \in DOMAIN w.chk : w.chk[q] \in Check
    BY <1>3 DEF Check, States
  <2> QED BY <1>2, <1>3, <1>4, <1>5, <1>12, <2>1, <2>2 DEF Typed
<1>8. Good(w, net)
  <2>1. ASSUME Calm, w.role = "CONTROLLING" PROVE Nominates(w, net \cup w.out)
    <3>1. Nominates(v, net \cup v.out)
      BY <1>2, <1>3, <2>1 DEF Good
    <3>2. \A q \in env.pairs : \A m \in net \cup v.out : ~About(m, v.end, q)
      BY <1>2, <1>6, <3>1 DEF Nominates
    <3> QED BY <1>3, <1>5, <1>6, <3>2 DEF Nominates
  <2> QED BY <1>7, <2>1 DEF Good
<1>9. Ready(e, v, v, net, {}, {})
  BY SelfReady
<1>10. Correct(w) <=> Correct(v)
  BY <1>3 DEF Correct
<1>11. Kept(e, w, net)
  BY <1>1, <1>2, <1>3, <1>4, <1>5, <1>6, <1>8, <1>9, <1>10, PeerEnds DEF Kept, Ready
<1> QED BY <1>1, <1>11, StepKept

(* pj_ice_sess_start_check(): the early checks nominate nothing to the end *)
(* that nominates.                                                         *)
LEMMA StartCheckKept ==
    ASSUME IInv, NEW e \in Ends, StartCheck(e)
    PROVE  IInv'
<1> DEFINE v == ice[e]
           p == ice[Peer(e)]
           first(q) == /\ q.comp = 1
                       /\ \A r \in DOMAIN v.chk :
                            r.comp = 1 /\ Above(r, q) => Foundation(e, r) # Foundation(e, q)
           waits == [q \in DOMAIN v.chk |-> IF v.chk[q].state = "FROZEN" /\ first(q)
                                            THEN [v.chk[q] EXCEPT !.state = "WAITING"] ELSE v.chk[q]]
           u == [v EXCEPT !.st = "STARTED", !.nominating = @ \/ v.aggressive, !.chk = waits]
           h == Handled(u, v.early)
           g == [h EXCEPT !.early = << >>]
           z == [g EXCEPT !.periodic = TRUE]
           stopped == Stop(g)
<1>1. /\ v.st = "CREATED"
      /\ Becomes(e, Stop(v), net) \/ Becomes(e, stopped, net) \/ Becomes(e, z, net)
  BY DEF StartCheck
<1>2. /\ v.end = e /\ v.out = {} /\ Good(v, net) /\ Typed(v) /\ v.early \in Seq(Early)
      /\ Fields \subseteq DOMAIN v /\ World
  BY DEF IInv, Sessions, Good, Typed
<1>3. /\ Fields \subseteq DOMAIN u
      /\ u.end = v.end /\ u.role = v.role
      /\ u.valid = v.valid /\ u.vc = v.vc /\ u.nc = v.nc /\ u.comps = v.comps /\ u.early = v.early
      /\ u.done = v.done /\ u.out = v.out /\ u.st = "STARTED"
      /\ u.nominating = (v.nominating \/ v.aggressive)
      /\ u.chk = waits
  BY <1>2 DEF Fields
<1>4. /\ DOMAIN waits = DOMAIN v.chk
      /\ \A q \in DOMAIN v.chk : /\ waits[q] \in Check
                                 /\ waits[q].nominated = v.chk[q].nominated
                                 /\ waits[q].state # v.chk[q].state =>
                                      v.chk[q].state = "FROZEN" /\ waits[q].state = "WAITING"
  <2> HIDE DEF first
  <2> QED BY <1>2 DEF Typed, Check, States
<1> HIDE DEF u, waits
<1>5. \A q : (Marked(u, q) <=> Marked(v, q)) /\ (Idle(u, q) <=> Idle(v, q))
  <2>1. \A q : Marked(u, q) <=> Marked(v, q)
    BY <1>3, <1>4 DEF Marked
  <2>2. \A q \in DOMAIN v.chk : waits[q].state \in {"FROZEN", "WAITING"} <=>
                                v.chk[q].state \in {"FROZEN", "WAITING"}
    BY <1>4
  <2> QED BY <1>3, <1>4, <2>1, <2>2 DEF Idle
<1>6. Typed(u)
  <2>1. AllNominated(v) <=> AllNominated(u)
    BY <1>3 DEF AllNominated
  <2>2. u.nominating \in BOOLEAN
    BY <1>3
  <2> QED BY <1>2, <1>3, <1>4, <2>1, <2>2 DEF Typed
<1>7. Good(u, net)
  <2>1. ASSUME Calm, u.role = "CONTROLLING" PROVE Nominates(u, net \cup u.out)
    <3>1. Nominates(v, net \cup v.out)
      BY <1>2, <1>3, <2>1 DEF Good
    <3> QED BY <1>3, <1>4, <1>5, <3>1 DEF Nominates
  <2> QED BY <1>6, <2>1 DEF Good
<1>8. Calm => \A i \in 1..Len(v.early) : ~v.early[i].uc
  <2>1. CASE e = "caller"
    BY <2>1 DEF IInv, Nominated
  <2>2. CASE e = "callee" /\ Calm
    <3>1. v.early = << >>
      BY <2>2 DEF IInv, Nominated
    <3>2. Len(v.early) = 0
      BY <3>1
    <3>3. \A i \in 1..Len(v.early) : FALSE
      BY <3>2
    <3> QED BY <3>3
  <2> QED BY <2>1, <2>2, PeerEnds
<1>9. Good(h, net) /\ Goes(u, h, {}, {})
  BY <1>2, <1>7, <1>8, HandledGood
<1> HIDE DEF h
<1>10. h.st = "STARTED"
  BY <1>3, <1>9 DEF Goes
<1>11. Ready(e, v, h, net, {}, {})
  BY SelfReady
<1>12. Correct(u) <=> Correct(v)
  BY <1>3 DEF Correct
<1>13. Ready(e, u, h, net, {}, {})
  BY <1>1, <1>2, <1>3, <1>4, <1>5, <1>6, <1>11, <1>12 DEF Ready
<1>14. Kept(e, h, net)
  BY <1>9, <1>10, <1>13, GoesKept
<1>15. Fields \subseteq DOMAIN h
  BY <1>9 DEF Good, Typed
<1>16. CASE Becomes(e, z, net)
  <2>1. /\ Fields \subseteq DOMAIN z
        /\ z.end = h.end /\ z.role = h.role /\ z.st = h.st /\ z.nominating = h.nominating
        /\ z.chk = h.chk /\ z.valid = h.valid /\ z.vc = h.vc /\ z.nc = h.nc
        /\ z.comps = h.comps
        /\ z.early \in {h.early, << >>} /\ z.out = h.out /\ z.done = h.done
    BY <1>15 DEF Fields
  <2> HIDE DEF z
  <2>2. Kept(e, z, net)
    BY <1>14, <2>1, SameKept
  <2> QED BY <1>16, <2>2, StepKept
<1>17. CASE Becomes(e, stopped, net)
  <2>1. /\ Fields \subseteq DOMAIN stopped
        /\ stopped.end = h.end /\ stopped.role = h.role /\ stopped.st = "STOPPED"
        /\ stopped.nominating = h.nominating
        /\ stopped.chk = h.chk /\ stopped.valid = h.valid
        /\ stopped.vc = h.vc /\ stopped.nc = h.nc /\ stopped.comps = h.comps
        /\ stopped.early = << >> /\ stopped.out = h.out /\ stopped.done = h.done
    BY <1>15 DEF Stop, CancelTimer, Fields
  <2> HIDE DEF stopped
  <2>2. Kept(e, stopped, net)
    BY <1>1, <1>10, <1>14, <2>1, StoppedKept
  <2> QED BY <1>17, <2>2, StepKept
<1>18. CASE Becomes(e, Stop(v), net)
  <2>1. PICK y : y = Stop(v)
    OBVIOUS
  <2>2. /\ Fields \subseteq DOMAIN y
        /\ y.end = v.end /\ y.role = v.role /\ y.st = "STOPPED"
        /\ y.nominating = v.nominating
        /\ y.chk = v.chk /\ y.valid = v.valid
        /\ y.vc = v.vc /\ y.nc = v.nc /\ y.comps = v.comps
        /\ y.early = v.early /\ y.out = v.out /\ y.done = v.done
    BY <1>2, <2>1 DEF Stop, CancelTimer, Fields
  <2>3. Kept(e, v, net)
    BY <1>1, <1>2, SelfReady, GoesRefl, GoesKept
  <2>4. Kept(e, y, net)
    BY <1>1, <2>2, <2>3, StoppedKept
  <2> QED BY <1>18, <2>1, <2>4, StepKept
<1> QED BY <1>1, <1>16, <1>17, <1>18

(* start_periodic_check(): what is checked waits.                          *)
LEMMA PeriodicCheckKept ==
    ASSUME IInv, NEW e \in Ends, PeriodicCheck(e)
    PROVE  IInv'
<1> DEFINE v == ice[e]
<1>1. /\ v.end = e /\ v.out = {} /\ Good(v, net) /\ Typed(v)
      /\ Fields \subseteq DOMAIN v /\ (v.st = "NEW" => DOMAIN v.chk = {})
  BY DEF IInv, Sessions, Good, Typed
<1>2. CASE Becomes(e, [v EXCEPT !.periodic = FALSE], net)
  <2> DEFINE z == [v EXCEPT !.periodic = FALSE]
  <2>1. /\ Fields \subseteq DOMAIN z
        /\ z.end = v.end /\ z.role = v.role /\ z.st = v.st /\ z.nominating = v.nominating
        /\ z.chk = v.chk /\ z.valid = v.valid /\ z.vc = v.vc /\ z.nc = v.nc /\ z.comps = v.comps
        /\ z.early = v.early /\ z.out = v.out /\ z.done = v.done
    BY <1>1 DEF Fields
  <2> HIDE DEF z
  <2>2. Kept(e, z, net)
    BY <2>1, TimersKept
  <2> QED BY <1>2, <2>2, StepKept DEF z
<1>3. ASSUME NEW p \in DOMAIN v.chk, v.chk[p].state \in {"FROZEN", "WAITING"},
             Becomes(e, [Perform(v, p, v.nominating) EXCEPT !.periodic = ~Unsent(p)], net)
      PROVE  IInv'
  <2> DEFINE h == Perform(v, p, v.nominating)
             z == [h EXCEPT !.periodic = ~Unsent(p)]
  <2>1. Calm /\ v.role = "CONTROLLING" =>
          Idle(v, p) /\ (v.nominating <=> Marked(v, p) \/ v.nominating)
    <3>1. Idle(v, p) /\ p \in env.pairs
      BY <1>1, <1>3 DEF Idle, Typed
    <3> QED BY <1>1, <3>1 DEF Good, Nominates
  <2>2. v.nominating \in BOOLEAN
    BY <1>1 DEF Typed
  <2>3. Good(h, net) /\ Goes(v, h, {}, {})
    BY <1>1, <2>1, <2>2, PerformGood
  <2> HIDE DEF h
  <2>4. h.st # "NEW"
    BY <1>1, <2>3 DEF Goes
  <2>5. Kept(e, h, net)
    BY <2>3, <2>4, OperatorKept
  <2>6. Fields \subseteq DOMAIN h
    BY <2>3 DEF Good, Typed
  <2>7. /\ Fields \subseteq DOMAIN z
        /\ z.end = h.end /\ z.role = h.role /\ z.st = h.st /\ z.nominating = h.nominating
        /\ z.chk = h.chk /\ z.valid = h.valid /\ z.vc = h.vc /\ z.nc = h.nc /\ z.comps = h.comps
        /\ z.early \in {h.early, << >>} /\ z.out = h.out /\ z.done = h.done
    BY <2>6 DEF Fields
  <2> HIDE DEF z
  <2>8. Kept(e, z, net)
    BY <2>5, <2>7, SameKept
  <2> QED BY <1>3, <2>8, StepKept DEF z, h
<1> QED BY <1>2, <1>3 DEF PeriodicCheck

(* pj_timer_heap_poll() takes the entry from the heap.                     *)
LEMMA TimerPopKept ==
    ASSUME IInv, NEW e \in Ends, NEW t, TimerPop(e, t)
    PROVE  IInv'
<1> DEFINE v == ice[e]
           z == [v EXCEPT !.heap = FALSE, !.hand[t] = "POPPED"]
<1>1. Fields \subseteq DOMAIN v
  BY DEF IInv, Sessions, Good, Typed
<1>2. /\ Fields \subseteq DOMAIN z
      /\ z.end = v.end /\ z.role = v.role /\ z.st = v.st /\ z.nominating = v.nominating
      /\ z.chk = v.chk /\ z.valid = v.valid /\ z.vc = v.vc /\ z.nc = v.nc /\ z.comps = v.comps
      /\ z.early = v.early /\ z.out = v.out /\ z.done = v.done
  BY <1>1 DEF Fields
<1>3. Becomes(e, z, net)
  BY DEF TimerPop
<1> HIDE DEF z
<1>4. Kept(e, z, net)
  BY <1>2, TimersKept
<1> QED BY <1>3, <1>4, StepKept

(* on_timer(), before it has the lock.                                     *)
LEMMA TimerReadKept ==
    ASSUME IInv, NEW e \in Ends, NEW t, TimerRead(e, t)
    PROVE  IInv'
<1> DEFINE v == ice[e]
           z == [v EXCEPT !.hand[t] = v.timer]
<1>1. Fields \subseteq DOMAIN v
  BY DEF IInv, Sessions, Good, Typed
<1>2. /\ Fields \subseteq DOMAIN z
      /\ z.end = v.end /\ z.role = v.role /\ z.st = v.st /\ z.nominating = v.nominating
      /\ z.chk = v.chk /\ z.valid = v.valid /\ z.vc = v.vc /\ z.nc = v.nc /\ z.comps = v.comps
      /\ z.early = v.early /\ z.out = v.out /\ z.done = v.done
  BY <1>1 DEF Fields
<1>3. Becomes(e, z, net)
  BY DEF TimerRead
<1> HIDE DEF z
<1>4. Kept(e, z, net)
  BY <1>2, TimersKept
<1> QED BY <1>3, <1>4, StepKept

(* ... and when it has it.                                                 *)
LEMMA TimerRunKept ==
    ASSUME IInv, NEW e \in Ends, NEW t, TimerRun(e, t)
    PROVE  IInv'
<1> DEFINE u == ice[e]
           v == [u EXCEPT !.timer = "NONE", !.hand[t] = "IDLE"]
           kept == IF v.done = "ok" THEN Schedule(v, "KEEP_ALIVE") ELSE v
           told == [kept EXCEPT !.told = IF @ = 0 THEN 1 ELSE 2]
           again == Schedule(v, "KEEP_ALIVE")
<1>1. /\ Fields \subseteq DOMAIN u /\ Good(u, net) /\ World
      /\ u.st = "NEW" => DOMAIN u.chk = {}
      /\ u.done = "ok" => AllNominated(u)
  BY DEF IInv, Sessions, Good, Typed
<1>2. /\ Fields \subseteq DOMAIN v
      /\ v.end = u.end /\ v.role = u.role /\ v.st = u.st /\ v.nominating = u.nominating
      /\ v.chk = u.chk /\ v.valid = u.valid /\ v.vc = u.vc /\ v.nc = u.nc /\ v.comps = u.comps
      /\ v.early = u.early /\ v.out = u.out /\ v.done = u.done
  BY <1>1 DEF Fields
<1> DEFINE Same(z) ==
             /\ Fields \subseteq DOMAIN z
             /\ z.end = u.end /\ z.role = u.role /\ z.st = u.st /\ z.nominating = u.nominating
             /\ z.chk = u.chk /\ z.valid = u.valid /\ z.vc = u.vc /\ z.nc = u.nc
             /\ z.comps = u.comps
             /\ z.early = u.early /\ z.out = u.out /\ z.done = u.done
<1>3. Same(v) /\ Same(told) /\ Same(again)
  BY <1>1 DEF Schedule, Fields
<1>4. \/ Becomes(e, IceComplete(v, "failed"), net)
      \/ Becomes(e, StartNominated(v), net)
      \/ \E z : Same(z) /\ Becomes(e, z, net)
  <2> HIDE DEF Same
  <2>1. \/ Becomes(e, IceComplete(v, "failed"), net)
        \/ Becomes(e, StartNominated(v), net)
        \/ Becomes(e, v, net) \/ Becomes(e, told, net) \/ Becomes(e, again, net)
    BY DEF TimerRun
  <2> QED BY <1>3, <2>1
<1> HIDE DEF v, told, again
<1>5. Good(v, net) /\ Goes(u, v, {}, {})
  BY <1>1, <1>2, SameGood
<1>6. ASSUME NEW w, Good(w, net), Goes(v, w, {}, {}), DOMAIN w.chk = DOMAIN v.chk,
             Becomes(e, w, net)
      PROVE  IInv'
  <2>1. Goes(u, w, {} \cup {}, {})
    BY <1>1, <1>5, <1>6, GoesTrans DEF Good
  <2>2. {} \cup {} = {}
    OBVIOUS
  <2>3. w.st = "NEW" => DOMAIN w.chk = {}
    BY <1>1, <1>2, <1>6 DEF Goes
  <2>4. Kept(e, w, net)
    BY <1>6, <2>1, <2>2, <2>3, OperatorKept
  <2> QED BY <1>6, <2>4, StepKept
<1>7. /\ Good(IceComplete(v, "failed"), net) /\ Goes(v, IceComplete(v, "failed"), {}, {})
      /\ Good(StartNominated(v), net) /\ Goes(v, StartNominated(v), {}, {})
  BY <1>1, <1>5, IceCompleteGood, StartNominatedGood
<1>8. /\ DOMAIN IceComplete(v, "failed").chk = DOMAIN v.chk
      /\ DOMAIN StartNominated(v).chk = DOMAIN v.chk
  BY <1>2 DEF IceComplete, StartNominated, Schedule, CancelTimer, Fields
<1>9. ASSUME NEW z, Same(z), Becomes(e, z, net) PROVE IInv'
  BY <1>9, TimersKept, StepKept
<1> QED BY <1>4, <1>6, <1>7, <1>8, <1>9

(* The STUN transaction of a check gives up.                               *)
LEMMA TimeoutKept ==
    ASSUME IInv, NEW e \in Ends, NEW p, Timeout(e, p)
    PROVE  IInv'
<1> DEFINE v == ice[e]
           w == Fail(v, p)
           own == {m \in net : m.p = p /\ (m.k = "REQUEST") # (m.to = e)}
           rest == net \ own
<1>1. p \in DOMAIN v.chk /\ Becomes(e, w, rest)
  BY DEF Timeout
<1>2. rest \in SUBSET net
  OBVIOUS
<1> HIDE DEF rest
<1>3. Good(v, rest) /\ World
  BY <1>2, SelfReady DEF IInv
<1>4. Good(w, rest) /\ Goes(v, w, {}, {})
  BY <1>1, <1>3, FailGood
<1>5. w.st # "NEW"
  BY <1>1, <1>4 DEF Goes, IInv, Sessions
<1> HIDE DEF w
<1>6. Kept(e, w, rest)
  BY <1>2, <1>4, <1>5, OperatorKept
<1> QED BY <1>1, <1>6, StepKept

(* A packet that finds no session.                                         *)
LEMMA DroppedKept ==
    ASSUME IInv, NEW e \in Ends, NEW m \in net, Becomes(e, ice[e], net \ {m})
    PROVE  IInv'
<1> DEFINE rest == net \ {m}
<1>1. rest \in SUBSET net /\ (ice[e].st = "NEW" => DOMAIN ice[e].chk = {})
  BY DEF IInv, Sessions
<1> HIDE DEF rest
<1>2. Kept(e, ice[e], rest)
  BY <1>1, SelfReady, GoesRefl, GoesKept
<1> QED BY <1>2, StepKept DEF rest

(* on_stun_request_complete(): a success comes from an end that took the   *)
(* request, so the roles of both are right; a 487 corrects the role.       *)
LEMMA ResponseKept ==
    ASSUME IInv, NEW e \in Ends, NEW m \in net, m.to = e, m.k # "REQUEST",
           Becomes(e, Response(ice[e], m), net \ {m})
    PROVE  IInv'
<1> DEFINE v == ice[e]
           p == ice[Peer(e)]
           rest == net \ {m}
<1>1. /\ v.end = e /\ v.out = {} /\ Good(v, net) /\ Typed(v) /\ v.early \in Seq(Early)
      /\ Fields \subseteq DOMAIN v /\ (v.st = "NEW" => DOMAIN v.chk = {})
      /\ p.end = Peer(e) /\ World
  BY PeerEnds DEF IInv, Sessions, Good, Typed
<1>2. m \in Message /\ Shows(m, v, p)
  BY DEF IInv, Sessions
<1>3. m.p \in DOMAIN v.chk \cap env.open /\ m.p \in env.pairs /\ v.st # "NEW"
      /\ m.k \in {"OK", "487"}
  BY <1>1, <1>2 DEF Message, Shows, World
<1>4. rest \in SUBSET net
  OBVIOUS
<1> HIDE DEF rest
<1>5. Good(v, rest)
  BY <1>4, SelfReady
<1>6. CASE v.chk[m.p].state \notin {"PROGRESS", "WAITING"}
  <2>1. Response(v, m) = v
    BY <1>6 DEF Response
  <2>2. Kept(e, v, rest)
    BY <1>3, <1>4, <1>5, GoesRefl, OperatorKept
  <2> QED BY <2>1, <2>2, StepKept DEF rest
<1>7. CASE v.chk[m.p].state \in {"PROGRESS", "WAITING"} /\ m.k = "OK"
  <2> DEFINE w == Succeed(v, m.p)
  <2>1. Response(v, m) = w
    BY <1>7 DEF Response
  <2>2. ASSUME Calm, v.role = "CONTROLLING"
        PROVE  /\ ~Marked(v, m.p) =>
                    ~Idle(v, m.p) /\ \A n \in rest \cup v.out : ~About(n, v.end, m.p)
               /\ Marked(v, m.p) => m.uc
    <3>1. Nominates(v, net)
      <4>1. net \cup v.out = net
        BY <1>1
      <4> QED BY <1>1, <2>2, <4>1 DEF Good
    <3>2. About(m, v.end, m.p)
      BY <1>1, <1>7 DEF About
    <3>3. rest \cup v.out = net \ {m}
      BY <1>1 DEF rest
    <3> QED BY <1>3, <3>1, <3>2, <3>3 DEF Nominates
  <2>3. Good(w, rest) /\ Goes(v, w, {}, {m.p})
    BY <1>1, <1>3, <1>5, <1>7, <2>2, SucceedGood
  <2> HIDE DEF w
  <2>4. Ready(e, v, w, rest, {}, {})
    BY <1>4, SelfReady
  <2>5. Correct(v)
    BY <1>2, <1>7 DEF Shows
  <2>6. Calm /\ e = "caller" => (Marked(v, m.p) => Marked(p, m.p))
    BY <1>2, <1>7, <2>2, CalmRoles DEF Shows
  <2>7. Ready(e, v, w, rest, {}, {m.p})
    BY <2>4, <2>5, <2>6 DEF Ready
  <2>8. w.st # "NEW"
    BY <1>3, <2>3 DEF Goes
  <2>9. Kept(e, w, rest)
    BY <2>3, <2>7, <2>8, GoesKept
  <2> QED BY <2>1, <2>9, StepKept DEF rest
<1>8. CASE v.chk[m.p].state \in {"PROGRESS", "WAITING"} /\ m.k = "487"
  <2> DEFINE w == Conflict(v, m)
             u == [v EXCEPT !.role = IF m.ctl THEN "CONTROLLED" ELSE "CONTROLLING"]
  <2>1. Response(v, m) = w
    BY <1>8 DEF Response
  <2>2. ~Calm /\ m.ctl = (env.greater = p.end)
    BY <1>2, <1>8 DEF Shows
  <2>3. Good(u, rest) /\ Good(w, rest) /\ Goes(u, w, {}, {})
    BY <1>1, <1>3, <1>5, <2>2, ConflictGood
  <2>4. /\ u.end = e /\ u.st = v.st /\ u.chk = v.chk /\ u.valid = v.valid
        /\ u.early = v.early /\ u.out = v.out
        /\ u.role = IF m.ctl THEN "CONTROLLED" ELSE "CONTROLLING"
    BY <1>1 DEF Fields
  <2> HIDE DEF u, w
  <2>5. Correct(u)
    BY <1>1, <2>2, <2>4, PeerEnds DEF Correct, World
  <2>6. Ready(e, v, w, rest, {}, {})
    BY <1>4, SelfReady
  <2>7. Ready(e, u, w, rest, {}, {})
    <3>1. \A q : Marked(u, q) <=> Marked(v, q)
      BY <2>4 DEF Marked
    <3> QED BY <2>2, <2>3, <2>4, <2>5, <2>6, <3>1 DEF Ready, Good
  <2>8. w.st # "NEW"
    BY <1>3, <2>3, <2>4 DEF Goes
  <2>9. Kept(e, w, rest)
    BY <2>3, <2>7, <2>8, GoesKept
  <2> QED BY <2>1, <2>9, StepKept DEF rest
<1> QED BY <1>3, <1>6, <1>7, <1>8

(* A session u that has answered the request m with a success and that an  *)
(* operator turns into w: the answer stands for the request in what shows  *)
(* that the other end nominates.                                           *)
LEMMA AnsweredReady ==
    ASSUME IInv, NEW e \in Ends, NEW m \in net, m.to = e, m.k = "REQUEST",
           Correct(ice[Peer(e)]),
           NEW u, Fields \subseteq DOMAIN u, u.role \in Roles,
           u.end = e, u.st = ice[e].st, u.nominating = ice[e].nominating,
           u.chk = ice[e].chk, u.valid = ice[e].valid, u.vc = ice[e].vc, u.nc = ice[e].nc, u.comps = ice[e].comps,
           u.done = ice[e].done,
           u.out = {[k |-> "OK", to |-> Peer(e), p |-> m.p, uc |-> m.uc, ctl |-> m.ctl]},
           Correct(ice[e]) => u.role = ice[e].role,
           u.early \in Seq(Early),
           Calm /\ e = "callee" => u.early = << >>,
           Calm /\ e = "caller" => \A i \in 1..Len(u.early) : ~u.early[i].uc
    PROVE  /\ Good(u, net \ {m})
           /\ \A w : w.end = e /\ (Calm /\ m.uc => Marked(w, m.p)) =>
                Ready(e, u, w, net \ {m}, Given(m.p, m.uc), {})
<1> DEFINE v == ice[e]
           p == ice[Peer(e)]
           rest == net \ {m}
           ok == [k |-> "OK", to |-> Peer(e), p |-> m.p, uc |-> m.uc, ctl |-> m.ctl]
<1>1. /\ v.end = e /\ v.out = {} /\ Good(v, net) /\ Typed(v)
      /\ p.end = Peer(e) /\ World /\ p.out = {} /\ Good(p, net)
  BY PeerEnds DEF IInv, Sessions, Good
<1>2. m \in Message /\ Shows(m, v, p)
  BY DEF IInv, Sessions
<1>3. ok \in Message /\ m.p \in env.pairs
  BY <1>1, <1>2, PeerEnds DEF Message, World
<1>4. \A q : (Marked(u, q) <=> Marked(v, q)) /\ (Idle(u, q) <=> Idle(v, q))
  BY DEF Marked, Idle
<1>5. Typed(u)
  <2>1. AllNominated(u) <=> AllNominated(v)
    BY DEF AllNominated
  <2> QED BY <1>1, <2>1 DEF Typed
<1>6. ASSUME Calm, u.role = "CONTROLLING" PROVE Nominates(u, rest \cup u.out)
  <2>1. e = "caller" /\ v.role = "CONTROLLING"
    BY <1>6, CalmRoles
  <2>2. Nominates(v, net)
    <3>1. net \cup {} = net
      OBVIOUS
    <3> QED BY <1>1, <1>6, <2>1, <3>1 DEF Good
  <2>3. \A q : ~About(ok, v.end, q)
    BY <1>1, PeerEnds DEF About
  <2>4. \A n \in rest \cup u.out : n \in net \/ n = ok
    OBVIOUS
  <2>5. \A q, n : About(n, u.end, q) <=> About(n, v.end, q)
    BY <1>1
  <2> HIDE DEF ok, rest
  <2> QED BY <1>4, <2>2, <2>3, <2>4, <2>5 DEF Nominates
<1>7. Good(u, rest)
  BY <1>5, <1>6 DEF Good
<1> SUFFICES ASSUME NEW w, w.end = e, Calm /\ m.uc => Marked(w, m.p)
             PROVE  Ready(e, u, w, rest, Given(m.p, m.uc), {})
  BY <1>7
<1>8. Shows(ok, p, w)
  <2>1. ok.k = "OK" /\ ok.p = m.p /\ ok.uc = m.uc
    OBVIOUS
  <2>2. m.p \in DOMAIN p.chk
    BY <1>2 DEF Shows
  <2>3. Calm /\ m.uc => p.end = "caller"
    BY <1>2 DEF Shows
  <2> QED BY <2>1, <2>2, <2>3 DEF Shows
<1>9. ASSUME Calm, e = "callee"
      PROVE  /\ Nominates(p, rest \cup u.out)
             /\ \A q \in Given(m.p, m.uc) : Marked(p, q)
  <2>1. p.role = "CONTROLLING" /\ p.end = "caller" /\ Peer(p.end) = e
    BY <1>1, <1>9, CalmRoles, PeerEnds
  <2>2. Nominates(p, net)
    <3>1. net \cup {} = net
      OBVIOUS
    <3> QED BY <1>1, <1>9, <2>1, <3>1 DEF Good
  <2>3. \A q : About(ok, p.end, q) <=> About(m, p.end, q)
    BY <1>1, <2>1, PeerEnds DEF About
  <2>4. ok.uc = m.uc
    OBVIOUS
  <2>5. \A n \in rest \cup u.out : n = ok \/ (n \in net /\ n # m)
    OBVIOUS
  <2>6. m \in net
    OBVIOUS
  <2> HIDE DEF ok, rest
  <2>7. Nominates(p, rest \cup u.out)
    <3> SUFFICES ASSUME NEW q \in env.pairs
                 PROVE  /\ Marked(p, q) =>
                             /\ p.nominating
                             /\ \A n \in rest \cup u.out : About(n, p.end, q) => n.uc
                        /\ ~Marked(p, q) =>
                             /\ \A n, o \in rest \cup u.out :
                                  About(n, p.end, q) /\ About(o, p.end, q) => n = o
                             /\ q \notin DOMAIN p.chk \/ Idle(p, q) \/ q \in DOMAIN p.valid
                                  => \A n \in rest \cup u.out : ~About(n, p.end, q)
                        /\ Idle(p, q) /\ q \in DOMAIN p.valid => p.nominating
      BY DEF Nominates
    <3>1. /\ Marked(p, q) => /\ p.nominating
                             /\ \A n \in net : About(n, p.end, q) => n.uc
          /\ ~Marked(p, q) => /\ \A n, o \in net : About(n, p.end, q) /\ About(o, p.end, q) => n = o
                              /\ q \notin DOMAIN p.chk \/ Idle(p, q) \/ q \in DOMAIN p.valid
                                 => \A n \in net : ~About(n, p.end, q)
          /\ Idle(p, q) /\ q \in DOMAIN p.valid => p.nominating
      BY <2>2 DEF Nominates
    <3>2. \A n \in rest \cup u.out : About(n, p.end, q) => n.uc \/ ~Marked(p, q)
      BY <2>3, <2>4, <2>5, <2>6, <3>1
    <3>3. ASSUME ~Marked(p, q)
          PROVE  \A n, o \in rest \cup u.out : About(n, p.end, q) /\ About(o, p.end, q) => n = o
      BY <2>3, <2>5, <2>6, <3>1, <3>3
    <3>4. ASSUME ~Marked(p, q), q \notin DOMAIN p.chk \/ Idle(p, q) \/ q \in DOMAIN p.valid
          PROVE  \A n \in rest \cup u.out : ~About(n, p.end, q)
      BY <2>3, <2>5, <2>6, <3>1, <3>4
    <3> QED BY <3>1, <3>2, <3>3, <3>4
  <2>8. \A q \in Given(m.p, m.uc) : q = m.p /\ m.uc
    BY DEF Given
  <2>9. m.uc => Marked(p, m.p)
    BY <1>2, <1>9 DEF Shows
  <2> QED BY <2>7, <2>8, <2>9
<1>10. /\ Correct(v) => Correct(u)
       /\ Correct(u) \/ (~Calm /\ DOMAIN u.valid \cup {} = {})
  <2>1. Correct(v) \/ (~Calm /\ DOMAIN v.valid = {})
    BY DEF IInv, RolesOk
  <2>2. Correct(v) => Correct(u)
    BY <1>1 DEF Correct
  <2> QED BY <2>1, <2>2
<1>11. \A n \in u.out : n \in Message /\ n.to = Peer(e) /\ Shows(n, p, w)
  BY <1>3, <1>8
<1>12. rest \subseteq net /\ DOMAIN u.chk = DOMAIN v.chk
  OBVIOUS
<1> HIDE DEF rest
<1>13. Ready(e, u, w, rest, Given(m.p, m.uc), {})
  BY <1>4, <1>5, <1>9, <1>10, <1>11, <1>12 DEF Ready
<1> QED BY <1>13 DEF rest

(* on_stun_rx_request(): a wrong end corrects its role or is corrected by  *)
(* a 487, and only an end in the right role is answered with a success.    *)
LEMMA RequestKept ==
    ASSUME IInv, NEW e \in Ends, NEW m \in net, m.to = e, m.k = "REQUEST",
           Becomes(e, Request(ice[e], m), net \ {m})
    PROVE  IInv'
<1> DEFINE v == ice[e]
           p == ice[Peer(e)]
           rest == net \ {m}
           ctl == v.role = "CONTROLLING"
           wins == env.greater = v.end
           x == IF ctl = m.ctl /\ ctl # wins THEN [v EXCEPT !.role = Other(@)] ELSE v
           r == Send(x, "OK", m.p, m.uc, m.ctl)
           appended == [r EXCEPT !.early = Append(@, [p |-> m.p, uc |-> m.uc])]
           ok == [k |-> "OK", to |-> Peer(e), p |-> m.p, uc |-> m.uc, ctl |-> m.ctl]
<1>1. /\ v.end = e /\ v.out = {} /\ Good(v, net) /\ Typed(v) /\ v.early \in Seq(Early)
      /\ Fields \subseteq DOMAIN v /\ v.role \in Roles /\ (v.st = "NEW" => DOMAIN v.chk = {})
      /\ p.end = Peer(e) /\ World
  BY PeerEnds DEF IInv, Sessions, Good, Typed
<1>2. m \in Message /\ Shows(m, v, p)
  BY DEF IInv, Sessions
<1>3. /\ m.p \in DOMAIN p.chk /\ m.p \in env.open /\ m.p \in env.pairs
      /\ m.uc \in BOOLEAN /\ m.ctl \in BOOLEAN
  BY <1>1, <1>2 DEF Message, Shows, World
<1>4. Calm => /\ Correct(v) /\ m.ctl = (env.greater = p.end)
              /\ m.uc => e = "callee"
              /\ e = "callee" => v.st = "STARTED"
              /\ v.role = "CONTROLLING" => ~m.uc
  BY <1>1, <1>2, CalmRoles, PeerEnds DEF Shows
<1>5. Correct(v) \/ Correct(p)
  BY PeerEnds DEF IInv, RolesOk
<1>6. rest \in SUBSET net
  OBVIOUS
<1>7. CASE ctl = m.ctl /\ ctl = wins
  <2> DEFINE w == Send(v, "487", m.p, m.uc, m.ctl)
             msg == [k |-> "487", to |-> Peer(e), p |-> m.p, uc |-> m.uc, ctl |-> m.ctl]
  <2>1. Request(v, m) = w
    BY <1>7 DEF Request
  <2>2. /\ Fields \subseteq DOMAIN w
        /\ w.end = v.end /\ w.role = v.role /\ w.st = v.st /\ w.nominating = v.nominating
        /\ w.chk = v.chk /\ w.valid = v.valid /\ w.vc = v.vc /\ w.nc = v.nc /\ w.comps = v.comps
        /\ w.early = v.early /\ w.done = v.done /\ w.out = {msg}
    BY <1>1, <1>3 DEF Send, Fields
  <2>3. ~Calm
    BY <1>1, <1>4, <1>7, PeerEnds DEF World
  <2>4. Good(w, rest)
    <3> HIDE DEF w, msg
    <3>1. AllNominated(w) <=> AllNominated(v)
      BY <2>2 DEF AllNominated
    <3>2. Typed(w)
      BY <1>1, <2>2, <3>1 DEF Typed
    <3> QED BY <2>3, <3>2 DEF Good
  <2>5. msg \in Message /\ msg.to = Peer(e) /\ Shows(msg, p, w)
    <3>1. msg \in Message
      BY <1>3, PeerEnds DEF Message
    <3>2. m.ctl = (env.greater = e)
      BY <1>1, <1>7
    <3> QED BY <1>1, <1>3, <2>2, <2>3, <3>1, <3>2 DEF Shows
  <2> HIDE DEF w, msg
  <2>6. Ready(e, v, w, rest, {}, {})
    BY <1>6, SelfReady
  <2>7. Ready(e, w, w, rest, {}, {})
    <3>1. \A q : Marked(w, q) <=> Marked(v, q)
      BY <2>2 DEF Marked
    <3>2. Correct(w) <=> Correct(v)
      BY <2>2 DEF Correct
    <3> QED BY <2>2, <2>3, <2>4, <2>5, <2>6, <3>1, <3>2 DEF Ready, Good
  <2>8. w.st = "NEW" => DOMAIN w.chk = {}
    BY <1>1, <2>2
  <2>9. Kept(e, w, rest)
    BY <2>4, <2>7, <2>8, GoesRefl, GoesKept
  <2> QED BY <2>1, <2>9, StepKept DEF rest
<1>8. CASE ~(ctl = m.ctl /\ ctl = wins)
  <2>1. Request(v, m) = IF v.st = "NEW" THEN appended ELSE Incoming(r, m.p, m.uc)
    BY <1>8 DEF Request
  <2>2. Correct(p)
    <3>1. CASE ~Correct(v)
      BY <1>5, <3>1
    <3>2. CASE Correct(v)
      <4>1. ctl = wins /\ ctl # m.ctl
        BY <1>8, <3>2 DEF Correct
      <4>2. m.ctl = (env.greater = p.end)
        BY <1>1, <1>3, <4>1, PeerEnds DEF World
      <4> QED BY <1>2, <4>2 DEF Shows
    <3> QED BY <3>1, <3>2
  <2>3. Correct(v) => x = v
    BY <1>8 DEF Correct
  <2>4. /\ Fields \subseteq DOMAIN x /\ x.role \in Roles
        /\ x.end = v.end /\ x.st = v.st /\ x.nominating = v.nominating
        /\ x.chk = v.chk /\ x.valid = v.valid /\ x.vc = v.vc /\ x.nc = v.nc /\ x.comps = v.comps
        /\ x.early = v.early /\ x.done = v.done /\ x.out = {}
    BY <1>1 DEF Fields, Roles, Other
  <2> HIDE DEF x
  <2>5. /\ Fields \subseteq DOMAIN r /\ r.role \in Roles
        /\ r.end = e /\ r.st = v.st /\ r.nominating = v.nominating
        /\ r.chk = v.chk /\ r.valid = v.valid /\ r.vc = v.vc /\ r.nc = v.nc /\ r.comps = v.comps
        /\ r.early = v.early /\ r.done = v.done /\ r.out = {ok}
        /\ Correct(v) => r.role = v.role
    BY <1>1, <1>3, <2>3, <2>4 DEF Send, Fields
  <2> HIDE DEF r
  <2>6. /\ Calm /\ e = "callee" => v.early = << >>
        /\ Calm /\ e = "caller" => \A i \in 1..Len(v.early) : ~v.early[i].uc
    BY DEF IInv, Nominated
  <2>7. CASE v.st # "NEW"
    <3> DEFINE w == Incoming(r, m.p, m.uc)
    <3>1. /\ Good(r, rest)
          /\ w.end = e /\ (Calm /\ m.uc => Marked(w, m.p)) =>
               Ready(e, r, w, rest, Given(m.p, m.uc), {})
      <4> HIDE DEF w
      <4> QED BY <1>1, <2>2, <2>5, <2>6, AnsweredReady
    <3>2. Calm /\ r.role = "CONTROLLING" => ~m.uc
      BY <1>4, <2>5
    <3>3. /\ Good(w, rest) /\ Goes(r, w, Given(m.p, m.uc), {})
          /\ Calm /\ m.uc => Marked(w, m.p)
      <4>1. Calm /\ m.uc => m.p \in DOMAIN r.chk
        BY <1>3, <1>4, <2>5, <2>7 DEF IInv, Sessions
      <4>2. m.p \in DOMAIN r.chk => m.p.comp \in CompsOf(DOMAIN r.chk)
        BY DEF CompsOf
      <4> QED BY <1>1, <1>3, <3>1, <3>2, <4>1, <4>2, IncomingGood
    <3> HIDE DEF w, rest
    <3>4. w.end = e /\ w.st = v.st
      BY <2>5, <3>3 DEF Goes
    <3>5. Ready(e, r, w, rest, Given(m.p, m.uc), {})
      BY <3>1, <3>3, <3>4
    <3>6. Kept(e, w, rest)
      BY <2>7, <3>3, <3>4, <3>5, GoesKept
    <3> QED BY <2>1, <2>7, <3>6, StepKept DEF w, rest
  <2>8. CASE v.st = "NEW"
    <3> DEFINE w == appended
               last == [p |-> m.p, uc |-> m.uc]
    <3>1. /\ Fields \subseteq DOMAIN w /\ w.role \in Roles
          /\ w.end = e /\ w.st = v.st /\ w.nominating = v.nominating
          /\ w.chk = v.chk /\ w.valid = v.valid /\ w.vc = v.vc /\ w.nc = v.nc /\ w.comps = v.comps
          /\ w.early = Append(v.early, last) /\ w.done = v.done /\ w.out = {ok}
          /\ Correct(v) => w.role = v.role
      BY <2>5 DEF Fields
    <3> HIDE DEF w
    <3>2. last \in Early
      BY <1>3 DEF Early
    <3>3. /\ w.early \in Seq(Early)
          /\ Len(w.early) = Len(v.early) + 1
          /\ \A i \in 1..Len(w.early) : w.early[i] = IF i = Len(v.early) + 1 THEN last ELSE v.early[i]
          /\ Len(v.early) \in Nat
      <4> HIDE DEF last
      <4> QED BY <1>1, <3>1, <3>2
    <3>4. Calm => e = "caller" /\ ~m.uc
      BY <1>4, <2>8, PeerEnds
    <3>5. Calm => \A i \in 1..Len(w.early) : ~w.early[i].uc
      <4>1. last.uc = m.uc
        OBVIOUS
      <4> HIDE DEF last
      <4>2. ASSUME Calm, NEW i \in 1..Len(w.early) PROVE ~w.early[i].uc
        <5>1. i = Len(v.early) + 1 \/ i \in 1..Len(v.early)
          BY <3>3
        <5> QED BY <2>6, <3>3, <3>4, <4>1, <4>2, <5>1
      <4> QED BY <4>2
    <3>6. Good(w, rest) /\ Ready(e, w, w, rest, Given(m.p, m.uc), {})
      BY <2>2, <3>1, <3>3, <3>4, <3>5, PeerEnds, AnsweredReady
    <3>7. w.st = "NEW" => DOMAIN w.chk = {}
      BY <1>1, <3>1
    <3>8. Goes(w, w, Given(m.p, m.uc), {})
      BY GoesRefl DEF Goes
    <3>9. Kept(e, w, rest)
      BY <3>6, <3>7, <3>8, GoesKept
    <3> QED BY <2>1, <2>8, <3>9, StepKept DEF w, rest
  <2> QED BY <2>7, <2>8
<1> QED BY <1>7, <1>8

-----------------------------------------------------------------------------
(* The specification.                                                      *)

(* A session as it begins shows nothing, and nothing is under way.         *)
LEMMA InitGood ==
    ASSUME Init PROVE IInv
<1>1. PICK ps \in Lists : env \in [pairs : {ps}, open : SUBSET ps, fault : Faults \cup {"none"},
                                   pair : ps, greater : Ends]
  BY DEF Init
<1>2. World
  <2>1. /\ env.pairs = ps /\ env.open \subseteq ps /\ env.greater \in Ends
        /\ Calm => env.greater = "caller"
    BY <1>1 DEF Init, Calm
  <2> QED BY <2>1, IceAssumption DEF World
<1>3. PICK r \in Roles, a \in Modes :
        /\ env.fault = "conflict" \/ r = "CONTROLLING"
        /\ ice = [e \in Ends |->
                    New(e, IF e = "caller" \/ env.fault = "conflict" THEN r ELSE Other(r), a)]
  BY DEF Init
<1>4. ASSUME NEW e \in Ends
      PROVE  /\ Fields \subseteq DOMAIN ice[e]
             /\ ice[e].end = e /\ ice[e].out = {} /\ ice[e].early = << >>
             /\ ice[e].st = "NEW" /\ ice[e].done = "no" /\ ice[e].nominating \in BOOLEAN
             /\ ice[e].role \in Roles /\ ice[e].comps = Comps
             /\ DOMAIN ice[e].chk = {} /\ DOMAIN ice[e].valid = {}
             /\ DOMAIN ice[e].vc = Comps /\ DOMAIN ice[e].nc = Comps
             /\ \A c \in Comps : ice[e].vc[c] = None /\ ice[e].nc[c] = None
             /\ ice[e].role = IF e = "caller" \/ ~Calm THEN r ELSE Other(r)
  <2> DEFINE role == IF e = "caller" \/ ~Calm THEN r ELSE Other(r)
  <2>1. ice[e] = New(e, role, a)
    BY <1>3 DEF Calm
  <2>2. role \in Roles
    BY DEF Roles, Other
  <2> HIDE DEF role
  <2>3. /\ Fields \subseteq DOMAIN New(e, role, a)
        /\ New(e, role, a).end = e /\ New(e, role, a).out = {} /\ New(e, role, a).early = << >>
        /\ New(e, role, a).st = "NEW" /\ New(e, role, a).done = "no"
        /\ New(e, role, a).nominating = FALSE /\ New(e, role, a).role = role
        /\ New(e, role, a).comps = Comps
        /\ New(e, role, a).chk = << >> /\ New(e, role, a).valid = << >>
        /\ New(e, role, a).vc = [c \in Comps |-> None]
        /\ New(e, role, a).nc = [c \in Comps |-> None]
    BY DEF New, Fields
  <2>4. DOMAIN << >> = {}
    OBVIOUS
  <2>5. /\ DOMAIN New(e, role, a).chk = {} /\ DOMAIN New(e, role, a).valid = {}
        /\ DOMAIN New(e, role, a).vc = Comps /\ DOMAIN New(e, role, a).nc = Comps
        /\ \A c \in Comps : New(e, role, a).vc[c] = None /\ New(e, role, a).nc[c] = None
    BY <2>3, <2>4
  <2>6. ice[e].role = role
    BY <2>1, <2>3
  <2>7. ice[e].role = IF e = "caller" \/ ~Calm THEN r ELSE Other(r)
    BY <2>6 DEF role
  <2> QED BY <2>1, <2>2, <2>3, <2>5, <2>7
<1>5. net = {} /\ DOMAIN ice = Ends
  BY <1>3 DEF Init
<1>6. \A e \in Ends : \A p : ~Marked(ice[e], p) /\ ~Idle(ice[e], p)
  BY <1>4 DEF Marked, Idle
<1>7. ASSUME NEW e \in Ends PROVE Good(ice[e], net)
  <2>1. Typed(ice[e])
    <3>1. Comps # {}
      BY <1>2 DEF World, Comps, CompsOf
    <3> QED BY <1>4, <3>1 DEF Typed
  <2>2. net \cup ice[e].out = {}
    BY <1>4, <1>5
  <2>3. Nominates(ice[e], {})
    BY <1>4, <1>6 DEF Nominates
  <2> QED BY <2>1, <2>2, <2>3 DEF Good
<1>8. Sessions
  <2>1. << >> \in Seq(Early) /\ {} \subseteq Message
    OBVIOUS
  <2> QED BY <1>4, <1>5, <1>7, <2>1, PeerEnds DEF Sessions
<1>9. RolesOk
  <2>1. CASE Calm
    <3>1. /\ ice["caller"].role = "CONTROLLING" /\ ice["callee"].role = "CONTROLLED"
          /\ env.greater = "caller"
      BY <1>2, <1>3, <1>4, <2>1, PeerEnds DEF Calm, Other, World
    <3>2. \A e \in Ends : Correct(ice[e])
      BY <1>4, <3>1, PeerEnds DEF Correct
    <3> QED BY <3>2, PeerEnds DEF RolesOk
  <2>2. CASE ~Calm
    <3>1. ice["caller"].role = r /\ ice["callee"].role = r
      BY <1>4, <2>2, PeerEnds
    <3>2. Correct(ice["caller"]) \/ Correct(ice["callee"])
      BY <1>2, <1>4, <3>1, PeerEnds DEF Correct, World
    <3> QED BY <1>4, <2>2, <3>2, PeerEnds DEF RolesOk
  <2> QED BY <2>1, <2>2
<1>10. Nominated
  <2>1. \A i \in 1..Len(ice["caller"].early) : FALSE
    <3>1. Len(ice["caller"].early) = 0
      BY <1>4, PeerEnds
    <3> QED BY <3>1
  <2> QED BY <1>4, <1>6, <2>1, PeerEnds DEF Nominated
<1> QED BY <1>2, <1>5, <1>8, <1>9, <1>10 DEF IInv

(* Each step keeps the invariant.                                          *)
LEMMA StepInv == IInv /\ [Next]_vars => IInv'
<1> SUFFICES ASSUME IInv, [Next]_vars PROVE IInv'
  OBVIOUS
<1>1. ASSUME NEW e \in Ends, CreateCheckList(e) PROVE IInv'
  BY <1>1, CreateCheckListKept
<1>2. ASSUME NEW e \in Ends, StartCheck(e) PROVE IInv'
  BY <1>2, StartCheckKept
<1>3. ASSUME NEW e \in Ends, PeriodicCheck(e) PROVE IInv'
  BY <1>3, PeriodicCheckKept
<1>4. ASSUME NEW e \in Ends, NEW w \in Workers, TimerPop(e, w) \/ TimerRead(e, w) PROVE IInv'
  BY <1>4, TimerPopKept, TimerReadKept
<1>5. ASSUME NEW e \in Ends, NEW w \in Workers, TimerRun(e, w) PROVE IInv'
  BY <1>5, TimerRunKept
<1>6. ASSUME NEW e \in Ends, NEW m \in net, Receive(e, m) PROVE IInv'
  <2>1. m.to = e
    BY <1>6 DEF Receive
  <2>4. CASE Deaf(ice[e], m.p)
    BY <1>6, <2>1, <2>4, DroppedKept DEF Receive
  <2>2. CASE ~Deaf(ice[e], m.p) /\ m.k = "REQUEST"
    <3>1. Becomes(e, Request(ice[e], m), net \ {m})
      BY <1>6, <2>2 DEF Receive
    <3> QED BY <2>1, <2>2, <3>1, RequestKept
  <2>3. CASE ~Deaf(ice[e], m.p) /\ m.k # "REQUEST"
    <3>1. Becomes(e, Response(ice[e], m), net \ {m})
      BY <1>6, <2>3 DEF Receive
    <3> QED BY <2>1, <2>3, <3>1, ResponseKept
  <2> QED BY <2>2, <2>3, <2>4
<1>7. ASSUME NEW e \in Ends, NEW p, Timeout(e, p) PROVE IInv'
  BY <1>7, TimeoutKept
<1>8. CASE UNCHANGED vars
  <2> USE <1>8 DEF vars
  <2>1. World' /\ (Calm' <=> Calm) /\ Comps' = Comps /\ Message' = Message /\ Early' = Early
    BY DEF IInv, World, Calm, Comps, CompsOf, Message, Early
  <2>2. /\ \A x : (Typed(x)' <=> Typed(x)) /\ (Correct(x)' <=> Correct(x))
        /\ \A x, ms : Nominates(x, ms)' <=> Nominates(x, ms)
        /\ \A m, x, y : Shows(m, x, y)' <=> Shows(m, x, y)
    BY <2>1 DEF Typed, AllNominated, Correct, Nominates, Shows, Marked, Idle, About
  <2>3. \A x, ms : Good(x, ms)' <=> Good(x, ms)
    BY <2>1, <2>2 DEF Good
  <2>4. Sessions' /\ RolesOk'
    BY <2>1, <2>2, <2>3 DEF IInv, Sessions, RolesOk
  <2>5. \A m \in net' : Shows(m, ice[m.to], ice[Peer(m.to)])'
    BY <2>1, <2>2 DEF IInv
  <2>6. Calm => Nominated'
    BY DEF IInv, Nominated, Marked
  <2> QED BY <2>1, <2>4, <2>5, <2>6 DEF IInv
<1> QED BY <1>1, <1>2, <1>3, <1>4, <1>5, <1>6, <1>7, <1>8 DEF Next, Step

(* The invariant holds in every behaviour.                                 *)
THEOREM SessionsSound == Spec => []IInv
<1>1. Init => IInv
  BY InitGood
<1> QED BY <1>1, StepInv, PTL DEF Spec

(* A session that has succeeded has a nominated pair of each component.    *)
LEMMA DoneValid ==
    ASSUME World, NEW v, Typed(v), v.done = "ok", NEW c \in v.comps
    PROVE  v.nc[c] \in DOMAIN v.valid /\ v.valid[v.nc[c]] /\ Marked(v, v.nc[c])
BY DEF Typed, AllNominated, Marked

(* Two sessions that succeed are not both controlling or both controlled,  *)
(* whichever roles they started in and however requests and 487s crossed.  *)
THEOREM RolesSettled == Spec => []OneController
<1>1. IInv => OneController
  <2> SUFFICES ASSUME IInv, Succeeded PROVE ice["caller"].role # ice["callee"].role
    BY DEF OneController
  <2>1. World
    BY DEF IInv
  <2>2. ASSUME NEW e \in Ends PROVE Correct(ice[e]) /\ ice[e].end = e /\ ice[e].role \in Roles
    <3>1. Typed(ice[e]) /\ ice[e].end = e /\ ice[e].done = "ok"
      BY DEF IInv, Sessions, Good, Succeeded
    <3>2. DOMAIN ice[e].valid # {}
      <4>1. PICK c \in ice[e].comps : TRUE
        BY <3>1 DEF Typed
      <4> QED BY <2>1, <3>1, <4>1, DoneValid
    <3> QED BY <3>1, <3>2 DEF IInv, RolesOk, Typed
  <2> QED BY <2>1, <2>2, PeerEnds DEF Correct, World, Roles
<1> QED BY <1>1, SessionsSound, PTL

(* A pair that one of two successful ends takes for nominated is open, and *)
(* the other end has marked its check: neither nominates on its own.       *)
THEOREM PairsAgreed == Spec => []NominatedByBoth
<1>1. IInv => NominatedByBoth
  <2> SUFFICES ASSUME IInv, Succeeded, Calm, NEW e \in Ends, NEW c \in ice[e].comps
               PROVE  LET p == ice[e].nc[c]  theirs == ice[Peer(e)].chk
                      IN  p \in env.open /\ p \in DOMAIN theirs /\ theirs[p].nominated
    BY DEF NominatedByBoth, Calm
  <2> DEFINE p == ice[e].nc[c]
  <2>1. Typed(ice[e]) /\ ice[e].done = "ok" /\ World
    BY DEF IInv, Sessions, Good, Succeeded
  <2>2. p \in DOMAIN ice[e].valid /\ ice[e].valid[p] /\ Marked(ice[e], p)
    BY <2>1, DoneValid
  <2>3. p \in env.open /\ p \in env.pairs
    BY <2>1, <2>2 DEF Typed
  <2>4. Marked(ice[Peer(e)], p)
    <3>1. CASE e = "caller"
      BY <2>2, <3>1, PeerEnds DEF IInv, Nominated
    <3>2. CASE e = "callee"
      BY <2>2, <2>3, <3>2, PeerEnds DEF IInv, Nominated
    <3> QED BY <3>1, <3>2, PeerEnds
  <2> QED BY <2>3, <2>4 DEF Marked
<1> QED BY <1>1, SessionsSound, PTL
=============================================================================
