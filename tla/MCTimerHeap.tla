---------------------------- MODULE MCTimerHeap ----------------------------
(* TimerHeap for model checking.  Entries that are neither scheduled nor   *)
(* called back are alike, whether they were scheduled before or not, so    *)
(* the first of them is the one to be scheduled.                           *)
EXTENDS TimerHeap

CONSTANTS e1, e2, e3, e4, e5, e6

Names == <<e1, e2, e3, e4, e5, e6>>
Six   == {Names[i] : i \in 1 .. 6}

Alike(e) == /\ h.tid[e] < 1
            /\ \A s \in Schedulers : todo[s].entry # e
            /\ \A w \in Pollers : poll[w].entry # e

FirstAlike == \A s \in Schedulers, i \in 1 .. 6 :
                todo[s] = Nothing /\ todo'[s].entry = Names[i]
                => \A k \in 1 .. i - 1 : ~Alike(Names[k])
=============================================================================
