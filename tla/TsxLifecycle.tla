----------------------------- MODULE TsxLifecycle -----------------------------
(***************************************************************************)
(* What the transaction layer promises the user of a transaction: it moves *)
(* forward along the states of its role, never by itself back; it is found *)
(* by incoming messages exactly until it is destroyed; and once nothing is *)
(* owed to the peer any more it is destroyed and its memory given back.    *)
(***************************************************************************)
EXTENDS TsxStates

VARIABLES role,     \* "UAC" or "UAS"
          state,    \* the state the user can read
          reg,      \* incoming messages still find the transaction
          freed     \* its memory was given back

abstract == <<role, state, reg, freed>>

(* The ways from state to state.  Every state can end in TERMINATED.       *)
Edges(r) ==
    LET before == {s \in NULL .. CONFIRMED :
                     s \notin IF r = "UAC" THEN {TRYING, CONFIRMED} ELSE {CALLING}}
        first  == IF r = "UAC" THEN CALLING ELSE TRYING
    IN  {<<NULL, first>>, <<first, PROCEEDING>>, <<first, COMPLETED>>,
         <<PROCEEDING, COMPLETED>>}
        \cup (IF r = "UAS" THEN {<<COMPLETED, CONFIRMED>>} ELSE {})
        \cup {<<s, TERMINATED>> : s \in before}

Init == /\ role \in {"UAC", "UAS"} /\ state = NULL
        /\ reg = TRUE /\ freed = FALSE

Move == /\ <<state, state'>> \in Edges(role)
        /\ UNCHANGED <<role, reg, freed>>

(* The last reference may be let go with the same step.                    *)
Destroy == /\ state = TERMINATED /\ state' = DESTROYED
           /\ reg' = FALSE /\ freed' \in BOOLEAN
           /\ UNCHANGED role

Free == /\ state = DESTROYED /\ ~freed
        /\ freed' = TRUE
        /\ UNCHANGED <<role, state, reg>>

(* Nobody has to act for these states to end.                              *)
Waiting == state \in {COMPLETED, CONFIRMED} \/ (role = "UAC" /\ state = CALLING)

Next == Move \/ Destroy \/ Free

Progress == /\ \A s \in NULL .. DESTROYED : (Waiting /\ state = s) ~> state # s
            /\ state = TERMINATED ~> state = DESTROYED
            /\ state = DESTROYED ~> freed

Spec == Init /\ [][Next]_abstract /\ Progress
=============================================================================
