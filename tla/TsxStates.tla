------------------------------ MODULE TsxStates ------------------------------
(* pjsip_tsx_state_e, in the order of the enumeration: the code compares   *)
(* states with < and >=.                                                   *)
EXTENDS Integers

NULL       == 0     \* before any message
CALLING    == 1     \* UAC, request sent
TRYING     == 2     \* UAS, request received
PROCEEDING == 3     \* after a provisional response
COMPLETED  == 4     \* after a final response
CONFIRMED  == 5     \* UAS, after the ACK
TERMINATED == 6     \* before it is destroyed
DESTROYED  == 7     \* being destroyed
=============================================================================
