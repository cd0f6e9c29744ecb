------------------------------- MODULE MCScan -------------------------------
(* Two multiplexes that the NIT of one network describes, the second one   *)
(* last and with no SDT of the first.  The iterator knows the first, and a *)
(* third channel that carries nothing of its own.                          *)
EXTENDS Scan

MCTS == 1 .. 2
MCChannels == <<"f1", "f3">>
MCNit1 == [network |-> 1, ts |-> {1, 2}, last |-> 2, services |-> {"s1", "s2"},
           freq |-> [t \in MCTS |-> IF t = 1 THEN "f1" ELSE "f2"]]
MCBat1 == [network |-> 2, ts |-> {1}, last |-> 1, services |-> {},
           freq |-> [t \in MCTS |-> NoFreq]]
MCNit == {MCNit1, [MCNit1 EXCEPT !.services = {}], MCBat1}
MCSdt1 == [ts |-> 1, services |-> {"s1"}]
MCSdt2 == [ts |-> 2, services |-> {"s2"}]
MCSdt == {MCSdt1, MCSdt2}
MCFreeview == {{"SCAN_ALL_DISCOVERED_TS"}}
MCBoth == {{"SCAN_ALL_DISCOVERED_TS"}, {"SCAN_AT_LEAST_2"}}

MCNitOn == [f \in Freq |-> IF f = "f3" THEN {} ELSE {MCNit1}]
MCBatOn == [f \in Freq |-> IF f = "f3" THEN {} ELSE {MCBat1}]
MCThisSdtOn ==
  [f \in Freq |-> IF f = "f1" THEN {MCSdt1} ELSE IF f = "f2" THEN {MCSdt2} ELSE {}]
MCOtherSdtOn ==
  [f \in Freq |-> IF f = "f1" THEN {MCSdt2} ELSE {}]
=============================================================================
