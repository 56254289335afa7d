------------------------------ MODULE MCWindow ------------------------------
(* Instances of Window for TLC. *)
EXTENDS Window

CONSTANTS a1, a2

AllEdits == {"adapter", "preference", "connect", "other", "close"}
PreferenceEdits == {"preference", "connect"}

Manual(a, v) == [manual |-> TRUE, iface |-> a, pref |-> v]
Plugged(present, authenticating) == [authenticating |-> authenticating, adapters |-> present]

ManualOff == {Manual(a1, FALSE)}
ManualOn == {Manual(a1, TRUE)}
Cables == {Plugged({a1}, FALSE), Plugged({}, TRUE)}
=============================================================================
