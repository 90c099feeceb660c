---------------------------- MODULE MCDeviceLink ----------------------------
EXTENDS DeviceLink

CONSTANTS l1, l2, c1, c2, p1, p2

MCLinks == {l1, l2}
MCClaims == {c1, c2}
MCPolls == {p1, p2}

(* c1 asks for a name of its own, the other for the default name. *)
MCName == [c \in Claims |-> IF c = c1 THEN "custom" ELSE "claude-code"]
=============================================================================
