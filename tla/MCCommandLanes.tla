--------------------------- MODULE MCCommandLanes ---------------------------
(* Small instances of CommandLanes for one component of one lamp: light     *)
(* intents, of which `again` is the same post as l1, and a plain command.    *)
(* A scene is a plain command whose deadline never comes.                    *)
EXTENDS CommandLanes

CONSTANTS l1, l2, again, p1, lamp, lampMain

MCTargetOf == [c \in Call |-> lamp]
MCIdOf == [c \in Call |-> IF c = again THEN l1 ELSE c]
MCFingerprintOf == MCIdOf
MCSlotOf == [c \in Call |-> lampMain]
MCKindOf == [c \in Call |-> IF c = p1 THEN "deadline" ELSE "light"]
=============================================================================
