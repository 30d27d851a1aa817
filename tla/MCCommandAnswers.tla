-------------------------- MODULE MCCommandAnswers --------------------------
(* Small instances of CommandAnswers.                                        *)
EXTENDS CommandAnswers

CONSTANTS l1, again, p1, lamp, lampMain

-----------------------------------------------------------------------------
\* Two light intents and a plain command for one component of one lamp; `again` is another
\* request under the id of l1.
MCTargetOf == [c \in Call |-> lamp]
MCIdOf == [c \in Call |-> IF c = again THEN l1 ELSE c]
MCFingerprintOf == [c \in Call |-> c]
MCSlotOf == [c \in Call |-> lampMain]
MCKindOf == [c \in Call |-> IF c = p1 THEN "deadline" ELSE "light"]

-----------------------------------------------------------------------------
\* Two commands of one device, a scene, a security command and an inspection of the device, of
\* which two commands come.
MCDeviceOf == [j \in DeviceOps \cup Background |-> "device"]
=============================================================================
