------------------------- MODULE MCEntityRegistry -------------------------
(* A device whose evidence grows and changes: a plain sensor that turns out to *)
(* be a switch, then a light; a slider; a television; a fan; an appliance; and  *)
(* one with an option, people and a catalog command.                         *)
EXTENDS EntityRegistry

D(states, valued, numeric, controls, commands, type) ==
  [states |-> states, valued |-> valued, numeric |-> numeric, controls |-> controls,
   commands |-> commands, type |-> type]

MCEvidence ==
  {D({"switch", "battery"}, {"switch"}, FALSE, {"toggle"}, {}, "plain"),
   D({"switch", "level", "battery"}, {"switch", "level", "battery"}, TRUE, {"toggle"}, {"setLevel"}, "plain"),
   D({"switch", "level"}, {"switch", "level"}, TRUE, {"toggle"}, {"setLevel"}, "plain"),
   D({"switch", "level", "battery"}, {"switch", "level"}, TRUE, {"toggle"}, {"setLevel"}, "plain"),
   D({"level", "button", "firmware"}, {"level", "firmware"}, FALSE, {"slider", "refresh"}, {}, "plain"),
   D({"level", "button", "firmware"}, {"level"}, FALSE, {"slider", "refresh"}, {}, "plain"),
   D({"level", "button", "firmware"}, {"level"}, TRUE, {"slider", "refresh", "bounded slider"}, {}, "plain"),
   D({"switch", "volume", "mute", "playbackStatus"}, {"switch", "volume"}, FALSE, {"toggle"}, {}, "plain"),
   D({"switch", "fanMode", "image"}, {"switch", "fanMode"}, FALSE, {"toggle"}, {}, "plain"),
   D({"switch", "contact"}, {"switch"}, FALSE, {}, {}, "washer"),
   D({"mode", "occupancy"}, {"mode"}, FALSE, {"options"}, {"other"}, "plain")}

\* None, two pairs of rows, and all four.
Switches == {Row("binary_sensor", "switch"), Row("switch", "old switch")}
Others == {Row("number", "number slider"), Row("sensor", "gone")}

MCLegacy == {{}, Switches, Others, Switches \cup Others}
=============================================================================
