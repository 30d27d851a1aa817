--------------------------- MODULE MCDeviceState ---------------------------
(* What the bridge holds of one device and believes: its state               *)
(* (DeviceState: one switch, two concurrent reads, one snapshot in flight and *)
(* two changes of the device), the commands the Advanced API offers for it   *)
(* (CommandCatalog), and the controls it may be commanded by                 *)
(* (DeviceControls).  The three touch disjoint fields of the device and are  *)
(* followed one at a time, while the others rest in an initial state.        *)
EXTENDS DeviceKnowledge, Sequences, TLC

CONSTANT AnyNew

VARIABLES
  part,  \* which of them is followed
  controls, catalog, omitted, state, last, offered

controlVars == <<controls, catalog, omitted, state, last, offered>>

\* No code path treats one value of the switch specially.
AnyValue == Permutations(Value)

-----------------------------------------------------------------------------
\* Two capabilities the device may use, one it must not; room for one in the cache.
MCContent == [c1 |-> "usable", c2 |-> "usable", c3 |-> "unsafe"]

-----------------------------------------------------------------------------
\* A switch, a speaker, a shade and a mode list, some of them with unsafe texts; requests
\* that suit them and requests that do not.
Swatch(id, kind, place, attribute, command, commands, options) ==
  [id |-> id, kind |-> kind, place |-> place, attribute |-> attribute, label |-> id,
   command |-> command, commands |-> commands, options |-> options, advanced |-> FALSE]

MCSwatches ==
  {Swatch("main", "toggle", "switch", "switch", None, {"enable", "disable"}, <<>>),
   Swatch("plain", "toggle", "switch", "switch", None, {}, <<>>),
   Swatch("quiet", "toggle", "speaker", "mute", None, {"unmute"}, <<>>),
   Swatch("deck", "enumerated", "speaker", "playback", None, {},
          [o1 |-> "play", o2 |-> "pause"]),
   Swatch("halt", "button", "speaker", "playback", None, {"stop"}, <<>>),
   Swatch("volume", "slider", "speaker", "volume", "setvolume", {}, <<>>),
   Swatch("shade", "button", "shade", "windowshade", None, {"openshade", "pause"}, <<>>),
   Swatch("mode", "enumerated", "mode", "mode", "setmode", {}, [o1 |-> "quietly"]),
   Swatch("again", "button", "main", "refresh", "refresh", {}, <<>>),
   Swatch("lock", "button", "main", "refresh", "refresh", {}, <<>>),
   Swatch("bolt", "toggle", "switch", "switch", None, {"on", "unlock"}, <<>>)}

Command(place, command, type, unsafe, receipt) ==
  [place |-> place, command |-> command, type |-> type, unsafe |-> unsafe, receipt |-> receipt]

MCCatalogs ==
  {{}, {Command("switch", "on", "none", FALSE, FALSE), Command("switch", "off", "none", FALSE, FALSE)},
   {Command("switch", "on", "none", FALSE, FALSE), Command("dimmer", "setlevel", "number", FALSE, FALSE),
    Command("dimmer", "speak", "string", FALSE, TRUE), Command("gate", "open", "none", TRUE, FALSE)}}

MCOmissions == {{}, {<<"switch", "off">>}, {<<"dimmer", None>>}}

Known == [playback |-> "playing", mute |-> "unmuted", volume |-> 10, windowshade |-> "closed",
          mode |-> "o2", refresh |-> None, level |-> 10]
MCStates == {("switch" :> power) @@ Known : power \in {"on", "off", "disabled"}}

Request(command, arg, control, place, attribute, advanced) ==
  [command |-> command, arg |-> arg,
   type |-> CASE arg = None -> "none" [] command \in {"setlevel", "setvolume"} -> "number"
              [] OTHER -> "string",
   control |-> control, place |-> place,
   attribute |-> attribute, advanced |-> advanced]

MCRequests ==
  {Request(c, None, id, "switch", "switch", a) : c \in {"on", "off"},
     id \in {None, "main", "plain", "action", "advanced", "bolt"}, a \in {FALSE}}
  \cup {Request(c, None, None, p, None, TRUE) : c \in {"on", "off", "open"}, p \in {"switch", "gate"}}
  \cup {Request("setlevel", 20, None, "dimmer", "level", a) : a \in BOOLEAN}
  \cup {Request("speak", "text", None, "dimmer", None, TRUE)}
  \cup {Request(c, None, id, None, None, FALSE) :
          c \in {"mute", "play", "pause", "stop", "openshade", "press", "nexttrack"},
          id \in {"quiet", "deck", "halt", "shade"}}
  \cup {Request("setvolume", 20, "volume", None, None, FALSE),
        Request("press", "o1", "shade", None, None, FALSE),
        Request("setoption", "o1", "mode", None, None, FALSE),
        Request("refresh", None, None, None, None, FALSE)}

Switchboard == INSTANCE DeviceControls WITH
  Swatches <- MCSwatches, Catalogs <- MCCatalogs, Omissions <- MCOmissions,
  States <- MCStates, Requests <- MCRequests, Power <- "switch",
  Unsafe <- {"lock", "unlock"}, MaxShown <- 2

\* Nothing is asked of a dangerous control or of a command no longer offered, no control is
\* taken for another and none loses a direction.
ControlsAreRight ==
  /\ Switchboard!RequestsAreSound
  /\ [](part = "controls" => Switchboard!ControlsAreSound)

-----------------------------------------------------------------------------
WorldInit ==
  /\ part \in {"state", "catalog", "controls"}
  /\ Init
  /\ part = "state" \/ (store.at = 0 /\ store.healthAt = 0)
  /\ Catalog!Init
  /\ part = "catalog" \/ catalogued["lamp"] = {}
  /\ \/ part = "controls"
     \/ part # "controls" /\ catalog = {} /\ state = CHOOSE s \in MCStates : TRUE
  /\ Switchboard!Init

WorldNext ==
  \/ part = "state" /\ Next /\ UNCHANGED <<part, catalogVars, controlVars>>
  \/ part = "catalog" /\ Catalog!Next /\ UNCHANGED <<part, vars, controlVars>>
  \/ part = "controls" /\ Switchboard!Next /\ UNCHANGED <<part, vars, catalogVars>>

WorldSpec == WorldInit /\ [][WorldNext]_<<part, vars, catalogVars, controlVars>>
=============================================================================
