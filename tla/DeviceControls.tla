--------------------------- MODULE DeviceControls ---------------------------
(***************************************************************************)
(* The controls a device is known to have, and the request that may use    *)
(* one.  DeviceStore learns controls from details pages (controlFromSwatch),*)
(* from the actions of status frames (actionControls), and from the        *)
(* command catalog (projectedAdvancedSwitchControls); resolveDeviceRequest *)
(* of command-service.ts turns a request into the one command that leaves  *)
(* and the value that will confirm it, or refuses it.                      *)
(*                                                                         *)
(* A place stands for a component and capability.  Texts are compared as   *)
(* normalizeCommandToken leaves them.  Why a request is refused is not told *)
(* apart, and where the code takes the first of several matching commands  *)
(* any of them may be taken.                                               *)
(***************************************************************************)
EXTENDS Naturals, Sequences, FiniteSets, Functions

CONSTANTS
  Swatches,   \* the controls a details page may show
  Catalogs,   \* the command catalogs the device may get
  Omissions,  \* the commands a catalog may leave out as unusable
  States,     \* what the store may hold: the value of each attribute
  Requests,   \* what callers may ask
  Power,      \* the place of the device's switch
  Unsafe,     \* the texts of locks, doors, valves and garages
  MaxShown,   \* bound: swatches known at a time
  AnyNew,     \* any new state of the device confirms the command
  None

VARIABLES
  controls,  \* device.controls
  catalog, omitted,   \* device.advancedCommands, device.commandOmissions
  state,     \* device.states
  last,      \* the latest request and what left for it, or None
  offered    \* history: the power commands action frames have named

vars == <<controls, catalog, omitted, state, last, offered>>

TypeOK ==
  /\ \A c \in controls :
       /\ c.kind \in {"button", "toggle", "enumerated", "slider"}
       /\ c.commands \subseteq STRING /\ Range(c.options) \subseteq STRING
       /\ c.advanced \in BOOLEAN
  /\ \A c, d \in controls : c.id = d.id => c = d
  /\ catalog \in Catalogs /\ omitted \in Omissions /\ state \in States
  /\ offered \subseteq {"on", "off"}

Init ==
  /\ controls = {} /\ catalog \in Catalogs /\ omitted = {} /\ state \in States
  /\ last = None /\ offered = {}

-----------------------------------------------------------------------------
\* What a control says of itself.

\* controlFromParts, for a toggle that names no command of its own.
Toggle(id, label, commands, advanced) ==
  [id |-> id, kind |-> "toggle", place |-> Power, attribute |-> "switch", label |-> label,
   command |-> None, commands |-> commands, options |-> <<>>, advanced |-> advanced]

Explicit(c) == (({c.command} \cup c.commands) \cup Range(c.options)) \ {None}

Dangerous(c) == ({c.id, c.place, c.attribute, c.label} \cup Explicit(c)) \cap Unsafe # {}

\* commandAliases: what a control may call a command it understands.
Aliases(command) ==
  CASE command = "on" -> {"on", "switchon", "enable"}
    [] command = "off" -> {"off", "switchoff", "disable"}
    [] command \in {"open", "openshade"} -> {"open", "openshade"}
    [] command \in {"close", "closeshade"} -> {"close", "closeshade"}
    [] command \in {"pause", "stop"} -> {"pause", "stop"}
    [] command \in {"mute", "unmute"} -> {"mute", "unmute"}
    [] command = "setshuffle" -> {"setshuffle", "shuffle"}
    [] command = "setinputsource" -> {"setinputsource", "inputsource"}
    [] command = "setposition" -> {"setposition", "shadelevel"}
    [] OTHER -> {command}

\* nativeCommandAliases: the ones that may be sent in its place.
NativeAliases(command) ==
  CASE command = "on" -> {"switchon", "enable"}
    [] command = "off" -> {"switchoff", "disable"}
    [] command = "open" -> {"openshade"} [] command = "openshade" -> {"open"}
    [] command = "close" -> {"closeshade"} [] command = "closeshade" -> {"close"}
    [] OTHER -> {}

Supports(c, command, explicitly) ==
  IF Explicit(c) # {} THEN Explicit(c) \cap Aliases(command) # {}
  ELSE ~explicitly /\ Aliases(command) \cap {c.id, c.label, c.attribute} # {}

\* As above with commandAliases: a control that only offers to unmute would be
\* told so when it is asked to mute.
AnyAlias(c, command) ==
  IF command \in Explicit(c) THEN {command}
  ELSE IF Explicit(c) \cap Aliases(command) # {} THEN Explicit(c) \cap Aliases(command) ELSE {None}

\* observedCommandFor: the commands one of which is sent, None for the request's.
Observed(c, command) ==
  IF command \in Explicit(c) THEN {command}
  ELSE IF Explicit(c) \cap NativeAliases(command) # {}
       THEN Explicit(c) \cap NativeAliases(command) ELSE {None}

-----------------------------------------------------------------------------
\* Controls come and go.

\* setIfChanged: a control replaces the one of its id.
With(known, c) == {d \in known : d.id # c.id} \cup {c}

ObserveSwatch(c) ==
  /\ Cardinality({d \in With(controls, c) : d \in Swatches}) <= MaxShown
  /\ controls' = With(controls, c)
  /\ UNCHANGED <<catalog, omitted, state, last, offered>>

\* setActionControlIfChanged without its merge.
ReplaceAction(known, commands) == With(known, Toggle("action", "power", commands, FALSE))

\* actionControls and setActionControlIfChanged: frames name the power commands
\* that make sense at the time, which add up.
MergeAction(known, commands) ==
  LET seen == UNION {c.commands : c \in {d \in known : d.id = "action"}}
  IN With(known, Toggle("action", "power", seen \cup commands, FALSE))

ObserveActions(commands) ==
  /\ commands # {}
  /\ controls' = MergeAction(controls, commands)
  /\ offered' = offered \cup commands
  /\ UNCHANGED <<catalog, omitted, state, last>>

\* Project with the controls of the former catalog kept.
KeepProjected(known, commands) ==
  known \cup (IF {"on", "off"} \subseteq {d.command : d \in {x \in commands : x.place = Power}}
              THEN {Toggle("advanced", "power", {"on", "off"}, TRUE)} ELSE {})

\* projectedAdvancedSwitchControls: exactly the two commands, without arguments,
\* for a switch whose state is exactly "on" or "off".
Project(known, commands) ==
  LET power == {d \in commands : d.place = Power /\ d.type = "none" /\ d.command \in {"on", "off"}}
      two == {d.command : d \in power} = {"on", "off"} /\ Cardinality(power) = 2
  IN {c \in known : c.id # "advanced"}
     \cup (IF two /\ state["switch"] \in {"on", "off"}
           THEN {Toggle("advanced", "power", {"on", "off"}, TRUE)} ELSE {})

ObserveCatalog(commands, unusable) ==
  /\ catalog' = commands /\ omitted' = unusable
  /\ controls' = Project(controls, commands)
  /\ UNCHANGED <<state, last, offered>>

-----------------------------------------------------------------------------
\* The value a command asks for.

Families == {<<"on", "off">>, <<"enabled", "disabled">>, <<"true", "false">>,
             <<"active", "inactive">>}
Shuffles == {<<"on", "off">>, <<"enabled", "disabled">>, <<"true", "false">>,
             <<"shuffled", "linear">>}

\* The pair the present value belongs to, or the plain one.
Pair(families, value) ==
  IF \E f \in families : value \in {f[1], f[2]}
  THEN CHOOSE f \in families : value \in {f[1], f[2]} ELSE <<"on", "off">>

\* desiredValueFor and shuffleDesiredValue.
Desired(command, arg, value) ==
  CASE command = "on" -> Pair(Families, value)[1]
    [] command = "off" -> Pair(Families, value)[2]
    [] command = "mute" -> "muted" [] command = "unmute" -> "unmuted"
    [] command = "play" -> "playing" [] command = "pause" -> "paused"
    [] command = "stop" -> "stopped"
    [] command \in {"open", "openshade"} -> "open"
    [] command \in {"close", "closeshade"} -> "closed"
    [] command = "setshuffle" -> Pair(Shuffles, value)[IF arg = "true" THEN 1 ELSE 2]
    [] OTHER -> arg

Cover == {"windowshade", "shadelevel"}
Media == {"play", "pause", "stop", "nexttrack", "setinputsource", "setshuffle"}
CoverButton == {"open", "close", "stop", "pause", "openshade", "closeshade"}
Observable == {"press", "setoption", "setposition"} \cup CoverButton
ControlBound == Observable \cup {"setnumber", "setvolume", "mute", "unmute"} \cup Media
Stateless == {"refresh", "press", "nexttrack"}

\* confirmsAnyNewDeviceState, and the stateless commands nothing confirms.
AnyState(command, attribute) ==
  \/ command \in Stateless
  \/ command \in {"stop", "pause"} /\ attribute \in Cover

\* validateCommandAttribute, safeOptionAttribute.
Fits(command, attribute) ==
  CASE command = "setvolume" -> attribute = "volume"
    [] command = "setoption" -> attribute \notin Cover \cup Unsafe
    [] command = "setinputsource" -> attribute = "inputsource"
    [] command = "setshuffle" -> attribute = "shuffle"
    [] command \in {"open", "close", "openshade", "closeshade", "setposition"} ->
         attribute \in Cover
    [] OTHER -> TRUE

-----------------------------------------------------------------------------
\* resolveDeviceRequest: the effective commands, none when it is refused.

Effective(r, place, attribute, control, native, option, advanced) ==
  [command |-> r.command, place |-> place, attribute |-> attribute, control |-> control,
   native |-> IF native = None THEN r.command ELSE native, arg |-> r.arg,
   option |-> option, advanced |-> advanced]

\* normalizeRequest: the argument each command takes; the catalog says what the
\* commands it alone knows take.
WellFormed(r) ==
  IF r.command \in {"setnumber", "setvolume", "setposition"} THEN r.type = "number"
  ELSE IF r.command \in {"setoption", "setinputsource"} THEN r.type = "string"
  ELSE IF r.command = "setshuffle" THEN r.type = "boolean"
  ELSE r.command \in ControlBound \cup {"on", "off", "refresh"} => r.type = "none"

\* resolveAdvancedDescriptor and validateAdvancedDescriptorArguments.
ByCatalog(r) ==
  LET named == {d \in catalog : d.place = r.place /\ d.command = r.command}
  IN {Effective(r, d.place, r.attribute, None, None, None, TRUE) :
        d \in {d \in named : /\ Cardinality(named) = 1
                             /\ <<r.place, r.command>> \notin omitted
                             /\ <<r.place, None>> \notin omitted
                             /\ ~d.unsafe /\ d.type = r.type}}

Chosen(r, kind) ==
  {c \in controls : c.kind = kind /\ (r.control # None => c.id = r.control)}

\* Without the look at the control's texts.
RefreshAnything(r) ==
  LET offering == {c \in Chosen(r, "button") : Supports(c, "refresh", TRUE)}
  IN IF Cardinality(offering) # 1 THEN {}
     ELSE UNION {{Effective(r, c.place, c.attribute, c.id, n, None, FALSE) :
                    n \in Observed(c, "refresh") \ {None}} : c \in offering}

ByRefresh(r) ==
  LET offering == {c \in Chosen(r, "button") : Supports(c, "refresh", TRUE)}
  IN IF Cardinality(offering) # 1 THEN {}
     ELSE UNION {{Effective(r, c.place, c.attribute, c.id, n, None, FALSE) :
                    n \in Observed(c, "refresh") \ {None}} :
                 c \in {c \in offering : ~Dangerous(c)}}

\* On and off: one toggle of the place, or else the catalog.  A toggle that does
\* not offer the command may be asked for what is so already.
ByToggle(r) ==
  LET toggles == {c \in Chosen(r, "toggle") : c.place = r.place /\ c.attribute = r.attribute}
      offers(c) == Explicit(c) = {} \/ Supports(c, r.command, FALSE)
      holds(c) == state[c.attribute] # None
                  /\ state[c.attribute] = Desired(r.command, None, state[c.attribute])
  IN CASE toggles = {} -> IF r.control = None THEN ByCatalog(r) ELSE {}
       [] Cardinality(toggles) > 1 -> {}
       [] OTHER -> UNION {{Effective(r, c.place, c.attribute, c.id, n, None, c.advanced) :
                             n \in IF offers(c) THEN Observed(c, r.command) ELSE {None}} :
                          c \in {c \in toggles : ~Dangerous(c) /\ (offers(c) \/ holds(c))}}

\* validateObservedControlCommand: the options that may be meant, {None} for a
\* command that names none, and none at all when it is refused.
Options(c, r) ==
  LET command == r.command
      playback == Media \ {"setinputsource", "setshuffle"}
      playing == {o \in DOMAIN c.options : c.options[o] = command}
  IN IF Dangerous(c) THEN {} ELSE
     CASE command = "press" -> IF c.kind = "button" THEN {None} ELSE {}
       [] command = "setoption" ->
            IF c.kind = "enumerated" /\ Fits(command, c.attribute)
            THEN {r.arg} \cap DOMAIN c.options ELSE {}
       [] command \in {"setnumber", "setvolume"} -> IF c.kind = "slider" THEN {None} ELSE {}
       [] command \in {"mute", "unmute"} ->
            IF c.kind = "toggle" /\ c.attribute = "mute" /\ Supports(c, command, FALSE)
            THEN {None} ELSE {}
       [] command \in {"setinputsource", "setshuffle"} ->
            IF ~Fits(command, c.attribute) \/ c.kind = "slider" THEN {}
            ELSE IF command # "setshuffle" /\ c.options # <<>> THEN {r.arg} \cap DOMAIN c.options
            ELSE IF Supports(c, command, TRUE) THEN {None} ELSE {}
       [] command \in playback /\ c.kind = "enumerated" ->
            IF Cardinality(playing) = 1 THEN playing ELSE {}
       [] command \in playback /\ c.kind # "enumerated" ->
            IF c.kind = "button" /\ Supports(c, command, TRUE) THEN {None} ELSE {}
       [] command = "setposition" ->
            IF c.kind = "slider" /\ c.attribute = "shadelevel" /\ Supports(c, command, FALSE)
            THEN {None} ELSE {}
       [] command \in CoverButton \ playback ->
            IF c.kind = "button" /\ c.attribute \in Cover /\ Supports(c, command, TRUE)
            THEN {None} ELSE {}
       [] OTHER -> {}

\* nativeCommandFor.
Native(c, command) ==
  IF c.command # None /\ command \in {"setoption", "setinputsource", "setshuffle", "press",
                                      "setnumber", "setvolume", "setposition"}
  THEN {c.command} ELSE Observed(c, command)

ByControl(r) ==
  LET known == {c \in controls : /\ c.id = r.control
                                 /\ r.place \in {None, c.place}
                                 /\ r.attribute \in {None, c.attribute}}
  IN UNION {UNION {{Effective(r, c.place, c.attribute, c.id, n, o, c.advanced) :
                      n \in IF o # None THEN {c.options[o]} ELSE Native(c, r.command)} :
                   o \in Options(c, r)} : c \in known}

Resolved(r) ==
  IF r.advanced THEN ByCatalog(r) ELSE
  CASE r.command = "refresh" -> ByRefresh(r)
    [] r.command \in {"on", "off"} -> ByToggle(r)
    [] r.command \in ControlBound -> IF r.control = None THEN {} ELSE ByControl(r)
    [] OTHER -> ByCatalog(r)

\* #executeDevice up to the dispatch: the attribute must suit the command, its
\* state be known unless a control or the catalog vouches for the command, and
\* there must be a value to wait for.  Nothing leaves for what is so already.
Attribute(e) == IF e.attribute = None THEN "switch" ELSE e.attribute
Receipt(e) == e.advanced /\ e.control = None
              /\ \E d \in catalog : d.place = e.place /\ d.command = e.command /\ d.receipt
Wanted(e) ==
  IF Receipt(e) \/ AnyState(e.command, Attribute(e)) THEN AnyNew
  ELSE Desired(e.command, e.arg, state[Attribute(e)])
Acceptable(e) ==
  \/ Receipt(e)
  \/ /\ Fits(e.command, Attribute(e))
     /\ state[Attribute(e)] # None \/ e.command \in ControlBound \cup {"refresh"}
     /\ Wanted(e) # None

Answers(r) == {e \in Resolved(r) : WellFormed(r) /\ Acceptable(e)}
AlreadySo(e) == Wanted(e) # AnyNew /\ state[Attribute(e)] = Wanted(e)

Refuse(r) ==
  /\ Answers(r) = {} /\ last' = None
  /\ UNCHANGED <<controls, catalog, omitted, state, offered>>

AnswerAtOnce(r) ==
  /\ \E e \in Answers(r) : AlreadySo(e)
  /\ last' = None
  /\ UNCHANGED <<controls, catalog, omitted, state, offered>>

Send(r) ==
  /\ \E e \in Answers(r) : /\ ~AlreadySo(e)
                           /\ last' = [sent |-> e, wanted |-> Wanted(e)]
  /\ UNCHANGED <<controls, catalog, omitted, state, offered>>

Next ==
  \/ \E c \in Swatches : ObserveSwatch(c)
  \/ \E commands \in SUBSET {"on", "off"} : ObserveActions(commands)
  \/ \E commands \in Catalogs, unusable \in Omissions : ObserveCatalog(commands, unusable)
  \/ \E r \in Requests : Refuse(r) \/ AnswerAtOnce(r) \/ Send(r)

Spec == Init /\ [][Next]_vars

-----------------------------------------------------------------------------
\* The value a device takes on a command it understands.
Meaning(e) ==
  IF e.option # None
  THEN IF e.command \in {"setoption", "setinputsource"} THEN e.option
       ELSE Desired(e.native, None, None)
  ELSE IF e.native \in {"on", "switchon", "enable"} THEN Pair(Families, state[Attribute(e)])[1]
  ELSE IF e.native \in {"off", "switchoff", "disable"} THEN Pair(Families, state[Attribute(e)])[2]
  ELSE IF e.arg # None THEN Desired(e.command, e.arg, state[Attribute(e)])
  ELSE Desired(e.native, None, None)

\* What leaves the bridge asks the device for exactly the value that will be
\* taken as its confirmation, whatever name the control has for the command
\* (observedCommandFor, desiredValueFor): pausing is never confirmed by a
\* playback the command stopped, nor a switch told the opposite of the request.
SameMeaning ==
  last # None /\ last.wanted # AnyNew => Meaning(last.sent) = last.wanted

\* Nothing is ever asked of a control that names a lock, a door, a valve or a
\* garage in any of its texts, nor of the catalog's commands that do
\* (dangerousControl, safeAdvancedCommandReason).
NothingDangerous ==
  [][last' # None /\ last' # last =>
       LET e == last'.sent IN
       IF e.control # None
       THEN \A c \in controls : c.id = e.control => ~Dangerous(c)
       ELSE \A d \in catalog : d.place = e.place /\ d.command = e.command => ~d.unsafe]_vars

\* A switch whose two commands were once seen, in one frame or in two, can be
\* switched both ways by its control from then on (setActionControlIfChanged
\* of device-store.ts: each frame names only what makes sense at the time).
StaysSwitchable ==
  offered = {"on", "off"} => \A command \in offered :
    \E e \in ByToggle([command |-> command, arg |-> None, type |-> "none", control |-> "action", place |-> Power,
                       attribute |-> "switch", advanced |-> FALSE]) : e.native = command

\* A command that must go through the Advanced API names a command of the
\* catalog the store holds at that moment, never of one it replaced
\* (#applyAdvancedCommandCatalog drops the controls of the former one).
CatalogIsCurrent ==
  [][last' # None /\ last' # last /\ last'.sent.advanced =>
       \E d \in catalog : d.place = last'.sent.place /\ d.command = last'.sent.native]_vars

\* Nothing is asked of a dangerous control or of a command no longer offered.
RequestsAreSound == NothingDangerous /\ CatalogIsCurrent

\* What is asked means what is waited for, and a switch stays switchable.
ControlsAreSound == TypeOK /\ SameMeaning /\ StaysSwitchable
=============================================================================
