---------------------------- MODULE MCCommands -----------------------------
(* Small instances of Commands. *)
EXTENDS Commands

CONSTANT final

\* A plan that turns the lamp on, dims it and sets its colour; another command turns it
\* off, and so may anybody else.
Step(attr, value) == [attr |-> attr, value |-> value]

MCPlans == {<<Step("power", "on"), Step("level", "high"), Step("colour", "cold")>>}
MCStart == {[power |-> "on", level |-> "high", colour |-> "warm"]}
MCOthers == {Step("power", "off")}
MCTouched == {"power", "level"}

-----------------------------------------------------------------------------
\* Verified, timed, unconfirmed, stateless, plain and unknown requests, two in a row, with
\* the executors that have both routes, one of them, or a fallback.
Of(verified, unconfirmed, stateless, timed, known) ==
  [verified |-> verified, unconfirmed |-> unconfirmed, stateless |-> stateless, timed |-> timed,
   known |-> known]

MCKinds ==
  {Of(TRUE, FALSE, FALSE, FALSE, TRUE), Of(TRUE, FALSE, FALSE, TRUE, TRUE),
   Of(TRUE, TRUE, FALSE, FALSE, TRUE), Of(TRUE, TRUE, TRUE, FALSE, TRUE),
   Of(FALSE, FALSE, FALSE, FALSE, TRUE), Of(FALSE, FALSE, FALSE, FALSE, FALSE)}

MCLegacy == {[native |-> TRUE, dom |-> TRUE, fallback |-> f] : f \in BOOLEAN}
            \cup {[native |-> FALSE, dom |-> FALSE, fallback |-> FALSE]}
=============================================================================
