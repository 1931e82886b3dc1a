----------------------------- MODULE MCAppManager -----------------------------
(* An app with any of six files in the user's directory, with or without one  *)
(* in the system's and one installed, required and on the blacklist or not,   *)
(* next to mate-settings-daemon, with three pids.                             *)
EXTENDS AppManager
CONSTANTS app, daemon

MCApp == {app, daemon}

Plain ==
  [ksmEnabled |-> "unset", gsmEnabled |-> "unset", hidden |-> FALSE, shown |-> TRUE,
   ksmPhase |-> "", gsmPhase |-> "other", ksmRestart |-> "unset", gsmRestart |-> "true",
   delay |-> -1, dbusActivatable |-> FALSE]
Panelled == [Plain EXCEPT !.ksmPhase = "Panel", !.delay = 2, !.ksmRestart = "false"]
Hidden == [Plain EXCEPT !.hidden = TRUE]
Disabled == [Plain EXCEPT !.ksmEnabled = "true", !.gsmEnabled = "false"]
\* Three seconds fit the int, but not as milliseconds.
Overflowing == [Plain EXCEPT !.delay = 3]
Activatable == [Plain EXCEPT !.dbusActivatable = TRUE, !.delay = 1]
Daemon == [Plain EXCEPT !.gsmPhase = "Initialization", !.gsmRestart = "unset"]

Files == {Plain, Panelled, Hidden, Disabled, Overflowing, Activatable, NoFile}
FolderWith(f, d) == [a \in MCApp |-> IF a = app THEN f ELSE d]
MCConfig ==
  {[autostart |-> <<FolderWith(user, NoFile), FolderWith(system, Daemon)>>,
    installed |-> FolderWith(component[1], NoFile), required |-> component[2],
    blacklist |-> blacklist] :
      user \in Files, system \in {Panelled, NoFile}, blacklist \in {{}, {app}},
      component \in {<<Plain, {}>>, <<Plain, MCApp>>, <<Hidden, MCApp>>, <<NoFile, MCApp>>}}
=============================================================================
