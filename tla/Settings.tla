------------------------------- MODULE Settings -------------------------------
(***************************************************************************)
(* The configuration that several processes share through files            *)
(* (src/cli/src/settings/mod.rs): config.kdl, config.toml and              *)
(* .active-format, which names the one in use.  A process runs a shell     *)
(* with the dashboard, which reloads what it sees changed                  *)
(* (src/cli/src/overview.rs), or the keybinding editor alone               *)
(* (src/cli/src/keybindings.rs).  `config init` creates and selects files, *)
(* and the user edits them.                                                *)
(*                                                                         *)
(* A configuration is reduced to the keys of actions of one context, one   *)
(* key each.  A file sets the keys of some actions, or is Torn: there are  *)
(* no settings in it.                                                      *)
(***************************************************************************)
EXTENDS Integers, Functions

CONSTANTS Dashboards, Standalone,   \* processes
          Actions, Keys,
          Default,                  \* the template, and what is used where a file sets no key
          Edits,                    \* what the user may write
          Torn, None,
          MaxInputs                 \* bound of the model: starts, keys, commands, edits, crashes

Formats == {"kdl", "toml"}
Configs == [Actions -> Keys]
Texts == UNION {[some -> Keys] : some \in SUBSET Actions}
Processes == Dashboards \cup Standalone

ASSUME SettingsAssumption ==
  /\ Default \in Configs /\ IsInjective(Default)
  /\ Edits \subseteq Texts \cup {Torn, None}
  /\ Torn \notin Texts /\ None \notin Texts /\ Torn # None
  /\ MaxInputs \in Nat
  /\ Dashboards \cap Standalone = {}

VARIABLES
  files,    \* of each format: its text (or None), the time it was written, and by whom
  active,   \* .active-format: None, "" or a format
  clock,    \* the time of the last write
  process,
  init,     \* the one `config init` at a time: what it does next, and its format
  inputs

vars == <<files, active, clock, process, init, inputs>>

-----------------------------------------------------------------------------
(* Files *)

Exists(format) == files[format].text # None

\* active_location, which fails on a name that is not a format
Locatable == active # ""

ActiveFormat ==
  IF active \in Formats /\ Exists(active) THEN active
  ELSE IF Exists("kdl") \/ ~Exists("toml") THEN "kdl" ELSE "toml"

\* read_settings
TextOf(format) == IF Exists(format) THEN files[format].text ELSE Default

StampOf(format) == IF Exists(format) THEN <<format, files[format].time>> ELSE None

\* config_stamp
Stamp == IF Locatable THEN StampOf(ActiveFormat) ELSE None

IsOf(stamp, format) == stamp # None /\ stamp[1] = format

\* parse_settings_source
Parses(text) == text # Torn

\* ShellBindings::validate: no key is that of two actions.
Validates(config) == IsInjective(config)

\* parse_bindings: an action that the file leaves out has its default key.
KeyOf(text, action) == IF action \in DOMAIN text THEN text[action] ELSE Default[action]

\* resolve
Resolved(text) == [action \in Actions |-> KeyOf(text, action)]

Resolves(text) == Parses(text) /\ Validates(Resolved(text))

Written(format, text, by) ==
  /\ files' = [files EXCEPT ![format] = [text |-> text, time |-> clock + 1, by |-> by]]
  /\ clock' = clock + 1

Counted == inputs < MaxInputs /\ inputs' = inputs + 1

-----------------------------------------------------------------------------
(* A process *)

Off ==
  [at |-> "off", config |-> Default, stamp |-> None, format |-> None, text |-> None,
   editor |-> None, reviewed |-> None, refused |-> FALSE, slipped |-> FALSE]

Becomes(p, x) == process' = [process EXCEPT ![p] = x]
Alone == UNCHANGED <<files, active, clock, init>>

\* What it knows of the files it was about to write or read is forgotten.
AtRest(x) == [x EXCEPT !.at = "idle", !.format = None, !.text = None]

\* The first step of shell_config and of save_binding
Locates(p, x, purpose) ==
  Becomes(p, [x EXCEPT !.at = purpose, !.format = ActiveFormat])

\* It starts: the configuration must load.
Start(p) ==
  /\ Counted /\ Alone /\ Locatable
  /\ process[p].at = "off"
  /\ Locates(p, Off, "starting")

StartLoaded(p) ==
  /\ Alone /\ UNCHANGED inputs
  /\ process[p].at = "starting"
  /\ LET text == TextOf(process[p].format) IN
     Becomes(p, IF ~Resolves(text) THEN Off
                ELSE IF p \in Standalone
                  THEN [AtRest(process[p]) EXCEPT !.config = Resolved(text), !.editor = Resolved(text)]
                ELSE [process[p] EXCEPT !.at = "loaded", !.config = Resolved(text),
                                             !.stamp = StampOf(process[p].format)])

\* SessionDashboard: the file is stamped once the dashboard is connected.
\* Nobody looks whether it is the stamp of what has been loaded: "slipped".
FirstStamp(p) ==
  /\ Alone /\ UNCHANGED inputs
  /\ process[p].at = "loaded"
  /\ Becomes(p, [AtRest(process[p]) EXCEPT !.stamp = Stamp,
                                           !.slipped = process[p].stamp # Stamp])

\* Shell: the configuration is that of the shell and of every surface in it.
Reconfigured(x, config) ==
  [x EXCEPT !.config = config, !.editor = IF @ = None THEN None ELSE config]

\* Every tick: reload_configuration takes the stamp first.
Tick(p) ==
  /\ Alone /\ UNCHANGED inputs
  /\ p \in Dashboards /\ process[p].at = "idle" /\ process[p].stamp # Stamp
  /\ Becomes(p, [process[p] EXCEPT !.at = "stamped", !.stamp = Stamp])

ReloadLocated(p) ==
  /\ Alone /\ UNCHANGED inputs
  /\ process[p].at = "stamped"
  /\ IF Locatable THEN Locates(p, process[p], "reloading")
     ELSE Becomes(p, [AtRest(process[p]) EXCEPT !.refused = TRUE])

Reloaded(p) ==
  /\ Alone /\ UNCHANGED inputs
  /\ process[p].at = "reloading"
  /\ LET text == TextOf(process[p].format) IN
     Becomes(p, IF Resolves(text)
                  THEN [Reconfigured(AtRest(process[p]), Resolved(text))
                          EXCEPT !.refused = FALSE,
                                 !.slipped = ~IsOf(process[p].stamp, process[p].format)]
                  ELSE [AtRest(process[p]) EXCEPT !.refused = TRUE])

Crash(p) ==
  /\ Counted /\ Alone
  /\ process[p].at # "off"
  /\ Becomes(p, Off)

-----------------------------------------------------------------------------
(* The keybinding editor *)

\* open_keybindings: the editor starts from the file, not from the shell.
OpenEditor(p) ==
  /\ Alone /\ UNCHANGED inputs /\ Locatable
  /\ p \in Dashboards /\ process[p].at = "idle" /\ process[p].editor = None
  /\ Locates(p, process[p], "opening")

EditorOpened(p) ==
  /\ Alone /\ UNCHANGED inputs
  /\ process[p].at = "opening"
  /\ LET text == TextOf(process[p].format) IN
     Becomes(p, IF Resolves(text) THEN [AtRest(process[p]) EXCEPT !.editor = Resolved(text)]
                ELSE AtRest(process[p]))

\* capture: a key that conflicts in the editor's own configuration is not reviewed.
Capture(p) ==
  /\ Counted /\ Alone
  /\ process[p].at = "idle" /\ process[p].editor # None /\ process[p].reviewed = None
  /\ \E action \in Actions, key \in Keys :
       /\ Validates([process[p].editor EXCEPT ![action] = key])
       /\ Becomes(p, [process[p] EXCEPT !.reviewed = <<action, key>>])

Cancel(p) ==
  /\ Counted /\ Alone
  /\ process[p].at = "idle" /\ process[p].reviewed # None
  /\ Becomes(p, [process[p] EXCEPT !.reviewed = None])

\* save_binding: first the place and the text, ...
Save(p) ==
  /\ Alone /\ UNCHANGED inputs /\ Locatable
  /\ process[p].at = "idle" /\ process[p].reviewed # None
  /\ Locates(p, process[p], "saving")

\* update_kdl_binding, update_toml_binding
Updated(text, reviewed) ==
  IF ~Parses(text) THEN Torn
  ELSE [action \in DOMAIN text \cup {reviewed[1]} |->
          IF action = reviewed[1] THEN reviewed[2] ELSE text[action]]

\* Mutant: that the key did not conflict when it was captured is enough.
CheckedAtCapture(p) ==
  /\ Alone /\ UNCHANGED inputs
  /\ process[p].at = "saving"
  /\ LET text == Updated(TextOf(process[p].format), process[p].reviewed) IN
     Becomes(p, IF ~Parses(text) THEN AtRest(process[p])
                ELSE [process[p] EXCEPT !.at = "checked", !.text = text])

\* ... the change, which must resolve with the rest of the file, ...
Checked(p) ==
  /\ Alone /\ UNCHANGED inputs
  /\ process[p].at = "saving"
  /\ LET text == Updated(TextOf(process[p].format), process[p].reviewed) IN
     Becomes(p, IF Resolves(text) THEN [process[p] EXCEPT !.at = "checked", !.text = text]
                ELSE AtRest(process[p]))

\* ... then atomic_write: a temporary file is renamed, ...
Renamed(p) ==
  /\ UNCHANGED <<active, init, inputs>>
  /\ process[p].at = "checked"
  /\ Written(process[p].format, process[p].text, "program")
  /\ Becomes(p, [process[p] EXCEPT !.at = "renamed"])

\* ... and write_active_format, which empties the file before it writes it.
Truncated(p) ==
  /\ UNCHANGED <<files, clock, init, inputs>>
  /\ process[p].at = "renamed"
  /\ active' = ""
  /\ Becomes(p, [process[p] EXCEPT !.at = "truncated"])

Saved(x) ==
  [Reconfigured(AtRest(x), Resolved(x.text)) EXCEPT !.reviewed = None,
                                          !.slipped = @ \/ ~IsOf(x.stamp, x.format)]

\* Mutant: the dashboard takes the change for one it knows.
SavedAndStamped(p) ==
  /\ UNCHANGED <<files, clock, init, inputs>>
  /\ process[p].at = "truncated"
  /\ active' = process[p].format
  /\ Becomes(p, [Saved(process[p]) EXCEPT !.stamp = Stamp'])

Selected(p) ==
  /\ UNCHANGED <<files, clock, init, inputs>>
  /\ process[p].at = "truncated"
  /\ active' = process[p].format
  /\ Becomes(p, Saved(process[p]))

-----------------------------------------------------------------------------
(* config init, and the user *)

Idle == [at |-> "idle", format |-> None]
Initialises(next) == init' = next /\ UNCHANGED process

\* init_config: what exists is looked at, ...
InitConfig ==
  /\ Counted /\ UNCHANGED <<files, active, clock>>
  /\ init = Idle
  /\ \E format \in Formats, activate \in BOOLEAN :
       /\ activate \/ \A other \in Formats \ {format} : ~Exists(other)
       /\ activate \/ ~Exists(format)
       /\ Initialises([at |-> IF Exists(format) THEN "selecting" ELSE "creating",
                       format |-> format])

\* ... the file is created unless it exists by now, with the template, ...
InitCreated ==
  /\ init.at = "creating" /\ UNCHANGED <<active, inputs>>
  /\ IF Exists(init.format)
       THEN Initialises(Idle) /\ UNCHANGED <<files, clock>>
       ELSE /\ Written(init.format, Default, "program")
            /\ Initialises([init EXCEPT !.at = "selecting"])

\* ... and selected.
InitTruncated ==
  /\ init.at = "selecting" /\ UNCHANGED <<files, clock, inputs>>
  /\ active' = "" /\ Initialises([init EXCEPT !.at = "truncated"])

InitSelected ==
  /\ init.at = "truncated" /\ UNCHANGED <<files, clock, inputs>>
  /\ active' = init.format /\ Initialises(Idle)

InitCrash ==
  /\ Counted /\ UNCHANGED <<files, active, clock>>
  /\ init # Idle /\ Initialises(Idle)

\* The user writes a file with an editor of theirs, or removes it.
UserEdits ==
  /\ Counted /\ UNCHANGED <<active, process, init>>
  /\ \E format \in Formats, text \in Edits :
       Exists(format) /\ text # files[format].text /\ Written(format, text, "user")

-----------------------------------------------------------------------------
\* No configuration yet, or the template of one
Init ==
  /\ \E text \in {None, Default} :
       files = [format \in Formats |-> [text |-> IF format = "kdl" THEN text ELSE None,
                                       time |-> 0, by |-> "program"]]
  /\ active \in {None} \cup {format \in Formats : Exists(format)}
  /\ clock = 0
  /\ process = [p \in Processes |-> Off]
  /\ init = Idle
  /\ inputs = 0

Loads(p) ==
  StartLoaded(p) \/ FirstStamp(p) \/ Tick(p) \/ ReloadLocated(p) \/ Reloaded(p) \/ EditorOpened(p)

Saves(p) == Checked(p) \/ Renamed(p) \/ Truncated(p) \/ Selected(p)

Next ==
  \/ \E p \in Processes :
       \/ Start(p) \/ OpenEditor(p) \/ Capture(p) \/ Cancel(p) \/ Save(p) \/ Crash(p)
       \/ Loads(p) \/ Saves(p)
  \/ InitConfig \/ InitCreated \/ InitTruncated \/ InitSelected \/ InitCrash
  \/ UserEdits

Spec == Init /\ [][Next]_vars

\* A shell ticks, whatever keys are pressed, and what a process has begun it
\* goes on with.
FairSpec ==
  Spec /\ \A p \in Processes : SF_vars(Tick(p)) /\ WF_vars(Loads(p)) /\ WF_vars(Saves(p))

-----------------------------------------------------------------------------
(* Properties *)

(***************************************************************************)
(* What the program itself has written resolves, whatever the processes    *)
(* saved at the same time: two editors never give one key to two actions.  *)
(***************************************************************************)
SavedResolves ==
  \A format \in Formats :
    files[format].by = "program" /\ Exists(format) => Resolves(files[format].text)

(***************************************************************************)
(* A dashboard comes to use the configuration that the files hold, unless  *)
(* it could not load it when it saw it change, or what it loaded or saved  *)
(* is not of the file that it had stamped.                                 *)
(***************************************************************************)
InUse == IF Locatable THEN TextOf(ActiveFormat) ELSE Torn

EditsAreLoaded ==
  <>[](\A p \in Dashboards :
         \/ process[p].at = "off" \/ process[p].refused \/ process[p].slipped
         \/ Resolves(InUse) => process[p].config = Resolved(InUse))

(***************************************************************************)
(* A binding is saved atomically: whoever loads the configuration while it *)
(* is saved gets the old one or the new one.                               *)
(***************************************************************************)
SavedAtomically ==
  /\ \E p \in Processes : process[p].at \in {"checked", "renamed", "truncated"}
  /\ init = Idle
  /\ \A format \in Formats : files[format].by = "program"
  => Resolves(InUse)
=============================================================================
