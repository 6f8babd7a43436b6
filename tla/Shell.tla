------------------------------- MODULE Shell --------------------------------
(***************************************************************************)
(* The terminal shell of a client (src/shell.rs): the surfaces it shows,   *)
(* the one that has the focus, the palette and the help above them, and    *)
(* the two loops that feed it: attach over the terminal runtime            *)
(* (src/runtime.rs), and attach_async, which multiplexes the terminal, the *)
(* background work of the surfaces, and timers.                            *)
(*                                                                         *)
(* Surfaces are not modelled: they may answer an event with any action.    *)
(* A key is named for the binding that it matches in the mode at hand.     *)
(* Positions count from 1.                                                 *)
(***************************************************************************)
EXTENDS Integers, Sequences, SequencesExt, FiniteSets

CONSTANTS Keys,         \* keys of surfaces that have one
          NoKey,
          IsAsync,      \* attach_async, or attach
          Coalesces,    \* attach_async draws no more often than the frame interval
          WordSize,     \* 2^64
          ShellItems,   \* the shell's own items of the palette, last in it
          MaxSurfaces,  \* bound of the model: surfaces that are ever added
          Waiting,      \* surfaces of which the background work is followed
          MaxAsking     \* bound of the model: surfaces that ask for more than to be closed, at once

ASSUME ShellAssumption ==
  /\ NoKey \notin Keys
  /\ {IsAsync, Coalesces} \subseteq BOOLEAN
  /\ {WordSize, MaxSurfaces, MaxAsking} \subseteq Nat
  /\ Waiting \subseteq 1 .. MaxSurfaces
  /\ WordSize > MaxSurfaces + Len(ShellItems) + 1

VARIABLES
  shell,     \* Shell
  attached,  \* the loop is running
  outcome,   \* ExitReason of the loop that has ended
  ready,     \* those of Waiting that have background work to report
  behind     \* history: what the last frame showed is no longer so

vars == <<shell, attached, outcome, ready, behind>>

NoOverlay == [kind |-> "none"]
Help == [kind |-> "help"]
Palette(query, selected) == [kind |-> "palette", query |-> query, selected |-> selected]

Continue == "continue"
Detached == "detached"
NoSurfaces == "no surfaces"

\* SurfaceAction; what Consumed asks for, Reconfigure does too.
SurfaceActions ==
  [kind : {"ignored", "consumed", "close", "detach", "open"}, key : {NoKey}]
    \cup [kind : {"open", "focus"}, key : Keys]

\* InputPolicy of the active surface; where it captures input, the escape key
\* may open the palette.
Policies == {"shell", "captured", "escapes", "exclusive"}

NewShell ==
  [entries |-> <<>>, active |-> 0, next |-> 1, overlay |-> NoOverlay, armed |-> FALSE,
   dirty |-> TRUE, cursor |-> 0, notice |-> FALSE, signal |-> Continue,
   asked |-> 0, visible |-> FALSE]

Dirty(s) == [s EXCEPT !.dirty = TRUE]
Exit(s, reason) == [s EXCEPT !.signal = reason]
Notice(s) == Dirty([s EXCEPT !.notice = TRUE])

\* notice.take
Unnoticed(s) == [s EXCEPT !.notice = FALSE, !.dirty = @ \/ s.notice]

-----------------------------------------------------------------------------
(* Surfaces: add, select and remove.  A surface is told when it gains and  *)
(* loses the focus.                                                        *)

Told(s, i, focused) == [s EXCEPT !.entries[i].focused = focused]

Blurred(s) == IF s.active = 0 THEN s ELSE Told(s, s.active, FALSE)

Add(s, key) ==
  Dirty([Blurred(s) EXCEPT !.entries = Append(@, [id |-> s.next, key |-> key, focused |-> TRUE]),
                           !.next = @ + 1,
                           !.active = Len(s.entries) + 1])

Select(s, i) ==
  IF i \notin DOMAIN s.entries \/ i = s.active THEN s
  ELSE Dirty(Told([Blurred(s) EXCEPT !.active = i], i, TRUE))

\* wrapping_add_signed on an unsigned word, and then the remainder.
WrapIndex(current, delta, len) ==
  IF len = 0 THEN 0 ELSE ((current + delta + WordSize) % WordSize) % len

SelectRelative(s, delta) ==
  IF s.active = 0 THEN s ELSE Select(s, 1 + WrapIndex(s.active - 1, delta, Len(s.entries)))

SelectNumbered(s, n) == IF n \in DOMAIN s.entries THEN Select(s, n) ELSE Notice(s)

WithKey(s, key) == SelectInSeq(s.entries, LAMBDA entry : entry.key = key)

SelectKey(s, key) == IF WithKey(s, key) = 0 THEN Notice(s) ELSE Select(s, WithKey(s, key))

\* Mutant: the surface that takes the place is not told.
RemovedUntold(s, i) ==
  LET left == [Dirty(s) EXCEPT !.entries = RemoveAt(@, i)]
      next == IF i < Len(s.entries) THEN i ELSE Len(s.entries) - 1
  IN
  IF left.entries = <<>> THEN Exit([left EXCEPT !.active = 0], NoSurfaces)
  ELSE [left EXCEPT !.active = IF @ = i THEN next ELSE IF i < @ THEN @ - 1 ELSE @]

\* Mutant: the surfaces after it move up, the position does not.
RemovedInPlace(s, i) ==
  LET left == [Dirty(s) EXCEPT !.entries = RemoveAt(@, i)] IN
  IF left.entries = <<>> THEN Exit([left EXCEPT !.active = 0], NoSurfaces)
  ELSE IF s.active < i THEN left
  ELSE LET next == IF s.active <= Len(left.entries) THEN s.active ELSE Len(left.entries) IN
       Told([left EXCEPT !.active = next], next, TRUE)

\* remove_index, of a surface that is there.
Removed(s, i) ==
  LET left == [Dirty(s) EXCEPT !.entries = RemoveAt(@, i)]
      next == IF i < Len(s.entries) THEN i ELSE Len(s.entries) - 1
  IN
  IF left.entries = <<>> THEN Exit([left EXCEPT !.active = 0], NoSurfaces)
  ELSE IF s.active = i THEN Told([left EXCEPT !.active = next], next, TRUE)
  ELSE [left EXCEPT !.active = IF i < @ THEN @ - 1 ELSE @]

CloseActive(s) == IF s.active = 0 THEN Exit(s, NoSurfaces) ELSE Removed(s, s.active)

-----------------------------------------------------------------------------
(* What surfaces ask for *)

\* apply_surface_action
Apply(s, i, action) ==
  CASE action.kind = "ignored" -> s
    [] action.kind = "consumed" -> Dirty([s EXCEPT !.visible = TRUE])
    [] action.kind = "close" -> Removed(s, i)
    [] action.kind = "detach" -> Exit(s, Detached)
    [] action.kind = "open" ->
         IF action.key # NoKey /\ WithKey(s, action.key) # 0
           THEN Select(s, WithKey(s, action.key)) ELSE Add(s, action.key)
    [] action.kind = "focus" -> SelectKey(s, action.key)

\* dispatch_to_active: the surface is asked for its action.
DispatchToActive(s) == IF s.active = 0 THEN Exit(s, NoSurfaces) ELSE [s EXCEPT !.asked = s.active]

\* What op makes of s, for one action after the other.
After(s, actions, op(_, _)) ==
  LET after[n \in 0 .. Len(actions)] == IF n = 0 THEN s ELSE op(after[n - 1], actions[n])
  IN after[Len(actions)]

Asks(actions, kind) == \E i \in DOMAIN actions : actions[i].kind = kind

\* dispatch_to_all: the closed ones go from the last, then new ones come,
\* and then the focus moves.  (When the pulse of the title moves, a surface
\* may as well have consumed the tick.)
DispatchToAll(s, actions) ==
  LET close(x, i) == IF actions[i].kind = "close" THEN Removed(x, i) ELSE x
      open(x, action) == IF action.kind = "open" THEN Add(x, action.key) ELSE x
      focus(x, action) == IF action.kind = "focus" THEN SelectKey(x, action.key) ELSE x
      closed == After(s, [i \in DOMAIN actions |-> Len(actions) + 1 - i], close)
      next == After(After(closed, actions, open), actions, focus)
      redraw == Asks(actions, "consumed")
  IN
  [next EXCEPT
     !.dirty = @ \/ redraw,
     !.visible = @ \/ redraw,
     !.signal = IF Asks(actions, "detach") THEN Detached
                ELSE IF next.entries = <<>> THEN NoSurfaces ELSE Continue]

\* Whose turn it is of those that wait, from the cursor on.
Turn(s, waiting) ==
  LET round == [k \in DOMAIN s.entries |-> 1 + ((s.cursor + k - 1) % Len(s.entries))]
      turn == SelectInSeq(round, LAMBDA i : s.entries[i].id \in waiting)
  IN IF turn = 0 THEN 0 ELSE round[turn]

\* Mutant: the cursor stays where it is.
PollStuck(s, i) == [s EXCEPT !.asked = i]

\* poll_background_round_robin, when it is the turn of i.
PollBackground(s, i) ==
  IF i = 0 THEN s ELSE [s EXCEPT !.cursor = i % Len(s.entries), !.asked = i]

-----------------------------------------------------------------------------
(* The palette *)

\* A typed query matches the surfaces to switch to.
Queries == {"", "typed"}
Switches(s) == [i \in DOMAIN s.entries |-> [does |-> "switch", to |-> i]]
Item(does) == [does |-> does, to |-> 0]

PaletteItems(s, query) ==
  IF query = "typed" THEN Switches(s)
  ELSE (IF s.active = 0 THEN <<>> ELSE <<Item("command")>>) \o Switches(s)
         \o [i \in DOMAIN ShellItems |-> Item(ShellItems[i])]

\* The position, from 0, of the highlighted item: the list may have become
\* shorter since one was selected.
Highlighted(s) ==
  LET last == Len(PaletteItems(s, s.overlay.query)) - 1 IN
  IF s.overlay.selected <= last THEN s.overlay.selected ELSE last

\* What a frame shows of the shell.
View(s) ==
  [tabs |-> [i \in DOMAIN s.entries |-> s.entries[i].id], active |-> s.active, notice |-> s.notice,
   overlay |-> IF s.overlay.kind = "palette" THEN Palette(s.overlay.query, Highlighted(s)) ELSE s.overlay]

OpenPalette(s) == Dirty([s EXCEPT !.overlay = Palette("", 0)])

\* execute_palette_action
Run(s, item) ==
  LET closed == [s EXCEPT !.overlay = NoOverlay] IN
  CASE item.does \in {"command", "scroll"} -> DispatchToActive(closed)
    [] item.does = "switch" -> Select(closed, item.to)
    [] item.does = "next" -> SelectRelative(closed, 1)
    [] item.does = "previous" -> SelectRelative(closed, -1)
    [] item.does = "close" -> CloseActive(closed)
    [] item.does = "detach" -> Exit(closed, Detached)
    [] item.does = "help" -> [closed EXCEPT !.overlay = Help]

Typed(s, query) == [s EXCEPT !.overlay = Palette(query, 0)]

Number == ("1" :> 1 @@ "2" :> 2 @@ "3" :> 3 @@ "4" :> 4 @@ "5" :> 5 @@ "6" :> 6
           @@ "7" :> 7 @@ "8" :> 8 @@ "9" :> 9)
Digits == DOMAIN Number

\* The keys of the palette: those of actions, and those that edit it.
ActionKeys == {"next", "previous", "scroll", "detach", "close", "help"}

PaletteKey(s, key) ==
  LET query == s.overlay.query
      items == PaletteItems(s, query)
      moved(delta) == [s EXCEPT !.overlay.selected = WrapIndex(@, delta, Len(items))]
  IN
  CASE key = "escape" -> [s EXCEPT !.overlay = NoOverlay]
    [] key \in ActionKeys -> Run(s, Item(key))
    [] key \in Digits /\ Number[key] \in DOMAIN s.entries ->
         Run(s, [does |-> "switch", to |-> Number[key]])
    [] key = "down" -> moved(1)
    [] key = "up" -> moved(-1)
    [] key = "enter" ->
         IF s.overlay.selected < Len(items) THEN Run(s, items[s.overlay.selected + 1]) ELSE s
    [] key = "backspace" -> Typed(s, "")
    [] key = "other" -> Typed(s, "typed")
    [] OTHER -> s

OverlayKey(s, key) ==
  LET next == IF s.overlay.kind = "palette" THEN PaletteKey(s, key)
              ELSE IF key = "escape" THEN [s EXCEPT !.overlay = NoOverlay] ELSE s
  IN [next EXCEPT !.dirty = @ \/ next.overlay # s.overlay]

-----------------------------------------------------------------------------
(* Keys, clicks and the rest of the terminal's events *)

LeaderKey(s, key) ==
  CASE key = "detach" -> Exit(s, Detached)
    [] key = "palette" -> OpenPalette(s)
    [] key = "next" -> SelectRelative(s, 1)
    [] key = "previous" -> SelectRelative(s, -1)
    [] key = "scroll" -> DispatchToActive(s)
    [] key \in Digits -> SelectNumbered(s, Number[key])
    [] key = "close" -> CloseActive(s)
    [] key = "help" -> Dirty([s EXCEPT !.overlay = Help])
    [] key = "escape" -> s
    [] OTHER -> Notice(s)

\* The keys that a surface that captures input gets.
PlainKey(s, key, policy) ==
  CASE key = "escape" /\ policy = "escapes" -> OpenPalette(s)
    [] key = "leader" -> Notice([s EXCEPT !.armed = TRUE])
    [] key = "palette" -> OpenPalette(s)
    [] key = "redraw" -> Dirty(s)
    [] key = "previous" -> SelectRelative(s, -1)
    [] key = "next" -> SelectRelative(s, 1)
    [] key \in Digits -> SelectNumbered(s, Number[key])
    [] key = "detach" /\ policy = "shell" -> Exit(s, Detached)
    [] key = "help" /\ policy = "shell" -> Dirty([s EXCEPT !.overlay = Help])
    [] OTHER -> DispatchToActive(Unnoticed(s))

\* The policy is not looked at below an overlay.
Applicable(s) == IF s.overlay = NoOverlay THEN Policies ELSE {"shell"}

HandleKey(s, key, policy) ==
  IF s.overlay # NoOverlay THEN OverlayKey(s, key)
  ELSE IF policy = "exclusive" THEN DispatchToActive(Unnoticed(s))
  ELSE IF s.armed THEN LeaderKey(Unnoticed([s EXCEPT !.armed = FALSE]), key)
  ELSE PlainKey(s, key, policy)

KeyNames ==
  {"escape", "leader", "palette", "redraw", "next", "previous", "scroll", "detach", "close",
   "help", "down", "up", "enter", "backspace", "other"} \cup {key \in Digits : Number[key] <= MaxSurfaces}

\* A click on a tab that the last frame showed at a position, or elsewhere.
HandleMouse(s, tab) ==
  IF s.overlay # NoOverlay THEN s
  ELSE IF tab # 0 THEN Select(s, tab) ELSE DispatchToActive(s)

HandlePaste(s) ==
  IF s.overlay.kind = "palette" THEN Dirty(Typed(s, "typed")) ELSE DispatchToActive(s)

-----------------------------------------------------------------------------
(* The loops *)

Init ==
  /\ shell = NewShell
  /\ attached = FALSE
  /\ outcome = Continue
  /\ ready = {}
  /\ behind = TRUE

\* The product adds surfaces, and selects one, while the loop does not run.
AddSurface ==
  /\ ~attached /\ shell.next <= MaxSurfaces
  /\ \E key \in Keys \cup {NoKey} : shell' = Add(shell, key)
  /\ UNCHANGED <<attached, outcome, ready, behind>>

SelectSurface ==
  /\ ~attached
  /\ \E i \in DOMAIN shell.entries : shell' = Select(shell, i)
  /\ UNCHANGED <<attached, outcome, ready, behind>>

Attach ==
  /\ ~attached /\ shell.entries # <<>>
  /\ shell' = Dirty(shell)
  /\ attached' = TRUE
  /\ behind' = TRUE
  /\ outcome' = Continue
  /\ UNCHANGED ready

\* The loop draws before it waits, except for the rest of the frame interval.
Waits == attached /\ shell.asked = 0 /\ (shell.dirty => Coalesces)

Draw ==
  /\ attached /\ shell.asked = 0 /\ shell.dirty
  /\ shell' = [shell EXCEPT !.dirty = FALSE]
  /\ behind' = FALSE
  /\ UNCHANGED <<attached, outcome, ready>>

Ids(s) == {s.entries[i].id : i \in DOMAIN s.entries}
ActiveEntry(s) == s.entries[s.active]

\* The loop goes on with s, or ends.
Handled(s) ==
  /\ s.next <= MaxSurfaces + 1
  /\ shell' = [s EXCEPT !.signal = Continue, !.visible = FALSE]
  /\ behind' = (behind \/ s.visible \/ View(s) # View(shell))
  /\ attached' = (s.signal = Continue)
  /\ outcome' = s.signal

\* The surface that was asked answers, before anything else happens.
Answer ==
  /\ attached /\ shell.asked # 0
  /\ \E s \in {Apply([shell EXCEPT !.asked = 0], shell.asked, action) : action \in SurfaceActions} :
       Handled(s)
  /\ UNCHANGED ready

\* Of those that are followed and of any others, one reports.
Poll(s) ==
  \E i \in {Turn(s, ready \cup others) : others \in SUBSET (Ids(s) \ Waiting)} :
    /\ ready' = IF i = 0 THEN ready ELSE ready \ {s.entries[i].id}
    /\ Handled(PollBackground(s, i))

\* The synchronous loop polls the surfaces on a tick.
OnTick(s) ==
  IF IsAsync \/ s.signal # Continue THEN Handled(s) /\ UNCHANGED ready ELSE Poll(s)

\* What n surfaces may answer to one event, with new surfaces or without.
Broadcasts ==
  [n \in 0 .. MaxSurfaces, opens \in BOOLEAN |->
     {actions \in [1 .. n -> {action \in SurfaceActions : opens \/ action.kind # "open"}] :
        Cardinality({i \in 1 .. n : actions[i].kind \notin {"ignored", "close"}}) <= MaxAsking}]

\* What s becomes by one event for all surfaces.
Dispatched(s) ==
  {DispatchToAll(s, actions) : actions \in Broadcasts[Len(s.entries), s.next <= MaxSurfaces]}

Tick ==
  /\ attached /\ shell.asked = 0
  /\ IsAsync \/ ~shell.dirty
  /\ \E s \in Dispatched(shell) : OnTick(s)

\* A resize reaches all surfaces.
Resize ==
  /\ Waits
  /\ \E s \in Dispatched(Dirty(shell)) : Handled(s)
  /\ UNCHANGED ready

Terminal ==
  /\ Waits
  /\ \E s \in {HandleKey(shell, key, policy) : key \in KeyNames, policy \in Applicable(shell)}
              \cup {HandleMouse(shell, tab) : tab \in 0 .. MaxSurfaces} \cup {HandlePaste(shell)} :
       Handled(s)
  /\ UNCHANGED ready

FocusGained ==
  /\ Waits
  /\ Handled(Dirty(shell))
  /\ UNCHANGED ready

\* The terminal is gone: attach returns an error.
InputEnds ==
  /\ Waits
  /\ attached' = FALSE
  /\ outcome' = "error"
  /\ UNCHANGED <<shell, ready, behind>>

\* attach_async polls the surfaces whenever one of them wakes it.
Background == IsAsync /\ Waits /\ Poll(shell)

\* A surface has background work to report.
Wake(id) ==
  /\ id \in Ids(shell) \ ready
  /\ ready' = ready \cup {id}
  /\ UNCHANGED <<shell, attached, outcome, behind>>

Next ==
  \/ AddSurface \/ SelectSurface \/ Attach
  \/ Draw \/ Answer \/ Tick \/ Resize \/ Terminal \/ FocusGained \/ InputEnds \/ Background
  \/ \E id \in Waiting : Wake(id)

Spec == Init /\ [][Next]_vars

(***************************************************************************)
(* Timers fire; and select! takes one of the branches that are ready at    *)
(* random, so that background work is not passed over for ever.            *)
(***************************************************************************)
Fairness ==
  /\ WF_vars(Draw) /\ WF_vars(Answer)
  /\ IF IsAsync THEN SF_vars(Background) ELSE SF_vars(Tick)

FairSpec == Spec /\ Fairness

-----------------------------------------------------------------------------
(* Properties *)

ShellTypeOK ==
  /\ \A i \in DOMAIN shell.entries :
       /\ shell.entries[i].id < shell.next /\ shell.entries[i].key \in Keys \cup {NoKey}
       /\ \A j \in DOMAIN shell.entries : i < j => shell.entries[i].id < shell.entries[j].id
  /\ shell.active \in 0 .. Len(shell.entries)
  /\ shell.overlay.kind = "palette" =>
       shell.overlay.query \in Queries /\ shell.overlay.selected \in Nat
  /\ {shell.armed, shell.dirty, shell.notice, attached, behind} \subseteq BOOLEAN
  /\ shell.signal = Continue /\ outcome \in {Continue, Detached, NoSurfaces, "error"}

(***************************************************************************)
(* Exactly the active surface has been told that it has the focus, and     *)
(* there is one as long as there are surfaces, whatever is opened, closed  *)
(* and selected by one event; and where no frame is asked for, the last    *)
(* one shows the shell as it is: a click on a tab selects the surface that *)
(* is shown there.  (That Enter runs the item that is highlighted does not *)
(* follow: see EnterRunsHighlighted.)                                      *)
(***************************************************************************)
FocusIsShown ==
  /\ \A i \in DOMAIN shell.entries : shell.entries[i].focused <=> i = shell.active
  /\ shell.entries # <<>> => shell.active # 0
  /\ attached /\ ~shell.dirty => ~behind

(***************************************************************************)
(* When surfaces close and none opens, the active one stays active if it   *)
(* is still there, unless another was asked for by its key.                *)
(***************************************************************************)
ClosingKeepsFocus ==
  [][LET gone == Ids(shell) \ Ids(shell')
         stays == shell.active # 0 /\ ActiveEntry(shell).id \in Ids(shell')
     IN gone # {} /\ Ids(shell') \subseteq Ids(shell) /\ stays =>
          \/ ActiveEntry(shell').id = ActiveEntry(shell).id
          \/ ActiveEntry(shell').key # NoKey]_vars

(***************************************************************************)
(* The background work of every surface is taken up in the end, however    *)
(* often others have some.                                                 *)
(***************************************************************************)
BackgroundServed ==
  \A id \in Waiting :
    id \in ready ~> id \notin ready \/ ~attached \/ id \notin Ids(shell)

(***************************************************************************)
(* Going back from the first surface leads to the last one, as going on    *)
(* from the last one leads to the first ("cycle surfaces", README.md).     *)
(***************************************************************************)
PreviousCycles ==
  shell.active = 1 => SelectRelative(shell, -1).active = Len(shell.entries)

(***************************************************************************)
(* Enter runs the item of the palette that is highlighted: the render of   *)
(* the palette brings the selection back into a list that has become       *)
(* shorter, and Enter has to take the same one.                            *)
(***************************************************************************)
EnterRunsHighlighted ==
  attached /\ shell.overlay.kind = "palette" =>
    LET items == PaletteItems(shell, shell.overlay.query) IN
    items # <<>> => PaletteKey(shell, "enter") = Run(shell, items[Highlighted(shell) + 1])
=============================================================================
