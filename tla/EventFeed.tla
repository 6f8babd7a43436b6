----------------------------- MODULE EventFeed ------------------------------
(***************************************************************************)
(* What the delivery of a session's events promises to those who watch it: *)
(* each viewer shows the events so far up to some point, none missing,     *)
(* repeated or out of order, and never goes back.                          *)
(***************************************************************************)
EXTENDS Naturals, Sequences

CONSTANT Viewers

VARIABLES log,   \* the events of the session
          view   \* what each viewer shows

feed == <<log, view>>

Init ==
  /\ log = <<>>
  /\ view = [v \in Viewers |-> <<>>]

Publish ==
  /\ Len(log') > Len(log) /\ SubSeq(log', 1, Len(log)) = log
  /\ UNCHANGED view

\* A viewer shows more: the next event, or all there is up to a point.
Show(v) ==
  \E n \in Len(view[v]) + 1 .. Len(log) :
    /\ view' = [view EXCEPT ![v] = SubSeq(log, 1, n)]
    /\ UNCHANGED log

Next ==
  \/ Publish
  \/ \E v \in Viewers : Show(v)

Spec == Init /\ [][Next]_feed

\* A consequence: what a viewer shows is a prefix of the log.
ViewsArePrefixes == \A v \in Viewers : view[v] = SubSeq(log, 1, Len(view[v]))
=============================================================================
