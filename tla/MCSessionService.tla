------------------------- MODULE MCSessionService ---------------------------
(***************************************************************************)
(* SessionService for TLC: the menus of requests the runs offer a client.  *)
(***************************************************************************)
EXTENDS SessionService

CONSTANTS w1, w2, i1, i2, i3

Base == [type |-> "Direct", class |-> "Write", submit |-> FALSE,
         view |-> FALSE, ws |-> w1, rid |-> i1, target |-> NoCall,
         cursor |-> 0, hold |-> FALSE]

Of(type) == [Base EXCEPT !.type = type]
On(type, c) == [Base EXCEPT !.type = type, !.target = c]
Op(class, submit, i) ==
  [Base EXCEPT !.type = "Operation", !.class = class, !.submit = submit,
               !.rid = i]
InW2(q) == [q EXCEPT !.ws = w2]
WithView(q) == [q EXCEPT !.view = TRUE]
Held(q) == [q EXCEPT !.hold = TRUE]

\* Operations of every class, two pushes, and one on another workspace.
ScheduleRequests ==
  {Op("Write", FALSE, i1), Op("Push", FALSE, i2), Op("Push", FALSE, i3),
   Op("Fetch", FALSE, i3), InW2(Op("Write", TRUE, i1))}

\* Submitted operations and their views.
ResultRequests ==
  {WithView(Op("Fetch", TRUE, i1)), On("Result", 1), On("Response", 1),
   Op("Fetch", TRUE, i2)}

\* Two writes, direct calls, a held read and a cancellation that a close meets,
\* at any stage of theirs.
CloseRequests ==
  {Of("Close"), Op("Write", TRUE, i1), Op("Write", FALSE, i2), Of("Direct"),
   Held(On("Read", 1)), On("Cancel", 2)}

\* Calls, their cancellation and release, from a client that may break the
\* protocol or lose its channel.
FaultRequests ==
  {Of("Direct"), On("Cancel", 1), Op("Write", TRUE, i1),
   Op("Write", FALSE, i2), Of("Malformed"), Of("Stale"), Of("Close"),
   On("Release", 1)}

\* Calls that wait on one another, and a close in the way of any of them.
LiveRequests ==
  {Of("Close"), Op("Write", TRUE, i1), Op("Write", FALSE, i2), Of("Direct"),
   Held(On("Read", 1)), On("Read", 1), On("EndStream", 1), Of("Spool"),
   On("Result", 1), On("CancelOp", 1)}

InlineRequests == {Of("Close"), Of("Direct")}
=============================================================================
