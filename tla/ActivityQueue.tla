--------------------------- MODULE ActivityQueue ----------------------------
(***************************************************************************)
(* The queue's two handlers that start activities (OnStartActivity and     *)
(* OnActivityComplete of src/src/core/queue.cpp), for whatever activities  *)
(* a process has.                                                          *)
(***************************************************************************)
EXTENDS Activities

CONSTANTS
    Exclusive,    \* the kinds of activities that are ExclusiveActivity
    Start(_, _),  \* Activity::start: the next states when activity a starts
    Notify(_, _)  \* Activity::activityComplete: m, once those told of a ran

\* ExclusiveActivity::precondition: no activity of the type is active.
Precondition_Bug(m, a) == TRUE

Precondition(m, a) ==
    m.acts[a].kind \in Exclusive =>
        \A b \in ToSet(m.active) : m.acts[b].kind # m.acts[a].kind

\* The start of an activity that became active.
Activate(m, a) == Start([m EXCEPT !.active = Append(@, a)], a)

\* A pending activity does not hold up the ones after it.
Starts_Bug(m, a) ==
    IF Precondition(m, a) THEN Activate(m, a)
    ELSE {[m EXCEPT !.pending = Append(@, a)]}

\* OnStartActivity.
Starts(m, a) ==
    IF m.pending = << >> /\ Precondition(m, a) THEN Activate(m, a)
    ELSE {[m EXCEPT !.pending = Append(@, a)]}

\* No pending activity is looked at.
Completed_Bug(m, a) ==
    {[Notify(m, a) EXCEPT !.active = RemoveAt(@, At(m, a))]}

\* OnActivityComplete of an active a: it leaves the active ones, and the first
\* pending one, if it now can, becomes active.
Completed(m, a) ==
    LET told_ == Notify(m, a)
        rest == [told_ EXCEPT !.active = RemoveAt(@, At(m, a))]
    IN  IF rest.pending # << >> /\ Precondition(rest, Head(rest.pending))
        THEN Activate([rest EXCEPT !.pending = Tail(@)], Head(rest.pending))
        ELSE {rest}
=============================================================================
