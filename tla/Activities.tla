----------------------------- MODULE Activities -----------------------------
(***************************************************************************)
(* What the handlers of an event queue are made of (src/src/core/queue.cpp *)
(* and src/src/core/activity.cpp): the handlers they post.  The master and *)
(* each slave have a queue; the state m of such a process is a record with *)
(* the fields                                                              *)
(*                                                                         *)
(*   acts     all activities ever made; an activity is its number in here, *)
(*            and has at least a kind                                      *)
(*   active   m_active                                                     *)
(*   pending  m_pending                                                    *)
(*   posted   the handlers posted to the io_context                        *)
(*                                                                         *)
(* A definition whose name ends in _Bug is a deliberate fault in the one   *)
(* after it, used by no specification.                                     *)
(***************************************************************************)
EXTENDS Naturals, Sequences, FiniteSets, SequencesExt

StartEvent(a) == [type |-> "start", act |-> a]
CompleteEvent(a) == [type |-> "complete", act |-> a]

Post(m, events) == [m EXCEPT !.posted = @ \o events]

\* Queue::activityComplete.
Complete(m, a) == Post(m, <<CompleteEvent(a)>>)

\* Activities are made, and Queue::startActivity is called for each.
StartActivities(m, new) ==
    [m EXCEPT !.acts = @ \o new,
              !.posted = @ \o [i \in 1 .. Len(new) |-> StartEvent(Len(m.acts) + i)]]

\* Only the activities behind the one that is complete are told.
Told_Bug(m, a) ==
    LET at == CHOOSE i \in DOMAIN m.active : m.active[i] = a
    IN  {m.active[i] : i \in at + 1 .. Len(m.active)}

\* Where a is found among the active ones.
At(m, a) == CHOOSE i \in DOMAIN m.active : m.active[i] = a

\* Whom OnActivityComplete tells that a is complete.
Told(m, a) == {m.active[i] : i \in 1 .. At(m, a) - 1}

\* The activities whose start is posted.
StartsPosted(m) == {e.act : e \in {f \in ToSet(m.posted) : f.type = "start"}}

NotStarted(m) == ToSet(m.pending) \cup StartsPosted(m)

\* The activities that have not been completed.
Unfinished(m) == ToSet(m.active) \cup NotStarted(m)

Increasing(s) == \A i, j \in DOMAIN s : i < j => s[i] < s[j]
=============================================================================
