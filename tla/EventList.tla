----------------------------- MODULE EventList -----------------------------
(***************************************************************************)
(* The event list of the simulator (eventlist.cpp): the pending events,    *)
(* the clock, and the time at which the simulation ends.                   *)
(*                                                                         *)
(* The multimap of the code runs its entries by time and, at equal times,  *)
(* in the order in which they were inserted.  Here an event is a record    *)
(* with the fields                                                         *)
(*    when -- the time it is due                                           *)
(*    ord  -- the position of its insertion among all insertions           *)
(* and with whatever fields the module that EXTENDS this one uses to name  *)
(* its event source.  A handler schedules a batch of events; it numbers    *)
(* them from stamp upwards in the order of its sourceIsPending calls.      *)
(***************************************************************************)
EXTENDS Integers

VARIABLES
  pending,   \* _pendingsources
  now,       \* _lasteventtime
  endtime,   \* _endtime; 0 stands for "no end"
  stamp      \* insertions so far

eventVars == <<pending, now, endtime, stamp>>

Before(e, f) == e.when < f.when \/ (e.when = f.when /\ e.ord < f.ord)

\* _pendingsources.begin()
IsNext(e) == e \in pending /\ \A f \in pending \ {e} : Before(e, f)

\* Faulty: an end time of 0 is not taken as "no end".
AdmittedByTime(batch) == {e \in batch : e.when < endtime}

\* sourceIsPending keeps an event only when it is due before the end.
Admitted(batch) == {e \in batch : endtime = 0 \/ e.when < endtime}

\* doNextEvent: e is removed, the clock moves to it, and its source runs and
\* makes n calls of sourceIsPending that ask for the events of batch.
Fire(e, batch, n) ==
  /\ IsNext(e)
  /\ now' = e.when
  /\ pending' = (pending \ {e}) \cup Admitted(batch)
  /\ stamp' = stamp + n

\* The assertion of sourceIsPending, on every event it has accepted: nothing
\* is scheduled before the current time (eventlist.cpp:45, and :26 when it runs).
NoEventInThePast == \A e \in pending : e.when >= now
=============================================================================
