-------------------------- MODULE ScheduleDispatch --------------------------
(***************************************************************************)
(* One schedule of a pipeline, the dispatches of the cron job that act on  *)
(* it (lib/cron/dispatch-schedules.ts) and the dashboard's edits           *)
(* (schedules/actions.ts); schedules do not affect each other.             *)
(*                                                                         *)
(* A dispatch has the time its tick began at.  It reads the schedule and   *)
(* later claims its slot, by an update that only succeeds if the schedule  *)
(* still has the slot that was read; the slot it moves on to is one of the *)
(* expression it read, which an edit may have replaced since.  Dispatches  *)
(* may overlap and end after any call.  An edit computes the next slot and *)
(* writes it later.                                                        *)
(***************************************************************************)
EXTENDS Integers

CONSTANTS
  Dispatches, \* invocations of the cron job that may be in flight together
  LastMinute, \* bound on the clock
  Periods     \* the cron expressions: every so many minutes

ASSUME ScheduleAssumption == LastMinute \in Nat \ {0} /\ Periods \subseteq Nat \ {0}

VARIABLES
  minute,
  schedule,   \* pipeline_schedules: exists ("none", "row", "gone"), active, period, next
  dispatch,   \* the dispatches: their time, and the slot and expression they read
  edit,       \* an edit that has computed a slot
  fired,      \* history: how often each slot was claimed
  rewound     \* history: fired slots that an edit put the schedule back to, or before

scheduleVars == <<minute, schedule, dispatch, edit, fired, rewound>>

NoDispatch == [pc |-> "idle", now |-> 0, seen |-> 0, period |-> 0]
NoEdit == [kind |-> "none", period |-> 0, value |-> 0]

\* getNextCronRun: the first slot strictly after a time.
getNextCronRun(period, after) == (after \div period + 1) * period

Slots == {getNextCronRun(period, time) : period \in Periods, time \in 1 .. LastMinute}

ScheduleTypeOK ==
  /\ minute \in 1 .. LastMinute
  /\ schedule \in [exists : {"none", "row", "gone"}, active : BOOLEAN, period : Periods \cup {0},
                   next : Slots \cup {0}]
  /\ dispatch \in [Dispatches -> [pc : {"idle", "fetch", "claim", "insert"},
                                  now : 0 .. LastMinute, seen : Slots \cup {0},
                                  period : Periods \cup {0}]]
  /\ edit \in [kind : {"none", "create", "update", "activate"}, period : Periods \cup {0},
               value : Slots \cup {0}]
  /\ fired \in [Slots -> Nat] /\ rewound \subseteq Slots

ScheduleInit ==
  /\ minute = 1
  /\ schedule = [exists |-> "none", active |-> FALSE, period |-> 0, next |-> 0]
  /\ dispatch = [d \in Dispatches |-> NoDispatch]
  /\ edit = NoEdit
  /\ fired = [s \in Slots |-> 0]
  /\ rewound = {}

Minute ==
  /\ minute < LastMinute
  /\ minute' = minute + 1
  /\ UNCHANGED <<schedule, dispatch, edit, fired, rewound>>

-----------------------------------------------------------------------------
(* Dispatching. *)

StartDispatch(d) ==
  /\ dispatch[d] = NoDispatch
  /\ dispatch' = [dispatch EXCEPT ![d].pc = "fetch", ![d].now = minute]
  /\ UNCHANGED <<minute, schedule, edit, fired, rewound>>

EndDispatch(d) == dispatch' = [dispatch EXCEPT ![d] = NoDispatch]

\* dispatchDueSchedules: a schedule that is active and due ...
FetchDue(d) ==
  /\ dispatch[d].pc = "fetch"
  /\ IF schedule.exists = "row" /\ schedule.active /\ schedule.next <= dispatch[d].now
     THEN dispatch' = [dispatch EXCEPT ![d].pc = "claim", ![d].seen = schedule.next,
                                       ![d].period = schedule.period]
     ELSE EndDispatch(d)
  /\ UNCHANGED <<minute, schedule, edit, fired, rewound>>

\* Mutant of ClaimSlot: the update does not compare next_run_at.
ClaimSlot_Unconditional(d) ==
  /\ dispatch[d].pc = "claim" /\ schedule.exists = "row"
  /\ schedule' = [schedule EXCEPT !.next = getNextCronRun(dispatch[d].period, dispatch[d].now)]
  /\ fired' = [fired EXCEPT ![dispatch[d].seen] = @ + 1]
  /\ dispatch' = [dispatch EXCEPT ![d].pc = "insert"]
  /\ UNCHANGED <<minute, edit, rewound>>

\* ... is claimed, unless its slot is no longer the one that was read; the next
\* one is of the expression that was read, whatever it is by now ...
ClaimSlot(d) ==
  /\ dispatch[d].pc = "claim"
  /\ IF schedule.exists = "row" /\ schedule.next = dispatch[d].seen
     THEN /\ schedule' = [schedule EXCEPT
                            !.next = getNextCronRun(dispatch[d].period, dispatch[d].now)]
          /\ fired' = [fired EXCEPT ![dispatch[d].seen] = @ + 1]
          /\ dispatch' = [dispatch EXCEPT ![d].pc = "insert"]
     ELSE EndDispatch(d) /\ UNCHANGED <<schedule, fired>>
  /\ UNCHANGED <<minute, edit, rewound>>

\* ... and a queued run is created: RunLifecycle's DispatchSchedule.
InsertScheduledRun(d) ==
  /\ dispatch[d].pc = "insert"
  /\ EndDispatch(d)
  /\ UNCHANGED <<minute, schedule, edit, fired, rewound>>

\* A call fails, the pipeline has no version, or the process dies.
FailDispatch(d) ==
  /\ dispatch[d].pc \in {"claim", "insert"}
  /\ EndDispatch(d)
  /\ UNCHANGED <<minute, schedule, edit, fired, rewound>>

-----------------------------------------------------------------------------
(* Editing. *)

\* createSchedule, updateSchedule and toggleSchedule compute the next slot ...
StartEdit(kind, period) ==
  /\ edit = NoEdit
  /\ schedule.exists = IF kind = "create" THEN "none" ELSE "row"
  /\ kind = "activate" => period = schedule.period
  /\ edit' = [kind |-> kind, period |-> period, value |-> getNextCronRun(period, minute)]
  /\ UNCHANGED <<minute, schedule, dispatch, fired, rewound>>

\* ... which they write with the rest of the edit; it may find no row.
WriteEdit ==
  /\ edit # NoEdit
  /\ edit' = NoEdit
  /\ IF edit.kind # "create" /\ schedule.exists # "row"
     THEN UNCHANGED <<schedule, rewound>>
     ELSE /\ schedule' = [exists |-> "row", next |-> edit.value,
                          active |-> schedule.active \/ edit.kind # "update",
                          period |-> IF edit.kind = "activate" THEN schedule.period
                                                               ELSE edit.period]
          /\ rewound' = rewound \cup {s \in Slots : s >= edit.value /\ fired[s] > 0}
  /\ UNCHANGED <<minute, dispatch, fired>>

Deactivate ==
  /\ schedule.exists = "row" /\ schedule.active
  /\ schedule' = [schedule EXCEPT !.active = FALSE]
  /\ UNCHANGED <<minute, dispatch, edit, fired, rewound>>

DeleteSchedule ==
  /\ schedule.exists = "row"
  /\ schedule' = [schedule EXCEPT !.exists = "gone"]
  /\ UNCHANGED <<minute, dispatch, edit, fired, rewound>>

Dispatching(d) ==
  StartDispatch(d) \/ FetchDue(d) \/ ClaimSlot(d) \/ InsertScheduledRun(d) \/ FailDispatch(d)

Editing ==
  \/ \E kind \in {"create", "update", "activate"}, period \in Periods : StartEdit(kind, period)
  \/ WriteEdit \/ Deactivate \/ DeleteSchedule

Schedule == Minute \/ (\E d \in Dispatches : Dispatching(d)) \/ Editing

ScheduleSpec == ScheduleInit /\ [][Schedule]_scheduleVars

-----------------------------------------------------------------------------
(* Properties. *)

\* "A schedule can never fire twice for the same slot" (comment in
\* dispatch-schedules.ts) however dispatches overlap, unless an edit, which
\* computed its slot before, put the schedule back to it or before it.
SlotFiresOnce == \A s \in Slots : fired[s] > 1 => s \in rewound
=============================================================================
