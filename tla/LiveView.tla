------------------------------ MODULE LiveView ------------------------------
(***************************************************************************)
(* One page of the dashboard that follows a run or a deployment            *)
(* (useRealtimeRun, useRealtimeDeployment): the server reads the tables    *)
(* one after the other, the browser renders what was read, joins a channel *)
(* per table once it has a token, and applies the events that arrive.  A   *)
(* channel delivers in order, different channels do not; an event is for   *)
(* those who had joined when the row was written.                          *)
(*                                                                         *)
(* Of every table one row, or the rows' number, is kept: "main" is the run *)
(* or the deployment, "parents" are task runs or revisions, "children"     *)
(* step runs, "entries" log lines, health checks and healing events.       *)
(* Supabase, which stores and delivers, is external.                       *)
(***************************************************************************)
EXTENDS Integers, Sequences

CONSTANTS
  MaxVersion, \* bound on the writes of a parent, and of a child
  MaxEvents    \* bound on the entries

ASSUME LiveAssumption == MaxVersion \in Nat \ {0} /\ MaxEvents \in Nat

Tables == <<"main", "parents", "children", "entries">>
Channels == {"main", "parents", "children", "entries"}

VARIABLES
  hook,    \* "run" or "deployment"
  db,      \* how often a table was written; "main" is over after one write
  atEnd,   \* history: db when main ended
  view,    \* what the page shows
  loaded,  \* how many tables the server has read
  page,    \* "loading", "open", "closing" or "closed"
  joined,  \* the channels that were joined
  events,  \* what a channel has still to deliver
  due,     \* how much of it when the timer that closes the channels was set
  missed,  \* history: a write came between the read and the join
  dropped, \* history: an event of a child came while its parent was unknown
  refreshed \* history: the page was rendered again by the server

pageVars == <<view, loaded, page, joined, due, missed, dropped, refreshed>>
liveVars == <<hook, db, atEnd, events, pageVars>>

Nothing == [c \in Channels |-> 0]

LiveTypeOK ==
  /\ hook \in {"run", "deployment"}
  /\ {db, atEnd, view} \subseteq [Channels -> 0 .. MaxVersion + MaxEvents]
  /\ loaded \in 0 .. 4
  /\ page \in {"loading", "open", "closing", "closed"}
  /\ joined \subseteq Channels
  /\ events \in [Channels -> Seq(1 .. MaxVersion + MaxEvents)]
  /\ due \in [Channels -> 0 .. MaxVersion + MaxEvents]
  /\ {missed, dropped, refreshed} \subseteq BOOLEAN

LiveInit ==
  /\ hook \in {"run", "deployment"}
  /\ db = Nothing /\ atEnd = Nothing /\ view = Nothing
  /\ loaded = 0 /\ page = "loading" /\ joined = {}
  /\ events = [c \in Channels |-> <<>>] /\ due = Nothing
  /\ missed = FALSE /\ dropped = FALSE /\ refreshed = FALSE

IsOver(tables) == tables["main"] = 1

\* A page that is going to follow the tables has read this one, but not joined.
Unseen(c) ==
  /\ page # "closed" /\ ~IsOver(view) /\ c \notin joined
  /\ \E i \in 1 .. loaded : Tables[i] = c

\* A row is written.  Late reports come after the end.
Write(c) ==
  /\ db[c] < CASE c = "main" -> 1 [] c = "entries" -> MaxEvents [] OTHER -> MaxVersion
  /\ c = "children" => hook = "run" /\ db["parents"] > 0
  /\ db' = [db EXCEPT ![c] = @ + 1]
  /\ atEnd' = IF c = "main" THEN db ELSE atEnd
  /\ events' = IF c \in joined THEN [events EXCEPT ![c] = Append(@, db[c] + 1)] ELSE events
  /\ missed' = (missed \/ Unseen(c))
  /\ UNCHANGED <<hook, view, loaded, page, joined, due, dropped, refreshed>>

\* The queries of the page, the run itself first; a view of one that is over
\* is not subscribed.
ReadTable ==
  /\ page = "loading"
  /\ LET c == Tables[loaded + 1] IN view' = [view EXCEPT ![c] = db[c]]
  /\ loaded' = loaded + 1
  /\ page' = IF loaded' < Len(Tables) THEN page ELSE IF IsOver(view') THEN "closed" ELSE "open"
  /\ UNCHANGED <<hook, db, atEnd, events, joined, due, missed, dropped, refreshed>>

\* subscribeAll, after authorizeRealtime.
Join(c) ==
  /\ page = "open" /\ c \notin joined
  /\ joined' = joined \cup {c}
  /\ UNCHANGED <<hook, db, atEnd, events, view, loaded, page, due, missed, dropped, refreshed>>

CloseChannels ==
  /\ page' = "closed" /\ joined' = {}
  /\ events' = [c \in Channels |-> <<>>] /\ due' = Nothing

\* A step of a task the page does not know is dropped.
Applies(c) == c = "children" => view["parents"] > 0

Received(c) ==
  /\ page \in {"open", "closing"} /\ events[c] # <<>>
  /\ view' = IF Applies(c) THEN [view EXCEPT ![c] = Head(events[c])] ELSE view
  /\ dropped' = (dropped \/ ~Applies(c))
  /\ UNCHANGED <<hook, db, atEnd, loaded, missed, refreshed>>

Taken(c) == [events EXCEPT ![c] = Tail(@)]

Deliver(c) ==
  /\ c # "main" /\ Received(c)
  /\ events' = Taken(c)
  /\ due' = [due EXCEPT ![c] = IF @ > 0 THEN @ - 1 ELSE 0]
  /\ UNCHANGED <<page, joined>>

\* Mutant of DeliverEnd: the channels are closed at once for runs too.
DeliverEnd_AtOnce == Received("main") /\ CloseChannels

\* The run or the deployment is over: the channels are closed at once, or
\* after TERMINAL_GRACE_MS.
DeliverEnd ==
  /\ Received("main")
  /\ IF hook = "deployment" THEN CloseChannels
     ELSE /\ page' = "closing"
          /\ events' = Taken("main")
          /\ due' = [c \in Channels |-> IF c = "main" THEN 0 ELSE Len(events[c])]
          /\ UNCHANGED joined

\* Assumed of TERMINAL_GRACE_MS: an event does not take that long.
CloseTimer ==
  /\ page = "closing" /\ due = Nothing
  /\ CloseChannels
  /\ UNCHANGED <<hook, db, atEnd, view, loaded, missed, dropped, refreshed>>

\* router.refresh(), for an approval, or a server action's revalidatePath:
\* shouldSubscribe follows the new initial status, the state does not.
Refresh ==
  /\ page \in {"open", "closing"} /\ IsOver(db)
  /\ refreshed' = TRUE
  /\ CloseChannels
  /\ UNCHANGED <<hook, db, atEnd, view, loaded, missed, dropped>>

Live ==
  \/ \E c \in Channels : Write(c) \/ Join(c) \/ Deliver(c)
  \/ ReadTable \/ DeliverEnd \/ CloseTimer \/ Refresh

LiveSpec == LiveInit /\ [][Live]_liveVars

-----------------------------------------------------------------------------
(* Property. *)

\* A page that no longer follows a run shows its end, and all that had been
\* written by then ("the last log lines may land after the final status
\* change"), whatever order the channels deliver in; a deployment's shows its
\* end.  Excepted are steps of a task the page did not know yet, pages that
\* missed a write before they joined, and those that a refresh cut off.
ViewIsFinal ==
  page = "closed" /\ ~missed /\ ~refreshed
    => /\ IsOver(view)
       /\ hook = "run" =>
            \A c \in Channels \ {"main"} :
              view[c] >= atEnd[c] \/ (c = "children" /\ dropped)
=============================================================================
