--------------------------- MODULE Notifications ---------------------------
(***************************************************************************)
(* The notifications of one user in one organisation: the producers        *)
(* (lib/notifications.ts, lib/notify-webhook.ts), the two queries of the   *)
(* dashboard's layout, which run at the same time, and the dropdown of one *)
(* browser tab with its live channel (use-realtime-notifications.ts).      *)
(*                                                                         *)
(* The dropdown is part of every page's top bar: going to another page     *)
(* makes a new one, which starts from what the layout read when it was     *)
(* rendered, joins the channel anew, and has no part in calls under way.   *)
(*                                                                         *)
(* Left out: a page that the server renders again in place, which changes  *)
(* what the next page starts from.                                         *)
(*                                                                         *)
(* Assumed: a channel delivers each row that was inserted after it was     *)
(* joined once, in any order.                                              *)
(***************************************************************************)
EXTENDS Integers, FiniteSets, FiniteSetsExt

CONSTANTS
  Notes,                 \* ids of rows, by created_at
  NOTIFICATION_PAGE_SIZE,
  MaxVisits              \* bound on the pages opened, and on the reloads

ASSUME NotesAssumption ==
  Notes \subseteq Nat /\ NOTIFICATION_PAGE_SIZE \in Nat \ {0} /\ MaxVisits \in Nat

VARIABLES
  note,      \* the rows: "none", "unread" or "read"
  told,      \* the rows that the organisation's webhook was told of
  layout,    \* what the layout's queries found: the page, which of it was
             \* unread, the count; and which queries are still to answer
  channel,   \* "off" or "joined"
  arriving,  \* rows the channel has still to deliver
  listed,    \* the dropdown: the rows it lists
  fresh,     \* those of them that it shows as unread
  unreadCount,
  marking,   \* the calls of markNotificationsRead under way, by their rows;
             \* {} stands for markAllNotificationsRead
  visits,
  torn       \* history: the layout's queries read different tables, or the
             \* count failed

noteVars == <<note, told, layout, channel, arriving, listed, fresh, unreadCount, marking,
              visits, torn>>
dropdown == <<listed, fresh, unreadCount>>

RUN_OUTCOME_TITLE == {"success", "failed", "timed_out"}
DEPLOYMENT_OUTCOME_TITLE == {"active", "failed", "rolled_back"}
Events == [kind : {"run"}, status : RUN_OUTCOME_TITLE \cup {"cancelled"}]
            \cup [kind : {"deployment"}, status : DEPLOYMENT_OUTCOME_TITLE \cup {"draining"}]
            \cup [kind : {"approval"}, status : {"awaiting_approval"}]

Announced(e) ==
  \/ e.kind = "run" /\ e.status \in RUN_OUTCOME_TITLE
  \/ e.kind = "deployment" /\ e.status \in DEPLOYMENT_OUTCOME_TITLE
  \/ e.kind = "approval"

Unread == {n \in Notes : note[n] = "unread"}
StoredNotes == {n \in Notes : note[n] # "none"}
\* order by created_at desc, limit NOTIFICATION_PAGE_SIZE
Newest(S) == {n \in S : Cardinality({m \in S : m > n}) < NOTIFICATION_PAGE_SIZE}

NoteInit ==
  /\ note = [n \in Notes |-> "none"] /\ told = {}
  /\ layout = [page |-> {}, unread |-> {}, count |-> 0, todo |-> {"page", "count"}]
  /\ channel = "off" /\ arriving = {}
  /\ listed = {} /\ fresh = {} /\ unreadCount = 0
  /\ marking = {} /\ visits = 0 /\ torn = FALSE

\* after() a status was written.  A run or deployment that is gone, or members
\* that cannot be read, make it nobody's, and it ends there; an insert that
\* fails is logged, and the webhook is told all the same, once, if it answers.
createNotification(n, e) ==
  /\ Announced(e)
  /\ n = Cardinality(StoredNotes) + 1
  /\ \/ /\ note' = [note EXCEPT ![n] = "unread"]
        /\ arriving' = IF channel = "joined" THEN arriving \cup {n} ELSE arriving
        /\ torn' = (torn \/ Cardinality(layout.todo) = 1)
     \/ UNCHANGED <<note, arriving, torn>>
  /\ \/ told' = told \cup {n}
     \/ UNCHANGED told
  /\ UNCHANGED <<layout, channel, dropdown, marking, visits>>

\* The two queries of the layout; the page opens when both have answered.  What
\* a query that fails would have said is taken to be nothing: data ?? [], count ?? 0.
Opens(l) ==
  /\ layout' = l
  /\ IF l.todo = {}
     THEN listed' = l.page /\ fresh' = l.unread /\ unreadCount' = l.count
     ELSE UNCHANGED dropdown

QueryPage ==
  /\ "page" \in layout.todo
  /\ \E found \in {Newest(StoredNotes), {}} :
       Opens([layout EXCEPT !.page = found, !.unread = found \cap Unread, !.todo = @ \ {"page"}])
  /\ UNCHANGED <<note, told, channel, arriving, marking, visits, torn>>

QueryCount ==
  /\ "count" \in layout.todo
  /\ \/ Opens([layout EXCEPT !.count = Cardinality(Unread), !.todo = @ \ {"count"}])
        /\ UNCHANGED torn
     \/ Opens([layout EXCEPT !.count = 0, !.todo = @ \ {"count"}]) /\ torn' = TRUE
  /\ UNCHANGED <<note, told, channel, arriving, marking, visits>>

\* authorizeRealtime has answered and the channel is subscribed.
Subscribe ==
  /\ layout.todo = {} /\ channel = "off"
  /\ channel' = "joined"
  /\ UNCHANGED <<note, told, layout, arriving, dropdown, marking, visits, torn>>

onInsert(n) ==
  /\ n \in arriving
  /\ arriving' = arriving \ {n}
  /\ listed' = listed \cup {n} /\ fresh' = fresh \cup {n}
  /\ unreadCount' = unreadCount + 1
  /\ UNCHANGED <<note, told, layout, channel, marking, visits, torn>>

markAsRead(ids) ==
  /\ fresh' = fresh \ ids
  /\ unreadCount' = Max({0, unreadCount - Cardinality(ids)})
  /\ UNCHANGED listed

\* Mutant of handleNotificationClick: it does not look whether it was read.
handleNotificationClick_Always(n) ==
  /\ layout.todo = {} /\ n \in listed
  /\ markAsRead({n})
  /\ marking' = marking \cup {{n}}
  /\ UNCHANGED <<note, told, layout, channel, arriving, visits, torn>>

\* The dropdown shows the first twenty of its list, which are not the newest
\* when deliveries overtake each other: any of it.
handleNotificationClick(n) ==
  /\ layout.todo = {} /\ n \in listed
  /\ n \in fresh
  /\ markAsRead({n})
  /\ marking' = marking \cup {{n}}
  /\ UNCHANGED <<note, told, layout, channel, arriving, visits, torn>>

\* The button is there while the badge counts something.
handleMarkAllRead ==
  /\ layout.todo = {} /\ unreadCount > 0
  /\ fresh' = {} /\ unreadCount' = 0 /\ UNCHANGED listed
  /\ marking' = marking \cup {{}}
  /\ UNCHANGED <<note, told, layout, channel, arriving, visits, torn>>

\* Nobody looks at the answer: a failure leaves the rows unread.
MarkRead(ids) ==
  /\ ids \in marking
  /\ marking' = marking \ {ids}
  /\ \E hit \in {{}, IF ids = {} THEN Unread ELSE ids} :
       /\ note' = [n \in Notes |-> IF n \in hit THEN "read" ELSE note[n]]
       /\ torn' = (torn \/ (Cardinality(layout.todo) = 1 /\ hit # {}))
  /\ UNCHANGED <<told, layout, channel, arriving, dropdown, visits>>

\* Another page of the dashboard, or the whole again from the server.
Leave ==
  /\ layout.todo = {} /\ visits < MaxVisits /\ visits' = visits + 1
  /\ channel' = "off" /\ arriving' = {}
  /\ UNCHANGED <<note, told, marking>>

Navigate ==
  /\ Leave
  /\ listed' = layout.page /\ fresh' = layout.unread /\ unreadCount' = layout.count
  /\ UNCHANGED <<layout, torn>>

Reload ==
  /\ Leave
  /\ layout' = [layout EXCEPT !.todo = {"page", "count"}]
  /\ torn' = FALSE
  /\ UNCHANGED dropdown

Notifying ==
  \/ \E n \in Notes, e \in Events : createNotification(n, e)
  \/ QueryPage \/ QueryCount \/ Subscribe
  \/ \E n \in Notes : onInsert(n) \/ handleNotificationClick(n)
  \/ handleMarkAllRead
  \/ \E ids \in marking : MarkRead(ids)
  \/ Navigate \/ Reload

NoteSpec == NoteInit /\ [][Notifying]_noteVars

NoteTypeOK ==
  /\ note \in [Notes -> {"none", "unread", "read"}]
  /\ told \subseteq Notes /\ arriving \subseteq StoredNotes /\ listed \subseteq StoredNotes
  /\ fresh \subseteq listed
  /\ unreadCount \in 0 .. 2 * Cardinality(Notes)
  /\ marking \subseteq SUBSET Notes
  /\ channel \in {"off", "joined"} /\ torn \in BOOLEAN /\ visits \in 0 .. MaxVisits

-----------------------------------------------------------------------------
(* Property. *)

\* The badge counts at least the notifications that the dropdown shows as
\* unread, whatever arrives while some are being read, if the layout's two
\* queries saw the same table and it could be counted: "mark all as read"
\* cannot be out of reach.
BadgeCoversList ==
  layout.todo = {} /\ ~torn => unreadCount >= Cardinality(fresh)
=============================================================================
