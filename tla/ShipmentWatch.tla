---------------------------- MODULE ShipmentWatch ----------------------------
(***************************************************************************)
(* One watch of a client on a parcel in globex-fedex, and the threads that *)
(* work on its row: the watch cycle (at start-up two of them run at once,  *)
(* main.py, and the chat runs one when it is asked for the watches), the   *)
(* requests that bring visibility events, and the client who subscribes or *)
(* stops (services/shipment_watch_service.py,                              *)
(* services/fedex_visibility_service.py).                                  *)
(*                                                                         *)
(* An event takes its id from the sequence of the table when it is         *)
(* inserted and can be seen by others when its transaction commits, so     *)
(* that ids may become visible out of order.  Mails leave at once; the     *)
(* notification rows, the cursor and the counter of mails are stored by    *)
(* the commit, which writes the columns the transaction changed.           *)
(*                                                                         *)
(* Left out: the wording, and with it last_notified_status, so that the    *)
(* mail of a new status is a choice; the mails no counter counts (that     *)
(* confirm a subscription or its end); and the row lock that a flush takes *)
(* in the middle of a subscription, so that more orders of commits are     *)
(* allowed than the database would let happen.                             *)
(***************************************************************************)
EXTENDS Integers, FiniteSets, FiniteSetsExt

CONSTANTS
    Loop,       \* the thread that runs watch cycles for ever
    Startup,    \* the thread that runs a cycle when the server starts or the chat asks
    Hooks,      \* threads that serve the webhook and the tracking page
    Client,     \* the thread that serves the client's subscription
    MaxEvents,  \* ids of visibility events: it bounds the events of the parcel
    MailCap,    \* max_email_updates
    Wishes,     \* what a client may ask for: see Wish
    MailsFail,  \* whether a mail may fail to leave: see MailsSent
    DemoMode,   \* _sandbox_watch_demo_mode: the delivery does not end a watch
    MaxBusy,    \* bounds how many threads work on the watch at the same time
    MaxSubscriptions \* bounds how often the client subscribes again

EventId == 1 .. MaxEvents

\* alert: the events that match alert_type; inApp: notify_in_app.
Wish == [alert : SUBSET EventId, inApp : BOOLEAN]

ASSUME WatchAssumption ==
    /\ MaxEvents \in Nat /\ MailCap \in Nat
    /\ MaxBusy \in Nat /\ MaxSubscriptions \in Nat
    /\ Wishes \subseteq Wish /\ Wishes # {} /\ DemoMode \in BOOLEAN /\ MailsFail \in BOOLEAN

VARIABLES
    active,     \* is_active of the watch
    cursor,     \* last_visibility_event_id
    counted,    \* email_updates_sent
    choice,     \* alert_type and notify_in_app
    lastId,     \* the sequence of the event table
    visible,    \* ids of the committed events
    thread,     \* the threads
    noted,      \* history: events with a stored notification
    declined,   \* history: events told to a row that asked for no notification of them
    mailed,     \* history: mails since the last subscription, but for those of transactions
                \* that were rolled back
    passed,     \* history: events that a subscription or a baseline left behind
    outrun,     \* history: events that a higher id overtook (see Overtakes)
    met,        \* history: two threads worked on the watch at the same time
    subscribed  \* history: subscriptions so far

watchVars == <<active, cursor, counted, choice, lastId, visible, thread, noted, declined,
               mailed, passed, outrun, met, subscribed>>

Pollers == {Loop, Startup}

Threads == Pollers \union Hooks \union {Client}

ASSUME ThreadsAreDistinct == Client \notin Pollers \union Hooks /\ Pollers \intersect Hooks = {}

\* The parcel is delivered with the last event the model has.
IsDelivery(e) == e = MaxEvents

\* A cursor that is NULL, below every id.
NoCursor == -1

\* What a thread holds: the row as it loaded it, the row as its session has it now, the
\* columns of it that a flush wrote, the events it inserted, those it has still to tell,
\* those it told and those it leaves behind a new baseline.
Row == [active : BOOLEAN, cursor : NoCursor .. MaxEvents, counted : 0 .. MailCap, choice : Wishes]

WatchThread == [at : {"idle", "asking", "loaded", "status", "telling", "posting"},
                loaded : Row, now : Row, flushed : SUBSET {"active", "counted", "choice"},
                own : SUBSET EventId, todo : SUBSET EventId, told : SUBSET EventId,
                left : SUBSET EventId]

StoredRow == [active |-> active, cursor |-> cursor, counted |-> counted, choice |-> choice]

IsIdle(t) == thread[t].at = "idle"

Sets(t, state) == thread' = [thread EXCEPT ![t] = state]

Alone(t) == \A u \in Threads \ {t} : IsIdle(u)

HasRoom == Cardinality({t \in Threads : ~IsIdle(t)}) < MaxBusy

Greatest(ids) == IF ids = {} THEN 0 ELSE Max(ids)

IdsUpTo(e) == {x \in EventId : x <= e}

NoRow ==
    [active |-> TRUE, cursor |-> NoCursor, counted |-> 0, choice |-> CHOOSE c \in Wishes : TRUE]

\* A thread that holds the row twice, and nothing else yet.
Holding(at, row) == [at |-> at, loaded |-> row, now |-> row, flushed |-> {},
                     own |-> {}, todo |-> {}, told |-> {}, left |-> {}]

Idle == Holding("idle", NoRow)

Loaded(at) == Holding(at, StoredRow)

-----------------------------------------------------------------------------
(* Vocabulary *)

\* mutant: the counter of mails is not looked at
NoLimit(row) == FALSE

LimitReached(row) == row.counted >= MailCap

\* _try_send_watch_update_email: how many mails leave for what it is called for.  None does
\* when notify_email is off, the user has no address or the sending fails.
MailsSent(row) == IF LimitReached(row) THEN {0} ELSE IF MailsFail THEN {0, 1} ELSE {1}

\* notify_watch_visibility_event returns at once when the event does not match alert_type.
EventMails(row, e) == IF e \in row.choice.alert THEN MailsSent(row) ELSE {0}

\* The events that leave a notification.
Asks(wish) == IF wish.inApp THEN wish.alert ELSE {}

\* The row after event e was told, whether it matched or not, with n mails.
AfterTelling(row, e, ends, n) ==
    [row EXCEPT !.active = @ /\ ~ends, !.cursor = e, !.counted = @ + n]

\* The row of a session whose query or baseline begins after from.
PlacedAt(row, from) == [row EXCEPT !.cursor = from]

\* The row after a status was looked at, with n mails.
AfterStatus(row, ends, n) == [row EXCEPT !.active = @ /\ ~ends, !.counted = @ + n]

\* mutant: the commit writes the whole row
WrittenWhole(t, column, stored) == thread[t].now[column]

\* The columns that a commit writes: what differs from the row that was loaded, and what a
\* flush wrote before.
Written(t, column, stored) ==
    IF /\ thread[t].now[column] = thread[t].loaded[column]
       /\ column \notin thread[t].flushed
    THEN stored ELSE thread[t].now[column]

-----------------------------------------------------------------------------
(* The watch cycle *)

\* The row after a first subscription, which FedEx answered (cursor 0) or did not.
WatchInit ==
    /\ active = TRUE /\ cursor \in {NoCursor, 0} /\ counted = 0 /\ choice \in Wishes
    /\ lastId = 0 /\ visible = {}
    /\ thread = [t \in Threads |-> Idle]
    /\ noted = {} /\ declined = {} /\ mailed = 0 /\ passed = {} /\ outrun = {}
    /\ met = FALSE /\ subscribed = 0

\* process_active_watches loads the active watches; process_single_watch then waits for
\* FedEx.
CycleLoads(p) ==
    /\ p \in Pollers /\ IsIdle(p) /\ HasRoom /\ active
    /\ Sets(p, Loaded("loaded"))
    /\ met' = (met \/ ~Alone(p))
    /\ UNCHANGED <<active, cursor, counted, choice, lastId, visible, noted, declined, mailed,
                   passed, outrun, subscribed>>

\* mutant: the query leaves the event above the cursor out
OffByOne(from, ids) == {e \in ids : e > from + 1}

\* The events that there are to tell, in the order of their ids.
EventsAfterCursor(from, ids) == {e \in ids : e > from}

\* Where the events to tell begin: the first cycle of a row without a cursor baselines it.
Start(row, seen) == IF row.cursor = NoCursor THEN Greatest(seen) ELSE row.cursor

\* FedEx answers: sync_visibility_from_tracking and the sandbox simulation insert the scans
\* that are new; the query sees what is committed and what the session itself inserted.
CycleSyncs(t) ==
    /\ t \in Pollers \union {Client} /\ thread[t].at = "loaded"
    /\ \E n \in 0 .. MaxEvents - lastId :
         LET new  == lastId + 1 .. lastId + n
             seen == visible \union thread[t].own \union new
             from == Start(thread[t].now, seen)
             todo == EventsAfterCursor(from, seen)
         IN  /\ lastId' = lastId + n
             /\ Sets(t, [thread[t] EXCEPT
                           !.at = IF todo = {} THEN "status" ELSE "telling",
                           !.now = PlacedAt(@, from), !.own = @ \union new, !.todo = todo,
                           !.left = IF thread[t].now.cursor = NoCursor THEN IdsUpTo(from) ELSE @])
    /\ UNCHANGED <<active, cursor, counted, choice, visible, noted, declined, mailed, passed,
                   outrun, met, subscribed>>

\* FedEx does not answer: the watch is left as it is until the next cycle.
FedexUnavailable(t) ==
    /\ t \in Pollers \union {Client} /\ thread[t].at = "loaded"
    /\ Sets(t, [thread[t] EXCEPT !.at = "telling"])
    /\ UNCHANGED <<active, cursor, counted, choice, lastId, visible, noted, declined, mailed,
                   passed, outrun, met, subscribed>>

\* The FedEx sandbox refuses the number: the cycle deactivates the watch.
CycleDeactivates(p) ==
    /\ p \in Pollers /\ thread[p].at = "loaded"
    /\ Sets(p, [thread[p] EXCEPT !.at = "telling", !.now = AfterStatus(@, TRUE, 0)])
    /\ UNCHANGED <<active, cursor, counted, choice, lastId, visible, noted, declined, mailed,
                   passed, outrun, met, subscribed>>

\* _process_new_visibility_events: notify_watch_visibility_event for the next event, then
\* the cursor; the delivery ends the watch.
CycleTells(t) ==
    /\ t \in Pollers \union {Client} /\ thread[t].at = "telling" /\ thread[t].todo # {}
    /\ LET e == Min(thread[t].todo)
       IN  \E n \in EventMails(thread[t].now, e) :
             /\ Sets(t, [thread[t] EXCEPT !.todo = @ \ {e}, !.told = @ \union {e},
                           !.now = AfterTelling(@, e, IsDelivery(e) /\ ~DemoMode, n)])
             /\ mailed' = mailed + n
    /\ UNCHANGED <<active, cursor, counted, choice, lastId, visible, noted, declined, passed,
                   outrun, met, subscribed>>

\* There was no event to tell: a status that is new and matches is mailed, and a status
\* that says delivered ends the watch.
StatusTold(t) ==
    /\ thread[t].at = "status"
    /\ \E n \in {0} \union MailsSent(thread[t].now), delivered \in BOOLEAN :
         /\ Sets(t, [thread[t] EXCEPT !.at = "telling",
                           !.now = AfterStatus(@, delivered /\ ~DemoMode, n)])
         /\ mailed' = mailed + n
    /\ UNCHANGED <<active, cursor, counted, choice, lastId, visible, noted, declined, passed,
                   outrun, met, subscribed>>

-----------------------------------------------------------------------------
(* The requests that bring events *)

\* What h holds as it looks for the watches of the next event: the row is read again until
\* an event has changed it.
InHand(h) ==
    IF thread[h].at = "posting" /\ thread[h].told # {} THEN thread[h]
    ELSE [Loaded("posting") EXCEPT !.own = thread[h].own]

\* ingest_visibility_event for one event of a payload: it is inserted and told to an active
\* watch whose cursor is below it.  It does not end a watch.
HookPosts(h) ==
    /\ h \in Hooks /\ lastId < MaxEvents
    /\ thread[h].at = "posting" \/ (IsIdle(h) /\ HasRoom)
    /\ lastId' = lastId + 1
    /\ LET e == lastId + 1
       IN  IF active /\ e > InHand(h).now.cursor
           THEN \E n \in EventMails(InHand(h).now, e) :
                  /\ Sets(h, [InHand(h) EXCEPT !.own = @ \union {e}, !.told = @ \union {e},
                                             !.now = AfterTelling(@, e, FALSE, n)])
                  /\ mailed' = mailed + n
           ELSE Sets(h, [InHand(h) EXCEPT !.own = @ \union {e}]) /\ UNCHANGED mailed
    /\ met' = (met \/ ~Alone(h))
    /\ UNCHANGED <<active, cursor, counted, choice, visible, noted, declined, passed, outrun,
                   subscribed>>

\* The tracking page syncs the scans of its answer, with a source that is told to nobody.
TrackingSyncs(h) ==
    /\ h \in Hooks /\ IsIdle(h) /\ HasRoom
    /\ \E n \in 1 .. MaxEvents - lastId :
         /\ lastId' = lastId + n
         /\ Sets(h, [Loaded("telling") EXCEPT !.own = lastId + 1 .. lastId + n])
    /\ met' = (met \/ ~Alone(h))
    /\ UNCHANGED <<active, cursor, counted, choice, visible, noted, declined, mailed, passed,
                   outrun, subscribed>>

-----------------------------------------------------------------------------
(* The client *)

\* The row that upsert_watch makes of an old one.
Renewed(row, wish) == [row EXCEPT !.active = TRUE, !.counted = 0, !.choice = wish]

\* upsert_watch: the watch is active, has new preferences and counts its mails anew; the
\* flush writes these columns.  What the old subscription went past is not told again.
ClientSubscribes ==
    /\ IsIdle(Client) /\ HasRoom /\ subscribed < MaxSubscriptions
    /\ subscribed' = subscribed + 1 /\ mailed' = 0
    /\ \E wish \in Wishes :
         Sets(Client, [Loaded("asking") EXCEPT
            !.now = Renewed(StoredRow, wish), !.left = IdsUpTo(cursor),
            !.flushed = {column \in {"active", "counted", "choice"} :
                           Renewed(StoredRow, wish)[column] # StoredRow[column]}])
    /\ met' = (met \/ ~Alone(Client))
    /\ UNCHANGED <<active, cursor, counted, choice, lastId, visible, noted, declined, passed,
                   outrun>>

\* FedEx answers the subscription.  finalize_watch_subscription syncs its scans, which are
\* left behind with all that is known; process_single_watch then asks FedEx again.
ClientBaselines ==
    /\ thread[Client].at = "asking"
    /\ \E n \in 0 .. MaxEvents - lastId :
         LET new  == lastId + 1 .. lastId + n
             from == Greatest(visible \union new)
         IN  /\ lastId' = lastId + n
             /\ Sets(Client, [thread[Client] EXCEPT !.at = "loaded", !.own = new,
                                !.now = PlacedAt(@, from), !.left = @ \union IdsUpTo(from)])
    /\ UNCHANGED <<active, cursor, counted, choice, visible, noted, declined, mailed, passed,
                   outrun, met, subscribed>>

\* FedEx does not answer it: the request stores the row as the flush left it.
SubscriptionUnanswered ==
    /\ thread[Client].at = "asking"
    /\ Sets(Client, [thread[Client] EXCEPT !.at = "telling"])
    /\ UNCHANGED <<active, cursor, counted, choice, lastId, visible, noted, declined, mailed,
                   passed, outrun, met, subscribed>>

\* deactivate_user_watches writes one column and commits.
ClientStops ==
    /\ active /\ IsIdle(Client)
    /\ active' = FALSE
    /\ UNCHANGED <<cursor, counted, choice, lastId, visible, thread, noted, declined, mailed,
                   passed, outrun, met, subscribed>>

-----------------------------------------------------------------------------
(* The end of every transaction *)

\* Events that a commit of t leaves behind a higher id: those it makes visible when a
\* higher id was taken by another transaction, and those between the cursor it loaded and
\* the last event of a webhook, which moves the cursor there without a look at them.
Overtakes(t) ==
    {e \in thread[t].own : \E x \in EventId \ thread[t].own : e < x /\ x <= lastId}
      \union IF t \in Hooks
             THEN {e \in EventId \ thread[t].told :
                     thread[t].loaded.cursor < e /\ e < Greatest(thread[t].told)}
             ELSE {}

\* The commit of a cycle, of a payload, of a tracking request or of a subscription.
Commits(t) ==
    /\ thread[t].at \in {"telling", "posting"} /\ thread[t].todo = {}
    /\ active' = Written(t, "active", active)
    /\ cursor' = Written(t, "cursor", cursor)
    /\ counted' = Written(t, "counted", counted)
    /\ choice' = Written(t, "choice", choice)
    /\ visible' = visible \union thread[t].own
    /\ noted' = noted \union (thread[t].told \intersect Asks(thread[t].now.choice))
    /\ declined' = declined \union (thread[t].told \ Asks(thread[t].now.choice))
    /\ passed' = passed \union thread[t].left
    /\ outrun' = outrun \union Overtakes(t)
    /\ Sets(t, Idle)
    /\ UNCHANGED <<lastId, mailed, met, subscribed>>

\* An error of the database (two threads insert the same scan), of a flush, or the death
\* of the thread: nothing is stored.  The mails that left are no longer in any count.
RollsBack(t) ==
    /\ ~IsIdle(t)
    /\ mailed' = counted
    /\ Sets(t, Idle)
    /\ UNCHANGED <<active, cursor, counted, choice, lastId, visible, noted, declined, passed,
                   outrun, met, subscribed>>

\* What a thread does next when FedEx answers.
WatchStep(t) ==
    \/ CycleSyncs(t) \/ CycleTells(t) \/ StatusTold(t) \/ Commits(t)
    \/ t = Client /\ (ClientBaselines \/ SubscriptionUnanswered)

WatchNext ==
    \/ \E t \in Threads :
         \/ CycleLoads(t) \/ FedexUnavailable(t) \/ CycleDeactivates(t)
         \/ WatchStep(t) \/ HookPosts(t) \/ TrackingSyncs(t) \/ RollsBack(t)
    \/ ClientSubscribes \/ ClientStops

WatchSpec == WatchInit /\ [][WatchNext]_watchVars

\* The loop begins a cycle again and again, every transaction ends, and FedEx does not
\* stay unavailable, nor transactions fail, for ever.
WatchFairness ==
    /\ WF_watchVars(CycleLoads(Loop)) /\ SF_watchVars(CycleSyncs(Loop))
    /\ \A t \in Threads : WF_watchVars(WatchStep(t))
    /\ <>[][\A t \in Threads : ~RollsBack(t)]_watchVars

-----------------------------------------------------------------------------
(* Properties *)

WatchTypeOK ==
    /\ active \in BOOLEAN /\ cursor \in NoCursor .. MaxEvents /\ counted \in 0 .. MailCap
    /\ choice \in Wishes
    /\ lastId \in 0 .. MaxEvents /\ visible \in SUBSET EventId
    /\ thread \in [Threads -> WatchThread]
    /\ noted \in SUBSET EventId /\ declined \in SUBSET EventId /\ mailed \in Nat
    /\ passed \in SUBSET EventId /\ outrun \in SUBSET EventId
    /\ met \in BOOLEAN /\ subscribed \in 0 .. MaxSubscriptions

\* An event needs no more notification: it has one, a higher id overtook it, a subscription
\* left it behind, or the client does not ask for it (or did not, when threads met).
Settled(e) ==
    \/ e \in noted \union outrun \union passed
    \/ e \in declined /\ (met \/ e \notin Asks(choice))

\* The cursor never goes past an event that the client asks to be notified of and is not,
\* whatever threads worked on the watch and however the preferences changed.
CursorLeavesNothing == \A e \in visible : e <= cursor => Settled(e)

\* The mails of a subscription stay within the cap the client chose, those of events, of a
\* new status and of the subscription itself together, unless two threads counted them at
\* the same time.  A transaction that is rolled back forgets the mails it sent.
MailsWithinCap == ~met => mailed <= MailCap

\* A watch that was stopped, by its client or by a delivery, is made active again by a
\* subscription and never by a thread that loaded it before.
OnlyAClientRevives == [][~active /\ active' => thread'[Client] # thread[Client]]_watchVars


=============================================================================
