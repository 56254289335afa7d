------------------------------- MODULE Window -------------------------------
(***************************************************************************)
(* The configuration window on Windows (src/src/gui.rs): the window        *)
(* thread, the control thread that carries requests to the service, and    *)
(* the subscription thread.  Both threads put what they hear in one queue  *)
(* that the window empties batch by batch.                                 *)
(*                                                                         *)
(* A message box runs a message loop of its own: while it is open the      *)
(* window takes further batches and, unless the box is a question, further *)
(* commands.  "stack" holds the calls that are under way, the innermost    *)
(* last: the open boxes, each with what is left of the batch it interrupts,*)
(* and the batch being handled, event by event.  A command that finds the  *)
(* queue full goes on when its box is closed.                              *)
(*                                                                         *)
(* The account is its choice of an adapter: NetID and password go the same *)
(* way.  "pref" stands for each of the six preferences.  The service is    *)
(* reduced to its configuration and what it publishes.                     *)
(***************************************************************************)
EXTENDS Naturals, SequencesExt

CONSTANTS
  Adapters,   \* Ethernet adapters
  None,
  TaskCap,    \* requests that wait (16), with the one under way
  EventCap,   \* events that wait for the window (32): more than there can be replies
  MaxNest,    \* bound: batches within batches
  MaxNews,    \* bound: snapshots and ends of subscriptions
  Saved,      \* configurations the service may begin with
  Snapshots,  \* what it may publish
  Prefs,      \* what a preference may be set to
  Edits,      \* what the user does: "adapter", "preference", "connect", "other", "close"
  StartFails  \* whether starting the service may fail

ASSUME WindowAssumption ==
  /\ None \notin Adapters
  /\ TaskCap \in Nat \ {0} /\ EventCap \in Nat /\ EventCap > TaskCap + 1
  /\ MaxNest \in Nat \ {0} /\ MaxNews \in Nat /\ StartFails \in BOOLEAN

VARIABLES
  service,   \* the configuration the service keeps
  published, \* what it last published
  link,      \* the subscription: "down", "first" (nothing read yet), "up"
  unread,    \* the subscription has not read what is published
  started,   \* the control thread has asked for the service to be started
  tasks,     \* requests, the first one under way
  events,    \* events for the window
  stack,     \* calls: the open "box" if any, the "rest" of a batch, and whether that is
             \* "overtaken"
  window,    \* the fields of Window, see View
  news,      \* bound: how often a snapshot or the end of a subscription was published
  lost       \* history: a reply was dropped from the queue

outside == <<service, published, news>>
subscription == <<link, unread>>
vars == <<outside, subscription, started, tasks, events, stack, window, lost>>

Config == [manual : BOOLEAN, iface : Adapters \cup {None}, pref : BOOLEAN]
Form == [manual : BOOLEAN, choice : Adapters \cup {None}, pref : BOOLEAN]
Snapshot == [authenticating : BOOLEAN, adapters : SUBSET Adapters]

ASSUME ValuesAssumption ==
  /\ None \notin Config \cup Snapshot
  /\ Saved \subseteq {c \in Config : c.manual => c.iface # None}
  /\ Snapshots \subseteq Snapshot /\ Prefs \subseteq BOOLEAN

\* config, previous_account, preference_pending, adapters, snapshot and
\* subscription_connected; the fields of the form; and, as history, whether what is
\* shown is older than what was shown before ("late"), and whether a failure to start the
\* service was shown over a subscription that was up ("unstarted").
View ==
  [config : Config, previous : Config \cup {None}, pending : BOOLEAN, form : Form,
   adapters : SUBSET Adapters, snapshot : Snapshot \cup {None}, connected : BOOLEAN,
   late : BOOLEAN, unstarted : BOOLEAN]

\* Config::default(), and the controls as they are created.
DefaultConfig == [manual |-> FALSE, iface |-> None, pref |-> TRUE]
EmptyForm == [manual |-> FALSE, choice |-> None, pref |-> FALSE]

Id == {"INITIAL", "CONNECT", "PREFERENCES", "OTHER"}
Request(id) == [id |-> id]
Connect(c) == [id |-> "CONNECT", config |-> c]
SetPreference(v) == [id |-> "PREFERENCES", pref |-> v]
Task == [id : Id \ {"CONNECT"}] \cup [id : {"CONNECT"}, config : Config]
          \cup [id : {"PREFERENCES"}, pref : BOOLEAN]

Failed(id) == [kind |-> "reply", id |-> id, ok |-> FALSE]
Answered(id, c) == [kind |-> "reply", id |-> id, ok |-> TRUE, config |-> c]
Told(s) == [kind |-> "snapshot", snapshot |-> s]
Disconnected == [kind |-> "disconnected"]
NotStarted == [kind |-> "unstarted"]
UiEvent ==
  [kind : {"reply"}, id : Id, ok : {FALSE}]
    \cup [kind : {"reply"}, id : Id, ok : {TRUE}, config : Config]
    \cup [kind : {"snapshot"}, snapshot : Snapshot] \cup [kind : {"disconnected", "unstarted"}]
IsReply(e) == e.kind = "reply"
IsNews(e) == e.kind \in {"snapshot", "disconnected"}
IsError(e) == IsReply(e) /\ ~e.ok

-----------------------------------------------------------------------------
(* Fields                                                                  *)

\* populate_adapter_choices(): the preferred adapter if it is listed, else none.
Choice(manual, listed, preferred) == IF manual /\ preferred \in listed THEN preferred ELSE None

\* adapters::refresh(): a chosen adapter that is unplugged stays on the list.  Mutant:
\* it is taken off.
Listed_Present(all, chosen) == all
Listed(all, chosen) == IF chosen = None THEN all ELSE all \cup {chosen}

\* populate()
Populated(c, listed) ==
  [manual |-> c.manual, choice |-> Choice(c.manual, listed, c.iface), pref |-> c.pref]

AccountModified(w) ==
  \/ w.form.manual # w.config.manual
  \/ w.form.manual /\ w.form.choice # w.config.iface

\* collect(): everything on the form goes into the request.
Collected(w) ==
  [manual |-> w.form.manual, pref |-> w.form.pref,
   iface |-> IF w.form.manual THEN w.form.choice ELSE w.config.iface]

-----------------------------------------------------------------------------
(* What an event does to the window                                        *)

\* refresh_adapters(): the list is filled again only if it has changed.
Refreshed(w, all) ==
  LET chosen == IF w.form.manual THEN w.form.choice ELSE None
      listed == Listed(all, chosen)
      preferred == IF chosen # None THEN chosen ELSE w.config.iface
  IN IF listed = w.adapters THEN w
     ELSE [w EXCEPT !.adapters = listed,
                    !.form.choice = Choice(w.form.manual, listed, preferred)]

UpdateSnapshot(w, s) == [Refreshed(w, s.adapters) EXCEPT !.snapshot = s, !.connected = TRUE]

\* A connect that failed or was refused gives the account back.  Mutant: it does not.
ConnectFailed_Keeps(w) == w
ConnectFailed(w) ==
  IF w.previous = None THEN w ELSE [w EXCEPT !.config = w.previous, !.previous = None]

PreferencesPopulated(w) == [w EXCEPT !.form.pref = w.config.pref]

PreferencesAnswered(w, c) == PreferencesPopulated([w EXCEPT !.pending = FALSE, !.config = c])

ErrorShown(w, id) ==
  CASE id = "PREFERENCES" -> PreferencesPopulated([w EXCEPT !.pending = FALSE])
    [] id = "CONNECT" -> ConnectFailed(w)
    [] OTHER -> w

AnswerTaken(w, id, c) ==
  CASE id = "PREFERENCES" -> PreferencesAnswered(w, c)
    [] id = "INITIAL" -> [w EXCEPT !.config = c, !.form = Populated(c, w.adapters)]
    [] id = "CONNECT" -> [w EXCEPT !.previous = None]
    [] OTHER -> w

\* One event; "overtaken" says that newer ones have been handled.  A failure to start the
\* service is handled like the end of a subscription, though it is not about one.
Handled(w, e, overtaken) ==
  CASE e.kind = "snapshot" ->
         [UpdateSnapshot(w, e.snapshot) EXCEPT !.late = overtaken, !.unstarted = FALSE]
    [] e.kind = "disconnected" ->
         [w EXCEPT !.connected = FALSE, !.late = overtaken, !.unstarted = FALSE]
    [] e.kind = "unstarted" -> [w EXCEPT !.connected = FALSE, !.unstarted = @ \/ w.connected]
    [] e.kind = "reply" ->
         IF e.ok THEN AnswerTaken(w, e.id, e.config) ELSE ErrorShown(w, e.id)

-----------------------------------------------------------------------------
(* The queue of events and the boxes                                       *)

\* post(): the oldest event makes room.  Mutant: the new one is dropped.
Post_DropsNewest(e) ==
  IF Len(events) = EventCap THEN UNCHANGED <<events, lost>>
  ELSE events' = Append(events, e) /\ lost' = lost
Post(e) ==
  IF Len(events) = EventCap
  THEN events' = Append(Tail(events), e) /\ lost' = (lost \/ IsReply(Head(events)))
  ELSE events' = Append(events, e) /\ lost' = lost

\* An error, the question of confirm_discard(), or "the queue is full" for a connect or a
\* preference.
BoxKind == {"error", "question", "connect", "preference"}
Call == [box : BoxKind \cup {"none"}, rest : Seq(UiEvent), overtaken : BOOLEAN]

\* The batch being handled is on top: only a box that is open runs a message loop.
Batch(rest, overtaken) == [box |-> "none", rest |-> rest, overtaken |-> overtaken]
Handling == stack # <<>> /\ Last(stack).box = "none"

\* The user can use the window: no batch is handled, no question is open, and messages
\* that were posted go before input.
Usable == events = <<>> /\ \A i \in DOMAIN stack : stack[i].box \notin {"none", "question"}

\* A command opens a box.  Bound: MaxNest.
Box(kind) ==
  Len(stack) < MaxNest /\ stack' = Append(stack, [Batch(<<>>, FALSE) EXCEPT !.box = kind])

\* task(): a full queue refuses.
HasRoom == Len(tasks) < TaskCap
Send(t) == tasks' = Append(tasks, t)

\* events(): the whole queue is taken, also while a box is open: what waits behind the
\* box is overtaken.  Bound: MaxNest.
TakeEvents ==
  /\ events # <<>> /\ events' = <<>> /\ ~Handling
  /\ Len(stack) = MaxNest => \A i \in DOMAIN events : ~IsError(events[i])
  /\ LET newer == \E i \in DOMAIN events : IsNews(events[i])
         boxes == [i \in DOMAIN stack |-> [stack[i] EXCEPT !.overtaken = @ \/ newer]]
     IN stack' = Append(boxes, Batch(events, FALSE))
  /\ UNCHANGED <<outside, subscription, started, tasks, window, lost>>

\* The batch on top goes on, or it was the last event and events() returns.
GoOn(rest) ==
  stack' = IF rest = <<>> THEN Front(stack)
           ELSE Append(Front(stack), Batch(rest, Last(stack).overtaken))

\* The next event of the batch.  An error opens a box, and after a failed connect the
\* configuration is asked for as if a preference had been changed; if there is no room for
\* that, one box stands for both.
HandleEvent ==
  /\ Handling
  /\ LET call == Last(stack)
         e == Head(call.rest)
     IN /\ window' = Handled(window, e, call.overtaken)
        /\ IF IsError(e)
           THEN stack' = Append(Front(stack), [call EXCEPT !.box = "error", !.rest = Tail(@)])
           ELSE GoOn(Tail(call.rest))
        /\ IF IsError(e) /\ e.id = "CONNECT" /\ HasRoom
           THEN Send(Request("PREFERENCES")) ELSE tasks' = tasks
  /\ UNCHANGED <<outside, subscription, started, events, lost>>

\* What the command that was refused does after its box, to the window as it is then: a
\* configuration that came meanwhile is undone with the connect.
Refused(w, box) ==
  CASE box = "connect" -> ConnectFailed(w)
    [] box = "preference" -> PreferencesPopulated(w)
    [] OTHER -> w

\* The user closes the box on top, and the command or the batch goes on.
CloseBox ==
  /\ stack # <<>> /\ Last(stack).box \in BoxKind \ {"question"} /\ GoOn(Last(stack).rest)
  /\ window' = Refused(window, Last(stack).box)
  /\ UNCHANGED <<outside, subscription, started, tasks, events, lost>>

\* The answer to the question of confirm_discard().
AnswerQuestion ==
  /\ stack # <<>> /\ Last(stack).box = "question" /\ stack' = Front(stack)
  /\ \E yes \in BOOLEAN :
       window' = IF yes THEN [window EXCEPT !.form = Populated(window.config, window.adapters)]
                 ELSE window
  /\ UNCHANGED <<outside, subscription, started, tasks, events, lost>>

-----------------------------------------------------------------------------
(* Commands                                                                *)

Command(name) ==
  /\ name \in Edits /\ Usable
  /\ UNCHANGED <<outside, subscription, started, events, lost>>

\* CONNECT: nothing is sent while a request of this kind is under way.  The account is
\* locked before the request is queued; or the account is incomplete.
MayConnect(w) ==
  w.previous = None /\ ~w.pending /\ (w.snapshot # None => ~w.snapshot.authenticating)

ConnectCommand ==
  /\ Command("connect") /\ MayConnect(window)
  /\ \/ /\ window.form.manual => window.form.choice # None
        /\ window' = [window EXCEPT !.previous = window.config, !.config = Collected(window)]
        /\ \/ HasRoom /\ Send(Connect(Collected(window))) /\ stack' = stack
           \/ ~HasRoom /\ Box("connect") /\ tasks' = tasks
     \/ Box("error") /\ UNCHANGED <<tasks, window>>

\* change_preference(): the controls are disabled while a change is pending.
PreferenceCommand ==
  /\ Command("preference") /\ ~window.pending
  /\ \E v \in Prefs :
       \/ /\ HasRoom /\ Send(SetPreference(v)) /\ stack' = stack
          /\ window' = [window EXCEPT !.pending = TRUE, !.form.pref = v]
       \/ /\ ~HasRoom /\ Box("preference") /\ tasks' = tasks
          /\ window' = [window EXCEPT !.form.pref = v]

\* DISCONNECT, UPDATE, LOGS: a request whose answer changes nothing here.
OtherCommand ==
  /\ Command("other") /\ window' = window
  /\ IF HasRoom THEN Send(Request("OTHER")) /\ stack' = stack ELSE tasks' = tasks /\ Box("error")

\* MANUAL: the list starts again from the saved adapter.
ManualCommand ==
  /\ Command("adapter")
  /\ LET manual == ~window.form.manual
     IN window' = [window EXCEPT !.form.manual = manual,
                     !.form.choice = Choice(manual, window.adapters, window.config.iface)]
  /\ UNCHANGED <<tasks, stack>>

ChooseAdapter ==
  /\ Command("adapter") /\ window.form.manual
  /\ \E a \in window.adapters \ {window.form.choice} : window' = [window EXCEPT !.form.choice = a]
  /\ UNCHANGED <<tasks, stack>>

\* confirm_discard(), at WM_CLOSE: refused while a request is under way, a question if
\* there is something to lose.
CloseCommand ==
  /\ Command("close") /\ window.previous = None /\ ~window.pending /\ AccountModified(window)
  /\ Box("question") /\ UNCHANGED <<tasks, window>>

-----------------------------------------------------------------------------
(* The control thread                                                      *)

\* service_control(true) comes first.
StartService ==
  /\ ~started /\ started' = TRUE
  /\ \/ UNCHANGED <<events, lost>>
     \/ StartFails /\ Post(NotStarted)
  /\ UNCHANGED <<outside, subscription, tasks, stack, window>>

\* What a request makes of the service's configuration.
Applied(t) ==
  IF "config" \in DOMAIN t THEN t.config
  ELSE IF "pref" \in DOMAIN t THEN [service EXCEPT !.pref = t.pref] ELSE service

\* ipc::request() and, for preferences, a second one for the configuration: the service
\* does what it is asked or cannot be reached; and when it has done it, the login task or
\* the second request may still fail.
Serve ==
  /\ started /\ tasks # <<>> /\ tasks' = Tail(tasks)
  /\ \/ service' = Applied(Head(tasks)) /\ Post(Answered(Head(tasks).id, service'))
     \/ service' \in {service, Applied(Head(tasks))} /\ Post(Failed(Head(tasks).id))
  /\ UNCHANGED <<published, news, subscription, started, stack, window>>

-----------------------------------------------------------------------------
(* The subscription thread, and the service                                *)

Subscribe ==
  /\ link = "down" /\ link' = "first" /\ unread' = TRUE
  /\ UNCHANGED <<outside, started, tasks, events, stack, window, lost>>

\* With the first snapshot the configuration is asked for, if there is room.
Hear ==
  /\ unread /\ unread' = FALSE /\ link' = "up"
  /\ IF link = "first" /\ HasRoom THEN Send(Request("INITIAL")) ELSE tasks' = tasks
  /\ Post(Told(published))
  /\ UNCHANGED <<outside, started, stack, window>>

Breaks ==
  /\ news < MaxNews /\ news' = news + 1
  /\ link # "down" /\ link' = "down" /\ unread' = FALSE
  /\ Post(Disconnected)
  /\ UNCHANGED <<service, published, started, tasks, stack, window>>

\* Bound: one snapshot is on its way at a time.
Publish ==
  /\ ~unread /\ news < MaxNews /\ news' = news + 1
  /\ published' \in Snapshots \ {published}
  /\ unread' = (link # "down")
  /\ UNCHANGED <<service, link, started, tasks, events, stack, window, lost>>

-----------------------------------------------------------------------------

Init ==
  /\ service \in Saved /\ published \in Snapshots
  /\ link = "down" /\ unread = FALSE /\ started = FALSE /\ news = 0
  /\ tasks = <<>> /\ events = <<>> /\ stack = <<>> /\ lost = FALSE
  /\ window = [config |-> DefaultConfig, previous |-> None, pending |-> FALSE,
               form |-> EmptyForm, adapters |-> {}, snapshot |-> None,
               connected |-> FALSE, late |-> FALSE, unstarted |-> FALSE]

Commands ==
  \/ ConnectCommand \/ PreferenceCommand \/ OtherCommand
  \/ ManualCommand \/ ChooseAdapter \/ CloseCommand
Control == StartService \/ Serve
Next ==
  \/ TakeEvents \/ HandleEvent \/ CloseBox \/ AnswerQuestion \/ Commands
  \/ Control \/ Subscribe \/ Hear \/ Breaks \/ Publish

Spec == Init /\ [][Next]_vars

-----------------------------------------------------------------------------
(* Properties.                                                             *)

TypeOK ==
  /\ service \in Config /\ published \in Snapshot
  /\ link \in {"down", "first", "up"} /\ unread \in BOOLEAN /\ started \in BOOLEAN
  /\ tasks \in Seq(Task) /\ Len(tasks) <= TaskCap
  /\ events \in Seq(UiEvent) /\ Len(events) <= EventCap
  /\ stack \in Seq(Call) /\ Len(stack) <= MaxNest + 1
  /\ \A i \in DOMAIN stack :
       /\ stack[i].box = "none" => i = Len(stack) /\ stack[i].rest # <<>>
       /\ stack[i].box \in BoxKind \ {"error"} => stack[i].rest = <<>>
  /\ window \in View /\ news \in 0..MaxNews /\ lost \in BOOLEAN

\* Events that were posted and not yet handled, in whatever batch.
Waiting == Range(events) \cup UNION {Range(stack[i].rest) : i \in DOMAIN stack}

UnderWay(id) ==
  \/ \E i \in DOMAIN tasks : tasks[i].id = id
  \/ \E e \in Waiting : IsReply(e) /\ e.id = id

\* A connect was refused by a full queue, and its box is open.
RefusedConnect == \E i \in DOMAIN stack : stack[i].box = "connect"

\* The account is locked, and the preferences are, only while a request that will unlock
\* them is on its way there or back (gui.rs:767, 793, 814); the account also while the box
\* is open that says that the connect found no room (gui.rs:1205-1213).
LockedForAReason ==
  lost \/ /\ window.previous # None => UnderWay("CONNECT") \/ RefusedConnect
          /\ window.pending => UnderWay("PREFERENCES")

\* An unsaved choice of an adapter survives what the service publishes, also when the
\* adapter is unplugged (docs/WINDOWS.md:13, docs/ARCHITECTURE.md:21).
OnlyNews == HandleEvent /\ ~IsReply(Head(Last(stack).rest))
Chosen == window.form.manual /\ window.form.choice # None
ChoiceKept == [][OnlyNews /\ Chosen => window'.form = window.form]_vars

\* Nothing is on its way to the window.
AtRest == link = "up" /\ ~unread /\ \A e \in Waiting : IsReply(e)

\* Then it shows what the service last published (docs/WINDOWS.md:48).
ShowsNewest == AtRest => window.snapshot = published /\ window.connected

\* So it does with two exceptions: a batch was overtaken while a box was open, or the
\* failure to start the service (gui.rs:1633) was handled after the first snapshot of one
\* that runs all the same.
ShowsNewestInOrder == window.late \/ window.unstarted \/ ShowsNewest
=============================================================================
