------------------------------ MODULE WindowProof ------------------------------
(***************************************************************************)
(* The safety of Window, for queues of any length, any nesting of boxes    *)
(* and any number of changes at the service.                               *)
(***************************************************************************)
EXTENDS Window, SequenceTheorems, TLAPS

IsConnect(e) == IsReply(e) /\ e.id = "CONNECT"
TaskConnects == {i \in DOMAIN tasks : tasks[i].id = "CONNECT"}
EventConnects == {i \in DOMAIN events : IsConnect(events[i])}
CallConnects(c) == {i \in DOMAIN c.rest : IsConnect(c.rest[i])}
StackConnects == {j \in DOMAIN stack : CallConnects(stack[j]) # {}}

\* One connect at most is under way, and only while the account is locked.
OneConnect ==
  /\ \A i, j \in TaskConnects : i = j
  /\ \A i, j \in EventConnects : i = j
  /\ \A i, j \in StackConnects : i = j
  /\ \A k \in DOMAIN stack : \A i, j \in CallConnects(stack[k]) : i = j
  /\ TaskConnects = {} \/ EventConnects = {}
  /\ TaskConnects = {} \/ StackConnects = {}
  /\ EventConnects = {} \/ StackConnects = {}
  /\ window.previous = None => TaskConnects = {} /\ EventConnects = {} /\ StackConnects = {}

\* A connect that was refused locks the account until its box is closed: it is the only
\* one, and none is under way.
Refusals == {j \in DOMAIN stack : stack[j].box = "connect"}
OneRefusal ==
  /\ \A i, j \in Refusals : i = j
  /\ Refusals # {} =>
       /\ window.previous # None
       /\ TaskConnects = {} /\ EventConnects = {} /\ StackConnects = {}

NoNews(q) == \A i \in DOMAIN q : ~IsNews(q[i])
NoReplies(q) == \A i \in DOMAIN q : ~IsReply(q[i])

\* What waits behind newer news is known to be overtaken.
Ordered == \A i, j \in DOMAIN stack : i < j => NoNews(stack[j].rest) \/ stack[i].overtaken

\* Nothing is answered before the service was asked to start.
Unanswered == ~started => NoReplies(events) /\ \A j \in DOMAIN stack : NoReplies(stack[j].rest)

\* Element k of q is the snapshot s, and no news come after it.
IsNewest(q, k, s) ==
  /\ k \in DOMAIN q /\ q[k] = Told(s)
  /\ \A i \in DOMAIN q : i > k => ~IsNews(q[i])

\* While the newest waits in the queue, the window sends nothing but the request after a
\* failed connect, so that what is posted behind it does not push it out.
Slack == IF ~started \/ StackConnects # {} THEN 1 ELSE 0
InQueue ==
  \E k \in DOMAIN events :
    IsNewest(events, k, published) /\ Len(events) - k + Len(tasks) + Slack <= TaskCap + 1

InCall ==
  /\ NoNews(events)
  /\ \E j \in DOMAIN stack :
       /\ \E k \in DOMAIN stack[j].rest : IsNewest(stack[j].rest, k, published)
       /\ \A m \in DOMAIN stack : m > j => NoNews(stack[m].rest)

IsShown ==
  /\ NoNews(events)
  /\ \A j \in DOMAIN stack : NoNews(stack[j].rest) \/ stack[j].overtaken
  /\ window.late \/ window.unstarted \/ (window.snapshot = published /\ window.connected)

\* What the service published last is on its way, or was shown.
NewestFollows == link = "up" /\ ~unread => InQueue \/ InCall \/ IsShown

\* A batch that may not be interrupted again holds no error.
Nested ==
  Len(stack) > MaxNest =>
    /\ Last(stack).box = "none"
    /\ \A i \in DOMAIN Last(stack).rest : ~IsError(Last(stack).rest[i])

Inv ==
  /\ TypeOK /\ Nested /\ OneConnect /\ OneRefusal /\ Ordered /\ Unanswered /\ NewestFollows
  /\ LockedForAReason

-----------------------------------------------------------------------------
(* Sequences.                                                              *)

LEMMA AppendFacts ==
  ASSUME NEW S, NEW s \in Seq(S), NEW x \in S
  PROVE  /\ Append(s, x) \in Seq(S) /\ Len(s) \in Nat /\ Len(Append(s, x)) = Len(s) + 1
         /\ DOMAIN Append(s, x) = 1..(Len(s) + 1) /\ DOMAIN s = 1..Len(s)
         /\ \A i \in DOMAIN s : Append(s, x)[i] = s[i]
         /\ Append(s, x)[Len(s) + 1] = x
OBVIOUS

LEMMA TailFacts ==
  ASSUME NEW S, NEW s \in Seq(S), s # <<>>
  PROVE  /\ Tail(s) \in Seq(S) /\ Head(s) \in S /\ Len(s) \in Nat /\ Len(Tail(s)) = Len(s) - 1
         /\ DOMAIN Tail(s) = 1..(Len(s) - 1) /\ DOMAIN s = 1..Len(s)
         /\ \A i \in DOMAIN Tail(s) : Tail(s)[i] = s[i + 1]
         /\ Head(s) = s[1] /\ 1 \in DOMAIN s
OBVIOUS

LEMMA FrontFacts ==
  ASSUME NEW S, NEW s \in Seq(S), s # <<>>
  PROVE  /\ Front(s) \in Seq(S) /\ Last(s) \in S /\ Len(s) \in Nat /\ Len(Front(s)) = Len(s) - 1
         /\ DOMAIN Front(s) = 1..(Len(s) - 1) /\ DOMAIN s = 1..Len(s)
         /\ \A i \in DOMAIN Front(s) : Front(s)[i] = s[i]
         /\ Last(s) = s[Len(s)] /\ Len(s) \in DOMAIN s
<1>1. Len(s) \in Nat /\ Len(s) # 0 /\ DOMAIN s = 1..Len(s)
  OBVIOUS
<1>2. /\ Front(s) \in Seq(S) /\ Len(Front(s)) = Len(s) - 1
      /\ \A i \in 1..(Len(s) - 1) : Front(s)[i] = s[i]
  BY <1>1 DEF Front
<1> QED BY <1>1, <1>2 DEF Last

\* The last element is replaced.
LEMMA PutFacts ==
  ASSUME NEW S, NEW s \in Seq(S), s # <<>>, NEW x \in S
  PROVE  LET t == Append(Front(s), x)
         IN /\ t \in Seq(S) /\ Len(t) = Len(s) /\ DOMAIN t = DOMAIN s
            /\ \A i \in DOMAIN s : t[i] = IF i = Len(s) THEN x ELSE s[i]
<1> DEFINE t == Append(Front(s), x)
<1>1. /\ Front(s) \in Seq(S) /\ Len(s) \in Nat /\ Len(Front(s)) = Len(s) - 1
      /\ DOMAIN Front(s) = 1..(Len(s) - 1) /\ DOMAIN s = 1..Len(s)
      /\ \A i \in DOMAIN Front(s) : Front(s)[i] = s[i]
      /\ Len(s) \in DOMAIN s
  BY FrontFacts
<1>2. /\ t \in Seq(S) /\ Len(t) = Len(Front(s)) + 1
      /\ DOMAIN t = 1..(Len(Front(s)) + 1)
      /\ \A i \in DOMAIN Front(s) : t[i] = Front(s)[i]
      /\ t[Len(Front(s)) + 1] = x
  BY <1>1, AppendFacts
<1> HIDE DEF t
<1>3. Len(t) = Len(s) /\ DOMAIN t = DOMAIN s
  BY <1>1, <1>2
<1>4. \A i \in DOMAIN s : t[i] = IF i = Len(s) THEN x ELSE s[i]
  BY <1>1, <1>2
<1> QED BY <1>2, <1>3, <1>4 DEF t

-----------------------------------------------------------------------------
(* What an event leaves of the window.                                     *)

LEMMA ChoiceType ==
  ASSUME NEW manual, NEW listed \in SUBSET Adapters, NEW a
  PROVE  Choice(manual, listed, a) \in listed \cup {None}
BY DEF Choice

LEMMA RefreshedFields ==
  ASSUME NEW w \in View, NEW all \in SUBSET Adapters
  PROVE  LET v == Refreshed(w, all)
         IN /\ v \in View /\ v.config = w.config /\ v.previous = w.previous
            /\ v.pending = w.pending /\ v.snapshot = w.snapshot /\ v.connected = w.connected
            /\ v.late = w.late /\ v.unstarted = w.unstarted
            /\ w.form.manual /\ w.form.choice # None => v.form = w.form
<1> DEFINE chosen == IF w.form.manual THEN w.form.choice ELSE None
           listed == Listed(all, chosen)
           c == Choice(w.form.manual, listed, IF chosen # None THEN chosen ELSE w.config.iface)
           f == [w.form EXCEPT !.choice = c]
           v == Refreshed(w, all)
<1>1. w.form \in Form /\ chosen \in Adapters \cup {None}
  BY DEF View, Form
<1>2. listed \in SUBSET Adapters
  BY <1>1 DEF Listed
<1>3. c \in Adapters \cup {None}
  BY <1>2, ChoiceType
<1>4. w.form.manual /\ w.form.choice # None => c = w.form.choice
  BY DEF Choice, Listed
<1>5. v = w \/ v = [w EXCEPT !.adapters = listed, !.form.choice = c]
  BY DEF Refreshed
<1> HIDE DEF c, listed, chosen, v
<1>6. f \in Form /\ (c = w.form.choice => f = w.form)
  BY <1>1, <1>3 DEF Form
<1>7. v = w \/ v = [w EXCEPT !.adapters = listed, !.form = f]
  BY <1>5
<1> HIDE DEF f
<1>8. /\ v \in View /\ v.config = w.config /\ v.previous = w.previous
      /\ v.pending = w.pending /\ v.snapshot = w.snapshot /\ v.connected = w.connected
      /\ v.late = w.late /\ v.unstarted = w.unstarted /\ v.form \in {f, w.form}
  BY <1>2, <1>6, <1>7 DEF View
<1> QED BY <1>4, <1>6, <1>8 DEF v

LEMMA PreferencesFields ==
  ASSUME NEW w \in View
  PROVE  LET v == PreferencesPopulated(w)
         IN /\ v \in View /\ v.config = w.config /\ v.previous = w.previous
            /\ v.pending = w.pending /\ v.snapshot = w.snapshot /\ v.connected = w.connected
            /\ v.late = w.late /\ v.unstarted = w.unstarted
<1> DEFINE f == [w.form EXCEPT !.pref = w.config.pref]
           v == PreferencesPopulated(w)
<1>1. f \in Form
  BY DEF View, Form, Config
<1>2. v = [w EXCEPT !.form = f]
  BY DEF PreferencesPopulated
<1> HIDE DEF f, v
<1>3. /\ v \in View /\ v.config = w.config /\ v.previous = w.previous
      /\ v.pending = w.pending /\ v.snapshot = w.snapshot /\ v.connected = w.connected
      /\ v.late = w.late /\ v.unstarted = w.unstarted
  BY <1>1, <1>2 DEF View
<1> QED BY <1>3 DEF v

LEMMA PopulatedType ==
  ASSUME NEW c \in Config, NEW listed \in SUBSET Adapters
  PROVE  Populated(c, listed) \in Form
<1>1. Choice(c.manual, listed, c.iface) \in Adapters \cup {None}
  BY ChoiceType
<1> QED BY <1>1 DEF Populated, Form, Config

\* What an answer or a failure does: it unlocks what it is about, and shows nothing new.
LEMMA ReplyFields ==
  ASSUME NEW w \in View, NEW e \in UiEvent, IsReply(e), NEW o \in BOOLEAN
  PROVE  LET v == Handled(w, e, o)
         IN /\ v \in View
            /\ v.snapshot = w.snapshot /\ v.connected = w.connected
            /\ v.late = w.late /\ v.unstarted = w.unstarted
            /\ v.previous = IF e.id = "CONNECT" THEN None ELSE w.previous
            /\ v.pending = IF e.id = "PREFERENCES" THEN FALSE ELSE w.pending
<1> DEFINE v == Handled(w, e, o)
<1>1. e.kind = "reply" /\ e.id \in Id /\ e.ok \in BOOLEAN /\ (e.ok => e.config \in Config)
  BY DEF UiEvent, IsReply
<1>2. v = IF e.ok THEN AnswerTaken(w, e.id, e.config) ELSE ErrorShown(w, e.id)
  BY <1>1 DEF Handled
<1> HIDE DEF v
<1>3. CASE e.id = "PREFERENCES"
  <2>1. PICK c \in Config : v = PreferencesPopulated([w EXCEPT !.pending = FALSE, !.config = c])
    <3>1. CASE e.ok
      BY <1>1, <1>2, <1>3, <3>1 DEF AnswerTaken, PreferencesAnswered
    <3>2. CASE ~e.ok
      <4>1. w.config \in Config
        BY DEF View
      <4>2. [w EXCEPT !.pending = FALSE] = [w EXCEPT !.pending = FALSE, !.config = w.config]
        BY DEF View
      <4> QED BY <1>2, <1>3, <3>2, <4>1, <4>2 DEF ErrorShown
    <3> QED BY <1>1, <3>1, <3>2
  <2> DEFINE u == [w EXCEPT !.pending = FALSE, !.config = c]
  <2>2. /\ u \in View /\ u.pending = FALSE /\ u.previous = w.previous
        /\ u.snapshot = w.snapshot /\ u.connected = w.connected
        /\ u.late = w.late /\ u.unstarted = w.unstarted
    BY DEF View
  <2>3. v = PreferencesPopulated(u)
    BY <2>1
  <2> HIDE DEF u
  <2> QED BY <1>3, <2>2, <2>3, PreferencesFields DEF v
<1>4. CASE e.id = "CONNECT"
  <2>1. v = [w EXCEPT !.previous = None]
        \/ (v = w /\ w.previous = None)
        \/ (w.previous # None /\ v = [w EXCEPT !.config = w.previous, !.previous = None])
    BY <1>2, <1>4 DEF AnswerTaken, ErrorShown, ConnectFailed
  <2>2. /\ v \in View /\ v.previous = None /\ v.pending = w.pending
        /\ v.snapshot = w.snapshot /\ v.connected = w.connected
        /\ v.late = w.late /\ v.unstarted = w.unstarted
    BY <2>1 DEF View
  <2> QED BY <1>4, <2>2 DEF v
<1>5. CASE e.id \notin {"PREFERENCES", "CONNECT"}
  <2>1. v = w \/ (e.ok /\ v = [w EXCEPT !.config = e.config, !.form = Populated(e.config, w.adapters)])
    BY <1>1, <1>2, <1>5 DEF AnswerTaken, ErrorShown
  <2>2. e.ok => Populated(e.config, w.adapters) \in Form
    BY <1>1, PopulatedType DEF View
  <2>3. /\ v \in View /\ v.previous = w.previous /\ v.pending = w.pending
        /\ v.snapshot = w.snapshot /\ v.connected = w.connected
        /\ v.late = w.late /\ v.unstarted = w.unstarted
    BY <1>1, <2>1, <2>2 DEF View
  <2> QED BY <1>5, <2>3 DEF v
<1> QED BY <1>1, <1>3, <1>4, <1>5 DEF Id

\* What is published: it unlocks nothing and keeps a choice that was made.
LEMMA NewsFields ==
  ASSUME NEW w \in View, NEW e \in UiEvent, ~IsReply(e), NEW o \in BOOLEAN
  PROVE  LET v == Handled(w, e, o)
         IN /\ v \in View /\ v.previous = w.previous /\ v.pending = w.pending
            /\ e.kind = "snapshot" => v.snapshot = e.snapshot /\ v.connected /\ v.late = o
            /\ e.kind = "disconnected" => v.late = o
            /\ e.kind = "unstarted" =>
                 /\ v.late = w.late /\ v.snapshot = w.snapshot
                 /\ v.unstarted = (w.unstarted \/ w.connected)
            /\ w.form.manual /\ w.form.choice # None => v.form = w.form
<1> DEFINE v == Handled(w, e, o)
<1>1. CASE e.kind = "snapshot"
  <2> DEFINE r == Refreshed(w, e.snapshot.adapters)
  <2>1. e.snapshot \in Snapshot
    BY <1>1 DEF UiEvent
  <2>2. e.snapshot.adapters \in SUBSET Adapters
    BY <2>1 DEF Snapshot
  <2>3. /\ r \in View /\ r.previous = w.previous /\ r.pending = w.pending
        /\ w.form.manual /\ w.form.choice # None => r.form = w.form
    BY <2>2, RefreshedFields
  <2>4. v = [r EXCEPT !.snapshot = e.snapshot, !.connected = TRUE, !.late = o,
                      !.unstarted = FALSE]
    BY <1>1, <2>3 DEF Handled, UpdateSnapshot, View
  <2> HIDE DEF r, v
  <2>5. /\ v \in View /\ v.previous = r.previous /\ v.pending = r.pending /\ v.form = r.form
        /\ v.snapshot = e.snapshot /\ v.connected = TRUE /\ v.late = o
    BY <2>1, <2>3, <2>4 DEF View
  <2> QED BY <1>1, <2>3, <2>5 DEF v
<1>2. CASE e.kind = "disconnected"
  <2>1. v = [w EXCEPT !.connected = FALSE, !.late = o, !.unstarted = FALSE]
    BY <1>2 DEF Handled
  <2> HIDE DEF v
  <2>2. v \in View /\ v.previous = w.previous /\ v.pending = w.pending /\ v.form = w.form /\ v.late = o
    BY <2>1 DEF View
  <2> QED BY <1>2, <2>2 DEF v
<1>3. CASE e.kind = "unstarted"
  <2> DEFINE x == w.unstarted \/ w.connected
  <2>1. v = [w EXCEPT !.connected = FALSE, !.unstarted = x]
    BY <1>3 DEF Handled
  <2>2. x \in BOOLEAN
    OBVIOUS
  <2> HIDE DEF v, x
  <2>3. /\ v \in View /\ v.previous = w.previous /\ v.pending = w.pending /\ v.form = w.form
        /\ v.late = w.late /\ v.snapshot = w.snapshot /\ v.unstarted = x
    BY <2>1, <2>2 DEF View
  <2> QED BY <1>3, <2>3 DEF v, x
<1> QED BY <1>1, <1>2, <1>3 DEF UiEvent, IsReply
-----------------------------------------------------------------------------
(* The stack.                                                              *)

\* The calls keep what is left of their batches; one may end that has nothing left.
Kept(s, t) ==
  /\ \A j \in DOMAIN t :
       IF j \in DOMAIN s THEN t[j].rest = s[j].rest /\ t[j].overtaken = s[j].overtaken
       ELSE t[j].rest = <<>>
  /\ \A j \in DOMAIN s \ DOMAIN t : s[j].rest = <<>>

LEMMA BatchType ==
  ASSUME NEW rest \in Seq(UiEvent), NEW o \in BOOLEAN
  PROVE  /\ Batch(rest, o) \in Call /\ Batch(rest, o).rest = rest
         /\ Batch(rest, o).box = "none" /\ Batch(rest, o).overtaken = o
BY DEF Batch, Call

LEMMA GoOnFacts ==
  ASSUME TypeOK, stack # <<>>, NEW rest \in Seq(UiEvent), GoOn(rest)
  PROVE  /\ stack' \in Seq(Call) /\ Len(stack) \in Nat \ {0}
         /\ DOMAIN stack = 1..Len(stack) /\ DOMAIN stack' = 1..Len(stack')
         /\ \A j \in DOMAIN stack : j # Len(stack) => j \in DOMAIN stack' /\ stack'[j] = stack[j]
         /\ Len(stack') \in Nat
         /\ Len(stack') = IF rest = <<>> THEN Len(stack) - 1 ELSE Len(stack)
         /\ rest # <<>> => stack'[Len(stack)] = Batch(rest, Last(stack).overtaken)
<1>1. stack \in Seq(Call)
  BY DEF TypeOK
<1>2. /\ Front(stack) \in Seq(Call) /\ Last(stack) \in Call /\ Len(stack) \in Nat
      /\ Len(Front(stack)) = Len(stack) - 1
      /\ DOMAIN Front(stack) = 1..(Len(stack) - 1) /\ DOMAIN stack = 1..Len(stack)
      /\ \A i \in DOMAIN Front(stack) : Front(stack)[i] = stack[i]
      /\ Len(stack) \in DOMAIN stack
  BY <1>1, FrontFacts
<1>3. CASE rest = <<>>
  BY <1>2, <1>3 DEF GoOn
<1>4. CASE rest # <<>>
  <2> DEFINE b == Batch(rest, Last(stack).overtaken)
             t == Append(Front(stack), b)
  <2>1. b \in Call
    BY <1>2, BatchType DEF Call
  <2>2. stack' = t
    BY <1>4 DEF GoOn
  <2>3. /\ t \in Seq(Call) /\ Len(t) = Len(stack) /\ DOMAIN t = DOMAIN stack
        /\ \A i \in DOMAIN stack : t[i] = IF i = Len(stack) THEN b ELSE stack[i]
    BY <1>1, <2>1, PutFacts
  <2> HIDE DEF t, b
  <2>4. /\ stack' \in Seq(Call) /\ Len(stack') = Len(stack) /\ DOMAIN stack' = DOMAIN stack
        /\ \A i \in DOMAIN stack : stack'[i] = IF i = Len(stack) THEN b ELSE stack[i]
    BY <2>2, <2>3
  <2>5. stack'[Len(stack)] = Batch(rest, Last(stack).overtaken)
    BY <1>2, <2>4 DEF b
  <2> QED BY <1>2, <1>4, <2>4, <2>5
<1> QED BY <1>3, <1>4

LEMMA BoxFacts ==
  ASSUME TypeOK, NEW kind \in BoxKind, Box(kind)
  PROVE  /\ Kept(stack, stack') /\ stack' \in Seq(Call) /\ Len(stack') <= MaxNest
         /\ Len(stack') = Len(stack) + 1 /\ Len(stack) \in Nat
         /\ \A i \in DOMAIN stack' :
              \/ i \in DOMAIN stack /\ stack'[i] = stack[i]
              \/ i = Len(stack') /\ stack'[i].box = kind /\ stack'[i].rest = <<>>
<1> DEFINE b == [Batch(<<>>, FALSE) EXCEPT !.box = kind]
<1>1. b \in Call /\ b.rest = <<>> /\ b.box = kind
  <2>1. Batch(<<>>, FALSE) \in Call /\ Batch(<<>>, FALSE).rest = <<>>
    <3>1. <<>> \in Seq(UiEvent)
      OBVIOUS
    <3> QED BY <3>1, BatchType
  <2>2. ASSUME NEW c \in Call
        PROVE  /\ [c EXCEPT !.box = kind] \in Call /\ [c EXCEPT !.box = kind].rest = c.rest
               /\ [c EXCEPT !.box = kind].box = kind
    BY DEF Call
  <2> QED BY <2>1, <2>2
<1>2. stack \in Seq(Call) /\ stack' = Append(stack, b) /\ Len(stack) < MaxNest
  BY DEF TypeOK, Box
<1> HIDE DEF b
<1>3. /\ stack' \in Seq(Call) /\ Len(stack) \in Nat /\ Len(stack') = Len(stack) + 1
      /\ DOMAIN stack' = 1..(Len(stack) + 1) /\ DOMAIN stack = 1..Len(stack)
      /\ \A i \in DOMAIN stack : stack'[i] = stack[i]
      /\ stack'[Len(stack) + 1] = b
  BY <1>1, <1>2, AppendFacts
<1>4. MaxNest \in Nat
  BY WindowAssumption
<1>5. Kept(stack, stack')
  BY <1>1, <1>3 DEF Kept
<1>6. Len(stack') <= MaxNest
  BY <1>2, <1>3, <1>4
<1>7. ASSUME NEW i \in DOMAIN stack', i \notin DOMAIN stack
      PROVE  i = Len(stack') /\ stack'[i].box = kind /\ stack'[i].rest = <<>>
  <2>1. i = Len(stack) + 1
    BY <1>3, <1>7
  <2> QED BY <1>1, <1>3, <2>1
<1> QED BY <1>3, <1>5, <1>6, <1>7

-----------------------------------------------------------------------------
(* The steps of the user.                                                  *)

\* What is asked for, and what it locks.
Asks ==
  \/ /\ tasks' = tasks /\ window'.previous = window.previous
     /\ window'.pending => window.pending
     /\ Refusals' = Refusals
  \/ \E t \in Task :
       /\ tasks' = Append(tasks, t) /\ Refusals' = Refusals
       /\ \/ /\ t.id = "CONNECT" /\ window.previous = None /\ window'.previous # None
             /\ window'.pending = window.pending
          \/ /\ t.id = "PREFERENCES" /\ window'.previous = window.previous
          \/ /\ t.id = "OTHER" /\ window'.previous = window.previous
             /\ window'.pending = window.pending
  \/ /\ tasks' = tasks /\ window.previous = None /\ window'.previous # None
     /\ window'.pending = window.pending /\ \E n : Refusals' = Refusals \cup {n}
  \/ /\ tasks' = tasks /\ window'.previous = None /\ window'.pending = window.pending
     /\ \E n \in Refusals : Refusals' = Refusals \ {n}

Quiet ==
  /\ UNCHANGED <<service, published, news, link, unread, started, events, lost>>
  /\ Kept(stack, stack') /\ Asks /\ (events = <<>> \/ tasks' = tasks)
  /\ window'.snapshot = window.snapshot /\ window'.connected = window.connected
  /\ window'.late = window.late /\ window'.unstarted = window.unstarted

LEMMA ConnectType ==
  ASSUME NEW c \in Config
  PROVE  Connect(c) \in Task /\ Connect(c).id = "CONNECT"
BY DEF Connect, Task

LEMMA PreferenceType ==
  ASSUME NEW v \in BOOLEAN
  PROVE  SetPreference(v) \in Task /\ SetPreference(v).id = "PREFERENCES"
BY DEF SetPreference, Task

LEMMA RequestType ==
  ASSUME NEW id \in {"INITIAL", "PREFERENCES", "OTHER"}
  PROVE  Request(id) \in Task /\ Request(id).id = id
BY DEF Request, Task, Id

LEMMA SendType ==
  ASSUME TypeOK, NEW t \in Task, HasRoom, Send(t)
  PROVE  tasks' \in Seq(Task) /\ Len(tasks') <= TaskCap /\ tasks' = Append(tasks, t)
<1>1. tasks \in Seq(Task) /\ TaskCap \in Nat /\ Len(tasks) < TaskCap
  BY WindowAssumption DEF TypeOK, HasRoom
<1>2. /\ Append(tasks, t) \in Seq(Task) /\ Len(Append(tasks, t)) = Len(tasks) + 1
      /\ Len(tasks) \in Nat
  BY <1>1, AppendFacts
<1> QED BY <1>1, <1>2 DEF Send

\* A call of a batch is the last one, and only the box of an error interrupts a batch.
StackOK(s) ==
  /\ s \in Seq(Call) /\ Len(s) <= MaxNest + 1
  /\ \A i \in DOMAIN s :
       /\ s[i].box = "none" => i = Len(s) /\ s[i].rest # <<>>
       /\ s[i].box \in BoxKind \ {"error"} => s[i].rest = <<>>
  /\ Len(s) > MaxNest =>
       /\ Last(s).box = "none"
       /\ \A i \in DOMAIN Last(s).rest : ~IsError(Last(s).rest[i])

LEMMA StackTyped == TypeOK /\ Nested => StackOK(stack)
BY DEF TypeOK, Nested, StackOK

LEMMA StackRetyped == (TypeOK /\ Nested)' <=> TypeOK' /\ StackOK(stack')
BY DEF TypeOK, Nested, StackOK

\* A box that is opened or closed where no batch is on top.
LEMMA BoxStack ==
  ASSUME TypeOK, Nested, NEW kind \in BoxKind, Box(kind), Usable
  PROVE  /\ StackOK(stack') /\ Kept(stack, stack')
         /\ kind = "connect" => \E n : Refusals' = Refusals \cup {n}
         /\ kind # "connect" => Refusals' = Refusals
<1>1. /\ Kept(stack, stack') /\ stack' \in Seq(Call) /\ Len(stack') <= MaxNest
      /\ Len(stack') = Len(stack) + 1 /\ Len(stack) \in Nat
      /\ \A i \in DOMAIN stack' :
           \/ i \in DOMAIN stack /\ stack'[i] = stack[i]
           \/ i = Len(stack') /\ stack'[i].box = kind /\ stack'[i].rest = <<>>
  BY BoxFacts
<1>2. \A i \in DOMAIN stack : stack[i].box \notin {"none", "question"}
  BY DEF Usable
<1>3. MaxNest \in Nat
  BY WindowAssumption
<1>4. \A i \in DOMAIN stack : stack[i].box \in BoxKind \ {"error"} => stack[i].rest = <<>>
  BY DEF TypeOK
<1>5. StackOK(stack')
  BY <1>1, <1>2, <1>3, <1>4 DEF StackOK, BoxKind
<1>6. /\ DOMAIN stack' = DOMAIN stack \cup {Len(stack')} /\ Len(stack') \notin DOMAIN stack
      /\ \A i \in DOMAIN stack : stack'[i] = stack[i]
      /\ stack'[Len(stack')].box = kind
  BY <1>1 DEF TypeOK
<1>7. Refusals' = {j \in DOMAIN stack' : stack'[j].box = "connect"}
  BY DEF Refusals
<1>8. /\ kind = "connect" => Refusals' = Refusals \cup {Len(stack')}
      /\ kind # "connect" => Refusals' = Refusals
  BY <1>6, <1>7 DEF Refusals
<1> QED BY <1>1, <1>5, <1>8

LEMMA GoOnStack ==
  ASSUME TypeOK, Nested, stack # <<>>, Last(stack).box # "none", GoOn(Last(stack).rest)
  PROVE  /\ StackOK(stack') /\ Kept(stack, stack')
         /\ Refusals' = Refusals \ {Len(stack)}
         /\ Len(stack) \in Refusals <=> Last(stack).box = "connect"
<1> DEFINE top == Last(stack)
           n == Len(stack)
<1>1. /\ top \in Call /\ n \in Nat /\ DOMAIN stack = 1..n /\ top = stack[n]
      /\ n \in DOMAIN stack
  BY FrontFacts DEF TypeOK
<1>2. top.rest \in Seq(UiEvent) /\ top.overtaken \in BOOLEAN
  BY <1>1 DEF Call
<1>3. /\ stack' \in Seq(Call) /\ n \in Nat \ {0} /\ DOMAIN stack' = 1..Len(stack')
      /\ Len(stack') \in Nat
      /\ Len(stack') = IF top.rest = <<>> THEN n - 1 ELSE n
  BY <1>2, GoOnFacts
<1>4. /\ \A j \in DOMAIN stack : j # n => j \in DOMAIN stack' /\ stack'[j] = stack[j]
      /\ top.rest # <<>> => stack'[n] = Batch(top.rest, top.overtaken)
  BY <1>2, GoOnFacts
<1>5. /\ Batch(top.rest, top.overtaken).rest = top.rest
      /\ Batch(top.rest, top.overtaken).overtaken = top.overtaken
      /\ Batch(top.rest, top.overtaken).box = "none"
  BY <1>2, BatchType
<1>6. /\ n <= MaxNest /\ MaxNest \in Nat
  BY <1>1, WindowAssumption DEF Nested
<1>7. \A i \in DOMAIN stack :
           /\ stack[i].box = "none" => i = n /\ stack[i].rest # <<>>
           /\ stack[i].box \in BoxKind \ {"error"} => stack[i].rest = <<>>
  BY DEF TypeOK
<1> HIDE DEF top, n
<1>8. top.box # "none"
  BY DEF top
<1>9. DOMAIN stack' \subseteq DOMAIN stack /\ (n \in DOMAIN stack' <=> top.rest # <<>>)
  BY <1>1, <1>3
<1>10. Kept(stack, stack')
  BY <1>1, <1>4, <1>9, <1>5 DEF Kept
<1>11. Len(stack') <= MaxNest
  <2>1. n \in Nat /\ n <= MaxNest /\ MaxNest \in Nat
    BY <1>1, <1>6
  <2>2. Len(stack') = n - 1 \/ Len(stack') = n
    BY <1>3
  <2> QED BY <2>1, <2>2
<1>12. ASSUME NEW i \in DOMAIN stack'
       PROVE  /\ stack'[i].box = "none" => i = Len(stack') /\ stack'[i].rest # <<>>
              /\ stack'[i].box \in BoxKind \ {"error"} => stack'[i].rest = <<>>
  <2>1. CASE i = n
    <3>1. top.rest # <<>> /\ Len(stack') = n /\ stack'[i] = Batch(top.rest, top.overtaken)
      BY <1>3, <1>4, <1>9, <2>1
    <3> QED BY <1>5, <2>1, <3>1 DEF BoxKind
  <2>2. CASE i # n
    <3>1. i \in DOMAIN stack
      BY <1>9
    <3>2. stack'[i] = stack[i]
      BY <1>4, <2>2, <3>1
    <3> QED BY <1>7, <2>2, <3>1, <3>2
  <2> QED BY <2>1, <2>2
<1>13. ~(Len(stack') > MaxNest) /\ Len(stack') <= MaxNest + 1
  <2>1. Len(stack') \in Nat
    BY <1>3
  <2> QED BY <1>6, <1>11, <2>1
<1>14. Refusals' = Refusals \ {n} /\ (n \in Refusals <=> top.box = "connect")
  <2>1. Refusals' = {j \in DOMAIN stack' : stack'[j].box = "connect"}
    BY DEF Refusals
  <2>2. ASSUME NEW j \in DOMAIN stack, j # n PROVE j \in DOMAIN stack' /\ stack'[j] = stack[j]
    BY <1>4, <2>2
  <2>3. n \in DOMAIN stack' => stack'[n].box # "connect"
    BY <1>4, <1>5, <1>9
  <2> QED BY <1>1, <1>9, <2>1, <2>2, <2>3 DEF Refusals
<1> QED BY <1>3, <1>10, <1>12, <1>13, <1>14 DEF StackOK, n, top

LEMMA CollectedType ==
  ASSUME NEW w \in View
  PROVE  Collected(w) \in Config
BY DEF Collected, View, Form, Config

\* Type correctness of what most steps leave alone.
LEMMA Retyped ==
  ASSUME TypeOK, UNCHANGED <<service, published, link, unread, started, news, lost>>,
         tasks' \in Seq(Task), Len(tasks') <= TaskCap,
         events' \in Seq(UiEvent), Len(events') <= EventCap,
         StackOK(stack'), window' \in View
  PROVE  (TypeOK /\ Nested)'
<1>1. /\ service' \in Config /\ published' \in Snapshot
      /\ link' \in {"down", "first", "up"} /\ unread' \in BOOLEAN /\ started' \in BOOLEAN
      /\ news' \in 0..MaxNews /\ lost' \in BOOLEAN
  BY DEF TypeOK
<1> QED BY <1>1 DEF TypeOK, Nested, StackOK

LEMMA CommandsAreQuiet ==
  ASSUME TypeOK, Nested, Commands
  PROVE  (TypeOK /\ Nested)' /\ Quiet
<1>1. /\ Usable /\ UNCHANGED <<service, published, news, link, unread, started, events, lost>>
      /\ events = <<>>
  BY DEF Commands, ConnectCommand, PreferenceCommand, OtherCommand, ManualCommand,
         ChooseAdapter, CloseCommand, Command, Usable, outside, subscription
<1>2. /\ window \in View /\ StackOK(stack) /\ Kept(stack, stack)
      /\ tasks \in Seq(Task) /\ Len(tasks) <= TaskCap
      /\ events \in Seq(UiEvent) /\ Len(events) <= EventCap
  BY StackTyped DEF TypeOK, Kept
<1>3. SUFFICES /\ window' \in View /\ StackOK(stack') /\ Kept(stack, stack') /\ Asks
               /\ tasks' \in Seq(Task) /\ Len(tasks') <= TaskCap
               /\ window'.snapshot = window.snapshot /\ window'.connected = window.connected
               /\ window'.late = window.late /\ window'.unstarted = window.unstarted
  BY <1>1, <1>2, Retyped DEF Quiet
<1>4. \A kind \in BoxKind :
        Box(kind) => /\ StackOK(stack') /\ Kept(stack, stack')
                     /\ kind = "connect" => \E n : Refusals' = Refusals \cup {n}
                     /\ kind # "connect" => Refusals' = Refusals
  BY <1>1, BoxStack
<1>5. \A t \in Task : HasRoom /\ Send(t) =>
        tasks' \in Seq(Task) /\ Len(tasks') <= TaskCap /\ tasks' = Append(tasks, t)
  BY SendType
<1>6. window' = window /\ tasks' = tasks /\ Refusals' = Refusals => Asks
  BY DEF Asks
<1>13. stack' = stack => Refusals' = Refusals
  BY DEF Refusals
<1>7. CASE ConnectCommand
  <2> DEFINE c == Collected(window)
  <2>1. c \in Config /\ window.config \in Config /\ window.config # None
    BY <1>2, CollectedType, ValuesAssumption DEF View
  <2>2. Connect(c) \in Task /\ Connect(c).id = "CONNECT"
    BY <2>1, ConnectType
  <2>3. window.previous = None
    BY <1>7 DEF ConnectCommand, MayConnect
  <2>4. CASE window' = [window EXCEPT !.previous = window.config, !.config = c]
    <3> HIDE DEF c
    <3>1. /\ window' \in View /\ window'.previous = window.config
          /\ window'.pending = window.pending /\ window'.snapshot = window.snapshot
          /\ window'.connected = window.connected
          /\ window'.late = window.late /\ window'.unstarted = window.unstarted
      BY <1>2, <2>1, <2>4 DEF View
    <3>2. CASE HasRoom /\ Send(Connect(c)) /\ stack' = stack
      <4>1. tasks' \in Seq(Task) /\ Len(tasks') <= TaskCap /\ tasks' = Append(tasks, Connect(c))
        BY <1>5, <2>2, <3>2
      <4>2. Asks
        BY <1>13, <2>1, <2>2, <2>3, <3>1, <3>2, <4>1 DEF Asks
      <4> QED BY <1>2, <3>1, <3>2, <4>1, <4>2
    <3>3. CASE Box("connect") /\ tasks' = tasks
      <4>1. StackOK(stack') /\ Kept(stack, stack') /\ \E n : Refusals' = Refusals \cup {n}
        BY <1>4, <3>3 DEF BoxKind
      <4>2. Asks
        BY <2>1, <2>3, <3>1, <3>3, <4>1 DEF Asks
      <4> QED BY <1>2, <3>1, <3>3, <4>1, <4>2
    <3>4. CASE Box("error") /\ UNCHANGED <<tasks, window>>
      BY <1>2, <1>4, <1>6, <3>4 DEF BoxKind
    <3> QED BY <1>7, <3>2, <3>3, <3>4 DEF ConnectCommand, c
  <2>5. CASE Box("error") /\ UNCHANGED <<tasks, window>>
    BY <1>2, <1>4, <1>6, <2>5 DEF BoxKind
  <2> QED BY <1>7, <2>4, <2>5 DEF ConnectCommand
<1>8. CASE PreferenceCommand
  <2>1. PICK v \in Prefs :
          \/ /\ HasRoom /\ Send(SetPreference(v)) /\ stack' = stack
             /\ window' = [window EXCEPT !.pending = TRUE, !.form.pref = v]
          \/ /\ Box("preference") /\ tasks' = tasks
             /\ window' = [window EXCEPT !.form.pref = v]
    BY <1>8 DEF PreferenceCommand
  <2>2. v \in BOOLEAN
    BY ValuesAssumption
  <2> DEFINE f == [window.form EXCEPT !.pref = v]
  <2>3. f \in Form
    BY <1>2, <2>2 DEF View, Form
  <2>4. CASE /\ HasRoom /\ Send(SetPreference(v)) /\ stack' = stack
             /\ window' = [window EXCEPT !.pending = TRUE, !.form = f]
    <3> HIDE DEF f
    <3>1. SetPreference(v) \in Task /\ SetPreference(v).id = "PREFERENCES"
      BY <2>2, PreferenceType
    <3>2. /\ window' \in View /\ window'.previous = window.previous
          /\ window'.snapshot = window.snapshot /\ window'.connected = window.connected
          /\ window'.late = window.late /\ window'.unstarted = window.unstarted
      BY <1>2, <2>3, <2>4 DEF View
    <3>3. /\ tasks' \in Seq(Task) /\ Len(tasks') <= TaskCap
          /\ tasks' = Append(tasks, SetPreference(v))
      BY <1>5, <2>4, <3>1
    <3>4. Asks
      BY <1>13, <2>4, <3>1, <3>2, <3>3 DEF Asks
    <3> QED BY <1>2, <2>4, <3>2, <3>3, <3>4
  <2>5. CASE /\ Box("preference") /\ tasks' = tasks
             /\ window' = [window EXCEPT !.form = f]
    <3> HIDE DEF f
    <3>1. /\ window' \in View /\ window'.previous = window.previous
          /\ window'.pending = window.pending /\ window'.snapshot = window.snapshot
          /\ window'.connected = window.connected
          /\ window'.late = window.late /\ window'.unstarted = window.unstarted
      BY <1>2, <2>3, <2>5 DEF View
    <3>2. StackOK(stack') /\ Kept(stack, stack') /\ Refusals' = Refusals
      BY <1>4, <2>5 DEF BoxKind
    <3>3. Asks
      BY <2>5, <3>1, <3>2 DEF Asks
    <3> QED BY <1>2, <2>5, <3>1, <3>2, <3>3
  <2> QED BY <2>1, <2>4, <2>5
<1>9. CASE OtherCommand
  <2>1. CASE HasRoom /\ Send(Request("OTHER")) /\ stack' = stack
    <3>1. Request("OTHER") \in Task /\ Request("OTHER").id = "OTHER"
      BY RequestType
    <3>2. /\ tasks' \in Seq(Task) /\ Len(tasks') <= TaskCap
          /\ tasks' = Append(tasks, Request("OTHER"))
      BY <1>5, <2>1, <3>1
    <3>3. Asks
      BY <1>9, <1>13, <2>1, <3>1, <3>2 DEF Asks, OtherCommand
    <3> QED BY <1>2, <1>9, <2>1, <3>2, <3>3 DEF OtherCommand
  <2>2. CASE tasks' = tasks /\ Box("error")
    BY <1>2, <1>4, <1>6, <1>9, <2>2 DEF OtherCommand, BoxKind
  <2> QED BY <1>9, <2>1, <2>2 DEF OtherCommand
<1>10. CASE ManualCommand
  <2> DEFINE manual == ~window.form.manual
             c == Choice(manual, window.adapters, window.config.iface)
             f == [window.form EXCEPT !.manual = manual, !.choice = c]
  <2>1. c \in Adapters \cup {None}
    BY <1>2, ChoiceType DEF View
  <2> HIDE DEF c
  <2>2. f \in Form
    BY <1>2, <2>1 DEF View, Form
  <2>3. window' = [window EXCEPT !.form = f]
    BY <1>10 DEF ManualCommand, c
  <2>4. tasks' = tasks /\ stack' = stack
    BY <1>10 DEF ManualCommand
  <2> HIDE DEF f
  <2>5. /\ window' \in View /\ window'.previous = window.previous
        /\ window'.pending = window.pending /\ window'.snapshot = window.snapshot
        /\ window'.connected = window.connected
        /\ window'.late = window.late /\ window'.unstarted = window.unstarted
    BY <1>2, <2>2, <2>3 DEF View
  <2> QED BY <1>2, <1>13, <2>4, <2>5 DEF Asks
<1>11. CASE ChooseAdapter
  <2>1. PICK a \in window.adapters : window' = [window EXCEPT !.form.choice = a]
    BY <1>11 DEF ChooseAdapter
  <2> DEFINE f == [window.form EXCEPT !.choice = a]
  <2>2. f \in Form
    BY <1>2 DEF View, Form
  <2>3. window' = [window EXCEPT !.form = f]
    BY <2>1
  <2>4. tasks' = tasks /\ stack' = stack
    BY <1>11 DEF ChooseAdapter
  <2> HIDE DEF f
  <2>5. /\ window' \in View /\ window'.previous = window.previous
        /\ window'.pending = window.pending /\ window'.snapshot = window.snapshot
        /\ window'.connected = window.connected
        /\ window'.late = window.late /\ window'.unstarted = window.unstarted
    BY <1>2, <2>2, <2>3 DEF View
  <2> QED BY <1>2, <1>13, <2>4, <2>5 DEF Asks
<1>12. CASE CloseCommand
  BY <1>2, <1>4, <1>6, <1>12 DEF CloseCommand, BoxKind
<1> QED BY <1>7, <1>8, <1>9, <1>10, <1>11, <1>12 DEF Commands

LEMMA BoxesAreQuiet ==
  ASSUME TypeOK, Nested, CloseBox \/ AnswerQuestion
  PROVE  (TypeOK /\ Nested)' /\ Quiet
<1>1. /\ UNCHANGED <<service, published, news, link, unread, started, events, lost>>
      /\ tasks' = tasks /\ stack # <<>> /\ Last(stack).box # "none"
  BY DEF CloseBox, AnswerQuestion, outside, subscription, BoxKind
<1>2. /\ window \in View /\ tasks \in Seq(Task) /\ Len(tasks) <= TaskCap
      /\ events \in Seq(UiEvent) /\ Len(events) <= EventCap
  BY DEF TypeOK
<1>3. GoOn(Last(stack).rest)
  <2>1. CASE CloseBox
    BY <2>1 DEF CloseBox
  <2>2. CASE AnswerQuestion
    <3>1. Last(stack) = stack[Len(stack)] /\ Len(stack) \in DOMAIN stack
      BY <1>1, FrontFacts DEF TypeOK
    <3>2. Last(stack).rest = <<>>
      BY <2>2, <3>1 DEF TypeOK, AnswerQuestion, BoxKind
    <3> QED BY <2>2, <3>2 DEF AnswerQuestion, GoOn
  <2> QED BY <2>1, <2>2
<1>4. /\ StackOK(stack') /\ Kept(stack, stack')
      /\ Refusals' = Refusals \ {Len(stack)}
      /\ Len(stack) \in Refusals <=> Last(stack).box = "connect"
  BY <1>1, <1>3, GoOnStack
<1>5. SUFFICES /\ window' \in View
               /\ window'.pending = window.pending /\ window'.snapshot = window.snapshot
               /\ window'.connected = window.connected
               /\ window'.late = window.late /\ window'.unstarted = window.unstarted
               /\ window'.previous = IF Last(stack).box = "connect" THEN None ELSE window.previous
  <2>1. Asks
    BY <1>1, <1>4, <1>5 DEF Asks
  <2> QED BY <1>1, <1>2, <1>4, <1>5, <2>1, Retyped DEF Quiet
<1>6. CASE CloseBox /\ Last(stack).box = "connect"
  <2>1. \/ window' = window /\ window.previous = None
        \/ /\ window.previous # None
           /\ window' = [window EXCEPT !.config = window.previous, !.previous = None]
    BY <1>6 DEF CloseBox, Refused, ConnectFailed
  <2> QED BY <1>2, <1>6, <2>1 DEF View
<1>7. CASE CloseBox /\ Last(stack).box = "preference"
  BY <1>2, <1>7, PreferencesFields DEF CloseBox, Refused
<1>8. CASE CloseBox /\ Last(stack).box \notin {"connect", "preference"}
  BY <1>2, <1>8 DEF CloseBox, Refused
<1>9. CASE AnswerQuestion
  <2> DEFINE f == Populated(window.config, window.adapters)
  <2>1. f \in Form
    BY <1>2, PopulatedType DEF View
  <2>2. window' = window \/ window' = [window EXCEPT !.form = f]
    BY <1>9 DEF AnswerQuestion
  <2> HIDE DEF f
  <2> QED BY <1>2, <1>9, <2>1, <2>2 DEF View, AnswerQuestion
<1> QED BY <1>6, <1>7, <1>8, <1>9

-----------------------------------------------------------------------------
(* Steps that leave the batches alone.                                     *)

Asked(q, id) == \E i \in DOMAIN q : q[i].id = id
Replied(q, id) == \E i \in DOMAIN q : IsReply(q[i]) /\ q[i].id = id

LEMMA WhereUnderWay ==
  ASSUME NEW id
  PROVE  /\ UnderWay(id) <=> \/ Asked(tasks, id) \/ Replied(events, id)
                             \/ \E j \in DOMAIN stack : Replied(stack[j].rest, id)
         /\ UnderWay(id)' <=> \/ Asked(tasks', id) \/ Replied(events', id)
                              \/ \E j \in DOMAIN stack' : Replied(stack'[j].rest, id)
BY DEF UnderWay, Waiting, Range, Asked, Replied

LEMMA KeptFacts ==
  ASSUME Kept(stack, stack'), stack \in Seq(Call), stack' \in Seq(Call)
  PROVE  /\ StackConnects' = StackConnects
         /\ (\A k \in DOMAIN stack : \A i, j \in CallConnects(stack[k]) : i = j)
              => \A k \in DOMAIN stack' : \A i, j \in CallConnects(stack'[k]) : i = j
         /\ Ordered => Ordered'
         /\ (\A j \in DOMAIN stack : NoReplies(stack[j].rest))
              => \A j \in DOMAIN stack' : NoReplies(stack'[j].rest)
         /\ \A id : (\E j \in DOMAIN stack' : Replied(stack'[j].rest, id))
                      <=> \E j \in DOMAIN stack : Replied(stack[j].rest, id)
<1>1. /\ \A j \in DOMAIN stack' : j \in DOMAIN stack =>
           stack'[j].rest = stack[j].rest /\ stack'[j].overtaken = stack[j].overtaken
      /\ \A j \in DOMAIN stack' : j \notin DOMAIN stack => stack'[j].rest = <<>>
      /\ \A j \in DOMAIN stack : j \notin DOMAIN stack' => stack[j].rest = <<>>
  BY DEF Kept
<1>2. \A c : c.rest = <<>> => /\ CallConnects(c) = {} /\ NoNews(c.rest) /\ NoReplies(c.rest)
                              /\ \A id : ~Replied(c.rest, id)
  BY DEF CallConnects, NoNews, NoReplies, Replied
<1>3. \A c, d : c.rest = d.rest => CallConnects(c) = CallConnects(d)
  BY DEF CallConnects
<1>4. StackConnects' = StackConnects
  <2>1. StackConnects' = {j \in DOMAIN stack' : CallConnects(stack'[j]) # {}}
    BY DEF StackConnects, CallConnects
  <2> QED BY <1>1, <1>2, <1>3, <2>1 DEF StackConnects
<1>5. (\A k \in DOMAIN stack : \A i, j \in CallConnects(stack[k]) : i = j)
        => \A k \in DOMAIN stack' : \A i, j \in CallConnects(stack'[k]) : i = j
  BY <1>1, <1>2, <1>3
<1>6. Ordered => Ordered'
  <2>1. SUFFICES ASSUME Ordered, NEW i \in DOMAIN stack', NEW j \in DOMAIN stack', i < j
                 PROVE  NoNews(stack'[j].rest) \/ stack'[i].overtaken
    BY DEF Ordered, NoNews
  <2>2. CASE j \in DOMAIN stack
    <3>1. i \in DOMAIN stack
      BY <2>1, <2>2
    <3> QED BY <1>1, <2>1, <2>2, <3>1 DEF Ordered
  <2>3. CASE j \notin DOMAIN stack
    BY <1>1, <1>2, <2>3
  <2> QED BY <2>2, <2>3
<1>7. (\A j \in DOMAIN stack : NoReplies(stack[j].rest))
        => \A j \in DOMAIN stack' : NoReplies(stack'[j].rest)
  BY <1>1, <1>2
<1>8. ASSUME NEW id
      PROVE  (\E j \in DOMAIN stack' : Replied(stack'[j].rest, id))
               <=> \E j \in DOMAIN stack : Replied(stack[j].rest, id)
  BY <1>1, <1>2
<1> QED BY <1>4, <1>5, <1>6, <1>7, <1>8

\* A request is added to those that wait.
LEMMA AddedTask ==
  ASSUME NEW t \in Task, tasks \in Seq(Task), tasks' = Append(tasks, t)
  PROVE  /\ t.id # "CONNECT" => TaskConnects' = TaskConnects
         /\ t.id = "CONNECT" => TaskConnects' = TaskConnects \cup {Len(tasks) + 1}
         /\ \A id : Asked(tasks', id) <=> Asked(tasks, id) \/ t.id = id
<1>1. /\ Len(tasks) \in Nat /\ DOMAIN tasks' = 1..(Len(tasks) + 1)
      /\ DOMAIN tasks = 1..Len(tasks) /\ \A i \in DOMAIN tasks : tasks'[i] = tasks[i]
      /\ tasks'[Len(tasks) + 1] = t
  BY AppendFacts
<1>2. TaskConnects' = {i \in DOMAIN tasks' : tasks'[i].id = "CONNECT"}
  BY DEF TaskConnects
<1>3. DOMAIN tasks' = DOMAIN tasks \cup {Len(tasks) + 1} /\ Len(tasks) + 1 \notin DOMAIN tasks
  BY <1>1
<1>4. ASSUME t.id # "CONNECT" PROVE TaskConnects' = TaskConnects
  BY <1>1, <1>2, <1>3, <1>4 DEF TaskConnects
<1>5. ASSUME t.id = "CONNECT" PROVE TaskConnects' = TaskConnects \cup {Len(tasks) + 1}
  BY <1>1, <1>2, <1>3, <1>5 DEF TaskConnects
<1>6. ASSUME NEW id PROVE Asked(tasks', id) <=> Asked(tasks, id) \/ t.id = id
  BY <1>1, <1>3 DEF Asked
<1> QED BY <1>4, <1>5, <1>6

LEMMA QuietKeeps ==
  ASSUME Inv, (TypeOK /\ Nested)', Quiet
  PROVE  Inv'
<1>1. /\ stack \in Seq(Call) /\ stack' \in Seq(Call) /\ tasks \in Seq(Task)
      /\ Kept(stack, stack') /\ events' = events /\ started' = started /\ lost' = lost
      /\ published' = published /\ link' = link /\ unread' = unread
  BY DEF Inv, TypeOK, Quiet
<1>2. EventConnects' = EventConnects
  BY <1>1 DEF EventConnects
<1>3. OneConnect'
  <2>1. CASE TaskConnects' = TaskConnects /\ (window'.previous = None => window.previous = None)
    BY <1>1, <1>2, <2>1, KeptFacts DEF Inv, OneConnect
  <2>2. CASE /\ window.previous = None /\ window'.previous # None
             /\ TaskConnects' = TaskConnects \cup {Len(tasks) + 1}
    BY <1>1, <1>2, <2>2, KeptFacts DEF Inv, OneConnect
  <2>3. CASE tasks' = tasks /\ (window'.previous = None => window.previous = None)
    BY <2>1, <2>3 DEF TaskConnects
  <2>4. CASE tasks' = tasks /\ Refusals # {}
    <3>1. TaskConnects = {} /\ EventConnects = {} /\ StackConnects = {}
      BY <2>4 DEF Inv, OneRefusal
    <3>2. TaskConnects' = {}
      BY <2>4, <3>1 DEF TaskConnects
    <3> QED BY <1>1, <1>2, <3>1, <3>2, KeptFacts DEF Inv, OneConnect
  <2> QED BY <1>1, <2>1, <2>2, <2>3, <2>4, AddedTask DEF Quiet, Asks
<1>8. OneRefusal'
  <2>1. /\ EventConnects' = EventConnects /\ StackConnects' = StackConnects
        /\ tasks' = tasks => TaskConnects' = TaskConnects
        /\ Refusals # {} => /\ window.previous # None /\ TaskConnects = {}
                            /\ EventConnects = {} /\ StackConnects = {}
        /\ \A i, j \in Refusals : i = j
    BY <1>1, <1>2, KeptFacts DEF Inv, OneRefusal, TaskConnects
  <2>2. CASE Refusals' = Refusals /\ tasks' = tasks /\ window'.previous = window.previous
    BY <2>1, <2>2 DEF OneRefusal
  <2>3. CASE \E t \in Task : /\ tasks' = Append(tasks, t) /\ Refusals' = Refusals
                             /\ \/ t.id = "CONNECT" /\ window.previous = None
                                \/ t.id # "CONNECT" /\ window'.previous = window.previous
    BY <1>1, <2>1, <2>3, AddedTask DEF OneRefusal
  <2>4. CASE /\ tasks' = tasks /\ window.previous = None /\ window'.previous # None
             /\ \E n : Refusals' = Refusals \cup {n}
    <3>1. Refusals = {} /\ TaskConnects = {} /\ EventConnects = {} /\ StackConnects = {}
      BY <2>1, <2>4 DEF Inv, OneConnect
    <3> QED BY <2>1, <2>4, <3>1 DEF OneRefusal
  <2>5. CASE \E n \in Refusals : Refusals' = Refusals \ {n}
    <3>1. Refusals' = {}
      BY <2>1, <2>5
    <3> QED BY <3>1 DEF OneRefusal
  <2> QED BY <2>2, <2>3, <2>4, <2>5 DEF Quiet, Asks
<1>4. Ordered'
  BY <1>1, KeptFacts DEF Inv
<1>5. Unanswered'
  BY <1>1, KeptFacts DEF Inv, Unanswered
<1>6. NewestFollows'
  <2>1. SUFFICES ASSUME link = "up" /\ ~unread PROVE (InQueue \/ InCall \/ IsShown)'
    BY <1>1 DEF NewestFollows
  <2>2. CASE InQueue
    <3>1. events # <<>>
      BY <2>2 DEF InQueue, IsNewest
    <3>2. tasks' = tasks
      BY <3>1 DEF Quiet
    <3>3. StackConnects' = StackConnects
      BY <1>1, KeptFacts
    <3>4. Slack' = Slack
      BY <1>1, <3>3 DEF Slack
    <3>5. InQueue'
      BY <1>1, <2>2, <3>2, <3>4 DEF InQueue, IsNewest
    <3> QED BY <3>5
  <2>3. CASE InCall
    <3>1. PICK j \in DOMAIN stack :
            /\ \E k \in DOMAIN stack[j].rest : IsNewest(stack[j].rest, k, published)
            /\ \A m \in DOMAIN stack : m > j => NoNews(stack[m].rest)
      BY <2>3 DEF InCall
    <3>2. j \in DOMAIN stack' /\ stack'[j].rest = stack[j].rest
      BY <1>1, <3>1 DEF Kept
    <3>3. ASSUME NEW m \in DOMAIN stack', m > j PROVE NoNews(stack'[m].rest)
      BY <1>1, <3>1, <3>3 DEF Kept, NoNews
    <3>4. \E k \in DOMAIN stack'[j].rest : IsNewest(stack'[j].rest, k, published')
      BY <1>1, <3>1, <3>2 DEF IsNewest
    <3>5. InCall'
      BY <1>1, <2>3, <3>2, <3>3, <3>4 DEF InCall, IsNewest, NoNews
    <3> QED BY <3>5
  <2>4. CASE IsShown
    <3>1. ASSUME NEW j \in DOMAIN stack'
          PROVE  NoNews(stack'[j].rest) \/ stack'[j].overtaken
      BY <1>1, <2>4 DEF IsShown, Kept, NoNews
    <3>2. IsShown'
      BY <1>1, <2>4, <3>1 DEF IsShown, NoNews, Quiet
    <3> QED BY <3>2
  <2> QED BY <2>1, <2>2, <2>3, <2>4, <1>1 DEF Inv, NewestFollows
<1>7. LockedForAReason'
  <2>1. ASSUME NEW id PROVE UnderWay(id) => UnderWay(id)'
    <3>1. Asked(tasks, id) => Asked(tasks', id)
      BY <1>1, AddedTask DEF Quiet, Asks
    <3>2. (\E j \in DOMAIN stack' : Replied(stack'[j].rest, id))
                      <=> \E j \in DOMAIN stack : Replied(stack[j].rest, id)
      BY <1>1, KeptFacts
    <3> QED BY <1>1, <3>1, <3>2, WhereUnderWay
  <2>2. ASSUME NEW t \in Task, tasks' = Append(tasks, t) PROVE UnderWay(t.id)'
    <3>1. Asked(tasks', t.id)
      BY <1>1, <2>2, AddedTask
    <3> QED BY <3>1, WhereUnderWay
  <2>3. RefusedConnect <=> Refusals # {}
    BY DEF RefusedConnect, Refusals
  <2>4. RefusedConnect' <=> Refusals' # {}
    BY DEF RefusedConnect, Refusals
  <2>5. window'.previous # None =>
          \/ window.previous # None /\ Refusals' = Refusals
          \/ UnderWay("CONNECT")' \/ Refusals' # {}
    BY <2>2 DEF Quiet, Asks
  <2>6. window'.pending => window.pending \/ UnderWay("PREFERENCES")'
    BY <2>2 DEF Quiet, Asks
  <2> QED BY <1>1, <2>1, <2>3, <2>4, <2>5, <2>6 DEF Inv, LockedForAReason
<1> QED BY <1>3, <1>4, <1>5, <1>6, <1>7, <1>8 DEF Inv, TypeOK, Nested

-----------------------------------------------------------------------------
(* What is posted.                                                         *)

\* "d" events, one or none, made room.
Posted(e, d) ==
  /\ d \in {0, 1} /\ (d = 1 => Len(events) = EventCap)
  /\ events' \in Seq(UiEvent) /\ Len(events') = Len(events) + 1 - d
  /\ Len(events) \in Nat /\ Len(events') <= EventCap
  /\ DOMAIN events = 1..Len(events) /\ DOMAIN events' = 1..Len(events')
  /\ \A i \in DOMAIN events' :
       i # Len(events') => events'[i] = events[i + d] /\ i + d \in DOMAIN events
  /\ events'[Len(events')] = e /\ Len(events') \in DOMAIN events'
  /\ lost' = (lost \/ (d = 1 /\ IsReply(events[1])))

LEMMA PostFacts ==
  ASSUME TypeOK, NEW e \in UiEvent, Post(e)
  PROVE  \E d \in {0, 1} : Posted(e, d)
<1>1. /\ events \in Seq(UiEvent) /\ Len(events) <= EventCap /\ EventCap \in Nat
      /\ EventCap > 0 /\ lost \in BOOLEAN
  BY WindowAssumption DEF TypeOK
<1>2. CASE Len(events) = EventCap
  <2>1. events # <<>>
    BY <1>1, <1>2
  <2>2. /\ Tail(events) \in Seq(UiEvent) /\ Len(events) \in Nat
        /\ Len(Tail(events)) = Len(events) - 1
        /\ DOMAIN Tail(events) = 1..(Len(events) - 1) /\ DOMAIN events = 1..Len(events)
        /\ \A i \in DOMAIN Tail(events) : Tail(events)[i] = events[i + 1]
        /\ Head(events) = events[1]
    BY <1>1, <2>1, TailFacts
  <2> DEFINE t == Tail(events)
             u == Append(t, e)
  <2>3. events' = u /\ lost' = (lost \/ IsReply(Head(events)))
    BY <1>2 DEF Post
  <2>4. /\ u \in Seq(UiEvent) /\ Len(u) = Len(t) + 1
        /\ DOMAIN u = 1..(Len(t) + 1)
        /\ \A i \in DOMAIN t : u[i] = t[i]
        /\ u[Len(t) + 1] = e
    BY <2>2, AppendFacts
  <2> HIDE DEF t, u
  <2>5. /\ events' \in Seq(UiEvent) /\ Len(events') = Len(events) + 1 - 1
        /\ DOMAIN events' = 1..Len(events') /\ events'[Len(events')] = e
        /\ \A i \in DOMAIN events' :
             i # Len(events') => events'[i] = events[i + 1] /\ i + 1 \in DOMAIN events
        /\ Len(events') \in DOMAIN events'
    BY <1>1, <1>2, <2>2, <2>3, <2>4 DEF t
  <2>6. Posted(e, 1)
    BY <1>1, <1>2, <2>2, <2>3, <2>5 DEF Posted
  <2> QED BY <2>6
<1>3. CASE Len(events) # EventCap
  <2> DEFINE u == Append(events, e)
  <2>1. events' = u /\ lost' = lost
    BY <1>3 DEF Post
  <2>2. /\ u \in Seq(UiEvent) /\ Len(events) \in Nat /\ Len(u) = Len(events) + 1
        /\ DOMAIN u = 1..(Len(events) + 1) /\ DOMAIN events = 1..Len(events)
        /\ \A i \in DOMAIN events : u[i] = events[i]
        /\ u[Len(events) + 1] = e
    BY <1>1, AppendFacts
  <2> HIDE DEF u
  <2>3. \A i \in DOMAIN events' :
          i # Len(events') => events'[i] = events[i + 0] /\ i + 0 \in DOMAIN events
    BY <2>1, <2>2
  <2>4. Posted(e, 0)
    <3>1. Len(events) \in Nat /\ EventCap \in Nat /\ Len(events) <= EventCap /\ Len(events) # EventCap
      BY <1>1, <1>3, <2>2
    <3>2. Len(events') = Len(events) + 1
      BY <2>1, <2>2
    <3>3. Len(events) <= EventCap /\ Len(events') = Len(events) + 1 - 0 /\ Len(events') <= EventCap
      BY <3>1, <3>2
    <3>4. lost' = (lost \/ (0 = 1 /\ IsReply(events[1])))
      BY <1>1, <2>1
    <3>5. /\ events' \in Seq(UiEvent) /\ DOMAIN events' = 1..Len(events')
          /\ events'[Len(events')] = e /\ Len(events') \in DOMAIN events'
      BY <2>1, <2>2
    <3> QED BY <2>2, <2>3, <3>3, <3>4, <3>5 DEF Posted
  <2> QED BY <2>4
<1> QED BY <1>2, <1>3

LEMMA PostedFacts ==
  ASSUME NEW e \in UiEvent, NEW d \in {0, 1}, Posted(e, d), EventCap \in Nat \ {0}
  PROVE  /\ ~IsConnect(e) => /\ (EventConnects = {} => EventConnects' = {})
                             /\ (\A i, j \in EventConnects : i = j)
                                  => \A i, j \in EventConnects' : i = j
         /\ EventConnects = {} => \A i, j \in EventConnects' : i = j
         /\ NoNews(events) /\ ~IsNews(e) => NoNews(events')
         /\ NoReplies(events) /\ ~IsReply(e) => NoReplies(events')
         /\ ~IsNews(e) => \A k \in DOMAIN events :
              IsNewest(events, k, published) /\ k > d /\ published' = published
                => IsNewest(events', k - d, published')
         /\ \A id : Replied(events, id) => Replied(events', id) \/ lost'
         /\ IsReply(e) => Replied(events', e.id)
<1> DEFINE m == Len(events')
<1>1. /\ events' \in Seq(UiEvent) /\ m = Len(events) + 1 - d
      /\ Len(events) \in Nat /\ m \in Nat
      /\ DOMAIN events = 1..Len(events) /\ DOMAIN events' = 1..m
      /\ \A i \in DOMAIN events' : i # m => events'[i] = events[i + d] /\ i + d \in DOMAIN events
      /\ events'[m] = e /\ m \in DOMAIN events'
      /\ lost' = (lost \/ (d = 1 /\ IsReply(events[1])))
  BY DEF Posted
<1>2. EventConnects' = {i \in DOMAIN events' : IsConnect(events'[i])}
  BY DEF EventConnects, IsConnect, IsReply
<1>3. \A i : i \in EventConnects <=> i \in DOMAIN events /\ IsConnect(events[i])
  BY DEF EventConnects
<1>4. \A i : i \in EventConnects' <=> i \in DOMAIN events' /\ IsConnect(events'[i])
  BY <1>2
<1> HIDE DEF m
<1>5. ASSUME ~IsConnect(e)
      PROVE  /\ EventConnects = {} => EventConnects' = {}
             /\ (\A i, j \in EventConnects : i = j) => \A i, j \in EventConnects' : i = j
  <2>1. \A i \in EventConnects' : i + d \in EventConnects /\ i \in 1..m
    BY <1>1, <1>3, <1>4, <1>5
  <2> QED BY <1>1, <2>1
<1>6. ASSUME EventConnects = {}
      PROVE  \A i, j \in EventConnects' : i = j
  <2>1. \A i \in EventConnects' : i = m
    BY <1>1, <1>3, <1>4, <1>6
  <2> QED BY <2>1
<1>7. ASSUME NoNews(events), ~IsNews(e) PROVE NoNews(events')
  BY <1>1, <1>7 DEF NoNews
<1>8. ASSUME NoReplies(events), ~IsReply(e) PROVE NoReplies(events')
  BY <1>1, <1>8 DEF NoReplies
<1>9. ASSUME ~IsNews(e), NEW k \in DOMAIN events, IsNewest(events, k, published), k > d,
             published' = published
      PROVE  IsNewest(events', k - d, published')
  <2>1. k - d \in 1..m /\ k - d # m /\ k - d + d = k
    BY <1>1, <1>9
  <2>2. events'[k - d] = Told(published)
    BY <1>1, <1>9, <2>1 DEF IsNewest
  <2>3. ASSUME NEW i \in DOMAIN events', i > k - d PROVE ~IsNews(events'[i])
    <3>1. CASE i = m
      BY <1>1, <1>9, <3>1
    <3>2. CASE i # m
      <4>1. i + d \in DOMAIN events /\ i + d > k
        BY <1>1, <2>3, <3>2
      <4> QED BY <1>1, <1>9, <3>2, <4>1 DEF IsNewest
    <3> QED BY <3>1, <3>2
  <2> QED BY <1>1, <1>9, <2>1, <2>2, <2>3 DEF IsNewest, IsNews, Told
<1>10. ASSUME NEW id, Replied(events, id) PROVE Replied(events', id) \/ lost'
  <2>1. PICK i \in DOMAIN events : IsReply(events[i]) /\ events[i].id = id
    BY <1>10 DEF Replied
  <2>2. CASE i > d
    <3>1. i - d \in DOMAIN events' /\ i - d # m /\ i - d + d = i
      BY <1>1, <2>2
    <3>2. events'[i - d] = events[i]
      BY <1>1, <3>1
    <3> QED BY <2>1, <3>1, <3>2 DEF Replied
  <2>3. CASE ~(i > d)
    <3>1. i = 1 /\ d = 1
      BY <1>1, <2>3
    <3> QED BY <1>1, <2>1, <3>1
  <2> QED BY <2>2, <2>3
<1>11. IsReply(e) => Replied(events', e.id)
  BY <1>1 DEF Replied
<1> QED BY <1>5, <1>6, <1>7, <1>8, <1>9, <1>10, <1>11

LEMMA FailedType ==
  ASSUME NEW id \in Id
  PROVE  Failed(id) \in UiEvent /\ IsReply(Failed(id)) /\ Failed(id).id = id /\ ~IsNews(Failed(id))
BY DEF Failed, UiEvent, IsReply, IsNews

LEMMA AnsweredType ==
  ASSUME NEW id \in Id, NEW c \in Config
  PROVE  /\ Answered(id, c) \in UiEvent /\ IsReply(Answered(id, c)) /\ Answered(id, c).id = id
         /\ ~IsNews(Answered(id, c))
BY DEF Answered, UiEvent, IsReply, IsNews

LEMMA ToldType ==
  ASSUME NEW s \in Snapshot
  PROVE  Told(s) \in UiEvent /\ ~IsReply(Told(s)) /\ IsNews(Told(s))
BY DEF Told, UiEvent, IsReply, IsNews

LEMMA SignalTypes ==
  /\ Disconnected \in UiEvent /\ ~IsReply(Disconnected)
  /\ NotStarted \in UiEvent /\ ~IsReply(NotStarted) /\ ~IsNews(NotStarted)
BY DEF Disconnected, NotStarted, UiEvent, IsReply, IsNews

\* What a step leaves that posts at most, if it also leaves the requests.
LEMMA SameStack ==
  ASSUME TypeOK, stack' = stack
  PROVE  /\ StackConnects' = StackConnects
         /\ (\A k \in DOMAIN stack : \A i, j \in CallConnects(stack[k]) : i = j)
              => \A k \in DOMAIN stack' : \A i, j \in CallConnects(stack'[k]) : i = j
         /\ Ordered => Ordered'
         /\ (\A j \in DOMAIN stack : NoReplies(stack[j].rest))
              => \A j \in DOMAIN stack' : NoReplies(stack'[j].rest)
         /\ \A id : (\E j \in DOMAIN stack' : Replied(stack'[j].rest, id))
                      <=> \E j \in DOMAIN stack : Replied(stack[j].rest, id)
         /\ Nested => Nested'
         /\ Refusals' = Refusals
<1>1. Kept(stack, stack') /\ stack \in Seq(Call) /\ stack' \in Seq(Call)
  BY DEF Kept, TypeOK
<1>2. Nested => Nested'
  BY DEF Nested
<1>3. Refusals' = Refusals
  BY DEF Refusals
<1> QED BY <1>1, <1>2, <1>3, KeptFacts

LEMMA SameInCall ==
  ASSUME stack' = stack, published' = published, NoNews(events'), InCall
  PROVE  InCall'
<1>1. \A q, k : IsNewest(q, k, published) <=> IsNewest(q, k, published')
  BY DEF IsNewest
<1> QED BY <1>1 DEF InCall, NoNews

LEMMA SameIsShown ==
  ASSUME stack' = stack, published' = published, NoNews(events'), window' = window, IsShown
  PROVE  IsShown'
BY DEF IsShown, NoNews

\* What is posted behind element k does not push it out.
LEMMA Room ==
  ASSUME NEW len \in Nat, NEW k \in 1..len, NEW t \in Nat, t >= 1,
         NEW d \in {0, 1}, d = 1 => len = EventCap,
         len - k + t <= TaskCap + 1
  PROVE  k > d
<1>1. TaskCap \in Nat /\ EventCap \in Nat /\ EventCap > TaskCap + 1
  BY WindowAssumption
<1> QED BY <1>1

LEMMA SlackBound == Slack \in {0, 1}
BY DEF Slack

LEMMA StartServiceKeeps ==
  ASSUME Inv, StartService
  PROVE  Inv'
<1>1. /\ ~started /\ started' = TRUE /\ stack' = stack /\ window' = window /\ tasks' = tasks
      /\ UNCHANGED <<service, published, news, link, unread>>
  BY DEF StartService, outside, subscription
<1>2. NotStarted \in UiEvent /\ ~IsReply(NotStarted) /\ ~IsNews(NotStarted)
  BY SignalTypes
<1>3. TypeOK /\ EventCap \in Nat \ {0} /\ TaskCap \in Nat /\ EventCap > TaskCap + 1
  BY WindowAssumption DEF Inv
<1>4. \/ UNCHANGED <<events, lost>>
      \/ \E d \in {0, 1} : Posted(NotStarted, d)
  BY <1>2, <1>3, PostFacts DEF StartService
<1>5. TypeOK'
  <2>1. events' \in Seq(UiEvent) /\ Len(events') <= EventCap /\ lost' \in BOOLEAN
    BY <1>3, <1>4 DEF TypeOK, Posted
  <2> QED BY <1>1, <1>3, <2>1 DEF TypeOK
<1>6. NoReplies(events) /\ NoReplies(events')
  <2>1. NoReplies(events)
    BY <1>1 DEF Inv, Unanswered
  <2> QED BY <1>2, <1>3, <1>4, <2>1, PostedFacts
<1>7. EventConnects = {} /\ EventConnects' = {}
  BY <1>6 DEF EventConnects, NoReplies, IsConnect
<1>8. TaskConnects' = TaskConnects
  BY <1>1 DEF TaskConnects
<1>9. OneConnect'
  BY <1>1, <1>3, <1>7, <1>8, SameStack DEF Inv, OneConnect
<1>10. Ordered' /\ Nested' /\ Unanswered'
  BY <1>1, <1>3, SameStack DEF Inv, Unanswered
<1>11. NewestFollows'
  <2>1. SUFFICES ASSUME link = "up" /\ ~unread PROVE (InQueue \/ InCall \/ IsShown)'
    BY <1>1 DEF NewestFollows
  <2>2. NoNews(events) => NoNews(events')
    BY <1>2, <1>3, <1>4, PostedFacts
  <2>3. CASE InQueue
    <3>1. PICK k \in DOMAIN events :
            IsNewest(events, k, published) /\ Len(events) - k + Len(tasks) + 1 <= TaskCap + 1
      BY <1>1, <2>3 DEF InQueue, Slack
    <3>2. Slack' = 0
      <4>1. \A j \in DOMAIN stack : NoReplies(stack[j].rest)
        BY <1>1 DEF Inv, Unanswered
      <4>2. StackConnects = {}
        BY <4>1 DEF StackConnects, CallConnects, IsConnect, NoReplies
      <4> QED BY <1>1, <1>3, <4>2, SameStack DEF Slack
    <3>3. Len(tasks) \in Nat /\ Len(events) \in Nat /\ DOMAIN events = 1..Len(events)
      BY <1>3 DEF TypeOK
    <3>4. CASE UNCHANGED <<events, lost>>
      <4>1. IsNewest(events', k, published')
        BY <1>1, <3>1, <3>4 DEF IsNewest
      <4>2. Len(events') - k + Len(tasks') + Slack' <= TaskCap + 1
        BY <1>1, <1>3, <3>1, <3>2, <3>3, <3>4
      <4> QED BY <3>4, <4>1, <4>2 DEF InQueue
    <3>5. ASSUME NEW d \in {0, 1}, Posted(NotStarted, d) PROVE InQueue'
      <4>1. (d = 1 => Len(events) = EventCap) /\ Len(events') = Len(events) + 1 - d
        BY <3>5 DEF Posted
      <4>2. k > d /\ k \in Nat
        <5> DEFINE t == Len(tasks) + 1
        <5>1. k \in 1..Len(events) /\ t \in Nat /\ t >= 1
          BY <3>3
        <5>2. Len(events) - k + t <= TaskCap + 1
          BY <1>3, <3>1, <3>3, <5>1
        <5> HIDE DEF t
        <5>3. k > d
          BY <3>3, <4>1, <5>1, <5>2, Room
        <5> QED BY <5>1, <5>3
      <4>3. IsNewest(events', k - d, published')
        BY <1>1, <1>2, <1>3, <3>1, <3>5, <4>2, PostedFacts
      <4>4. Len(events') - (k - d) + Len(tasks') + Slack' <= TaskCap + 1
        <5>1. k \in Nat /\ d \in Nat /\ Len(tasks) \in Nat /\ Len(events) \in Nat /\ TaskCap \in Nat
          BY <1>3, <3>3, <4>2
        <5>2. Len(events) - k + Len(tasks) + 1 <= TaskCap + 1
          BY <3>1
        <5>3. Len(events') = Len(events) + 1 - d /\ Len(tasks') = Len(tasks) /\ Slack' = 0
          BY <1>1, <3>2, <4>1
        <5> QED BY <5>1, <5>2, <5>3
      <4>5. k - d \in DOMAIN events'
        BY <4>3 DEF IsNewest
      <4> QED BY <4>3, <4>4, <4>5 DEF InQueue
    <3> QED BY <1>4, <3>4, <3>5
  <2>4. CASE InCall
    BY <1>1, <2>2, <2>4, SameInCall DEF InCall
  <2>5. CASE IsShown
    BY <1>1, <2>2, <2>5, SameIsShown DEF IsShown
  <2> QED BY <2>1, <2>3, <2>4, <2>5 DEF Inv, NewestFollows
<1>12. LockedForAReason'
  <2>1. lost => lost'
    BY <1>3, <1>4 DEF Posted, TypeOK
  <2>2. ASSUME NEW id PROVE UnderWay(id) => UnderWay(id)' \/ lost'
    <3>1. Replied(events, id) => Replied(events', id) \/ lost'
      BY <1>2, <1>3, <1>4, PostedFacts
    <3> QED BY <1>1, <1>3, <3>1, SameStack, WhereUnderWay
  <2> QED BY <1>1, <2>1, <2>2 DEF Inv, LockedForAReason, RefusedConnect
<1>13. OneRefusal'
  BY <1>1, <1>3, <1>7, <1>8, SameStack DEF Inv, OneRefusal
<1> QED BY <1>5, <1>9, <1>10, <1>11, <1>12, <1>13 DEF Inv

\* The first request is taken.
LEMMA ServedTask ==
  ASSUME tasks \in Seq(Task), tasks # <<>>, tasks' = Tail(tasks)
  PROVE  /\ tasks' \in Seq(Task) /\ Len(tasks) \in Nat /\ Len(tasks') = Len(tasks) - 1
         /\ Head(tasks) \in Task
         /\ (\A i, j \in TaskConnects : i = j) => \A i, j \in TaskConnects' : i = j
         /\ TaskConnects = {} => TaskConnects' = {}
         /\ Head(tasks).id = "CONNECT" => TaskConnects # {}
         /\ (\A i, j \in TaskConnects : i = j) /\ Head(tasks).id = "CONNECT" => TaskConnects' = {}
         /\ \A id : Asked(tasks, id) => Asked(tasks', id) \/ Head(tasks).id = id
<1>1. /\ tasks' \in Seq(Task) /\ Head(tasks) \in Task /\ Len(tasks) \in Nat
      /\ Len(tasks') = Len(tasks) - 1
      /\ DOMAIN tasks' = 1..(Len(tasks) - 1) /\ DOMAIN tasks = 1..Len(tasks)
      /\ \A i \in DOMAIN tasks' : tasks'[i] = tasks[i + 1]
      /\ Head(tasks) = tasks[1] /\ 1 \in DOMAIN tasks
  BY TailFacts
<1>2. \A i : i \in TaskConnects <=> i \in DOMAIN tasks /\ tasks[i].id = "CONNECT"
  BY DEF TaskConnects
<1>3. \A i : i \in TaskConnects' <=> i \in DOMAIN tasks' /\ tasks'[i].id = "CONNECT"
  BY DEF TaskConnects
<1>4. \A i \in TaskConnects' : i \in Nat /\ i > 0 /\ i + 1 \in TaskConnects
  BY <1>1, <1>2, <1>3
<1>5. (\A i, j \in TaskConnects : i = j) => \A i, j \in TaskConnects' : i = j
  BY <1>4
<1>6. Head(tasks).id = "CONNECT" => 1 \in TaskConnects
  BY <1>1, <1>2
<1>7. (\A i, j \in TaskConnects : i = j) /\ 1 \in TaskConnects => TaskConnects' = {}
  BY <1>4
<1>8. ASSUME NEW id, Asked(tasks, id), Head(tasks).id # id PROVE Asked(tasks', id)
  <2>1. PICK i \in DOMAIN tasks : tasks[i].id = id
    BY <1>8 DEF Asked
  <2>2. i # 1
    BY <1>1, <1>8, <2>1
  <2>3. i - 1 \in DOMAIN tasks' /\ tasks'[i - 1] = tasks[i]
    BY <1>1, <2>2
  <2> QED BY <2>1, <2>3 DEF Asked
<1> QED BY <1>1, <1>4, <1>5, <1>6, <1>7, <1>8

LEMMA AppliedType ==
  ASSUME service \in Config, NEW t \in Task
  PROVE  t.id \in Id /\ Applied(t) \in Config
<1>1. t.id \in Id
  BY DEF Task, Id
<1>2. Applied(t) \in Config
  BY DEF Task, Applied, Config
<1> QED BY <1>1, <1>2

LEMMA ServeKeeps ==
  ASSUME Inv, Serve
  PROVE  Inv'
<1> DEFINE h == Head(tasks)
<1>1. /\ started /\ started' = started /\ stack' = stack /\ window' = window
      /\ tasks # <<>> /\ tasks' = Tail(tasks)
      /\ UNCHANGED <<published, news, link, unread>>
  BY DEF Serve, subscription
<1>2. TypeOK /\ EventCap \in Nat \ {0} /\ TaskCap \in Nat /\ EventCap > TaskCap + 1
  BY WindowAssumption DEF Inv
<1>3. /\ tasks \in Seq(Task) /\ tasks' \in Seq(Task) /\ Len(tasks) \in Nat
      /\ Len(tasks') = Len(tasks) - 1 /\ h \in Task /\ Len(tasks) <= TaskCap
      /\ service \in Config
  BY <1>1, <1>2, ServedTask DEF TypeOK
<1>4. h.id \in Id /\ Applied(h) \in Config
  BY <1>3, AppliedType
<1>5. PICK r \in UiEvent, d \in {0, 1} :
        Posted(r, d) /\ IsReply(r) /\ r.id = h.id /\ ~IsNews(r)
  <2>1. CASE Post(Answered(h.id, service')) /\ service' = Applied(h)
    <3> DEFINE r == Answered(h.id, service')
    <3>1. r \in UiEvent /\ IsReply(r) /\ r.id = h.id /\ ~IsNews(r)
      <4>1. service' \in Config
        BY <1>4, <2>1
      <4> QED BY <1>4, <4>1, AnsweredType
    <3> QED BY <1>2, <2>1, <3>1, PostFacts
  <2>2. CASE Post(Failed(h.id))
    <3> DEFINE r == Failed(h.id)
    <3>1. r \in UiEvent /\ IsReply(r) /\ r.id = h.id /\ ~IsNews(r)
      BY <1>4, FailedType
    <3> QED BY <1>2, <2>2, <3>1, PostFacts
  <2> QED BY <2>1, <2>2 DEF Serve
<1>6. service' \in Config
  BY <1>3, <1>4 DEF Serve
<1>7. TypeOK'
  <2>1. events' \in Seq(UiEvent) /\ Len(events') <= EventCap /\ lost' \in BOOLEAN
    BY <1>2, <1>5 DEF TypeOK, Posted
  <2>2. Len(tasks') <= TaskCap
    BY <1>2, <1>3
  <2> QED BY <1>1, <1>2, <1>3, <1>6, <2>1, <2>2 DEF TypeOK
<1>8. /\ (\A i, j \in TaskConnects : i = j) => \A i, j \in TaskConnects' : i = j
      /\ TaskConnects = {} => TaskConnects' = {}
      /\ h.id = "CONNECT" => TaskConnects # {}
      /\ (\A i, j \in TaskConnects : i = j) /\ h.id = "CONNECT" => TaskConnects' = {}
      /\ \A id : Asked(tasks, id) => Asked(tasks', id) \/ h.id = id
  BY <1>1, <1>3, ServedTask
<1>9. /\ ~IsConnect(r) => /\ (EventConnects = {} => EventConnects' = {})
                          /\ (\A i, j \in EventConnects : i = j)
                               => \A i, j \in EventConnects' : i = j
      /\ EventConnects = {} => \A i, j \in EventConnects' : i = j
      /\ NoNews(events) => NoNews(events')
      /\ \A k \in DOMAIN events :
           IsNewest(events, k, published) /\ k > d => IsNewest(events', k - d, published')
      /\ \A id : Replied(events, id) => Replied(events', id) \/ lost'
      /\ Replied(events', h.id)
  BY <1>1, <1>2, <1>5, PostedFacts
<1> HIDE DEF h
<1>10. /\ StackConnects' = StackConnects
       /\ (\A k \in DOMAIN stack : \A i, j \in CallConnects(stack[k]) : i = j)
            => \A k \in DOMAIN stack' : \A i, j \in CallConnects(stack'[k]) : i = j
  BY <1>1, <1>2, SameStack
<1>11. OneConnect'
  <2>1. CASE h.id = "CONNECT"
    <3>1. /\ TaskConnects # {} /\ TaskConnects' = {} /\ EventConnects = {} /\ StackConnects = {}
          /\ window.previous # None
      BY <1>8, <2>1 DEF Inv, OneConnect
    <3> QED BY <1>1, <1>9, <1>10, <3>1 DEF Inv, OneConnect
  <2>2. CASE h.id # "CONNECT"
    <3>1. ~IsConnect(r)
      BY <1>5, <2>2 DEF IsConnect
    <3>2. /\ EventConnects = {} => EventConnects' = {}
          /\ \A i, j \in EventConnects' : i = j
          /\ TaskConnects = {} => TaskConnects' = {}
          /\ \A i, j \in TaskConnects' : i = j
      BY <1>8, <1>9, <3>1 DEF Inv, OneConnect
    <3> QED BY <1>1, <1>10, <3>2 DEF Inv, OneConnect
  <2> QED BY <2>1, <2>2
<1>12. Ordered' /\ Nested' /\ Unanswered'
  BY <1>1, <1>2, SameStack DEF Inv, Unanswered
<1>13. NewestFollows'
  <2>1. SUFFICES ASSUME link = "up" /\ ~unread PROVE (InQueue \/ InCall \/ IsShown)'
    BY <1>1 DEF NewestFollows
  <2>2. CASE InQueue
    <3>1. PICK k \in DOMAIN events :
            IsNewest(events, k, published) /\ Len(events) - k + Len(tasks) + Slack <= TaskCap + 1
      BY <2>2 DEF InQueue
    <3>2. Slack' = Slack /\ Slack \in {0, 1}
      BY <1>1, <1>10, SlackBound DEF Slack
    <3>3. /\ Len(events) \in Nat /\ DOMAIN events = 1..Len(events)
          /\ (d = 1 => Len(events) = EventCap) /\ Len(events') = Len(events) + 1 - d
      BY <1>5 DEF Posted
    <3>4. Len(tasks) > 0
      BY <1>1, <1>3
    <3>5. k > d /\ k \in Nat
      <4> DEFINE t == Len(tasks) + Slack
      <4>1. k \in 1..Len(events) /\ t \in Nat /\ t >= 1
        BY <1>3, <3>2, <3>3, <3>4
      <4>2. Len(events) - k + t <= TaskCap + 1
        <5>1. Slack \in Nat /\ Len(tasks) \in Nat /\ Len(events) \in Nat /\ k \in Nat /\ TaskCap \in Nat
          <6>1. Slack \in Nat
            BY <3>2
          <6>2. Len(tasks) \in Nat /\ TaskCap \in Nat
            BY <1>2, <1>3
          <6>3. Len(events) \in Nat /\ k \in Nat
            BY <3>3, <4>1
          <6> QED BY <6>1, <6>2, <6>3
        <5>2. Len(events) - k + Len(tasks) + Slack <= TaskCap + 1
          BY <3>1
        <5> QED BY <5>1, <5>2
      <4> HIDE DEF t
      <4>3. k > d
        BY <3>3, <4>1, <4>2, Room
      <4> QED BY <4>1, <4>3
    <3>6. IsNewest(events', k - d, published')
      BY <1>9, <3>1, <3>5
    <3>7. Len(events') - (k - d) + Len(tasks') + Slack' <= TaskCap + 1
      <4>1. /\ k \in Nat /\ d \in Nat /\ Len(tasks) \in Nat /\ Len(events) \in Nat
            /\ TaskCap \in Nat /\ Slack \in Nat
        <5>1. Slack \in Nat
          BY <3>2
        <5>2. Len(tasks) \in Nat /\ TaskCap \in Nat
          BY <1>2, <1>3
        <5>3. Len(events) \in Nat /\ k \in Nat /\ d \in Nat
          BY <3>3, <3>5
        <5> QED BY <5>1, <5>2, <5>3
      <4>2. Len(events) - k + Len(tasks) + Slack <= TaskCap + 1
        BY <3>1
      <4>3. /\ Len(events') = Len(events) + 1 - d /\ Len(tasks') = Len(tasks) - 1
            /\ Slack' = Slack
        BY <1>3, <3>2, <3>3
      <4> QED BY <4>1, <4>2, <4>3
    <3>8. k - d \in DOMAIN events'
      BY <3>6 DEF IsNewest
    <3>9. InQueue'
      BY <3>6, <3>7, <3>8 DEF InQueue
    <3> QED BY <3>9
  <2>3. CASE InCall
    BY <1>1, <1>9, <2>3, SameInCall DEF InCall
  <2>4. CASE IsShown
    BY <1>1, <1>9, <2>4, SameIsShown DEF IsShown
  <2> QED BY <2>1, <2>2, <2>3, <2>4 DEF Inv, NewestFollows
<1>14. LockedForAReason'
  <2>1. lost => lost'
    BY <1>5 DEF Posted
  <2>2. ASSUME NEW id PROVE UnderWay(id) => UnderWay(id)' \/ lost'
    <3>1. (\E j \in DOMAIN stack' : Replied(stack'[j].rest, id))
            <=> \E j \in DOMAIN stack : Replied(stack[j].rest, id)
      BY <1>1, <1>2, SameStack
    <3> QED BY <1>8, <1>9, <3>1, WhereUnderWay
  <2> QED BY <1>1, <2>1, <2>2 DEF Inv, LockedForAReason, RefusedConnect
<1>15. OneRefusal'
  <2>1. Refusals' = Refusals
    BY <1>1, <1>2, SameStack
  <2>2. ~IsConnect(r) \/ Refusals = {}
    BY <1>5, <1>8 DEF Inv, OneRefusal, IsConnect
  <2> QED BY <1>1, <1>8, <1>9, <1>10, <2>1, <2>2 DEF Inv, OneRefusal
<1> QED BY <1>7, <1>11, <1>12, <1>13, <1>14, <1>15 DEF Inv

LEMMA HearKeeps ==
  ASSUME Inv, Hear
  PROVE  Inv'
<1> DEFINE e == Told(published)
<1>1. /\ unread' = FALSE /\ link' = "up" /\ started' = started /\ stack' = stack
      /\ window' = window /\ UNCHANGED <<service, published, news>> /\ Post(e)
  BY DEF Hear, outside
<1>2. TypeOK /\ EventCap \in Nat \ {0} /\ TaskCap \in Nat /\ EventCap > TaskCap + 1
  BY WindowAssumption DEF Inv
<1>3. e \in UiEvent /\ ~IsReply(e) /\ ~IsConnect(e)
  BY <1>2, ToldType DEF TypeOK, IsConnect
<1>4. PICK d \in {0, 1} : Posted(e, d)
  BY <1>1, <1>2, <1>3, PostFacts
<1>5. /\ tasks' \in Seq(Task) /\ Len(tasks') <= TaskCap /\ TaskConnects' = TaskConnects
      /\ \A id : Asked(tasks, id) => Asked(tasks', id)
  <2>1. tasks \in Seq(Task) /\ Len(tasks) <= TaskCap
    BY <1>2 DEF TypeOK
  <2>2. CASE HasRoom /\ Send(Request("INITIAL"))
    <3>1. Request("INITIAL") \in Task /\ Request("INITIAL").id = "INITIAL"
      BY RequestType
    <3>2. /\ tasks' \in Seq(Task) /\ Len(tasks') <= TaskCap
          /\ tasks' = Append(tasks, Request("INITIAL"))
      BY <1>2, <2>2, <3>1, SendType
    <3> QED BY <2>1, <3>1, <3>2, AddedTask
  <2>3. CASE tasks' = tasks
    BY <2>1, <2>3 DEF TaskConnects
  <2> QED BY <2>2, <2>3 DEF Hear
<1>6. TypeOK'
  <2>1. events' \in Seq(UiEvent) /\ Len(events') <= EventCap /\ lost' \in BOOLEAN
    BY <1>2, <1>4 DEF TypeOK, Posted
  <2> QED BY <1>1, <1>2, <1>5, <2>1 DEF TypeOK
<1>7. /\ EventConnects = {} => EventConnects' = {}
      /\ (\A i, j \in EventConnects : i = j) => \A i, j \in EventConnects' : i = j
      /\ NoReplies(events) => NoReplies(events')
      /\ \A id : Replied(events, id) => Replied(events', id) \/ lost'
  BY <1>2, <1>3, <1>4, PostedFacts
<1>8. OneConnect'
  <2>1. /\ StackConnects' = StackConnects
        /\ (\A k \in DOMAIN stack : \A i, j \in CallConnects(stack[k]) : i = j)
             => \A k \in DOMAIN stack' : \A i, j \in CallConnects(stack'[k]) : i = j
    BY <1>1, <1>2, SameStack
  <2> QED BY <1>1, <1>5, <1>7, <2>1 DEF Inv, OneConnect
<1>9. Ordered' /\ Nested' /\ Unanswered'
  BY <1>1, <1>2, <1>7, SameStack DEF Inv, Unanswered
<1>10. NewestFollows'
  <2> DEFINE k == Len(events')
  <2>1. k \in DOMAIN events' /\ k \in Nat /\ DOMAIN events' = 1..k /\ events'[k] = e
    BY <1>4 DEF Posted
  <2>2. IsNewest(events', k, published')
    BY <1>1, <2>1 DEF IsNewest
  <2>3. Len(tasks') \in Nat /\ Slack' \in {0, 1}
    BY <1>5 DEF Slack
  <2>4. Len(events') - k + Len(tasks') + Slack' <= TaskCap + 1
    BY <1>2, <1>5, <2>1, <2>3
  <2>5. InQueue'
    BY <2>1, <2>2, <2>4 DEF InQueue
  <2> QED BY <2>5 DEF NewestFollows
<1>11. LockedForAReason'
  <2>1. lost => lost'
    BY <1>4 DEF Posted
  <2>2. ASSUME NEW id PROVE UnderWay(id) => UnderWay(id)' \/ lost'
    <3>1. (\E j \in DOMAIN stack' : Replied(stack'[j].rest, id))
            <=> \E j \in DOMAIN stack : Replied(stack[j].rest, id)
      BY <1>1, <1>2, SameStack
    <3> QED BY <1>5, <1>7, <3>1, WhereUnderWay
  <2> QED BY <1>1, <2>1, <2>2 DEF Inv, LockedForAReason, RefusedConnect
<1>12. OneRefusal'
  BY <1>1, <1>2, <1>5, <1>7, SameStack DEF Inv, OneRefusal
<1> QED BY <1>6, <1>8, <1>9, <1>10, <1>11, <1>12 DEF Inv

\* The subscription begins, or the service publishes: nothing is posted.
LEMMA UnheardKeeps ==
  ASSUME Inv, Subscribe \/ Publish
  PROVE  Inv'
<1>1. /\ UNCHANGED <<service, started, tasks, events, stack, window, lost>>
      /\ link' \in {"down", "first", "up"} /\ unread' \in BOOLEAN
      /\ published' \in Snapshot /\ news' \in 0..MaxNews
      /\ ~(link' = "up" /\ ~unread')
  <2>1. TypeOK
    BY DEF Inv
  <2>2. CASE Subscribe
    BY <2>1, <2>2 DEF Subscribe, outside, TypeOK
  <2>3. CASE Publish
    <3>1. MaxNews \in Nat /\ Snapshots \subseteq Snapshot
      BY WindowAssumption, ValuesAssumption
    <3>2. news' \in 0..MaxNews
      <4>1. news \in 0..MaxNews /\ news < MaxNews /\ news' = news + 1
        BY <2>1, <2>3 DEF Publish, TypeOK
      <4> QED BY <3>1, <4>1
    <3>3. published' \in Snapshot
      BY <2>3, <3>1 DEF Publish
    <3>4. /\ link' \in {"down", "first", "up"} /\ unread' \in BOOLEAN
          /\ ~(link' = "up" /\ ~unread')
      BY <2>1, <2>3 DEF Publish, TypeOK
    <3> QED BY <2>3, <3>2, <3>3, <3>4 DEF Publish
  <2> QED BY <2>2, <2>3
<1>2. TypeOK'
  BY <1>1 DEF Inv, TypeOK
<1>3. TaskConnects' = TaskConnects /\ EventConnects' = EventConnects
  BY <1>1 DEF TaskConnects, EventConnects
<1>4. OneConnect'
  BY <1>1, <1>3, SameStack DEF Inv, OneConnect
<1>5. Ordered' /\ Nested' /\ Unanswered'
  BY <1>1, SameStack DEF Inv, Unanswered
<1>6. NewestFollows'
  BY <1>1 DEF NewestFollows
<1>7. LockedForAReason'
  <2>1. ASSUME NEW id PROVE UnderWay(id) => UnderWay(id)'
    BY <1>1 DEF UnderWay, Waiting
  <2> QED BY <1>1, <2>1 DEF Inv, LockedForAReason, RefusedConnect
<1>8. OneRefusal'
  BY <1>1, <1>3, SameStack DEF Inv, OneRefusal
<1> QED BY <1>2, <1>4, <1>5, <1>6, <1>7, <1>8 DEF Inv

LEMMA BreaksKeeps ==
  ASSUME Inv, Breaks
  PROVE  Inv'
<1> DEFINE e == Disconnected
<1>1. /\ unread' = FALSE /\ link' = "down" /\ started' = started /\ stack' = stack
      /\ window' = window /\ tasks' = tasks /\ UNCHANGED <<service, published>> /\ Post(e)
      /\ news < MaxNews /\ news' = news + 1
  BY DEF Breaks
<1>2. TypeOK /\ EventCap \in Nat \ {0} /\ MaxNews \in Nat
  BY WindowAssumption DEF Inv
<1>3. e \in UiEvent /\ ~IsReply(e) /\ ~IsConnect(e)
  BY SignalTypes DEF IsConnect
<1>4. PICK d \in {0, 1} : Posted(e, d)
  BY <1>1, <1>2, <1>3, PostFacts
<1>5. TypeOK'
  <2>1. events' \in Seq(UiEvent) /\ Len(events') <= EventCap /\ lost' \in BOOLEAN
    BY <1>2, <1>4 DEF TypeOK, Posted
  <2>2. news' \in 0..MaxNews
    BY <1>1, <1>2 DEF TypeOK
  <2> QED BY <1>1, <1>2, <2>1, <2>2 DEF TypeOK
<1>6. /\ EventConnects = {} => EventConnects' = {}
      /\ (\A i, j \in EventConnects : i = j) => \A i, j \in EventConnects' : i = j
      /\ NoReplies(events) => NoReplies(events')
      /\ \A id : Replied(events, id) => Replied(events', id) \/ lost'
  BY <1>2, <1>3, <1>4, PostedFacts
<1>7. OneConnect'
  <2>1. TaskConnects' = TaskConnects
    BY <1>1 DEF TaskConnects
  <2> QED BY <1>1, <1>2, <1>6, <2>1, SameStack DEF Inv, OneConnect
<1>8. Ordered' /\ Nested' /\ Unanswered'
  BY <1>1, <1>2, <1>6, SameStack DEF Inv, Unanswered
<1>9. NewestFollows'
  BY <1>1 DEF NewestFollows
<1>10. LockedForAReason'
  <2>1. lost => lost'
    BY <1>4 DEF Posted
  <2>2. ASSUME NEW id PROVE UnderWay(id) => UnderWay(id)' \/ lost'
    <3>1. (\E j \in DOMAIN stack' : Replied(stack'[j].rest, id))
            <=> \E j \in DOMAIN stack : Replied(stack[j].rest, id)
      BY <1>1, <1>2, SameStack
    <3> QED BY <1>1, <1>6, <3>1, WhereUnderWay
  <2> QED BY <1>1, <2>1, <2>2 DEF Inv, LockedForAReason, RefusedConnect
<1>11. OneRefusal'
  <2>1. TaskConnects' = TaskConnects
    BY <1>1 DEF TaskConnects
  <2> QED BY <1>1, <1>2, <1>6, <2>1, SameStack DEF Inv, OneRefusal
<1> QED BY <1>5, <1>7, <1>8, <1>9, <1>10, <1>11 DEF Inv

-----------------------------------------------------------------------------
(* The batches.                                                            *)

\* The whole queue becomes a call on top of the others.
LEMMA TakeFacts ==
  ASSUME TypeOK, Nested, TakeEvents
  PROVE  /\ StackOK(stack') /\ Len(stack) \in Nat /\ Len(stack') = Len(stack) + 1
         /\ DOMAIN stack = 1..Len(stack) /\ DOMAIN stack' = 1..(Len(stack) + 1)
         /\ stack'[Len(stack) + 1].rest = events
         /\ Refusals' = Refusals
         /\ \A i \in DOMAIN stack :
              /\ stack'[i].rest = stack[i].rest
              /\ stack[i].overtaken => stack'[i].overtaken
              /\ NoNews(events) \/ stack'[i].overtaken
<1> DEFINE newer == \E i \in DOMAIN events : IsNews(events[i])
           boxes == [i \in DOMAIN stack |-> [stack[i] EXCEPT !.overtaken = @ \/ newer]]
           b == Batch(events, FALSE)
<1>1. /\ stack' = Append(boxes, b) /\ events # <<>> /\ ~Handling
      /\ Len(stack) = MaxNest => \A i \in DOMAIN events : ~IsError(events[i])
  BY DEF TakeEvents
<1>2. /\ stack \in Seq(Call) /\ events \in Seq(UiEvent) /\ Len(stack) \in Nat
      /\ DOMAIN stack = 1..Len(stack) /\ MaxNest \in Nat
  BY WindowAssumption DEF TypeOK
<1>3. b \in Call /\ b.rest = events /\ b.box = "none"
  BY <1>2, BatchType
<1>4. newer <=> ~NoNews(events)
  BY DEF NoNews
<1>5. newer \in BOOLEAN
  OBVIOUS
<1> HIDE DEF newer, b
<1>6. ASSUME NEW i \in DOMAIN stack
      PROVE  /\ boxes[i] \in Call /\ boxes[i].rest = stack[i].rest
             /\ boxes[i].box = stack[i].box
             /\ boxes[i].overtaken = (stack[i].overtaken \/ newer)
  <2>1. stack[i] \in Call
    BY <1>2
  <2>2. (stack[i].overtaken \/ newer) \in BOOLEAN
    OBVIOUS
  <2> DEFINE o == stack[i].overtaken \/ newer
  <2>3. boxes[i] = [stack[i] EXCEPT !.overtaken = o]
    OBVIOUS
  <2> HIDE DEF o, boxes
  <2>4. o \in BOOLEAN
    BY DEF o
  <2>5. /\ boxes[i] \in Call /\ boxes[i].rest = stack[i].rest
        /\ boxes[i].box = stack[i].box /\ boxes[i].overtaken = o
    BY <2>1, <2>3, <2>4 DEF Call
  <2> QED BY <2>5 DEF o
<1>7. boxes \in Seq(Call) /\ Len(boxes) = Len(stack)
  <2>1. boxes = [i \in 1..Len(stack) |-> boxes[i]]
    BY <1>2
  <2>2. \A i \in 1..Len(stack) : boxes[i] \in Call
    BY <1>2, <1>6
  <2>3. Len(boxes) = Len(stack)
    BY <1>2
  <2> HIDE DEF boxes
  <2>4. boxes \in [1..Len(stack) -> Call]
    BY <2>1, <2>2
  <2> QED BY <1>2, <2>3, <2>4, SeqDef
<1> HIDE DEF boxes
<1>8. /\ stack' \in Seq(Call) /\ Len(stack') = Len(stack) + 1
      /\ DOMAIN stack' = 1..(Len(stack) + 1)
      /\ \A i \in DOMAIN stack : stack'[i] = boxes[i]
      /\ stack'[Len(stack) + 1] = b
  <2> DEFINE t == Append(boxes, b)
  <2>1. boxes \in Seq(Call) /\ b \in Call
    BY <1>3, <1>7
  <2>2. /\ t \in Seq(Call) /\ Len(t) = Len(boxes) + 1
        /\ DOMAIN t = 1..(Len(boxes) + 1) /\ DOMAIN boxes = 1..Len(boxes)
        /\ \A i \in DOMAIN boxes : t[i] = boxes[i]
        /\ t[Len(boxes) + 1] = b
    BY <2>1, AppendFacts
  <2>3. stack' = t
    BY <1>1
  <2> HIDE DEF t
  <2> QED BY <1>2, <1>7, <2>2, <2>3
<1>9. \A i \in DOMAIN stack : stack[i].box # "none"
  <2>1. ASSUME NEW i \in DOMAIN stack, stack[i].box = "none" PROVE FALSE
    <3>1. i = Len(stack)
      BY <2>1 DEF TypeOK
    <3>2. stack # <<>> /\ Last(stack) = stack[i]
      BY <1>2, <3>1 DEF Last
    <3> QED BY <1>1, <2>1, <3>2 DEF Handling
  <2> QED BY <2>1
<1>10. Len(stack) <= MaxNest
  <2>1. SUFFICES ASSUME Len(stack) > MaxNest PROVE FALSE
    BY <1>2
  <2>2. stack # <<>> /\ Last(stack).box = "none"
    BY <1>2, <2>1 DEF Nested
  <2> QED BY <1>1, <2>2 DEF Handling
<1>11. \A i \in DOMAIN stack' :
         /\ stack'[i].box = "none" => i = Len(stack') /\ stack'[i].rest # <<>>
         /\ stack'[i].box \in BoxKind \ {"error"} => stack'[i].rest = <<>>
  <2>1. ASSUME NEW i \in DOMAIN stack, stack'[i].box \in BoxKind \ {"error"} PROVE stack'[i].rest = <<>>
    BY <1>6, <1>8, <2>1 DEF TypeOK
  <2>2. ASSUME NEW i \in DOMAIN stack PROVE stack'[i].box # "none"
    BY <1>6, <1>8, <1>9
  <2>3. ASSUME NEW i \in DOMAIN stack', i \notin DOMAIN stack PROVE i = Len(stack')
    BY <1>2, <1>8, <2>3
  <2> QED BY <1>1, <1>3, <1>8, <2>1, <2>2, <2>3 DEF BoxKind
<1>12. Last(stack') = b
  BY <1>8 DEF Last
<1>13. Len(stack') > MaxNest => \A i \in DOMAIN b.rest : ~IsError(b.rest[i])
  <2>1. ASSUME Len(stack') > MaxNest PROVE Len(stack) = MaxNest
    <3>1. Len(stack) \in Nat /\ MaxNest \in Nat
      BY <1>2
    <3>2. Len(stack') = Len(stack) + 1
      BY <1>8
    <3> QED BY <1>10, <2>1, <3>1, <3>2
  <2>2. Len(stack) = MaxNest => \A i \in DOMAIN events : ~IsError(events[i])
    BY <1>1
  <2> QED BY <1>3, <2>1, <2>2
<1>14. StackOK(stack')
  <2>1. Len(stack') <= MaxNest + 1
    BY <1>2, <1>8, <1>10
  <2> QED BY <1>3, <1>8, <1>11, <1>12, <1>13, <2>1 DEF StackOK
<1>15. ASSUME NEW i \in DOMAIN stack
       PROVE  /\ stack'[i].rest = stack[i].rest
              /\ stack[i].overtaken => stack'[i].overtaken
              /\ NoNews(events) \/ stack'[i].overtaken
  BY <1>4, <1>6, <1>8
<1>16. Refusals' = Refusals
  <2>1. Refusals' = {j \in DOMAIN stack' : stack'[j].box = "connect"}
    BY DEF Refusals
  <2>2. \A j \in DOMAIN stack : j \in DOMAIN stack' /\ stack'[j].box = stack[j].box
    BY <1>2, <1>6, <1>8
  <2>3. \A j \in DOMAIN stack' : j \notin DOMAIN stack => stack'[j].box = "none"
    BY <1>2, <1>3, <1>8
  <2> QED BY <2>1, <2>2, <2>3 DEF Refusals
<1> QED BY <1>2, <1>3, <1>8, <1>14, <1>15, <1>16

LEMMA TakeEventsKeeps ==
  ASSUME Inv, TakeEvents
  PROVE  Inv'
<1> DEFINE n == Len(stack) + 1
<1>1. /\ UNCHANGED <<service, published, news, link, unread, started, tasks, window, lost>>
      /\ events' = <<>>
  BY DEF TakeEvents, outside, subscription
<1>2. TypeOK /\ Nested
  BY DEF Inv
<1>3. /\ StackOK(stack') /\ n \in Nat /\ n \notin DOMAIN stack
      /\ DOMAIN stack = 1..(n - 1) /\ DOMAIN stack' = DOMAIN stack \cup {n}
      /\ \A i \in DOMAIN stack' : i \in Nat /\ i <= n
      /\ stack'[n].rest = events /\ Refusals' = Refusals
      /\ \A i \in DOMAIN stack :
           /\ stack'[i].rest = stack[i].rest
           /\ stack[i].overtaken => stack'[i].overtaken
           /\ NoNews(events) \/ stack'[i].overtaken
  BY <1>2, TakeFacts
<1> HIDE DEF n
<1>4. NoNews(events') /\ NoReplies(events') /\ events' \in Seq(UiEvent) /\ Len(events') = 0
  BY <1>1 DEF NoNews, NoReplies
<1>5. (TypeOK /\ Nested)'
  <2>1. EventCap \in Nat
    BY WindowAssumption
  <2> QED BY <1>1, <1>2, <1>3, <1>4, <2>1, Retyped DEF TypeOK
<1>6. OneConnect' /\ OneRefusal'
  <2>1. TaskConnects' = TaskConnects /\ EventConnects' = {}
    BY <1>1 DEF TaskConnects, EventConnects
  <2>2. /\ CallConnects(stack'[n]) = EventConnects
        /\ \A i \in DOMAIN stack : CallConnects(stack'[i]) = CallConnects(stack[i])
    BY <1>3 DEF CallConnects, EventConnects
  <2>3. StackConnects' = {j \in DOMAIN stack' : CallConnects(stack'[j]) # {}}
    BY DEF StackConnects, CallConnects, IsConnect, IsReply
  <2>4. StackConnects' = IF EventConnects = {} THEN StackConnects ELSE StackConnects \cup {n}
    BY <1>3, <2>2, <2>3 DEF StackConnects
  <2>5. EventConnects = {} \/ StackConnects = {}
    BY DEF Inv, OneConnect
  <2>6. \A i, j \in StackConnects' : i = j
    BY <2>4, <2>5 DEF Inv, OneConnect
  <2>7. \A k \in DOMAIN stack' : \A i, j \in CallConnects(stack'[k]) : i = j
    BY <1>3, <2>2 DEF Inv, OneConnect
  <2>8. TaskConnects = {} \/ StackConnects' = {}
    BY <2>4 DEF Inv, OneConnect
  <2>9. window'.previous = None => TaskConnects = {} /\ StackConnects' = {}
    BY <1>1, <2>4 DEF Inv, OneConnect
  <2>10. \A k \in DOMAIN stack' : \A i, j \in CallConnects(stack[k])' : i = j
    BY <2>7 DEF CallConnects, IsConnect, IsReply
  <2>11. \A i, j \in TaskConnects : i = j
    BY DEF Inv, OneConnect
  <2>12. OneConnect'
    BY <2>1, <2>6, <2>8, <2>9, <2>10, <2>11 DEF OneConnect
  <2>13. OneRefusal'
    BY <1>1, <1>3, <2>1, <2>4 DEF Inv, OneRefusal
  <2> QED BY <2>12, <2>13
<1>7. Ordered'
  <2>1. SUFFICES ASSUME NEW i \in DOMAIN stack', NEW j \in DOMAIN stack', i < j
                 PROVE  NoNews(stack'[j].rest) \/ stack'[i].overtaken
    BY DEF Ordered, NoNews, IsNews
  <2>2. i \in DOMAIN stack
    BY <1>3, <2>1
  <2>3. CASE j \in DOMAIN stack
    BY <1>3, <2>1, <2>2, <2>3 DEF Inv, Ordered
  <2>4. CASE j = n
    BY <1>3, <2>2, <2>4
  <2> QED BY <1>3, <2>3, <2>4
<1>8. Unanswered'
  <2>1. ASSUME ~started' PROVE \A j \in DOMAIN stack' : NoReplies(stack'[j].rest)
    BY <1>1, <1>3, <2>1 DEF Inv, Unanswered
  <2> QED BY <1>4, <2>1 DEF Unanswered, NoReplies, IsReply
<1>9. NewestFollows'
  <2>1. SUFFICES ASSUME link = "up" /\ ~unread PROVE (InQueue \/ InCall \/ IsShown)'
    BY <1>1 DEF NewestFollows
  <2>2. ASSUME NEW q, NEW k PROVE IsNewest(q, k, published') <=> IsNewest(q, k, published)
    BY <1>1 DEF IsNewest, IsNews, Told
  <2>3. CASE InQueue
    <3>1. PICK k \in DOMAIN events : IsNewest(events, k, published)
      BY <2>3 DEF InQueue
    <3>2. k \in DOMAIN stack'[n].rest /\ IsNewest(stack'[n].rest, k, published')
      BY <1>1, <1>3, <3>1 DEF IsNewest
    <3>3. \A m \in DOMAIN stack' : ~(m > n)
      BY <1>3
    <3>4. n \in DOMAIN stack'
      BY <1>3
    <3>5. InCall'
      BY <1>4, <3>2, <3>3, <3>4 DEF InCall
    <3> QED BY <3>5
  <2>4. CASE InCall
    <3>1. PICK j \in DOMAIN stack :
            /\ \E k \in DOMAIN stack[j].rest : IsNewest(stack[j].rest, k, published)
            /\ \A m \in DOMAIN stack : m > j => NoNews(stack[m].rest)
      BY <2>4 DEF InCall
    <3>2. PICK k \in DOMAIN stack[j].rest : IsNewest(stack[j].rest, k, published)
      BY <3>1
    <3>3. j \in DOMAIN stack' /\ k \in DOMAIN stack'[j].rest /\ IsNewest(stack'[j].rest, k, published')
      BY <1>1, <1>3, <3>2 DEF IsNewest
    <3>4. NoNews(events)
      BY <2>4 DEF InCall
    <3>5. ASSUME NEW m \in DOMAIN stack', m > j PROVE NoNews(stack'[m].rest)
      <4>1. NoNews(stack'[m].rest)
        BY <1>3, <3>1, <3>4, <3>5
      <4> QED BY <4>1 DEF NoNews, IsNews
    <3>6. InCall'
      BY <1>4, <3>3, <3>5 DEF InCall, NoNews
    <3> QED BY <3>6
  <2>5. CASE IsShown
    <3>1. ASSUME NEW j \in DOMAIN stack' PROVE NoNews(stack'[j].rest) \/ stack'[j].overtaken
      BY <1>3, <2>5 DEF IsShown
    <3>2. IsShown'
      BY <1>1, <1>4, <2>5, <3>1 DEF IsShown, NoNews, IsNews
    <3> QED BY <3>2
  <2> QED BY <2>1, <2>3, <2>4, <2>5 DEF Inv, NewestFollows
<1>10. LockedForAReason'
  <2>1. ASSUME NEW id, UnderWay(id) PROVE UnderWay(id)'
    <3>1. CASE Asked(tasks, id)
      BY <1>1, <3>1, WhereUnderWay
    <3>2. CASE Replied(events, id)
      <4>1. n \in DOMAIN stack' /\ Replied(stack'[n].rest, id)
        BY <1>3, <3>2
      <4> QED BY <4>1, WhereUnderWay
    <3>3. CASE \E j \in DOMAIN stack : Replied(stack[j].rest, id)
      <4>1. PICK j \in DOMAIN stack : Replied(stack[j].rest, id)
        BY <3>3
      <4>2. j \in DOMAIN stack' /\ Replied(stack'[j].rest, id)
        BY <1>3, <4>1
      <4> QED BY <4>2, WhereUnderWay
    <3> QED BY <2>1, <3>1, <3>2, <3>3, WhereUnderWay
  <2>2. RefusedConnect => RefusedConnect'
    <3>1. RefusedConnect <=> Refusals # {}
      BY DEF RefusedConnect, Refusals
    <3>2. RefusedConnect' <=> Refusals' # {}
      BY DEF RefusedConnect, Refusals
    <3> QED BY <1>3, <3>1, <3>2
  <2> QED BY <1>1, <2>1, <2>2 DEF Inv, LockedForAReason
<1> QED BY <1>5, <1>6, <1>7, <1>8, <1>9, <1>10 DEF Inv

\* The first event of the call on top is taken; the call ends with its batch, unless a
\* box was opened.
LEMMA HandleFacts ==
  ASSUME TypeOK, Nested, HandleEvent
  PROVE  LET n == Len(stack)
             q == stack[n].rest
         IN /\ n \in DOMAIN stack /\ DOMAIN stack = 1..n /\ n \in Nat
            /\ q \in Seq(UiEvent) /\ q # <<>> /\ Head(Last(stack).rest) = Head(q)
            /\ Last(stack).overtaken = stack[n].overtaken /\ stack[n].overtaken \in BOOLEAN
            /\ StackOK(stack') /\ DOMAIN stack' \subseteq DOMAIN stack
            /\ Refusals' = Refusals
            /\ \A j \in DOMAIN stack : j # n =>
                 /\ j \in DOMAIN stack' /\ stack'[j].rest = stack[j].rest
                 /\ stack'[j].overtaken = stack[j].overtaken
            /\ n \in DOMAIN stack' =>
                 stack'[n].rest = Tail(q) /\ stack'[n].overtaken = stack[n].overtaken
            /\ n \notin DOMAIN stack' => Tail(q) = <<>>
<1>8. Refusals' = {j \in DOMAIN stack' : stack'[j].box = "connect"}
  BY DEF Refusals
<1> DEFINE n == Len(stack)
           q == stack[n].rest
           call == Last(stack)
           r == Tail(q)
           o == stack[n].overtaken
           x == [call EXCEPT !.box = "error", !.rest = Tail(@)]
<1>1. stack # <<>> /\ call.box = "none" /\ stack \in Seq(Call)
  BY DEF HandleEvent, Handling, TypeOK
<1>2. /\ Last(stack) \in Call /\ n \in Nat /\ DOMAIN stack = 1..n
      /\ Last(stack) = stack[n] /\ n \in DOMAIN stack
  BY <1>1, FrontFacts
<1>3. q \in Seq(UiEvent) /\ q # <<>> /\ o \in BOOLEAN
  BY <1>1, <1>2 DEF TypeOK, Call
<1>4. /\ r \in Seq(UiEvent) /\ Len(q) \in Nat /\ DOMAIN r = 1..(Len(q) - 1)
      /\ DOMAIN q = 1..Len(q) /\ \A i \in DOMAIN r : r[i] = q[i + 1]
      /\ Head(q) = q[1] /\ 1 \in DOMAIN q
  BY <1>3, TailFacts
<1>5. /\ \A i \in DOMAIN stack : stack[i].box = "none" => i = n
      /\ \A i \in DOMAIN stack : stack[i].box \in BoxKind \ {"error"} => stack[i].rest = <<>>
      /\ n <= MaxNest + 1 /\ MaxNest \in Nat
      /\ n > MaxNest => \A i \in DOMAIN q : ~IsError(q[i])
  BY <1>2, WindowAssumption DEF TypeOK, Nested
<1>6. CASE IsError(Head(q))
  <2>1. n <= MaxNest
    BY <1>2, <1>4, <1>5, <1>6
  <2>2. stack' = Append(Front(stack), x)
    BY <1>2, <1>6 DEF HandleEvent
  <2>3. x \in Call /\ x.box = "error" /\ x.rest = r /\ x.overtaken = o
    BY <1>2, <1>4 DEF Call, BoxKind
  <2> DEFINE t == Append(Front(stack), x)
  <2> HIDE DEF x
  <2>4. /\ t \in Seq(Call) /\ Len(t) = n /\ DOMAIN t = DOMAIN stack
        /\ \A i \in DOMAIN stack : t[i] = IF i = n THEN x ELSE stack[i]
    BY <1>1, <2>3, PutFacts
  <2> HIDE DEF t, n, q, r, o, call
  <2>5. /\ stack' \in Seq(Call) /\ Len(stack') = n /\ DOMAIN stack' = DOMAIN stack
        /\ \A i \in DOMAIN stack : stack'[i] = IF i = n THEN x ELSE stack[i]
    BY <2>2, <2>4 DEF t
  <2>6. StackOK(stack')
    BY <1>2, <1>5, <2>1, <2>3, <2>5 DEF StackOK
  <2>7. Refusals' = Refusals
    BY <1>1, <1>2, <1>8, <2>3, <2>5 DEF Refusals, call
  <2> QED BY <1>2, <1>3, <2>3, <2>5, <2>6, <2>7 DEF n, q, r, o, call
<1>7. CASE ~IsError(Head(q))
  <2>1. GoOn(r)
    BY <1>2, <1>7 DEF HandleEvent
  <2>2. /\ stack' \in Seq(Call) /\ n \in Nat \ {0} /\ DOMAIN stack' = 1..Len(stack')
        /\ Len(stack') \in Nat /\ Len(stack') = IF r = <<>> THEN n - 1 ELSE n
    BY <1>1, <1>2, <1>4, <2>1, GoOnFacts
  <2>3. /\ \A j \in DOMAIN stack : j # n => j \in DOMAIN stack' /\ stack'[j] = stack[j]
        /\ r # <<>> => stack'[n] = Batch(r, o)
    BY <1>1, <1>2, <1>4, <2>1, GoOnFacts
  <2>4. Batch(r, o).rest = r /\ Batch(r, o).overtaken = o /\ Batch(r, o).box = "none"
    BY <1>3, <1>4, BatchType
  <2>5. ASSUME n > MaxNest, NEW i \in DOMAIN r PROVE ~IsError(r[i])
    <3>1. r[i] = q[i + 1] /\ i + 1 \in DOMAIN q
      BY <1>4
    <3> QED BY <1>5, <2>5, <3>1
  <2> HIDE DEF n, q, r, o, call
  <2>6. DOMAIN stack' \subseteq DOMAIN stack /\ (n \in DOMAIN stack' <=> r # <<>>)
    BY <1>2, <2>2
  <2>7. StackOK(stack')
    <3>1. Len(stack') <= MaxNest + 1
      BY <1>5, <2>2
    <3>2. ASSUME NEW i \in DOMAIN stack'
          PROVE  /\ stack'[i].box = "none" => i = Len(stack') /\ stack'[i].rest # <<>>
                 /\ stack'[i].box \in BoxKind \ {"error"} => stack'[i].rest = <<>>
      <4>1. CASE i = n
        <5>1. r # <<>> /\ Len(stack') = n /\ stack'[i] = Batch(r, o)
          BY <2>2, <2>6, <2>3, <4>1
        <5> QED BY <2>4, <4>1, <5>1 DEF BoxKind
      <4>2. CASE i # n
        <5>1. i \in DOMAIN stack /\ stack'[i] = stack[i]
          BY <2>6, <2>3, <4>2
        <5> QED BY <1>5, <4>2, <5>1
      <4> QED BY <4>1, <4>2
    <3>3. ASSUME Len(stack') > MaxNest
          PROVE  /\ Last(stack').box = "none"
                 /\ \A i \in DOMAIN Last(stack').rest : ~IsError(Last(stack').rest[i])
      <4>1. Len(stack') = n /\ r # <<>> /\ n > MaxNest
        BY <1>5, <2>2, <3>3
      <4>2. Last(stack') = Batch(r, o)
        BY <2>3, <4>1 DEF Last
      <4> QED BY <2>4, <2>5, <4>1, <4>2
    <3> QED BY <2>2, <3>1, <3>2, <3>3 DEF StackOK
  <2>8. Refusals' = Refusals
    <3>1. stack[n].box # "connect"
      BY <1>1, <1>2 DEF call
    <3>2. n \in DOMAIN stack' => stack'[n].box # "connect"
      BY <2>3, <2>4, <2>6
    <3> QED BY <1>8, <2>3, <2>6, <3>1, <3>2 DEF Refusals
  <2> QED BY <1>2, <1>3, <2>4, <2>7, <2>6, <2>3, <2>8 DEF n, q, r, o, call
<1> QED BY <1>6, <1>7

LEMMA HandleEventKeeps ==
  ASSUME Inv, HandleEvent
  PROVE  Inv'
<1> DEFINE n == Len(stack)
           q == stack[n].rest
           r == Tail(q)
           e == Head(q)
           o == stack[n].overtaken
<1>1. /\ UNCHANGED <<service, published, news, link, unread, started, events, lost>>
      /\ window' = Handled(window, Head(Last(stack).rest), Last(stack).overtaken)
  BY DEF HandleEvent, outside, subscription
<1>2. TypeOK /\ Nested
  BY DEF Inv
<1>3. /\ n \in DOMAIN stack /\ DOMAIN stack = 1..n /\ n \in Nat
      /\ q \in Seq(UiEvent) /\ q # <<>> /\ Head(Last(stack).rest) = e
      /\ Last(stack).overtaken = o /\ o \in BOOLEAN
      /\ StackOK(stack') /\ DOMAIN stack' \subseteq DOMAIN stack
      /\ Refusals' = Refusals
      /\ \A j \in DOMAIN stack : j # n =>
           /\ j \in DOMAIN stack' /\ stack'[j].rest = stack[j].rest
           /\ stack'[j].overtaken = stack[j].overtaken
      /\ n \in DOMAIN stack' => stack'[n].rest = r /\ stack'[n].overtaken = o
      /\ n \notin DOMAIN stack' => r = <<>>
  BY <1>2, HandleFacts
<1>4. /\ r \in Seq(UiEvent) /\ e \in UiEvent /\ Len(q) \in Nat /\ DOMAIN r = 1..(Len(q) - 1)
      /\ DOMAIN q = 1..Len(q) /\ \A i \in DOMAIN r : r[i] = q[i + 1] /\ i + 1 \in DOMAIN q
      /\ e = q[1] /\ 1 \in DOMAIN q
  <2>1. /\ r \in Seq(UiEvent) /\ e \in UiEvent /\ Len(q) \in Nat /\ DOMAIN r = 1..(Len(q) - 1)
        /\ DOMAIN q = 1..Len(q) /\ \A i \in DOMAIN r : r[i] = q[i + 1]
        /\ e = q[1] /\ 1 \in DOMAIN q
    BY <1>3, TailFacts
  <2> QED BY <2>1
<1>5. window \in View /\ window' = Handled(window, e, o)
  BY <1>1, <1>2, <1>3 DEF TypeOK
<1>6. /\ tasks \in Seq(Task) /\ Len(tasks) <= TaskCap /\ Len(tasks) \in Nat
      /\ tasks' \in Seq(Task) /\ Len(tasks') <= TaskCap
      /\ TaskConnects' = TaskConnects
      /\ \A id : Asked(tasks, id) => Asked(tasks', id)
      /\ Len(tasks') = Len(tasks) \/ (IsConnect(e) /\ Len(tasks') = Len(tasks) + 1)
  <2>1. tasks \in Seq(Task) /\ Len(tasks) <= TaskCap /\ Len(tasks) \in Nat
    BY <1>2 DEF TypeOK
  <2>2. CASE IsError(e) /\ e.id = "CONNECT" /\ HasRoom /\ Send(Request("PREFERENCES"))
    <3>1. Request("PREFERENCES") \in Task /\ Request("PREFERENCES").id = "PREFERENCES"
      BY RequestType
    <3>2. /\ tasks' \in Seq(Task) /\ Len(tasks') <= TaskCap
          /\ tasks' = Append(tasks, Request("PREFERENCES"))
      BY <1>2, <2>2, <3>1, SendType
    <3>3. Len(tasks') = Len(tasks) + 1 /\ IsConnect(e)
      BY <2>1, <2>2, <3>1, <3>2, AppendFacts DEF IsConnect, IsError
    <3> QED BY <2>1, <3>1, <3>2, <3>3, AddedTask
  <2>3. CASE tasks' = tasks
    BY <2>1, <2>3 DEF TaskConnects
  <2> QED BY <1>3, <2>2, <2>3 DEF HandleEvent
<1>7. /\ window' \in View
      /\ IsReply(e) =>
           /\ window'.snapshot = window.snapshot /\ window'.connected = window.connected
           /\ window'.late = window.late /\ window'.unstarted = window.unstarted
           /\ window'.previous = IF e.id = "CONNECT" THEN None ELSE window.previous
           /\ window'.pending = IF e.id = "PREFERENCES" THEN FALSE ELSE window.pending
      /\ ~IsReply(e) =>
           /\ window'.previous = window.previous /\ window'.pending = window.pending
           /\ e.kind = "snapshot" =>
                window'.snapshot = e.snapshot /\ window'.connected /\ window'.late = o
           /\ e.kind = "disconnected" => window'.late = o
           /\ e.kind = "unstarted" =>
                /\ window'.late = window.late
                /\ window'.unstarted = (window.unstarted \/ window.connected)
  <2>1. e \in UiEvent /\ o \in BOOLEAN /\ window \in View
    BY <1>3, <1>4, <1>5
  <2> DEFINE v == Handled(window, e, o)
  <2>2. ASSUME IsReply(e)
        PROVE  /\ v \in View /\ v.snapshot = window.snapshot
               /\ v.connected = window.connected
               /\ v.late = window.late /\ v.unstarted = window.unstarted
               /\ v.previous = IF e.id = "CONNECT" THEN None ELSE window.previous
               /\ v.pending = IF e.id = "PREFERENCES" THEN FALSE ELSE window.pending
    BY <2>1, <2>2, ReplyFields
  <2>3. ASSUME ~IsReply(e)
        PROVE  /\ v \in View /\ v.previous = window.previous /\ v.pending = window.pending
               /\ e.kind = "snapshot" => v.snapshot = e.snapshot /\ v.connected /\ v.late = o
               /\ e.kind = "disconnected" => v.late = o
               /\ e.kind = "unstarted" =>
                    /\ v.late = window.late
                    /\ v.unstarted = (window.unstarted \/ window.connected)
    BY <2>1, <2>3, NewsFields
  <2>4. window' = v
    BY <1>5
  <2> HIDE DEF v, e, o
  <2> QED BY <2>2, <2>3, <2>4
<1>8. e.kind \in {"reply", "snapshot", "disconnected", "unstarted"}
  BY <1>4 DEF UiEvent
<1> DEFINE rest(j) == stack'[j].rest
<1>9. \A j \in DOMAIN stack' :
         IF j = n THEN rest(j) = r /\ stack'[j].overtaken = o
         ELSE rest(j) = stack[j].rest /\ stack'[j].overtaken = stack[j].overtaken
  BY <1>3
<1> HIDE DEF n, q, r, e, o
<1>10. (TypeOK /\ Nested)'
  <2>1. events' \in Seq(UiEvent) /\ Len(events') <= EventCap
    BY <1>1, <1>2 DEF TypeOK
  <2> QED BY <1>1, <1>2, <1>3, <1>6, <1>7, <2>1, Retyped
<1>11. /\ NoNews(q) => NoNews(r) /\ ~IsNews(e)
       /\ NoReplies(q) => NoReplies(r) /\ ~IsReply(e)
  BY <1>4 DEF NoNews, NoReplies
\* The connects under way, without the one that is answered.
<1> DEFINE C == {i \in DOMAIN q : IsConnect(q[i])}
           D == {i \in DOMAIN r : IsConnect(r[i])}
<1>12. /\ StackConnects' \subseteq StackConnects
       /\ \A k \in DOMAIN stack' : \A i, j \in CallConnects(stack[k])' : i = j
       /\ IsConnect(e) => StackConnects # {} /\ StackConnects' = {}
  <2>1. /\ \A i, j \in C : i = j
        /\ \A i, j \in StackConnects : i = j
    BY <1>3 DEF Inv, OneConnect, CallConnects, q
  <2>2. \A i \in D : i \in Nat /\ i > 0 /\ i + 1 \in C
    BY <1>4
  <2>3. (\A i, j \in D : i = j) /\ (D # {} => C # {})
    BY <2>1, <2>2
  <2>4. IsConnect(e) => 1 \in C /\ D = {}
    BY <1>4, <2>1, <2>2
  <2>5. CallConnects(stack[n]) = C
    BY DEF CallConnects, q
  <2>6. \A k \in DOMAIN stack' : CallConnects(stack'[k]) = IF k = n THEN D ELSE CallConnects(stack[k])
    BY <1>9 DEF CallConnects
  <2>7. StackConnects' = {j \in DOMAIN stack' : CallConnects(stack'[j]) # {}}
    BY DEF StackConnects, CallConnects, IsConnect, IsReply
  <2>8. StackConnects' \subseteq StackConnects
    BY <1>3, <2>3, <2>5, <2>6, <2>7 DEF StackConnects
  <2>9. \A k \in DOMAIN stack' : \A i, j \in CallConnects(stack'[k]) : i = j
    BY <1>3, <2>3, <2>6 DEF Inv, OneConnect
  <2>10. \A k \in DOMAIN stack' : \A i, j \in CallConnects(stack[k])' : i = j
    BY <2>9 DEF CallConnects, IsConnect, IsReply
  <2>11. IsConnect(e) => n \in StackConnects /\ n \notin StackConnects'
    BY <1>3, <2>4, <2>5, <2>6, <2>7 DEF StackConnects
  <2>12. IsConnect(e) => StackConnects' = {}
    BY <2>1, <2>8, <2>11
  <2> QED BY <2>8, <2>10, <2>11, <2>12
<1>13. OneConnect'
  <2>1. EventConnects' = EventConnects
    BY <1>1 DEF EventConnects
  <2>2. IsConnect(e) => TaskConnects = {} /\ EventConnects = {} /\ StackConnects' = {}
    BY <1>12 DEF Inv, OneConnect
  <2>3. ~IsConnect(e) => window'.previous = window.previous
    BY <1>7 DEF IsConnect
  <2>4. window'.previous = None =>
          TaskConnects = {} /\ EventConnects = {} /\ StackConnects' = {}
    BY <1>12, <2>2, <2>3 DEF Inv, OneConnect
  <2>5. /\ \A i, j \in TaskConnects : i = j
        /\ \A i, j \in EventConnects : i = j
        /\ \A i, j \in StackConnects' : i = j
        /\ TaskConnects = {} \/ EventConnects = {}
        /\ TaskConnects = {} \/ StackConnects' = {}
        /\ EventConnects = {} \/ StackConnects' = {}
    BY <1>12 DEF Inv, OneConnect
  <2> QED BY <1>6, <1>12, <2>1, <2>4, <2>5 DEF OneConnect
<1>14. Ordered'
  <2>1. SUFFICES ASSUME NEW i \in DOMAIN stack', NEW j \in DOMAIN stack', i < j
                 PROVE  NoNews(stack'[j].rest) \/ stack'[i].overtaken
    BY DEF Ordered, NoNews, IsNews
  <2>2. i \in DOMAIN stack /\ j \in DOMAIN stack /\ i # n
    BY <1>3, <2>1
  <2>3. NoNews(stack[j].rest) \/ stack[i].overtaken
    BY <2>1, <2>2 DEF Inv, Ordered
  <2> QED BY <1>9, <1>11, <2>1, <2>2, <2>3 DEF q
<1>15. Unanswered'
  <2>1. ASSUME ~started PROVE \A j \in DOMAIN stack' : NoReplies(stack'[j].rest)
    <3>1. \A j \in DOMAIN stack : NoReplies(stack[j].rest)
      BY <2>1 DEF Inv, Unanswered
    <3> QED BY <1>3, <1>9, <1>11, <3>1 DEF q
  <2> QED BY <1>1, <2>1 DEF Inv, Unanswered, NoReplies, IsReply
<1>16. NewestFollows'
  <2>1. SUFFICES ASSUME link = "up" /\ ~unread PROVE (InQueue \/ InCall \/ IsShown)'
    BY <1>1 DEF NewestFollows
  <2>2. \A p, k : IsNewest(p, k, published') <=> IsNewest(p, k, published)
    BY <1>1 DEF IsNewest, IsNews, Told
  <2>3. NoNews(events) => NoNews(events)'
    BY <1>1 DEF NoNews, IsNews
  <2>4. CASE InQueue
    <3>1. PICK k \in DOMAIN events :
            IsNewest(events, k, published) /\ Len(events) - k + Len(tasks) + Slack <= TaskCap + 1
      BY <2>4 DEF InQueue
    <3>2. /\ Len(events) \in Nat /\ DOMAIN events = 1..Len(events) /\ TaskCap \in Nat
      BY <1>2, WindowAssumption DEF TypeOK
    <3>3. Len(tasks') + Slack' <= Len(tasks) + Slack
      <4>1. CASE IsConnect(e)
        <5>1. started
          <6>1. SUFFICES ASSUME ~started PROVE FALSE
            OBVIOUS
          <6>2. NoReplies(q)
            BY <1>3, <6>1 DEF Inv, Unanswered, q
          <6> QED BY <1>11, <4>1, <6>2 DEF IsConnect
        <5>2. Slack = 1 /\ Slack' = 0
          BY <1>1, <1>12, <4>1, <5>1 DEF Slack
        <5> QED BY <1>6, <5>2
      <4>2. CASE ~IsConnect(e)
        <5>1. Slack' \in {0, 1} /\ Slack \in {0, 1} /\ (Slack' = 1 => Slack = 1)
          BY <1>1, <1>12 DEF Slack
        <5> QED BY <1>6, <4>2, <5>1
      <4> QED BY <4>1, <4>2
    <3>4. Len(events') - k + Len(tasks') + Slack' <= TaskCap + 1
      <4>1. Slack \in {0, 1} /\ Slack' \in {0, 1} /\ Len(tasks') \in Nat
        BY <1>6 DEF Slack
      <4> QED BY <1>1, <1>6, <3>1, <3>2, <3>3, <4>1
    <3>5. InQueue'
      BY <1>1, <2>2, <3>1, <3>4 DEF InQueue, IsNewest
    <3> QED BY <3>5
  <2>5. CASE InCall
    <3>1. PICK j \in DOMAIN stack :
            /\ \E k \in DOMAIN stack[j].rest : IsNewest(stack[j].rest, k, published)
            /\ \A m \in DOMAIN stack : m > j => NoNews(stack[m].rest)
      BY <2>5 DEF InCall
    <3>2. PICK k \in DOMAIN stack[j].rest : IsNewest(stack[j].rest, k, published)
      BY <3>1
    <3>3. NoNews(events)
      BY <2>5 DEF InCall
    <3>4. ASSUME NEW m \in DOMAIN stack', m > j PROVE NoNews(stack'[m].rest)
      <4>1. NoNews(stack[m].rest)
        BY <1>3, <3>1, <3>4
      <4>2. NoNews(stack'[m].rest)
        BY <1>9, <1>11, <3>4, <4>1 DEF q
      <4> QED BY <4>2 DEF NoNews, IsNews
    <3>5. CASE j # n
      <4>1. j \in DOMAIN stack' /\ stack'[j].rest = stack[j].rest
        BY <1>3, <3>5
      <4>2. k \in DOMAIN stack'[j].rest /\ IsNewest(stack'[j].rest, k, published')
        BY <2>2, <3>2, <4>1 DEF IsNewest
      <4>3. InCall'
        BY <2>3, <3>3, <3>4, <4>1, <4>2 DEF InCall
      <4> QED BY <4>3
    <3>6. CASE j = n /\ k # 1
      <4>1. k \in DOMAIN q /\ IsNewest(q, k, published)
        BY <3>2, <3>6 DEF q
      <4>2. k - 1 \in DOMAIN r /\ r[k - 1] = q[k]
        BY <1>4, <3>6, <4>1
      <4>3. \A i \in DOMAIN r : i > k - 1 => ~IsNews(r[i])
        BY <1>4, <4>1 DEF IsNewest
      <4>4. IsNewest(r, k - 1, published)
        BY <4>1, <4>2, <4>3 DEF IsNewest
      <4>5. n \in DOMAIN stack' /\ stack'[n].rest = r
        BY <1>3, <4>2
      <4>6. k - 1 \in DOMAIN stack'[n].rest /\ IsNewest(stack'[n].rest, k - 1, published')
        BY <2>2, <4>2, <4>4, <4>5 DEF IsNewest
      <4>7. InCall'
        BY <2>3, <3>3, <3>4, <3>6, <4>5, <4>6 DEF InCall
      <4> QED BY <4>7
    <3>7. CASE j = n /\ k = 1
      <4>1. e = Told(published) /\ IsNewest(q, 1, published)
        BY <1>4, <3>2, <3>7 DEF q, IsNewest
      <4>2. NoNews(r)
        BY <1>4, <4>1 DEF NoNews, IsNewest
      <4>3. e.kind = "snapshot" /\ e.snapshot = published
        BY <4>1 DEF Told
      <4>4. window'.snapshot = published /\ window'.connected
        BY <1>7, <4>3 DEF IsReply
      <4>5. ~NoNews(q)
        BY <1>4, <4>3 DEF NoNews, IsNews
      <4>6. ASSUME NEW i \in DOMAIN stack'
            PROVE  NoNews(stack'[i].rest) \/ stack'[i].overtaken
        <5>1. CASE i = n
          BY <1>9, <4>2, <5>1
        <5>2. CASE i # n
          <6>1. i \in DOMAIN stack /\ i < n
            BY <1>3, <5>2
          <6>2. stack[i].overtaken
            BY <1>3, <4>5, <6>1 DEF Inv, Ordered, q
          <6> QED BY <1>9, <5>2, <6>2
        <5> QED BY <5>1, <5>2
      <4>7. IsShown'
        BY <1>1, <2>3, <3>3, <4>4, <4>6 DEF IsShown, NoNews, IsNews
      <4> QED BY <4>7
    <3> QED BY <3>5, <3>6, <3>7
  <2>6. CASE IsShown
    <3>1. NoNews(q) \/ o
      BY <1>3, <2>6 DEF IsShown, q, o
    <3>2. ASSUME NEW i \in DOMAIN stack' PROVE NoNews(stack'[i].rest) \/ stack'[i].overtaken
      BY <1>3, <1>9, <1>11, <2>6, <3>1 DEF IsShown
    <3>3. \/ window'.late \/ window'.unstarted
          \/ window'.snapshot = published /\ window'.connected
      <4>1. CASE IsReply(e)
        BY <1>7, <2>6, <4>1 DEF IsShown
      <4>2. CASE ~IsReply(e)
        <5>1. CASE e.kind = "unstarted"
          BY <1>7, <2>6, <4>2, <5>1 DEF IsShown
        <5>2. CASE e.kind # "unstarted"
          BY <1>7, <1>8, <1>11, <3>1, <4>2, <5>2 DEF IsReply, IsNews
        <5> QED BY <5>1, <5>2
      <4> QED BY <4>1, <4>2
    <3>4. IsShown'
      BY <1>1, <2>3, <2>6, <3>2, <3>3 DEF IsShown, NoNews, IsNews
    <3> QED BY <3>4
  <2> QED BY <2>1, <2>4, <2>5, <2>6 DEF Inv, NewestFollows
<1>17. LockedForAReason'
  <2>1. ASSUME NEW id, UnderWay(id), ~(IsReply(e) /\ e.id = id) PROVE UnderWay(id)'
    <3>1. CASE Asked(tasks, id)
      BY <1>6, <3>1, WhereUnderWay
    <3>2. CASE Replied(events, id)
      BY <1>1, <3>2, WhereUnderWay
    <3>3. CASE \E j \in DOMAIN stack : Replied(stack[j].rest, id)
      <4>1. PICK j \in DOMAIN stack : Replied(stack[j].rest, id)
        BY <3>3
      <4>2. CASE j # n
        <5>1. j \in DOMAIN stack' /\ Replied(stack'[j].rest, id)
          BY <1>3, <4>1, <4>2
        <5> QED BY <5>1, WhereUnderWay
      <4>3. CASE j = n
        <5>1. PICK i \in DOMAIN q : IsReply(q[i]) /\ q[i].id = id
          BY <4>1, <4>3 DEF Replied, q
        <5>2. i # 1
          BY <1>4, <2>1, <5>1
        <5>3. i - 1 \in DOMAIN r /\ r[i - 1] = q[i]
          BY <1>4, <5>2
        <5>4. n \in DOMAIN stack' /\ Replied(stack'[n].rest, id)
          BY <1>3, <5>1, <5>3 DEF Replied
        <5> QED BY <5>4, WhereUnderWay
      <4> QED BY <4>2, <4>3
    <3> QED BY <2>1, <3>1, <3>2, <3>3, WhereUnderWay
  <2>2. window'.previous # None => window.previous # None /\ ~(IsReply(e) /\ e.id = "CONNECT")
    BY <1>7
  <2>3. window'.pending => window.pending /\ ~(IsReply(e) /\ e.id = "PREFERENCES")
    BY <1>7
  <2>4. RefusedConnect => RefusedConnect'
    <3>1. RefusedConnect <=> Refusals # {}
      BY DEF RefusedConnect, Refusals
    <3>2. RefusedConnect' <=> Refusals' # {}
      BY DEF RefusedConnect, Refusals
    <3> QED BY <1>3, <3>1, <3>2
  <2> QED BY <1>1, <2>1, <2>2, <2>3, <2>4 DEF Inv, LockedForAReason
<1>18. OneRefusal'
  <2>1. EventConnects' = EventConnects
    BY <1>1 DEF EventConnects
  <2>2. ~IsConnect(e) => window'.previous = window.previous
    BY <1>7 DEF IsConnect
  <2> QED BY <1>3, <1>6, <1>12, <2>1, <2>2 DEF Inv, OneRefusal
<1> QED BY <1>10, <1>13, <1>14, <1>15, <1>16, <1>17, <1>18 DEF Inv

-----------------------------------------------------------------------------
(* The theorems.                                                           *)

LEMMA InitInv == Init => Inv
<1> SUFFICES ASSUME Init PROVE Inv
  OBVIOUS
<1>1. /\ TaskCap \in Nat /\ EventCap \in Nat /\ MaxNest \in Nat /\ MaxNews \in Nat
      /\ Saved \subseteq Config /\ Snapshots \subseteq Snapshot
  BY WindowAssumption, ValuesAssumption
<1>2. tasks = <<>> /\ events = <<>> /\ stack = <<>> /\ window.previous = None /\ ~window.pending
  BY DEF Init
<1>3. window \in View
  BY DEF Init, View, DefaultConfig, EmptyForm, Config, Form
<1>4. TypeOK
  <2>1. service \in Config /\ published \in Snapshot /\ link = "down" /\ ~unread /\ ~started
    BY <1>1 DEF Init
  <2>2. news \in 0..MaxNews
    BY <1>1 DEF Init
  <2>3. Len(tasks) <= TaskCap /\ Len(events) <= EventCap /\ Len(stack) <= MaxNest + 1
    BY <1>1, <1>2
  <2>4. /\ unread \in BOOLEAN /\ started \in BOOLEAN /\ lost \in BOOLEAN
        /\ link \in {"down", "first", "up"}
    BY DEF Init
  <2>5. tasks \in Seq(Task) /\ events \in Seq(UiEvent) /\ stack \in Seq(Call) /\ DOMAIN stack = {}
    BY <1>2
  <2> QED BY <1>3, <2>1, <2>2, <2>3, <2>4, <2>5 DEF TypeOK
<1>5. TaskConnects = {} /\ EventConnects = {} /\ StackConnects = {} /\ DOMAIN stack = {}
  BY <1>2 DEF TaskConnects, EventConnects, StackConnects
<1>6. OneConnect
  BY <1>5 DEF OneConnect
<1>7. Nested /\ Ordered /\ Unanswered
  BY <1>1, <1>2 DEF Nested, Ordered, Unanswered, NoReplies
<1>8. NewestFollows /\ LockedForAReason /\ OneRefusal
  BY <1>2, <1>5 DEF Init, NewestFollows, LockedForAReason, OneRefusal, Refusals
<1> QED BY <1>4, <1>6, <1>7, <1>8 DEF Inv

LEMMA NextInv == Inv /\ [Next]_vars => Inv'
<1> SUFFICES ASSUME Inv, [Next]_vars PROVE Inv'
  OBVIOUS
<1>1. CASE TakeEvents
  BY <1>1, TakeEventsKeeps
<1>2. CASE HandleEvent
  BY <1>2, HandleEventKeeps
<1>3. CASE CloseBox \/ AnswerQuestion
  BY <1>3, BoxesAreQuiet, QuietKeeps DEF Inv
<1>4. CASE Commands
  BY <1>4, CommandsAreQuiet, QuietKeeps DEF Inv
<1>5. CASE StartService
  BY <1>5, StartServiceKeeps
<1>6. CASE Serve
  BY <1>6, ServeKeeps
<1>7. CASE Subscribe \/ Publish
  BY <1>7, UnheardKeeps
<1>8. CASE Hear
  BY <1>8, HearKeeps
<1>9. CASE Breaks
  BY <1>9, BreaksKeeps
<1>10. CASE UNCHANGED vars
  <2>1. /\ UNCHANGED <<service, published, news, link, unread, started, events, lost>>
        /\ tasks' = tasks /\ stack' = stack /\ window' = window
    BY <1>10 DEF vars, outside, subscription
  <2>2. (TypeOK /\ Nested)'
    BY <2>1 DEF Inv, TypeOK, Nested
  <2>3. Refusals' = Refusals
    BY <2>1 DEF Refusals
  <2>4. Quiet
    BY <2>1, <2>3 DEF Quiet, Kept, Asks
  <2> QED BY <2>2, <2>4, QuietKeeps
<1> QED BY <1>1, <1>2, <1>3, <1>4, <1>5, <1>6, <1>7, <1>8, <1>9, <1>10 DEF Next, Control

LEMMA Invariance == Spec => []Inv
BY InitInv, NextInv, PTL DEF Spec

\* The window, its queues and its calls keep their types: also, only the last call can be
\* a batch, and only the box of an error interrupts one.
THEOREM WindowIsTyped == Spec => []TypeOK
<1>1. Inv => TypeOK
  BY DEF Inv
<1> QED BY <1>1, Invariance, PTL

\* The account and the preferences are never locked for good: as long as no reply was
\* dropped from the queue, the request that unlocks them is under way, or the box is open
\* that says that the connect found no room (gui.rs:767, 793, 814, 1205-1213).
THEOREM LocksHaveAReason == Spec => []LockedForAReason
<1>1. Inv => LockedForAReason
  BY DEF Inv
<1> QED BY <1>1, Invariance, PTL

\* When nothing is on its way, the window shows what the service published last
\* (docs/WINDOWS.md:48), unless a batch was overtaken while a box was open or the failure to
\* start the service was handled after a snapshot of one that runs all the same.
THEOREM NewestIsShown == Spec => []ShowsNewestInOrder
<1>1. Inv => ShowsNewestInOrder
  <2>1. SUFFICES ASSUME Inv, AtRest
                 PROVE  \/ window.late \/ window.unstarted
                        \/ window.snapshot = published /\ window.connected
    BY DEF ShowsNewestInOrder, ShowsNewest
  <2>2. link = "up" /\ ~unread /\ \A e \in Waiting : IsReply(e)
    BY <2>1 DEF AtRest
  <2>3. ~InQueue
    <3>1. SUFFICES ASSUME NEW k \in DOMAIN events, events[k] = Told(published) PROVE FALSE
      BY DEF InQueue, IsNewest
    <3>2. events[k] \in Waiting
      BY DEF Waiting, Range
    <3> QED BY <2>2, <3>1, <3>2 DEF IsReply, Told
  <2>4. ~InCall
    <3>1. SUFFICES ASSUME NEW j \in DOMAIN stack, NEW k \in DOMAIN stack[j].rest,
                          stack[j].rest[k] = Told(published)
                   PROVE  FALSE
      BY DEF InCall, IsNewest
    <3>2. stack[j].rest[k] \in Waiting
      BY DEF Waiting, Range
    <3> QED BY <2>2, <3>1, <3>2 DEF IsReply, Told
  <2> QED BY <2>1, <2>2, <2>3, <2>4 DEF Inv, NewestFollows, IsShown
<1> QED BY <1>1, Invariance, PTL

\* What is published leaves a choice of an adapter that was not saved as it is, whatever
\* is plugged in or out (docs/WINDOWS.md:13, docs/ARCHITECTURE.md:21).
THEOREM ChoiceIsKept == Spec => ChoiceKept
<1>1. Inv /\ [Next]_vars => [OnlyNews /\ Chosen => window'.form = window.form]_vars
  <2>1. SUFFICES ASSUME Inv, OnlyNews, Chosen PROVE window'.form = window.form
    OBVIOUS
  <2>2. TypeOK /\ Nested /\ HandleEvent
    BY <2>1 DEF Inv, OnlyNews
  <2> DEFINE n == Len(stack)
             q == stack[n].rest
  <2>3. /\ q \in Seq(UiEvent) /\ q # <<>> /\ Head(Last(stack).rest) = Head(q)
        /\ Last(stack).overtaken \in BOOLEAN
    BY <2>2, HandleFacts
  <2>4. Head(q) \in UiEvent
    BY <2>3, TailFacts
  <2>5. window' = Handled(window, Head(q), Last(stack).overtaken) /\ ~IsReply(Head(q))
    BY <2>1, <2>3 DEF OnlyNews, HandleEvent
  <2>6. window \in View /\ window.form.manual /\ window.form.choice # None
    BY <2>1, <2>2 DEF TypeOK, Chosen
  <2> HIDE DEF q
  <2> QED BY <2>3, <2>4, <2>5, <2>6, NewsFields
<1> QED BY <1>1, Invariance, PTL DEF Spec, ChoiceKept
=============================================================================
