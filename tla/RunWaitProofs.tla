---------------------------- MODULE RunWaitProofs ----------------------------
(***************************************************************************)
(* Theorems about RunWait, for every set of runs, agents and waits.        *)
(***************************************************************************)
EXTENDS RunWait, TLAPS

USE DEF RunningWait

Before == {"idle", "handles", "register"}

\* A current run exists, and what a wait read about a run is of a run.
RowShape ==
  /\ \A a \in Agent : current[a] \in Run => row[current[a]] # "absent"
  /\ \A w \in Wait, a \in Agent : answer[w][a].status # "unknown" => answer[w][a].run \in Run

\* A run has a notifier once it is terminal.  Whom the notifier listed registered
\* before, and what it read stays true.
NotifierShape(r) ==
  /\ notifier[r].pc = "idle" <=> row[r] # "terminal"
  /\ \A w \in notifier[r].whom : wait[w] \notin Before
  /\ \A q \in notifier[r].terminal : row[q] = "terminal"

\* Who sleeps is registered, and is woken only when all its runs are terminal.
WaitShape(w) ==
  /\ wait[w] = "waiting" => w \in registered /\ w \notin expired
  /\ w \in registered => wait[w] = "waiting"
  /\ w \in expired => wait[w] \notin Before
  /\ w \in woken => wait[w] \notin Before /\ AllTerminal(w)
  /\ wait[w] \in {"ids2", "handles2"} => w \in expired \/ AllTerminal(w)

\* What an unexpired wait has read again about agents.
NewRunsOnly(w, agents) ==
  w \notin expired =>
    \A a \in agents : answer[w][a].status = "running" => answer[w][a].run \notin runIds[w]

AnswerShape(w) ==
  /\ wait[w] = "handles2" => NewRunsOnly(w, ById[w])
  /\ wait[w] = "answered" => NewRunsOnly(w, ById[w] \cup ByHandle[w])

Inv ==
  /\ TypeOK
  /\ RowShape
  /\ \A r \in Run : NotifierShape(r)
  /\ \A w \in Wait : WaitShape(w)
  /\ \A w \in Wait : AnswerShape(w)
  /\ LastFinalizerWakes

\* Nothing runs and nobody waits.
LEMMA InvInit == Init => Inv
BY ConstantsAssumption
   DEF Init, Inv, TypeOK, Notifier, Item, RowShape, NotifierShape, WaitShape, AnswerShape,
       LastFinalizerWakes, Asleep, Before

-----------------------------------------------------------------------------
\* Steps of the runs and their notifiers.

LEMMA DispatchStep == ASSUME Inv, NEW r \in Run, Dispatch(r) PROVE Inv'
<1> USE ConstantsAssumption DEF Dispatch, waitVars
<1>1. TypeOK'
  BY DEF Inv, TypeOK
<1>2. RowShape'
  BY DEF Inv, TypeOK, RowShape
<1>3. ASSUME NEW q \in Run PROVE NotifierShape(q)'
  BY DEF Inv, TypeOK, NotifierShape
<1>4. \A w \in Wait : AllTerminal(w) <=> AllTerminal(w)'
  BY DEF AllTerminal, Inv, TypeOK
<1>5. \A w \in Wait : WaitShape(w)' /\ AnswerShape(w)'
  BY <1>4 DEF Inv, WaitShape, AnswerShape, NewRunsOnly
<1>6. LastFinalizerWakes'
  BY <1>4 DEF Inv, LastFinalizerWakes, WillBeWoken, Asleep
<1> QED
  BY <1>1, <1>2, <1>3, <1>5, <1>6 DEF Inv

LEMMA FinalizeStep == ASSUME Inv, NEW r \in Run, Finalize(r) PROVE Inv'
<1> USE ConstantsAssumption DEF Finalize, SetNotifier, waitVars
<1>1. TypeOK'
  BY DEF Inv, TypeOK, Notifier
<1>2. RowShape'
  BY DEF Inv, TypeOK, RowShape
<1>3. ASSUME NEW q \in Run PROVE NotifierShape(q)'
  BY DEF Inv, TypeOK, NotifierShape
<1>4. \A w \in Wait : AllTerminal(w) => AllTerminal(w)'
  BY DEF AllTerminal, Inv, TypeOK
<1>5. \A w \in Wait : WaitShape(w)' /\ AnswerShape(w)'
  BY <1>4 DEF Inv, WaitShape, AnswerShape, NewRunsOnly
<1>6. ASSUME NEW w \in Wait \ late', Asleep(w)', AllTerminal(w)' PROVE WillBeWoken(w)'
  <2>1. notifier'[r].pc = "list" /\ \A q \in Run \ {r} : notifier'[q] = notifier[q]
    BY DEF Inv, TypeOK
  <2>2. CASE r \in runIds[w]
    BY <2>1, <2>2 DEF WillBeWoken
  <2>3. CASE r \notin runIds[w]
    <3>1. AllTerminal(w) /\ Asleep(w) /\ w \notin late
      BY <1>6, <2>3 DEF AllTerminal, Asleep, Inv, TypeOK
    <3>2. WillBeWoken(w)
      BY <3>1 DEF Inv, LastFinalizerWakes
    <3> QED
      BY <2>1, <2>3, <3>2 DEF WillBeWoken, Inv, TypeOK
  <2> QED
    BY <2>2, <2>3
<1> QED
  BY <1>1, <1>2, <1>3, <1>5, <1>6 DEF Inv, LastFinalizerWakes

\* What SetNotifier leaves behind when its arguments have their types.
LEMMA SetNotifierType ==
  ASSUME Inv, NEW r \in Run, NEW pc \in {"idle", "list", "read", "wake", "done"},
         NEW whom \in SUBSET Wait, NEW terminal \in SUBSET Run,
         SetNotifier(r, pc, whom, terminal)
  PROVE  /\ notifier' \in [Run -> Notifier]
         /\ notifier'[r].pc = pc /\ notifier'[r].whom = whom /\ notifier'[r].terminal = terminal
BY DEF Inv, TypeOK, Notifier, SetNotifier

LEMMA NotifyInv == ASSUME Inv, NEW r \in Run, NotifyStep(r) PROVE Inv'
<1> USE DEF waitVars
<1>1. UNCHANGED <<row, current, waitVars>>
  BY DEF NotifyStep, NotifyList, NotifyRead, NotifyWake
<1>2. \A q \in Run \ {r} : notifier'[q] = notifier[q]
  BY DEF NotifyStep, NotifyList, NotifyRead, NotifyWake, SetNotifier, Inv, TypeOK
<1>3. notifier[r] \in Notifier /\ notifier[r].whom \subseteq Wait /\ woken \subseteq Wait
  BY DEF Inv, TypeOK, Notifier
<1>4. /\ notifier' \in [Run -> Notifier] /\ woken' \subseteq Wait
      /\ notifier[r].pc # "idle" /\ notifier'[r].pc # "idle"
      /\ \A w \in notifier'[r].whom : w \in registered \/ w \in notifier[r].whom
      /\ \A q \in notifier'[r].terminal : row[q] = "terminal"
      /\ \A w \in woken' : w \in woken \/ (w \in notifier[r].whom /\ AllTerminal(w))
  <2>1. CASE NotifyList(r)
    <3> DEFINE whom == {w \in registered \ woken : r \in runIds[w]}
    <3>1. whom \in SUBSET Wait /\ {} \in SUBSET Run /\ \A w \in whom : w \in registered
      BY DEF Inv, TypeOK
    <3>2. SetNotifier(r, IF whom = {} THEN "done" ELSE "read", whom, {})
      BY <2>1 DEF NotifyList
    <3> HIDE DEF whom
    <3>3. /\ notifier' \in [Run -> Notifier] /\ notifier'[r].pc \in {"done", "read"}
          /\ notifier'[r].whom = whom /\ notifier'[r].terminal = {}
      <4>1. CASE whom = {}
        BY <3>1, <3>2, <4>1, SetNotifierType
      <4>2. CASE whom # {}
        BY <3>1, <3>2, <4>2, SetNotifierType
      <4> QED
        BY <4>1, <4>2
    <3>4. notifier[r].pc # "idle" /\ woken' = woken
      BY <2>1 DEF NotifyList
    <3> QED
      BY <1>3, <3>1, <3>3, <3>4
  <2>2. CASE NotifyRead(r)
    <3> DEFINE terminal ==
          {q \in UNION {runIds[w] : w \in notifier[r].whom} : row[q] = "terminal"}
    <3>1. terminal \in SUBSET Run /\ \A q \in terminal : row[q] = "terminal"
      BY <1>3 DEF Inv, TypeOK
    <3>2. SetNotifier(r, "wake", notifier[r].whom, terminal)
      BY <2>2 DEF NotifyRead
    <3> HIDE DEF terminal
    <3>3. /\ notifier' \in [Run -> Notifier] /\ notifier'[r].pc = "wake"
          /\ notifier'[r].whom = notifier[r].whom /\ notifier'[r].terminal = terminal
      BY <1>3, <3>1, <3>2, SetNotifierType
    <3>4. notifier[r].pc # "idle" /\ woken' = woken
      BY <2>2 DEF NotifyRead
    <3> QED
      BY <1>3, <3>1, <3>3, <3>4
  <2>3. CASE NotifyWake(r)
    <3>1. SetNotifier(r, "done", {}, {})
      BY <2>3 DEF NotifyWake
    <3>2. /\ notifier' \in [Run -> Notifier] /\ notifier'[r].pc = "done"
          /\ notifier'[r].whom = {} /\ notifier'[r].terminal = {}
      <4>1. {} \in SUBSET Wait /\ {} \in SUBSET Run
        OBVIOUS
      <4> QED
        BY <3>1, <4>1, SetNotifierType
    <3>3. /\ notifier[r].pc # "idle"
          /\ woken' = woken \cup {w \in notifier[r].whom \ expired :
                                    runIds[w] \subseteq notifier[r].terminal}
      BY <2>3 DEF NotifyWake
    <3>4. ASSUME NEW w \in woken' \ woken PROVE w \in notifier[r].whom /\ AllTerminal(w)
      BY <3>3, <3>4 DEF Inv, NotifierShape, AllTerminal
    <3> QED
      BY <1>3, <3>2, <3>3, <3>4
  <2> QED
    BY <2>1, <2>2, <2>3 DEF NotifyStep
<1>5. TypeOK' /\ RowShape'
  BY <1>1, <1>4 DEF Inv, TypeOK, RowShape
<1>6. ASSUME NEW q \in Run PROVE NotifierShape(q)'
  <2>1. \A w \in registered : wait[w] \notin Before
    BY DEF Inv, TypeOK, WaitShape, Before
  <2> QED
    BY <1>1, <1>2, <1>4, <2>1 DEF Inv, NotifierShape
<1>7. \A w \in Wait : WaitShape(w)' /\ AnswerShape(w)'
  <2>1. \A w \in Wait : AllTerminal(w)' <=> AllTerminal(w)
    BY <1>1 DEF AllTerminal
  <2> QED
    BY <1>1, <1>4, <2>1 DEF Inv, WaitShape, AnswerShape, NewRunsOnly, NotifierShape
<1>8. ASSUME NEW w \in Wait \ late', Asleep(w)', AllTerminal(w)' PROVE WillBeWoken(w)'
  <2>1. w \notin woken /\ woken \subseteq woken'
    BY <1>8 DEF Asleep, NotifyStep, NotifyList, NotifyRead, NotifyWake
  <2>2. w \notin late /\ Asleep(w) /\ AllTerminal(w)
    BY <1>1, <1>8, <2>1 DEF Asleep, AllTerminal
  <2>3. w \in registered /\ w \notin expired /\ runIds[w] \subseteq Run
    BY <2>2 DEF Asleep, Inv, TypeOK, WaitShape
  <2>4. PICK q \in runIds[w] :
          \/ notifier[q].pc = "list"
          \/ notifier[q].pc = "read" /\ w \in notifier[q].whom
          \/ /\ notifier[q].pc = "wake" /\ w \in notifier[q].whom
             /\ runIds[w] \subseteq notifier[q].terminal
    BY <2>2 DEF Inv, LastFinalizerWakes, WillBeWoken
  <2>5. CASE q # r
    BY <1>1, <1>2, <2>3, <2>4, <2>5 DEF WillBeWoken
  <2>6. CASE q = r
    <3>1. CASE NotifyList(r)
      <4>1. notifier'[r].pc = "read" /\ w \in notifier'[r].whom
        BY <2>1, <2>3, <2>4, <2>6, <3>1 DEF NotifyList, SetNotifier, Inv, TypeOK
      <4> QED
        BY <1>1, <2>4, <2>6, <4>1 DEF WillBeWoken
    <3>2. CASE NotifyRead(r)
      <4>1. w \in notifier[r].whom
        BY <2>4, <2>6, <3>2 DEF NotifyRead
      <4>2. /\ notifier'[r].pc = "wake" /\ notifier'[r].whom = notifier[r].whom
            /\ notifier'[r].terminal =
                 {p \in UNION {runIds[v] : v \in notifier[r].whom} : row[p] = "terminal"}
        BY <3>2 DEF NotifyRead, SetNotifier, Inv, TypeOK
      <4>3. runIds[w] \subseteq notifier'[r].terminal
        BY <2>2, <4>1, <4>2 DEF AllTerminal
      <4> QED
        BY <1>1, <2>4, <2>6, <4>1, <4>2, <4>3 DEF WillBeWoken
    <3>3. CASE NotifyWake(r)
      <4>1. w \in woken'
        BY <2>3, <2>4, <2>6, <3>3 DEF NotifyWake
      <4> QED
        BY <1>8, <4>1 DEF Asleep
    <3> QED
      BY <3>1, <3>2, <3>3 DEF NotifyStep
  <2> QED
    BY <2>5, <2>6
<1> QED
  BY <1>5, <1>6, <1>7, <1>8 DEF Inv, LastFinalizerWakes

-----------------------------------------------------------------------------
\* Steps of the waits.

\* A step of one wait leaves the runs, their notifiers and the other waits alone.
LEMMA WaitFrame ==
  ASSUME Inv, NEW w \in Wait, TypeOK', UNCHANGED <<row, current, notifier, woken>>,
         \A v \in Wait \ {w} :
           /\ wait'[v] = wait[v] /\ runIds'[v] = runIds[v] /\ answer'[v] = answer[v]
           /\ v \in registered' <=> v \in registered
           /\ v \in expired' <=> v \in expired
           /\ v \in late' <=> v \in late,
         wait[w] \notin Before => wait'[w] \notin Before,
         \A a \in Agent : answer'[w][a].status # "unknown" => answer'[w][a].run \in Run,
         WaitShape(w)' /\ AnswerShape(w)',
         w \notin late' /\ Asleep(w)' /\ AllTerminal(w)' => WillBeWoken(w)'
  PROVE  Inv'
<1>1. RowShape'
  BY DEF Inv, RowShape
<1>2. ASSUME NEW r \in Run PROVE NotifierShape(r)'
  <2>1. notifier[r].whom \subseteq Wait
    BY DEF Inv, TypeOK, Notifier
  <2> QED
    BY <2>1 DEF Inv, NotifierShape
<1>3. ASSUME NEW v \in Wait PROVE WaitShape(v)' /\ AnswerShape(v)'
  <2>1. CASE v = w
    BY <2>1
  <2>2. CASE v # w
    <3>1. AllTerminal(v)' <=> AllTerminal(v)
      BY <2>2 DEF AllTerminal
    <3>2. WaitShape(v)'
      BY <2>2, <3>1 DEF Inv, WaitShape
    <3>3. AnswerShape(v)'
      BY <2>2 DEF Inv, AnswerShape, NewRunsOnly
    <3> QED
      BY <3>2, <3>3
  <2> QED
    BY <2>1, <2>2
<1>4. ASSUME NEW v \in Wait \ late', Asleep(v)', AllTerminal(v)' PROVE WillBeWoken(v)'
  <2>1. CASE v = w
    BY <1>4, <2>1
  <2>2. CASE v # w
    <3>1. v \notin late /\ Asleep(v) /\ AllTerminal(v)
      BY <1>4, <2>2 DEF Asleep, AllTerminal
    <3>2. WillBeWoken(v)
      BY <3>1 DEF Inv, LastFinalizerWakes
    <3> QED
      BY <2>2, <3>2 DEF WillBeWoken
  <2> QED
    BY <2>1, <2>2
<1> QED
  BY <1>1, <1>2, <1>3, <1>4 DEF Inv, LastFinalizerWakes

\* What a read of the current runs returns.
LEMMA ProjectType ==
  ASSUME Inv, NEW a \in Agent
  PROVE  /\ Project(a) \in Item
         /\ Project(a).status # "unknown" =>
              Project(a).run \in Run /\ row[Project(a).run] = Project(a).status
<1>1. CASE current[a] \in Run \ Foreign
  <2>1. row[current[a]] \in {"running", "terminal"}
    BY <1>1 DEF Inv, TypeOK, RowShape
  <2>2. Project(a) = [run |-> current[a], status |-> row[current[a]]]
    BY <1>1, ConstantsAssumption DEF Project
  <2> QED
    BY <1>1, <2>1, <2>2 DEF Item
<1>2. CASE current[a] \notin Run \ Foreign
  <2>1. Project(a) = [run |-> NoRun, status |-> "unknown"]
    BY <1>2 DEF Project
  <2> QED
    BY <2>1 DEF Item
<1> QED
  BY <1>1, <1>2

\* A read moves its wait on and replaces what is known of its agents.
WhatWasRead(w, from, to, agents) ==
  /\ TypeOK'
  /\ wait[w] = from /\ wait'[w] = to
  /\ UNCHANGED <<row, current, notifier, woken, runIds, registered, expired, late>>
  /\ \A v \in Wait \ {w} : wait'[v] = wait[v] /\ answer'[v] = answer[v]
  /\ \A a \in Agent : answer'[w][a] = IF a \in agents THEN Project(a) ELSE answer[w][a]
  /\ \A a \in Agent : answer'[w][a].status # "unknown" => answer'[w][a].run \in Run

LEMMA ReadFacts ==
  ASSUME Inv, NEW w \in Wait, NEW from,
         NEW to \in {"idle", "answered", "gone"} \cup RunningWait,
         NEW agents \in SUBSET Agent, Read(w, from, to, agents)
  PROVE  WhatWasRead(w, from, to, agents)
<1> DEFINE fresh == [a \in Agent |-> IF a \in agents THEN Project(a) ELSE answer[w][a]]
<1>1. answer \in [Wait -> [Agent -> Item]]
  BY DEF Inv, TypeOK
<1>2. answer' = [answer EXCEPT ![w] = fresh]
  BY <1>1 DEF Read
<1>3. fresh \in [Agent -> Item]
  BY <1>1, ProjectType
<1>4. \A a \in Agent : fresh[a].status # "unknown" => fresh[a].run \in Run
  BY ProjectType DEF Inv, RowShape
<1>5. \A a \in Agent : fresh[a] = IF a \in agents THEN Project(a) ELSE answer[w][a]
  OBVIOUS
<1> HIDE DEF fresh
<1>6. answer' \in [Wait -> [Agent -> Item]] /\ answer'[w] = fresh
  BY <1>1, <1>2, <1>3
<1>7. /\ wait[w] = from /\ wait' = [wait EXCEPT ![w] = to]
      /\ UNCHANGED <<row, current, notifier, woken, runIds, registered, expired, late>>
  BY DEF Read, Step
<1>8. TypeOK'
  BY <1>6, <1>7 DEF Inv, TypeOK
<1> QED
  BY <1>1, <1>2, <1>4, <1>5, <1>6, <1>7, <1>8 DEF Inv, TypeOK, WhatWasRead

\* What a second look at an agent tells a wait whose runs have ended.
LEMMA SecondLook ==
  ASSUME Inv, NEW w \in Wait, w \in expired \/ AllTerminal(w), NEW a \in Agent
  PROVE  w \notin expired /\ Project(a).status = "running" => Project(a).run \notin runIds[w]
BY ProjectType DEF AllTerminal

LEMMA ReadStep ==
  ASSUME Inv, NEW w \in Wait, BeginWait(w) \/ ReadHandles(w) \/ ReadAgain(w) \/ ReadLast(w)
  PROVE  Inv'
<1>1. ById[w] \in SUBSET Agent /\ ByHandle[w] \in SUBSET Agent
  BY ConstantsAssumption
<1>2. WaitShape(w) /\ AnswerShape(w)
  BY DEF Inv
<1>3. UNCHANGED <<row, runIds>> => (AllTerminal(w)' <=> AllTerminal(w))
  BY DEF AllTerminal
<1>4. CASE BeginWait(w)
  <2>1. Read(w, "idle", "handles", ById[w])
    BY <1>4 DEF BeginWait
  <2>2. WhatWasRead(w, "idle", "handles", ById[w])
    BY <1>1, <2>1, ReadFacts
  <2>3. WaitShape(w)' /\ AnswerShape(w)' /\ ~Asleep(w)'
    BY <1>2, <1>3, <2>2 DEF WhatWasRead, WaitShape, AnswerShape, Asleep, Before
  <2> QED
    BY <2>2, <2>3, WaitFrame DEF WhatWasRead, Before
<1>5. CASE ReadHandles(w)
  <2>1. Read(w, "handles", "register", ByHandle[w])
    BY <1>5 DEF ReadHandles
  <2>2. WhatWasRead(w, "handles", "register", ByHandle[w])
    BY <1>1, <2>1, ReadFacts
  <2>3. WaitShape(w)' /\ AnswerShape(w)' /\ ~Asleep(w)'
    BY <1>2, <1>3, <2>2 DEF WhatWasRead, WaitShape, AnswerShape, Asleep, Before
  <2> QED
    BY <2>2, <2>3, WaitFrame DEF WhatWasRead, Before
<1>6. CASE ReadAgain(w)
  <2>1. Read(w, "ids2", "handles2", ById[w])
    BY <1>6 DEF ReadAgain
  <2>2. WhatWasRead(w, "ids2", "handles2", ById[w])
    BY <1>1, <2>1, ReadFacts
  <2>3. w \in expired \/ AllTerminal(w)
    BY <1>2, <2>2 DEF WhatWasRead, WaitShape
  <2>4. ASSUME w \notin expired, NEW a \in ById[w], answer'[w][a].status = "running"
        PROVE  answer'[w][a].run \notin runIds[w]
    <3>1. CASE a \in ById[w]
      BY <1>1, <2>2, <2>3, <2>4, <3>1, SecondLook DEF WhatWasRead
    <3> QED
      BY <3>1
  <2>5. NewRunsOnly(w, ById[w])'
    BY <2>2, <2>4 DEF WhatWasRead, NewRunsOnly
  <2>6. WaitShape(w)' /\ AnswerShape(w)' /\ ~Asleep(w)'
    BY <1>2, <1>3, <2>2, <2>5 DEF WhatWasRead, WaitShape, AnswerShape, Asleep, Before
  <2> QED
    BY <2>2, <2>6, WaitFrame DEF WhatWasRead, Before
<1>7. CASE ReadLast(w)
  <2>1. Read(w, "handles2", "answered", ByHandle[w])
    BY <1>7 DEF ReadLast
  <2>2. WhatWasRead(w, "handles2", "answered", ByHandle[w])
    BY <1>1, <2>1, ReadFacts
  <2>3. w \in expired \/ AllTerminal(w)
    BY <1>2, <2>2 DEF WhatWasRead, WaitShape
  <2>4. ASSUME w \notin expired, NEW a \in ById[w] \cup ByHandle[w], answer'[w][a].status = "running"
        PROVE  answer'[w][a].run \notin runIds[w]
    <3>1. CASE a \in ByHandle[w]
      BY <1>1, <2>2, <2>3, <2>4, <3>1, SecondLook DEF WhatWasRead
    <3>2. CASE a \notin ByHandle[w]
      BY <1>1, <1>2, <2>2, <2>4, <3>2 DEF WhatWasRead, AnswerShape, NewRunsOnly
    <3> QED
      BY <3>1, <3>2
  <2>5. NewRunsOnly(w, ById[w] \cup ByHandle[w])'
    BY <2>2, <2>4 DEF WhatWasRead, NewRunsOnly
  <2>6. WaitShape(w)' /\ AnswerShape(w)' /\ ~Asleep(w)'
    BY <1>2, <1>3, <2>2, <2>5 DEF WhatWasRead, WaitShape, AnswerShape, Asleep, Before
  <2> QED
    BY <2>2, <2>6, WaitFrame DEF WhatWasRead, Before
<1> QED
  BY <1>4, <1>5, <1>6, <1>7

\* A waiter is registered for runs that were running when they were read: if they
\* have all ended since, one of their notifiers has yet to list the waiters.
LEMMA RegisterStep == ASSUME Inv, NEW w \in Wait, Register(w) PROVE Inv'
<1>1. WaitShape(w) /\ AnswerShape(w)
  BY DEF Inv
<1>2. Targets(w) \subseteq Run
  BY ConstantsAssumption DEF Targets, Inv, RowShape
<1>3. wait[w] = "register" /\ runIds'[w] = Targets(w)
  BY DEF Register, Step, Inv, TypeOK
<1>4. TypeOK'
  BY <1>2 DEF Register, Step, Inv, TypeOK
<1>5. w \notin woken /\ w \notin registered /\ w \notin expired
  BY <1>1, <1>3 DEF WaitShape, Before
<1>6. UNCHANGED <<row, current, notifier, woken, expired, answer>>
  BY DEF Register
<1>7. \A v \in Wait \ {w} :
        /\ wait'[v] = wait[v] /\ runIds'[v] = runIds[v]
        /\ v \in registered' <=> v \in registered
        /\ v \in late' <=> v \in late
  BY DEF Register, Step, Inv, TypeOK
<1>8. \A a \in Agent : answer'[w][a].status # "unknown" => answer'[w][a].run \in Run
  BY <1>6 DEF Inv, RowShape
<1>9. CASE Targets(w) = {}
  <2>1. wait'[w] = "ids2" /\ registered' = registered
    BY <1>9 DEF Register, Step, Inv, TypeOK
  <2>2. AllTerminal(w)'
    BY <1>3, <1>9 DEF AllTerminal
  <2> QED
    BY <1>3, <1>4, <1>5, <1>6, <1>7, <1>8, <2>1, <2>2, WaitFrame
       DEF WaitShape, AnswerShape, Asleep, Before
<1>10. CASE Targets(w) # {}
  <2>1. wait'[w] = "waiting" /\ w \in registered'
    BY <1>10 DEF Register, Step, Inv, TypeOK
  <2>2. ASSUME w \notin late', AllTerminal(w)' PROVE WillBeWoken(w)'
    <3>0. Targets(w) \cap {r \in Run : notifier[r].pc \in {"idle", "list"}} # {}
      BY <1>10, <2>2 DEF Register, Inv, TypeOK
    <3>1. PICK r \in Targets(w) : notifier[r].pc \in {"idle", "list"}
      BY <3>0
    <3>2. row[r] = "terminal"
      BY <1>3, <1>6, <2>2, <3>1 DEF AllTerminal
    <3>3. notifier[r].pc = "list"
      BY <1>2, <3>1, <3>2 DEF Inv, NotifierShape
    <3> QED
      BY <1>3, <1>6, <3>1, <3>3 DEF WillBeWoken
  <2>3. WaitShape(w)' /\ AnswerShape(w)'
    BY <1>5, <1>6, <2>1, <1>1, <1>3 DEF WaitShape, AnswerShape, Before
  <2> QED
    BY <1>3, <1>4, <1>6, <1>7, <1>8, <2>1, <2>2, <2>3, WaitFrame DEF Before
<1> QED
  BY <1>9, <1>10

\* A wait that stops is awake.
LEMMA StopStep ==
  ASSUME Inv, NEW w \in Wait, WaitEnds(w) \/ WaitExpires(w) \/ Abandon(w)
  PROVE  Inv'
<1>1. WaitShape(w) /\ AnswerShape(w)
  BY DEF Inv
<1>2. wait[w] \in RunningWait /\ wait'[w] \in {"ids2", "gone"} /\ registered' = registered \ {w}
  BY DEF WaitEnds, WaitExpires, Abandon, StopWaiting, Step, Inv, TypeOK
<1>3. TypeOK'
  BY DEF WaitEnds, WaitExpires, Abandon, StopWaiting, Step, Inv, TypeOK
<1>4. UNCHANGED <<row, current, notifier, woken, runIds, late, answer>>
  BY DEF WaitEnds, WaitExpires, Abandon
<1>5. \A v \in Wait \ {w} : wait'[v] = wait[v] /\ (v \in expired' <=> v \in expired)
  BY DEF WaitEnds, WaitExpires, Abandon, StopWaiting, Step, Inv, TypeOK
<1>6. AllTerminal(w)' <=> AllTerminal(w)
  BY <1>4 DEF AllTerminal
<1>7. wait'[w] = "ids2" => w \in woken \/ w \in expired'
  BY DEF WaitEnds, WaitExpires, Abandon, StopWaiting, Step, Inv, TypeOK
<1>8. WaitShape(w)' /\ AnswerShape(w)'
  BY <1>1, <1>2, <1>4, <1>6, <1>7 DEF WaitShape, AnswerShape, Before
<1>9. \A a \in Agent : answer'[w][a].status # "unknown" => answer'[w][a].run \in Run
  BY <1>4 DEF Inv, RowShape
<1>10. ~Asleep(w)' /\ wait'[w] \notin Before
  BY <1>2 DEF Asleep, Before
<1> QED
  BY <1>2, <1>3, <1>4, <1>5, <1>8, <1>9, <1>10, WaitFrame

-----------------------------------------------------------------------------
\* The theorems.

\* Every action keeps the inductive invariant.
LEMMA InvStep == Inv /\ [Next]_vars => Inv'
<1> SUFFICES ASSUME Inv, [Next]_vars PROVE Inv'
  OBVIOUS
<1>1. CASE UNCHANGED vars
  BY <1>1 DEF vars, waitVars, Inv, TypeOK, RowShape, NotifierShape, WaitShape, AnswerShape,
              NewRunsOnly, AllTerminal, LastFinalizerWakes, Asleep, WillBeWoken
<1> QED
  BY <1>1, DispatchStep, FinalizeStep, NotifyInv, ReadStep, RegisterStep, StopStep
     DEF Next, WaitStep

\* The inductive invariant holds throughout.
LEMMA InvAlways == Spec => []Inv
BY InvInit, InvStep, PTL DEF Spec

\* Every variable keeps its type.
THEOREM TypeCorrect == Spec => []TypeOK
<1>1. Inv => TypeOK
  BY DEF Inv
<1> QED
  BY InvAlways, <1>1, PTL

\* However many runs a wait is for and however many finalizers race, the last of
\* them wakes it.
THEOREM TheLastOneWakes == Spec => []LastFinalizerWakes
<1>1. Inv => LastFinalizerWakes
  BY DEF Inv
<1> QED
  BY InvAlways, <1>1, PTL

\* A wait that was woken is told of no run it waited for that it is running.
THEOREM WokenAnswersAreFinal == Spec => []RunningAnswerIsOfNewRun
<1>1. Inv => RunningAnswerIsOfNewRun
  BY DEF Inv, AnswerShape, NewRunsOnly, RunningAnswerIsOfNewRun
<1> QED
  BY InvAlways, <1>1, PTL
=============================================================================
