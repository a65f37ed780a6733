--------------------------- MODULE SessionProofs ----------------------------
(***************************************************************************)
(* What a session plans, shows and remembers: that approvals do not        *)
(* outlive the words they were given to and a handoff's prompt is sent     *)
(* once; that the pull request a footer shows fits its branch and no       *)
(* refresh is lost; that a restart restores what the session worked with.  *)
(***************************************************************************)
EXTENDS MCSessions, WorktreeProofs, ReviewProofs, SequenceTheorems, TLAPS

-----------------------------------------------------------------------------
\* The plans.
USE PlanAssumption

Text == Wording \cup {""}
Verdicts == [Part -> [text : Text, ok : BOOLEAN]]
Calls == [pc : {"idle", "review", "handoff", "done"}, tasks : Text, replaced : BOOLEAN]
CycleRecord == [goal : Text, tasks : Text, planned : BOOLEAN, replaced : BOOLEAN, active : BOOLEAN]
Dispatch == [at : {"none", "timer", "compacting", "done", "gone"}, sends : Nat,
             compact : BOOLEAN, watchdog : BOOLEAN]

PlanTyped ==
  /\ subagent \in BOOLEAN /\ mode \in {"analysis", "work"}
  /\ draft \in Call \cup {NoCall}
  /\ drafts \in [Call -> Verdicts]
  /\ call \in [Call -> Calls]
  /\ approved \subseteq Part \X Wording
  /\ cycles \in Seq(CycleRecord)
  /\ pending \in 0..Len(cycles)
  /\ dispatch \in [Place -> Dispatch]

\* Drafts under review, and the one the tool holds, have been written.
DraftShape ==
  \A c \in Call : call[c].pc = "review" \/ draft = c => \A p \in Part : drafts[c][p].text \in Wording

TypeInv == PlanTyped /\ DraftShape

\* An approval in a draft is the user's, for the words that are there.
ApprovalShape ==
  \A c \in Call, p \in Part : drafts[c][p].ok => <<p, drafts[c][p].text>> \in approved

\* A handoff under way has approved tasks, and will find an approved goal unless the draft
\* is another's by then.
HandoffShape ==
  \A c \in Call : call[c].pc = "handoff" =>
    /\ <<"tasks", call[c].tasks>> \in approved
    /\ draft # NoCall => <<"goal", drafts[draft]["goal"].text>> \in approved \/ call[c].replaced

ApprovalInv == ApprovalShape /\ HandoffShape /\ ApprovedContentStarts

\* What was sent, and which callbacks can come, at each stage of a dispatch.
Stage(d) ==
  /\ d.sends = IF d.at = "done" THEN 1 ELSE 0
  /\ d.at = "compacting" => d.watchdog
  /\ d.compact \/ d.watchdog => d.at \in {"compacting", "done"}

DispatchInv ==
  /\ \A i \in Place : Stage(dispatch[i])
  /\ \A i \in Place : i > Len(cycles) \/ i = pending => dispatch[i].at = "none"

-----------------------------------------------------------------------------
\* startGoalCycle adds one cycle, and changes nothing of the others but which is active.
LEMMA CycleStarted ==
  ASSUME PlanTyped, NEW goal \in Text, NEW tasks \in Text, NEW planned \in BOOLEAN,
         NEW replaced \in BOOLEAN, StartCycle(goal, tasks, planned, replaced)
  PROVE  /\ cycles' \in Seq(CycleRecord) /\ Len(cycles') = Len(cycles) + 1
         /\ \A i \in Cycle : cycles'[i] = [cycles[i] EXCEPT !.active = FALSE]
         /\ cycles'[Len(cycles) + 1] = [goal |-> goal, tasks |-> tasks, planned |-> planned,
                                        replaced |-> replaced, active |-> TRUE]
<1> DEFINE old == [i \in Cycle |-> [cycles[i] EXCEPT !.active = FALSE]]
           new == [goal |-> goal, tasks |-> tasks, planned |-> planned, replaced |-> replaced,
                   active |-> TRUE]
<1>1. cycles \in Seq(CycleRecord) /\ Len(cycles) \in Nat BY DEF PlanTyped
<1>2. \A i \in Cycle : cycles[i] \in CycleRecord BY <1>1 DEF Cycle
<1>3. \A i \in Cycle : [cycles[i] EXCEPT !.active = FALSE] \in CycleRecord
  BY <1>2 DEF CycleRecord
<1>4. old \in Seq(CycleRecord) /\ Len(old) = Len(cycles)
  BY <1>1, <1>3 DEF Cycle
<1>5. new \in CycleRecord BY DEF CycleRecord
<1>6. cycles' = Append(old, new) BY DEF StartCycle
<1> HIDE DEF old, new
<1>7. /\ cycles' \in Seq(CycleRecord) /\ Len(cycles') = Len(cycles) + 1
      /\ cycles'[Len(cycles) + 1] = new /\ \A i \in 1..Len(cycles) : cycles'[i] = old[i]
  BY <1>1, <1>4, <1>5, <1>6, AppendProperties
<1> QED BY <1>7 DEF old, new, Cycle

-----------------------------------------------------------------------------
\* SendOnce is right at every stage but the last, and harmless there.
LEMMA OnceMore ==
  ASSUME NEW d \in Dispatch
  PROVE  /\ SendOnce(d) \in Dispatch
         /\ SendOnce(d).at = "done"
         /\ SendOnce(d).sends = IF d.at = "done" THEN d.sends ELSE d.sends + 1
         /\ SendOnce(d).compact = d.compact /\ SendOnce(d).watchdog = d.watchdog
<1>1. CASE d.at = "done" BY <1>1 DEF SendOnce
<1>2. CASE d.at # "done"
  <2>1. SendOnce(d) = [d EXCEPT !.sends = d.sends + 1, !.at = "done"] BY <1>2 DEF SendOnce, Dispatch
  <2>2. SendOnce(d).at = "done" /\ SendOnce(d).sends = d.sends + 1
    BY <2>1 DEF Dispatch
  <2>3. SendOnce(d).compact = d.compact /\ SendOnce(d).watchdog = d.watchdog
    BY <2>1 DEF Dispatch
  <2>4. SendOnce(d) \in Dispatch
    <3> DEFINE e == [d EXCEPT !.sends = d.sends + 1]
    <3>1. d.sends + 1 \in Nat BY DEF Dispatch
    <3>2. e \in Dispatch BY <3>1 DEF Dispatch
    <3>3. [e EXCEPT !.at = "done"] \in Dispatch BY <3>2 DEF Dispatch
    <3> QED BY <2>1, <3>3
  <2> QED BY <1>2, <2>2, <2>3, <2>4
<1> QED BY <1>1, <1>2

\* Each stage of a dispatch follows another.
LEMMA Sent ==
  ASSUME PlanTyped, NEW i \in Place, Timer(i) \/ Compacted(i) \/ Watchdog(i)
  PROVE  /\ \E d \in Dispatch : dispatch' = [dispatch EXCEPT ![i] = d] /\ (Stage(dispatch[i]) => Stage(d))
         /\ dispatch[i].at = "timer" \/ dispatch[i].compact \/ dispatch[i].watchdog
         /\ UNCHANGED <<sessionRest, pending>>
<1>1. dispatch[i] \in Dispatch BY DEF PlanTyped
<1>2. CASE Timer(i)
  <2>1. PICK full \in BOOLEAN : dispatch' = [dispatch EXCEPT ![i] =
          IF full THEN [@ EXCEPT !.at = "compacting", !.compact = TRUE, !.watchdog = TRUE]
          ELSE SendOnce(@)]
    BY <1>2 DEF Timer
  <2> DEFINE d == IF full THEN [dispatch[i] EXCEPT !.at = "compacting", !.compact = TRUE, !.watchdog = TRUE]
                  ELSE SendOnce(dispatch[i])
  <2>2. dispatch' = [dispatch EXCEPT ![i] = d] BY <1>1, <2>1 DEF PlanTyped
  <2>3. dispatch[i].at = "timer" BY <1>2 DEF Timer
  <2>4. d \in Dispatch /\ (Stage(dispatch[i]) => Stage(d))
    <3>1. CASE full BY <1>1, <2>3, <3>1 DEF Dispatch, Stage
    <3>2. CASE ~full BY <1>1, <2>3, <3>2, OnceMore DEF Stage
    <3> QED BY <3>1, <3>2
  <2> HIDE DEF d
  <2> QED BY <1>2, <2>2, <2>3, <2>4 DEF Timer
<1>3. CASE Compacted(i)
  <2> DEFINE left == [dispatch[i] EXCEPT !.compact = FALSE, !.watchdog = FALSE]
  <2>1. dispatch' = [dispatch EXCEPT ![i] = SendOnce(left)] /\ dispatch[i].compact
    BY <1>1, <1>3 DEF Compacted, PlanTyped
  <2>2. left \in Dispatch /\ left.at = dispatch[i].at /\ left.sends = dispatch[i].sends
        /\ ~left.compact /\ ~left.watchdog
    BY <1>1 DEF Dispatch
  <2> HIDE DEF left
  <2>3. SendOnce(left) \in Dispatch /\ (Stage(dispatch[i]) => Stage(SendOnce(left)))
    BY <1>1, <2>1, <2>2, OnceMore DEF Stage
  <2> QED BY <1>3, <2>1, <2>3 DEF Compacted
<1>4. CASE Watchdog(i)
  <2> DEFINE left == [dispatch[i] EXCEPT !.watchdog = FALSE]
  <2>1. dispatch' = [dispatch EXCEPT ![i] = SendOnce(left)] /\ dispatch[i].watchdog
    BY <1>1, <1>4 DEF Watchdog, PlanTyped
  <2>2. left \in Dispatch /\ left.at = dispatch[i].at /\ left.sends = dispatch[i].sends
        /\ left.compact = dispatch[i].compact /\ ~left.watchdog
    BY <1>1 DEF Dispatch
  <2> HIDE DEF left
  <2>3. SendOnce(left) \in Dispatch /\ (Stage(dispatch[i]) => Stage(SendOnce(left)))
    BY <1>1, <2>1, <2>2, OnceMore DEF Stage
  <2> QED BY <1>4, <2>1, <2>3 DEF Watchdog
<1> QED BY <1>2, <1>3, <1>4

\* AgentEnd and Reopen write every dispatch they touch anew.
LEMMA Restarted ==
  ASSUME PlanTyped, Reopen
  PROVE  /\ dispatch' \in [Place -> Dispatch]
         /\ \A i \in Place : /\ Stage(dispatch[i]) => Stage(dispatch'[i])
                             /\ dispatch[i].at = "none" => dispatch'[i].at = "none"
<1> SUFFICES ASSUME NEW i \in Place
             PROVE  /\ dispatch'[i] \in Dispatch /\ (Stage(dispatch[i]) => Stage(dispatch'[i]))
                    /\ dispatch[i].at = "none" => dispatch'[i].at = "none"
  BY DEF Reopen
<1>1. dispatch[i] \in Dispatch BY DEF PlanTyped
<1>2. dispatch'[i] = [dispatch[i] EXCEPT !.at = IF dispatch[i].at \in {"none", "done"} THEN dispatch[i].at ELSE "gone",
                        !.compact = FALSE, !.watchdog = FALSE]
  BY DEF Reopen
<1> QED BY <1>1, <1>2 DEF Dispatch, Stage

LEMMA Ended ==
  ASSUME PlanTyped, AgentEnd
  PROVE  /\ dispatch' \in [Place -> Dispatch] /\ pending \in 1..Len(cycles)
         /\ \A i \in Place : dispatch'[i] = IF i = pending THEN [dispatch[i] EXCEPT !.at = "timer"]
                                            ELSE dispatch[i]
<1>1. pending \in 1..Len(cycles) BY DEF PlanTyped, AgentEnd
<1>2. \A i \in Place : dispatch[i] \in Dispatch /\ [dispatch[i] EXCEPT !.at = "timer"] \in Dispatch
  BY DEF PlanTyped, Dispatch
<1>3. dispatch' = [i \in Place |-> IF i = pending THEN [dispatch[i] EXCEPT !.at = "timer"] ELSE dispatch[i]]
  BY DEF AgentEnd, PlanTyped
<1> QED BY <1>1, <1>2, <1>3

-----------------------------------------------------------------------------
\* A verdict leaves every wording alone.
LEMMA VerdictGiven ==
  ASSUME PlanTyped, NEW d \in Call, NEW p \in Part, NEW ok \in BOOLEAN, Verdict(d, p, ok)
  PROVE  /\ drafts' \in [Call -> Verdicts]
         /\ drafts'[d][p].ok = ok
         /\ \A c \in Call, q \in Part : drafts'[c][q].text = drafts[c][q].text
         /\ \A c \in Call, q \in Part : c # d \/ q # p => drafts'[c][q] = drafts[c][q]
<1> DEFINE v == [drafts[d][p] EXCEPT !.ok = ok]
           its == [drafts[d] EXCEPT ![p] = v]
<1>1. drafts \in [Call -> Verdicts] /\ drafts[d] \in Verdicts
      /\ drafts[d][p] \in [text : Text, ok : BOOLEAN]
  BY DEF PlanTyped, Verdicts
<1>2. v \in [text : Text, ok : BOOLEAN] /\ v.text = drafts[d][p].text /\ v.ok = ok
  BY <1>1
<1>3. drafts' = [drafts EXCEPT ![d] = [drafts[d] EXCEPT ![p] = v]]
  BY <1>1 DEF Verdict
<1> HIDE DEF v
<1>4. its \in Verdicts /\ its[p] = v /\ \A q \in Part \ {p} : its[q] = drafts[d][q]
  BY <1>1, <1>2 DEF Verdicts
<1>5. drafts' = [drafts EXCEPT ![d] = its]
  BY <1>3
<1> HIDE DEF its
<1> QED BY <1>1, <1>2, <1>4, <1>5

\* The end of a call changes where it is, and no other call.
LEMMA EndsCall ==
  ASSUME PlanTyped, NEW c \in Call, End(c)
  PROVE  /\ call' \in [Call -> Calls] /\ call'[c].pc = "done"
         /\ \A d \in Call \ {c} : call'[d] = call[d]
<1>1. call \in [Call -> Calls] /\ call[c] \in Calls BY DEF PlanTyped, Calls
<1>2. [call[c] EXCEPT !.pc = "done"] \in Calls /\ [call[c] EXCEPT !.pc = "done"].pc = "done"
  BY <1>1 DEF Calls
<1>3. call' = [call EXCEPT ![c] = [call[c] EXCEPT !.pc = "done"]]
  BY <1>1 DEF End
<1> QED BY <1>1, <1>2, <1>3

\* A new draft takes the place of the old one.
LEMMA Planned ==
  ASSUME PlanTyped, NEW c \in Call, Plan(c)
  PROVE  \E content \in [Part -> Wording] :
           /\ call' \in [Call -> Calls] /\ drafts' \in [Call -> Verdicts]
           /\ call[c].pc = "idle" /\ call'[c].pc = "review" /\ draft' = c
           /\ \A d \in Call \ {c} : /\ call'[d].pc = call[d].pc /\ call'[d].tasks = call[d].tasks
                                    /\ call[d].pc = "handoff" => call'[d].replaced
                                    /\ drafts'[d] = drafts[d]
           /\ \A p \in Part : drafts'[c][p].text = content[p] /\ (drafts'[c][p].ok => Carry(p, content[p]))
<1>1. PICK content \in [Part -> Wording] : drafts' = [drafts EXCEPT ![c] =
         [p \in Part |-> [text |-> content[p], ok |-> Carry(p, content[p])]]]
  BY DEF Plan
<1> DEFINE its == [p \in Part |-> [text |-> content[p], ok |-> Carry(p, content[p])]]
<1>2. \A p \in Part : content[p] \in Text /\ Carry(p, content[p]) \in BOOLEAN
  BY DEF Text, Carry
<1>3. its \in Verdicts BY <1>2 DEF Verdicts
<1>4. drafts \in [Call -> Verdicts] /\ drafts' = [drafts EXCEPT ![c] = its] BY <1>1 DEF PlanTyped
<1>5. \A p \in Part : its[p].text = content[p] /\ (its[p].ok => Carry(p, content[p])) BY <1>2
<1> HIDE DEF its
<1>6. \A d \in Call : call[d] \in Calls BY DEF PlanTyped, Calls
<1>7. call' = [d \in Call |-> IF d = c THEN [call[c] EXCEPT !.pc = "review"]
                             ELSE [call[d] EXCEPT !.replaced = call[d].replaced \/ call[d].pc = "handoff"]]
  BY <1>6 DEF Plan, Calls
<1>8. \A d \in Call : /\ [call[d] EXCEPT !.pc = "review"] \in Calls
                      /\ [call[d] EXCEPT !.replaced = call[d].replaced \/ call[d].pc = "handoff"] \in Calls
  BY <1>6 DEF Calls
<1>9. call' \in [Call -> Calls] BY <1>7, <1>8
<1>10. call[c].pc = "idle" /\ call'[c].pc = "review" /\ draft' = c
  BY <1>6, <1>7 DEF Plan, Calls
<1>11. \A d \in Call \ {c} : /\ call'[d].pc = call[d].pc /\ call'[d].tasks = call[d].tasks
                             /\ call[d].pc = "handoff" => call'[d].replaced
  BY <1>6, <1>7 DEF Calls
<1> QED BY <1>3, <1>4, <1>5, <1>9, <1>10, <1>11

-----------------------------------------------------------------------------
LEMMA TypePreserved == TypeInv /\ [PlanNext]_planVars => TypeInv'
<1> SUFFICES ASSUME TypeInv, [PlanNext]_planVars PROVE TypeInv'
  OBVIOUS
<1>a. PlanTyped /\ DraftShape BY DEF TypeInv
<1>b. \A c \in Call : call[c] \in Calls /\ drafts[c] \in Verdicts
  BY <1>a DEF PlanTyped
<1>c. \A c \in Call, p \in Part : drafts[c][p].text \in Text
  BY <1>b DEF Verdicts
<1>d. "goal" \in Part /\ "tasks" \in Part /\ "" \in Text
  BY DEF Part, Text
<1>e. Len(cycles) \in Nat BY <1>a DEF PlanTyped
<1>1. ASSUME NEW c \in Call, Plan(c) PROVE TypeInv'
  <2> PICK content \in [Part -> Wording] :
           /\ call' \in [Call -> Calls] /\ drafts' \in [Call -> Verdicts]
           /\ call[c].pc = "idle" /\ call'[c].pc = "review" /\ draft' = c
           /\ \A d \in Call \ {c} : /\ call'[d].pc = call[d].pc /\ call'[d].tasks = call[d].tasks
                                    /\ call[d].pc = "handoff" => call'[d].replaced
                                    /\ drafts'[d] = drafts[d]
           /\ \A p \in Part : drafts'[c][p].text = content[p] /\ (drafts'[c][p].ok => Carry(p, content[p]))
    BY <1>a, <1>1, Planned
  <2>0. \A p \in Part : drafts'[c][p].text \in Wording OBVIOUS
  <2>1. DraftShape'
    <3> SUFFICES ASSUME NEW d \in Call, call'[d].pc = "review" \/ draft' = d, NEW p \in Part
                 PROVE  drafts'[d][p].text \in Wording
      BY DEF DraftShape
    <3>1. CASE d = c BY <2>0, <3>1
    <3>2. CASE d # c
      <4>1. call[d].pc = "review" /\ drafts'[d] = drafts[d] BY <3>2
      <4> QED BY <1>a, <4>1 DEF DraftShape
    <3> QED BY <3>1, <3>2
  <2>2. UNCHANGED <<subagent, mode, approved, cycles, pending, dispatch>> BY <1>1 DEF Plan
  <2>3. PlanTyped' BY <1>a, <2>2 DEF PlanTyped
  <2> QED BY <2>1, <2>3 DEF TypeInv
<1>2. ASSUME NEW d \in Call, NEW p \in Part, Judge(d, p) PROVE TypeInv'
  <2>1. PICK ok \in BOOLEAN : Verdict(d, p, ok) BY <1>2 DEF Judge
  <2>2. drafts[d][p].text \in Wording BY <1>a, <1>2 DEF Judge, DraftShape
  <2>3. approved' \subseteq Part \X Wording BY <1>a, <2>1, <2>2 DEF Verdict, PlanTyped
  <2>4. /\ drafts' \in [Call -> Verdicts]
        /\ \A c \in Call, q \in Part : drafts'[c][q].text = drafts[c][q].text
    BY <1>a, <2>1, VerdictGiven
  <2>5. PlanTyped' BY <1>a, <1>2, <2>3, <2>4 DEF Judge, PlanTyped
  <2>6. DraftShape' BY <1>a, <1>2, <2>4 DEF Judge, DraftShape
  <2> QED BY <2>5, <2>6 DEF TypeInv
<1>3. ASSUME NEW c \in Call, End(c), UNCHANGED drafts,
             draft' \in {draft, NoCall}, approved' = approved, subagent' = subagent,
             mode' \in {"analysis", "work"}, cycles' \in Seq(CycleRecord),
             pending' \in 0..Len(cycles'), UNCHANGED dispatch
      PROVE  TypeInv'
  <2>1. /\ call' \in [Call -> Calls] /\ call'[c].pc = "done"
        /\ \A d \in Call \ {c} : call'[d] = call[d]
    BY <1>a, <1>3, EndsCall
  <2>2. PlanTyped' BY <1>a, <1>3, <2>1 DEF PlanTyped
  <2>3. DraftShape' BY <1>a, <1>3, <2>1 DEF DraftShape, PlanTyped
  <2> QED BY <2>2, <2>3 DEF TypeInv
<1>4. ASSUME NEW c \in Call, Decline(c) \/ Feedback(c) \/ HandoffFails(c) PROVE TypeInv'
  BY <1>a, <1>3, <1>4 DEF Decline, Feedback, HandoffFails, RunHandoff, End, PlanTyped
<1>5. ASSUME NEW c \in Call, StartAnalysis(c) PROVE TypeInv'
  <2>1. draft \in Call BY <1>a, <1>5 DEF StartAnalysis, AllApproved, PlanTyped
  <2>2. cycles' \in Seq(CycleRecord) /\ Len(cycles') = Len(cycles) + 1
    BY <1>a, <1>c, <1>d, <1>5, <2>1, CycleStarted DEF StartAnalysis
  <2> QED BY <1>a, <1>3, <1>5, <2>2 DEF StartAnalysis, PlanTyped
<1>6. ASSUME NEW c \in Call, PlanInSubagent(c) PROVE TypeInv'
  <2>1. PICK content \in [Part -> Wording] : StartCycle(content["goal"], content["tasks"], FALSE, FALSE)
    BY <1>6 DEF PlanInSubagent
  <2>2. content["goal"] \in Text /\ content["tasks"] \in Text BY <1>d DEF Text
  <2>3. cycles' \in Seq(CycleRecord) /\ Len(cycles') = Len(cycles) + 1
    BY <1>a, <2>1, <2>2, CycleStarted
  <2> QED BY <1>a, <1>3, <1>6, <2>3 DEF PlanInSubagent, PlanTyped
<1>7. ASSUME NEW c \in Call, Handoff(c) PROVE TypeInv'
  <2>1. draft \in Call BY <1>a, <1>7 DEF Handoff, AllApproved, PlanTyped
  <2> DEFINE t == drafts[draft]["tasks"].text
  <2>2. t \in Text BY <1>c, <1>d, <2>1
  <2> HIDE DEF t
  <2>3. call' = [call EXCEPT ![c] = [call[c] EXCEPT !.pc = "handoff", !.tasks = t]]
    BY <1>a, <1>7 DEF Handoff, PlanTyped, t
  <2>4. [call[c] EXCEPT !.pc = "handoff", !.tasks = t] \in Calls
        /\ [call[c] EXCEPT !.pc = "handoff", !.tasks = t].pc = "handoff"
    BY <1>b, <2>2 DEF Calls
  <2>5. PlanTyped' BY <1>a, <1>7, <2>3, <2>4 DEF Handoff, PlanTyped
  <2>6. DraftShape' BY <1>a, <1>7, <2>3, <2>4 DEF Handoff, DraftShape, PlanTyped
  <2> QED BY <2>5, <2>6 DEF TypeInv
<1>8. ASSUME NEW c \in Call, HandoffReady(c) PROVE TypeInv'
  <2>1. CASE draft = NoCall
    BY <1>a, <1>3, <1>8, <2>1 DEF HandoffReady, RunHandoff, PlanTyped
  <2>2. CASE draft # NoCall
    <3>1. draft \in Call /\ call[c].tasks \in Text /\ call[c].replaced \in BOOLEAN
      BY <1>a, <1>b, <2>2 DEF PlanTyped, Calls
    <3>2. StartCycle(drafts[draft]["goal"].text, call[c].tasks, TRUE, call[c].replaced)
          /\ pending' = Len(cycles) + 1 /\ draft' = NoCall
      BY <1>8, <2>2 DEF HandoffReady
    <3>3. drafts[draft]["goal"].text \in Text BY <1>c, <1>d, <3>1
    <3>4. cycles' \in Seq(CycleRecord) /\ Len(cycles') = Len(cycles) + 1
      BY <1>a, <3>1, <3>2, <3>3, CycleStarted
    <3>5. pending' \in 0..Len(cycles') BY <1>e, <3>2, <3>4
    <3> QED BY <1>3, <1>8, <3>2, <3>4, <3>5 DEF HandoffReady, RunHandoff
  <2> QED BY <2>1, <2>2
<1>9. CASE UpdateGoal
  <2>1. cycles' \in Seq(CycleRecord) /\ Len(cycles') = Len(cycles) + 1
    BY <1>a, <1>d, <1>9, CycleStarted DEF UpdateGoal
  <2>2. UNCHANGED <<subagent, mode, draft, drafts, call, approved, pending, dispatch>>
    BY <1>9 DEF UpdateGoal
  <2>3. pending' \in 0..Len(cycles') BY <1>a, <1>e, <2>1, <2>2 DEF PlanTyped
  <2>4. PlanTyped' BY <1>a, <2>1, <2>2, <2>3 DEF PlanTyped
  <2> QED BY <1>a, <2>2, <2>4 DEF TypeInv, DraftShape
<1>10. CASE CycleMode \/ UNCHANGED planVars
  BY <1>a, <1>10 DEF CycleMode, planVars, TypeInv, PlanTyped, DraftShape
<1>11. CASE Reopen
  <2>1. dispatch' \in [Place -> Dispatch] BY <1>a, <1>11, Restarted
  <2>2. /\ UNCHANGED <<subagent, mode, drafts, call, approved, cycles>>
        /\ draft' = NoCall /\ pending' = 0
    BY <1>11 DEF Reopen
  <2>3. pending' \in 0..Len(cycles') BY <1>e, <2>2
  <2>4. PlanTyped' BY <1>a, <2>1, <2>2, <2>3 DEF PlanTyped
  <2> QED BY <1>a, <2>2, <2>4 DEF TypeInv, DraftShape
<1>12. CASE AgentEnd
  <2>1. dispatch' \in [Place -> Dispatch] BY <1>a, <1>12, Ended
  <2>2. UNCHANGED <<subagent, mode, draft, drafts, call, approved, cycles>> /\ pending' = 0
    BY <1>12 DEF AgentEnd, sessionRest
  <2>3. pending' \in 0..Len(cycles') BY <1>e, <2>2
  <2>4. PlanTyped' BY <1>a, <2>1, <2>2, <2>3 DEF PlanTyped
  <2> QED BY <1>a, <2>2, <2>4 DEF TypeInv, DraftShape
<1>13. ASSUME NEW i \in Place, Timer(i) \/ Compacted(i) \/ Watchdog(i) PROVE TypeInv'
  <2>1. (\E d \in Dispatch : dispatch' = [dispatch EXCEPT ![i] = d]) /\ UNCHANGED <<sessionRest, pending>>
    BY <1>a, <1>13, Sent
  <2> QED BY <1>a, <2>1 DEF sessionRest, TypeInv, PlanTyped, DraftShape
<1> QED
  BY <1>1, <1>2, <1>4, <1>5, <1>6, <1>7, <1>8, <1>9, <1>10, <1>11, <1>12, <1>13 DEF PlanNext

-----------------------------------------------------------------------------
\* Only the pending cycle, whose handoff has not begun, is taken up by agent_end; a new
\* cycle is one nothing was sent for.
LEMMA DispatchPreserved ==
  ASSUME TypeInv, DispatchInv, [PlanNext]_planVars
  PROVE  DispatchInv'
<1>a. PlanTyped BY DEF TypeInv
<1>b. Len(cycles) \in Nat /\ pending \in 0..Len(cycles) /\ \A i \in Place : i \in Int /\ i > 0
  BY <1>a DEF PlanTyped, Place
<1>c. \A i \in Place : dispatch[i] \in Dispatch BY <1>a DEF PlanTyped
<1>1. CASE UNCHANGED <<cycles, dispatch>> /\ pending' \in {pending, 0}
  BY <1>1, <1>b DEF DispatchInv
<1>2. ASSUME NEW goal \in Text, NEW tasks \in Text, NEW planned \in BOOLEAN, NEW replaced \in BOOLEAN,
             StartCycle(goal, tasks, planned, replaced), UNCHANGED dispatch,
             pending' \in {pending, Len(cycles) + 1}
      PROVE  DispatchInv'
  <2>1. Len(cycles') = Len(cycles) + 1 BY <1>a, <1>2, CycleStarted
  <2> QED BY <1>b, <1>2, <2>1 DEF DispatchInv
<1>3. ASSUME NEW c \in Call, Plan(c) \/ Decline(c) \/ Feedback(c) \/ Handoff(c) \/ HandoffFails(c)
      PROVE  DispatchInv'
  <2>1. UNCHANGED <<cycles, dispatch, pending>>
    BY <1>3 DEF Plan, Decline, Feedback, Handoff, HandoffFails
  <2> QED BY <1>1, <2>1
<1>4. ASSUME NEW d \in Call, NEW p \in Part, Judge(d, p) PROVE DispatchInv'
  BY <1>1, <1>4 DEF Judge
<1>5. \A c \in Call, p \in Part : drafts[c][p].text \in Text
  BY <1>a DEF PlanTyped, Verdicts
<1>6. "goal" \in Part /\ "tasks" \in Part /\ "" \in Text BY DEF Part, Text
<1>7. ASSUME NEW c \in Call, StartAnalysis(c) PROVE DispatchInv'
  <2>1. draft \in Call BY <1>a, <1>7 DEF StartAnalysis, AllApproved, PlanTyped
  <2>2. /\ StartCycle(drafts[draft]["goal"].text, drafts[draft]["tasks"].text, TRUE, FALSE)
        /\ UNCHANGED <<pending, dispatch>>
    BY <1>7 DEF StartAnalysis
  <2>3. drafts[draft]["goal"].text \in Text /\ drafts[draft]["tasks"].text \in Text
    BY <1>5, <1>6, <2>1
  <2> QED BY <1>2, <2>2, <2>3
<1>8. ASSUME NEW c \in Call, PlanInSubagent(c) PROVE DispatchInv'
  <2>1. PICK content \in [Part -> Wording] : StartCycle(content["goal"], content["tasks"], FALSE, FALSE)
    BY <1>8 DEF PlanInSubagent
  <2>2. content["goal"] \in Text /\ content["tasks"] \in Text BY <1>6 DEF Text
  <2> QED BY <1>2, <1>8, <2>1, <2>2 DEF PlanInSubagent
<1>9. ASSUME NEW c \in Call, HandoffReady(c) PROVE DispatchInv'
  <2>1. CASE draft = NoCall BY <1>1, <1>9, <2>1 DEF HandoffReady
  <2>2. CASE draft # NoCall
    <3>1. draft \in Call /\ call[c].tasks \in Text /\ call[c].replaced \in BOOLEAN
      BY <1>a, <2>2 DEF PlanTyped, Calls
    <3>2. /\ StartCycle(drafts[draft]["goal"].text, call[c].tasks, TRUE, call[c].replaced)
          /\ pending' = Len(cycles) + 1 /\ UNCHANGED dispatch
      BY <1>9, <2>2 DEF HandoffReady
    <3>3. drafts[draft]["goal"].text \in Text BY <1>5, <1>6, <3>1
    <3> QED BY <1>2, <3>1, <3>2, <3>3
  <2> QED BY <2>1, <2>2
<1>10. CASE UpdateGoal BY <1>2, <1>6, <1>10 DEF UpdateGoal
<1>11. CASE CycleMode \/ UNCHANGED planVars BY <1>1, <1>11 DEF CycleMode, planVars
<1>12. CASE Reopen
  <2>1. UNCHANGED cycles /\ pending' = 0 BY <1>12 DEF Reopen
  <2>2. \A i \in Place : /\ Stage(dispatch[i]) => Stage(dispatch'[i])
                         /\ dispatch[i].at = "none" => dispatch'[i].at = "none"
    BY <1>a, <1>12, Restarted
  <2>3. \A i \in Place : i # pending' BY <1>b, <2>1
  <2> QED BY <2>1, <2>2, <2>3 DEF DispatchInv
<1>13. CASE AgentEnd
  <2>1. UNCHANGED cycles /\ pending' = 0 BY <1>13 DEF AgentEnd, sessionRest
  <2>2. /\ pending \in 1..Len(cycles)
        /\ \A i \in Place : dispatch'[i] = IF i = pending THEN [dispatch[i] EXCEPT !.at = "timer"]
                                           ELSE dispatch[i]
    BY <1>a, <1>13, Ended
  <2>3. \A i \in Place : Stage(dispatch'[i])
    <3> SUFFICES ASSUME NEW i \in Place PROVE Stage(dispatch'[i])
      OBVIOUS
    <3>1. CASE i # pending BY <2>2, <3>1 DEF DispatchInv
    <3>2. CASE i = pending
      <4>1. Stage(dispatch[i]) /\ dispatch[i].at = "none" BY <3>2 DEF DispatchInv
      <4>2. dispatch'[i] = [dispatch[i] EXCEPT !.at = "timer"] BY <2>2, <3>2
      <4> QED BY <1>c, <4>1, <4>2 DEF Stage, Dispatch
    <3> QED BY <3>1, <3>2
  <2>4. ASSUME NEW i \in Place, i > Len(cycles) PROVE dispatch'[i].at = "none"
    <3>1. i # pending BY <1>b, <2>2, <2>4
    <3> QED BY <2>2, <2>4, <3>1 DEF DispatchInv
  <2> QED BY <1>b, <2>1, <2>3, <2>4 DEF DispatchInv
<1>14. ASSUME NEW i \in Place, Timer(i) \/ Compacted(i) \/ Watchdog(i) PROVE DispatchInv'
  <2>1. /\ \E d \in Dispatch : dispatch' = [dispatch EXCEPT ![i] = d] /\ (Stage(dispatch[i]) => Stage(d))
        /\ dispatch[i].at = "timer" \/ dispatch[i].compact \/ dispatch[i].watchdog
        /\ UNCHANGED <<cycles, pending>>
    BY <1>a, <1>14, Sent DEF sessionRest
  <2>2. dispatch[i].at # "none" BY <2>1 DEF DispatchInv, Stage
  <2> QED BY <1>a, <2>1, <2>2 DEF DispatchInv, PlanTyped
<1> QED
  BY <1>3, <1>4, <1>7, <1>8, <1>9, <1>10, <1>11, <1>12, <1>13, <1>14 DEF PlanNext

-----------------------------------------------------------------------------
\* Another cycle that was not planned, or with approved tasks and an approved goal.
LEMMA StartsApproved ==
  ASSUME PlanTyped, ApprovedContentStarts, NEW goal \in Text, NEW tasks \in Text,
         NEW planned \in BOOLEAN, NEW replaced \in BOOLEAN,
         StartCycle(goal, tasks, planned, replaced), UNCHANGED approved,
         planned => /\ <<"tasks", tasks>> \in approved
                    /\ <<"goal", goal>> \in approved \/ replaced
  PROVE  ApprovedContentStarts'
<1>0. Len(cycles) \in Nat BY DEF PlanTyped
<1>1. /\ Len(cycles') = Len(cycles) + 1
      /\ \A i \in Cycle : cycles'[i] = [cycles[i] EXCEPT !.active = FALSE]
      /\ cycles'[Len(cycles) + 1] = [goal |-> goal, tasks |-> tasks, planned |-> planned,
                                     replaced |-> replaced, active |-> TRUE]
  BY CycleStarted
<1>2. Cycle' = 1..(Len(cycles) + 1) BY <1>1 DEF Cycle
<1> SUFFICES ASSUME NEW i \in 1..(Len(cycles) + 1), cycles'[i].planned
             PROVE  /\ <<"tasks", cycles'[i].tasks>> \in approved
                    /\ <<"goal", cycles'[i].goal>> \in approved \/ cycles'[i].replaced
  BY <1>2 DEF ApprovedContentStarts
<1>3. CASE i = Len(cycles) + 1 BY <1>1, <1>3
<1>4. CASE i # Len(cycles) + 1
  <2>1. i \in Cycle BY <1>0, <1>4 DEF Cycle
  <2>2. cycles[i] \in CycleRecord BY <2>1 DEF PlanTyped, Cycle
  <2>3. /\ cycles'[i].planned = cycles[i].planned /\ cycles'[i].tasks = cycles[i].tasks
        /\ cycles'[i].goal = cycles[i].goal /\ cycles'[i].replaced = cycles[i].replaced
    BY <1>1, <2>1, <2>2 DEF CycleRecord
  <2> QED BY <2>1, <2>3 DEF ApprovedContentStarts
<1> QED BY <1>3, <1>4

\* An approval is carried over only to the words it was given to, and nothing else but the
\* user's verdict makes one.
LEMMA ApprovalPreserved ==
  ASSUME TypeInv, ApprovalInv, [PlanNext]_planVars
  PROVE  ApprovalInv'
<1>a. PlanTyped /\ DraftShape /\ ApprovalShape /\ HandoffShape /\ ApprovedContentStarts
  BY DEF TypeInv, ApprovalInv
<1>b. \A c \in Call : call[c] \in Calls BY <1>a DEF PlanTyped
<1>c. \A c \in Call, p \in Part : drafts[c][p].text \in Text
  BY <1>a DEF PlanTyped, Verdicts
<1>d. "goal" \in Part /\ "tasks" \in Part /\ "" \in Text BY DEF Part, Text
<1>1. ASSUME UNCHANGED cycles, approved \subseteq approved' PROVE ApprovedContentStarts'
  BY <1>a, <1>1 DEF ApprovedContentStarts, Cycle
<1>2. ASSUME NEW c \in Call, Plan(c) PROVE ApprovalInv'
  <2> PICK content \in [Part -> Wording] :
           /\ call' \in [Call -> Calls] /\ drafts' \in [Call -> Verdicts]
           /\ call[c].pc = "idle" /\ call'[c].pc = "review" /\ draft' = c
           /\ \A d \in Call \ {c} :
                /\ call'[d].pc = call[d].pc /\ call'[d].tasks = call[d].tasks
                /\ call[d].pc = "handoff" => call'[d].replaced
                /\ drafts'[d] = drafts[d]
           /\ \A p \in Part : drafts'[c][p].text = content[p] /\ (drafts'[c][p].ok => Carry(p, content[p]))
    BY <1>a, <1>2, Planned
  <2>1. UNCHANGED <<approved, cycles>> BY <1>2 DEF Plan
  <2>2. ASSUME NEW p \in Part, drafts'[c][p].ok PROVE <<p, drafts'[c][p].text>> \in approved
    <3>1. Carry(p, content[p]) BY <2>2
    <3>2. draft \in Call /\ drafts[draft][p] = [text |-> content[p], ok |-> TRUE]
      BY <1>a, <3>1 DEF Carry, PlanTyped
    <3>3. drafts[draft][p].ok /\ drafts[draft][p].text = content[p] BY <3>2
    <3> QED BY <1>a, <3>2, <3>3 DEF ApprovalShape
  <2>3. ApprovalShape'
    <3> SUFFICES ASSUME NEW d \in Call, NEW p \in Part, drafts'[d][p].ok
                 PROVE  <<p, drafts'[d][p].text>> \in approved
      BY <2>1 DEF ApprovalShape
    <3>1. CASE d = c BY <2>2, <3>1
    <3>2. CASE d # c
      <4>1. drafts'[d] = drafts[d] BY <3>2
      <4> QED BY <1>a, <4>1 DEF ApprovalShape
    <3> QED BY <3>1, <3>2
  <2>4. HandoffShape'
    <3> SUFFICES ASSUME NEW d \in Call, call'[d].pc = "handoff"
                 PROVE  <<"tasks", call'[d].tasks>> \in approved /\ call'[d].replaced
      BY <2>1 DEF HandoffShape
    <3>1. d # c OBVIOUS
    <3>2. call[d].pc = "handoff" /\ call'[d].tasks = call[d].tasks /\ call'[d].replaced BY <3>1
    <3> QED BY <1>a, <3>2 DEF HandoffShape
  <2> QED BY <1>1, <2>1, <2>3, <2>4 DEF ApprovalInv
<1>3. ASSUME NEW d \in Call, NEW p \in Part, Judge(d, p) PROVE ApprovalInv'
  <2>1. PICK ok \in BOOLEAN : Verdict(d, p, ok) BY <1>3 DEF Judge
  <2>2. UNCHANGED <<draft, call, cycles>> BY <1>3 DEF Judge
  <2>3. /\ drafts'[d][p].ok = ok
        /\ \A c \in Call, q \in Part : drafts'[c][q].text = drafts[c][q].text
        /\ \A c \in Call, q \in Part : c # d \/ q # p => drafts'[c][q] = drafts[c][q]
    BY <1>a, <2>1, VerdictGiven
  <2>4. approved \subseteq approved' /\ (ok => <<p, drafts[d][p].text>> \in approved')
    BY <2>1 DEF Verdict
  <2>5. ApprovalShape'
    <3> SUFFICES ASSUME NEW c \in Call, NEW q \in Part, drafts'[c][q].ok
                 PROVE  <<q, drafts'[c][q].text>> \in approved'
      BY DEF ApprovalShape
    <3>1. CASE c = d /\ q = p BY <2>3, <2>4, <3>1
    <3>2. CASE c # d \/ q # p
      <4>1. drafts'[c][q] = drafts[c][q] BY <2>3, <3>2
      <4> QED BY <1>a, <2>4, <4>1 DEF ApprovalShape
    <3> QED BY <3>1, <3>2
  <2>6. draft # NoCall => drafts'[draft]["goal"].text = drafts[draft]["goal"].text
    BY <1>a, <1>d, <2>3 DEF PlanTyped
  <2>7. HandoffShape' BY <1>a, <2>2, <2>4, <2>6 DEF HandoffShape
  <2> QED BY <1>1, <2>2, <2>4, <2>5, <2>7 DEF ApprovalInv
<1>4. ASSUME NEW c \in Call, End(c), draft' \in {draft, NoCall}, UNCHANGED <<drafts, approved>>
      PROVE  ApprovalShape' /\ HandoffShape'
  <2>1. call'[c].pc = "done" /\ \A d \in Call \ {c} : call'[d] = call[d] BY <1>a, <1>4, EndsCall
  <2>2. ApprovalShape' BY <1>a, <1>4 DEF ApprovalShape
  <2>3. HandoffShape'
    <3> SUFFICES ASSUME NEW d \in Call, call'[d].pc = "handoff"
                 PROVE  /\ <<"tasks", call'[d].tasks>> \in approved
                        /\ draft' # NoCall => <<"goal", drafts[draft']["goal"].text>> \in approved \/ call'[d].replaced
      BY <1>4 DEF HandoffShape
    <3>1. d # c BY <2>1
    <3>2. call'[d] = call[d] BY <2>1, <3>1
    <3> QED BY <1>a, <1>4, <3>2 DEF HandoffShape
  <2> QED BY <2>2, <2>3
<1>5. ASSUME NEW c \in Call, Decline(c) \/ Feedback(c) \/ HandoffFails(c) PROVE ApprovalInv'
  <2>1. End(c) /\ draft' \in {draft, NoCall} /\ UNCHANGED <<drafts, approved, cycles>>
    BY <1>5 DEF Decline, Feedback, HandoffFails, RunHandoff, End
  <2> QED BY <1>1, <1>4, <2>1 DEF ApprovalInv
<1>6. ASSUME NEW c \in Call, StartAnalysis(c) PROVE ApprovalInv'
  <2>1. /\ StartCycle(drafts[draft]["goal"].text, drafts[draft]["tasks"].text, TRUE, FALSE)
        /\ End(c) /\ AllApproved /\ draft' = NoCall /\ UNCHANGED <<drafts, approved>>
    BY <1>6 DEF StartAnalysis
  <2>2. draft \in Call BY <1>a, <2>1 DEF AllApproved, PlanTyped
  <2>3. \A p \in Part : <<p, drafts[draft][p].text>> \in approved
    BY <1>a, <2>1, <2>2 DEF AllApproved, ApprovalShape
  <2>4. drafts[draft]["goal"].text \in Text /\ drafts[draft]["tasks"].text \in Text
    BY <1>c, <1>d, <2>2
  <2>5. ApprovedContentStarts' BY <1>a, <1>d, <2>1, <2>3, <2>4, StartsApproved
  <2> QED BY <1>4, <2>1, <2>5 DEF ApprovalInv
<1>7. ASSUME NEW c \in Call, PlanInSubagent(c) PROVE ApprovalInv'
  <2>1. PICK content \in [Part -> Wording] : StartCycle(content["goal"], content["tasks"], FALSE, FALSE)
    BY <1>7 DEF PlanInSubagent
  <2>2. content["goal"] \in Text /\ content["tasks"] \in Text BY <1>d DEF Text
  <2>3. End(c) /\ UNCHANGED <<draft, drafts, approved>> BY <1>7 DEF PlanInSubagent
  <2>4. ApprovedContentStarts' BY <1>a, <2>1, <2>2, <2>3, StartsApproved
  <2> QED BY <1>4, <2>3, <2>4 DEF ApprovalInv
<1>8. ASSUME NEW c \in Call, Handoff(c) PROVE ApprovalInv'
  <2> DEFINE t == drafts[draft]["tasks"].text
  <2>1. /\ UNCHANGED <<draft, drafts, approved, cycles>> /\ AllApproved
        /\ call' = [call EXCEPT ![c] = [call[c] EXCEPT !.pc = "handoff", !.tasks = t]]
    BY <1>a, <1>8 DEF Handoff, PlanTyped
  <2>2. draft \in Call BY <1>a, <2>1 DEF AllApproved, PlanTyped
  <2>3. \A p \in Part : <<p, drafts[draft][p].text>> \in approved
    BY <1>a, <2>1, <2>2 DEF AllApproved, ApprovalShape
  <2>4. <<"tasks", t>> \in approved /\ <<"goal", drafts[draft]["goal"].text>> \in approved
    BY <1>d, <2>3
  <2> HIDE DEF t
  <2>5. call'[c].tasks = t /\ \A d \in Call \ {c} : call'[d] = call[d]
    BY <1>a, <1>b, <2>1 DEF PlanTyped, Calls
  <2>6. HandoffShape'
    <3> SUFFICES ASSUME NEW d \in Call, call'[d].pc = "handoff"
                 PROVE  <<"tasks", call'[d].tasks>> \in approved
      BY <2>1, <2>4 DEF HandoffShape
    <3>1. CASE d = c BY <2>4, <2>5, <3>1
    <3>2. CASE d # c
      <4>1. call'[d] = call[d] BY <2>5, <3>2
      <4> QED BY <1>a, <4>1 DEF HandoffShape
    <3> QED BY <3>1, <3>2
  <2>7. ApprovalShape' BY <1>a, <2>1 DEF ApprovalShape
  <2> QED BY <1>1, <2>1, <2>6, <2>7 DEF ApprovalInv
<1>9. ASSUME NEW c \in Call, HandoffReady(c) PROVE ApprovalInv'
  <2>1. End(c) /\ call[c].pc = "handoff" /\ draft' \in {draft, NoCall} /\ UNCHANGED <<drafts, approved>>
    BY <1>9 DEF HandoffReady, RunHandoff
  <2>2. CASE draft = NoCall
    <3>1. UNCHANGED cycles BY <1>9, <2>2 DEF HandoffReady
    <3> QED BY <1>1, <1>4, <2>1, <3>1 DEF ApprovalInv
  <2>3. CASE draft # NoCall
    <3>1. draft \in Call /\ call[c].tasks \in Text /\ call[c].replaced \in BOOLEAN
      BY <1>a, <1>b, <2>3 DEF PlanTyped, Calls
    <3>2. StartCycle(drafts[draft]["goal"].text, call[c].tasks, TRUE, call[c].replaced)
      BY <1>9, <2>3 DEF HandoffReady
    <3>3. drafts[draft]["goal"].text \in Text BY <1>c, <1>d, <3>1
    <3>4. /\ <<"tasks", call[c].tasks>> \in approved
          /\ <<"goal", drafts[draft]["goal"].text>> \in approved \/ call[c].replaced
      BY <1>a, <2>1, <2>3 DEF HandoffShape
    <3>5. ApprovedContentStarts' BY <1>a, <2>1, <3>1, <3>2, <3>3, <3>4, StartsApproved
    <3> QED BY <1>4, <2>1, <3>5 DEF ApprovalInv
  <2> QED BY <2>2, <2>3
<1>10. ASSUME UNCHANGED <<drafts, call, approved>>, draft' \in {draft, NoCall}
       PROVE  ApprovalShape' /\ HandoffShape'
  BY <1>a, <1>10 DEF ApprovalShape, HandoffShape
<1>11. CASE UpdateGoal
  <2>1. ApprovedContentStarts' BY <1>a, <1>d, <1>11, StartsApproved DEF UpdateGoal
  <2> QED BY <1>10, <1>11, <2>1 DEF UpdateGoal, ApprovalInv
<1>12. ASSUME UNCHANGED <<drafts, call, approved, cycles>>, draft' \in {draft, NoCall} PROVE ApprovalInv'
  BY <1>1, <1>10, <1>12 DEF ApprovalInv
<1>13. CASE CycleMode \/ Reopen \/ AgentEnd \/ UNCHANGED planVars
  BY <1>12, <1>13 DEF CycleMode, Reopen, AgentEnd, sessionRest, planVars
<1>14. ASSUME NEW i \in Place, Timer(i) \/ Compacted(i) \/ Watchdog(i) PROVE ApprovalInv'
  BY <1>12, <1>14 DEF Timer, Compacted, Watchdog, sessionRest
<1> QED
  BY <1>2, <1>3, <1>5, <1>6, <1>7, <1>8, <1>9, <1>11, <1>13, <1>14 DEF PlanNext

-----------------------------------------------------------------------------
LEMMA PlanInitially == PlanInit => TypeInv /\ ApprovalInv /\ DispatchInv
<1> SUFFICES ASSUME PlanInit PROVE TypeInv /\ ApprovalInv /\ DispatchInv
  OBVIOUS
<1>1. cycles \in Seq(CycleRecord) /\ Len(cycles) = 0 BY DEF PlanInit
<1>2. NoDraft \in Verdicts BY DEF NoDraft, Verdicts, Text
<1>3. NoCallYet \in Calls BY DEF NoCallYet, Calls, Text
<1>4. NoDispatch \in Dispatch BY DEF NoDispatch, Dispatch
<1>5. PlanTyped BY <1>1, <1>2, <1>3, <1>4 DEF PlanInit, PlanTyped
<1>6. DraftShape BY DEF PlanInit, DraftShape, NoCallYet
<1>7. ApprovalShape BY DEF PlanInit, ApprovalShape, NoDraft
<1>8. HandoffShape BY DEF PlanInit, HandoffShape, NoCallYet
<1>9. ApprovedContentStarts BY <1>1 DEF ApprovedContentStarts, Cycle
<1>10. DispatchInv BY DEF PlanInit, DispatchInv, NoDispatch, Stage
<1> QED BY <1>5, <1>6, <1>7, <1>8, <1>9, <1>10 DEF TypeInv, ApprovalInv

\* The tool's drafts, calls, approvals, cycles and handoffs are well typed.
THEOREM PlanTypeCorrect == PlanSpec => []PlanTypeOK
<1>1. TypeInv => PlanTypeOK
  <2> SUFFICES ASSUME TypeInv PROVE PlanTypeOK
    OBVIOUS
  <2>1. \A c \in Call, p \in Part : drafts[c][p].ok \in BOOLEAN BY DEF TypeInv, PlanTyped, Verdicts
  <2>2. \A c \in Call : call[c].pc \in {"idle", "review", "handoff", "done"}
    BY DEF TypeInv, PlanTyped, Calls
  <2>3. \A i \in Place : dispatch[i].at \in {"none", "timer", "compacting", "done", "gone"}
    BY DEF TypeInv, PlanTyped, Dispatch
  <2> QED BY <2>1, <2>2, <2>3 DEF PlanTypeOK, TypeInv, PlanTyped
<1> QED BY <1>1, PlanInitially, TypePreserved, PTL DEF PlanSpec

\* computeGoalContextReview and its siblings carry an approval over only to the words it
\* was given to: whatever number of calls share the draft, with whatever wordings, a cycle
\* starts with tasks and a goal the user approved, or a goal that took its place.
THEOREM ApprovalsHold == PlanSpec => []ApprovedContentStarts
<1>1. TypeInv /\ ApprovalInv /\ [PlanNext]_planVars => (TypeInv /\ ApprovalInv)'
  BY TypePreserved, ApprovalPreserved
<1>2. ApprovalInv => ApprovedContentStarts BY DEF ApprovalInv
<1> QED BY <1>1, <1>2, PlanInitially, PTL DEF PlanSpec

\* dispatchImplementationHandoff sends its prompt once, in whichever order compaction and
\* watchdog call back, for any number of handoffs and restarts.
THEOREM OnePromptPerHandoff == PlanSpec => []HandoffSentOnce
<1>1. TypeInv /\ DispatchInv /\ [PlanNext]_planVars => (TypeInv /\ DispatchInv)'
  BY TypePreserved, DispatchPreserved
<1>2. DispatchInv => HandoffSentOnce
  <2> SUFFICES ASSUME DispatchInv, NEW i \in Place
               PROVE  /\ dispatch[i].sends <= 1
                      /\ dispatch[i].at = "done" => dispatch[i].sends = 1
                      /\ dispatch[i].at = "compacting" => dispatch[i].watchdog
    BY DEF HandoffSentOnce
  <2> QED BY DEF DispatchInv, Stage
<1> QED BY <1>1, <1>2, PlanInitially, PTL DEF PlanSpec

HIDE PlanAssumption

-----------------------------------------------------------------------------
\* The footer.
USE RepositoryStatusAssumption

HeadBranch == GitBranch \cup {Detached, Null}
Lookup == [generation : Nat, key : Key]
Tracker ==
  [targetDirectory : Directory \cup {Null}, branchCache : HeadBranch, fallbackBranch : HeadBranch,
   watching : BOOLEAN, pullRequestKey : Key \cup {Null}, pullRequest : Lookup \cup {Null},
   activeLookup : Nat, lookupGeneration : Nat, refreshPending : BOOLEAN, disposed : BOOLEAN,
   owed : BOOLEAN, newest : Nat]

\* The pull request of a tracker's fields fits them, and its lookups are of a key.
Shows(t) ==
  /\ t \in Tracker
  /\ t.pullRequest # Null => /\ t.pullRequest.key = t.pullRequestKey
                             /\ t.pullRequest.generation = t.newest
  /\ t.newest <= t.lookupGeneration /\ t.activeLookup <= t.lookupGeneration
  /\ t.disposed => t.pullRequestKey = Null /\ t.targetDirectory = Null /\ ~t.watching
  /\ t.activeLookup # 0 => t.pullRequestKey # Null
  /\ t.pullRequestKey # Null => t.targetDirectory # Null

\* What is owed will be looked up when the active lookup ends.
Pays(t) == t.owed /\ t.pullRequestKey # Null => t.activeLookup # 0 /\ t.refreshPending

Fits(t) == Shows(t) /\ Pays(t)

\* From t to u, generations grow; a lookup that is started is newer than all of t's.
Follows(t, u) ==
  /\ u.lookupGeneration >= t.lookupGeneration
  /\ u.activeLookup \in {0, t.activeLookup} \/ u.activeLookup > t.lookupGeneration

LEMMA KeyTyped == ASSUME NEW t \in Tracker PROVE KeyOf(t) \in Key \cup {Null} /\ (KeyOf(t) # Null => t.targetDirectory # Null)
  BY DEF KeyOf, Key, Tracker

LEMMA MaxOfTwo == ASSUME NEW a \in Nat, NEW b \in Nat, a <= b PROVE Max({a, b}) = b
  BY DEF Max

\* A refresh starts a lookup, which pays what is owed, or leaves it to the one under way.
LEMMA RefreshFits ==
  ASSUME NEW t, Shows(t), t.activeLookup = 0 \/ Pays(t)
  PROVE  /\ Fits(Refresh(t)) /\ Follows(t, Refresh(t))
         /\ Refresh(t).targetDirectory = t.targetDirectory /\ Refresh(t).branchCache = t.branchCache
         /\ Refresh(t).fallbackBranch = t.fallbackBranch /\ Refresh(t).pullRequestKey = t.pullRequestKey
         /\ Refresh(t).disposed = t.disposed /\ Refresh(t).watching = t.watching
<1>0. t \in Tracker BY DEF Shows
<1>1. CASE t.disposed \/ t.targetDirectory = Null \/ t.pullRequestKey = Null
  <2>1. Refresh(t) = t BY <1>1 DEF Refresh
  <2>2. t.pullRequestKey = Null BY <1>1 DEF Shows
  <2> QED BY <1>0, <2>1, <2>2 DEF Fits, Pays, Follows, Tracker
<1>2. CASE ~(t.disposed \/ t.targetDirectory = Null \/ t.pullRequestKey = Null) /\ t.activeLookup # 0
  <2>1. Refresh(t) = [t EXCEPT !.refreshPending = TRUE, !.owed = TRUE] BY <1>2 DEF Refresh
  <2>2. Refresh(t) \in Tracker BY <1>0, <2>1 DEF Tracker
  <2> QED BY <1>0, <1>2, <2>1, <2>2 DEF Fits, Shows, Pays, Follows, Tracker
<1>3. CASE ~(t.disposed \/ t.targetDirectory = Null \/ t.pullRequestKey = Null) /\ t.activeLookup = 0
  <2>0. t.lookupGeneration + 1 \in Nat BY <1>0 DEF Tracker
  <2>1. Refresh(t) = [t EXCEPT !.lookupGeneration = t.lookupGeneration + 1,
                               !.activeLookup = t.lookupGeneration + 1, !.owed = FALSE]
    BY <1>0, <1>3 DEF Refresh, Tracker
  <2>2. Refresh(t) \in Tracker BY <1>0, <2>0, <2>1 DEF Tracker
  <2> QED BY <1>0, <1>3, <2>1, <2>2 DEF Fits, Shows, Pays, Follows, Tracker
<1> QED BY <1>1, <1>2, <1>3

LEMMA CancelFits ==
  ASSUME NEW t \in Tracker, t.newest <= t.lookupGeneration, ~t.disposed
  PROVE  LET new == [CancelLookup(t) EXCEPT !.pullRequestKey = KeyOf(t), !.pullRequest = Null, !.newest = 0]
         IN  /\ new.pullRequestKey = KeyOf(t) /\ new.activeLookup = 0 /\ new.owed = t.owed
             /\ new.lookupGeneration = t.lookupGeneration + 1 /\ new \in Tracker
             /\ new.pullRequest = Null /\ new.newest = 0 /\ ~new.disposed
             /\ new.targetDirectory = t.targetDirectory /\ new.branchCache = t.branchCache
             /\ new.fallbackBranch = t.fallbackBranch /\ new.watching = t.watching
<1>1. t.lookupGeneration + 1 \in Nat /\ KeyOf(t) \in Key \cup {Null} BY KeyTyped DEF Tracker
<1> DEFINE c == [t EXCEPT !.lookupGeneration = t.lookupGeneration + 1, !.activeLookup = 0, !.refreshPending = FALSE]
<1>2. CancelLookup(t) = c BY DEF CancelLookup, Tracker
<1>3. c \in Tracker BY <1>1 DEF Tracker
<1> DEFINE new == [c EXCEPT !.pullRequestKey = KeyOf(t), !.pullRequest = Null, !.newest = 0]
<1>4. new \in Tracker BY <1>1, <1>3 DEF Tracker
<1> QED BY <1>1, <1>2, <1>4 DEF Tracker

\* Whatever became of directory and branch: a pull request of another key is dropped, and the
\* new key looked up.
LEMMA SyncFits ==
  ASSUME NEW t \in Tracker, ~t.disposed, t.newest <= t.lookupGeneration,
         KeyOf(t) = t.pullRequestKey => Fits(t)
  PROVE  LET u == SyncPullRequestTarget(t)
         IN  /\ Fits(u) /\ u.pullRequestKey = KeyOf(u) /\ Follows(t, u)
             /\ u.targetDirectory = t.targetDirectory
<1> DEFINE new == [CancelLookup(t) EXCEPT !.pullRequestKey = KeyOf(t), !.pullRequest = Null, !.newest = 0]
<1>1. CASE KeyOf(t) = t.pullRequestKey
  <2>1. SyncPullRequestTarget(t) = t BY <1>1 DEF SyncPullRequestTarget
  <2> QED BY <1>1, <2>1 DEF Follows, Tracker
<1>2. CASE KeyOf(t) # t.pullRequestKey
  <2>1. SyncPullRequestTarget(t) = Refresh(new) BY <1>2 DEF SyncPullRequestTarget
  <2>2. /\ new.pullRequestKey = KeyOf(t) /\ new.activeLookup = 0 /\ new.owed = t.owed
        /\ new.lookupGeneration = t.lookupGeneration + 1 /\ new \in Tracker
        /\ new.pullRequest = Null /\ new.newest = 0 /\ ~new.disposed
        /\ new.targetDirectory = t.targetDirectory /\ new.branchCache = t.branchCache
        /\ new.fallbackBranch = t.fallbackBranch /\ new.watching = t.watching
    BY CancelFits
  <2> HIDE DEF new
  <2>3. t.lookupGeneration \in Nat /\ (KeyOf(t) # Null => t.targetDirectory # Null)
    BY KeyTyped DEF Tracker
  <2>4. Shows(new) BY <2>2, <2>3 DEF Shows
  <2> DEFINE u == Refresh(new)
  <2>5. /\ Fits(u) /\ Follows(new, u) /\ u.pullRequestKey = KeyOf(t)
        /\ u.targetDirectory = t.targetDirectory /\ u.branchCache = t.branchCache
        /\ u.fallbackBranch = t.fallbackBranch
    BY <2>2, <2>4, RefreshFits
  <2> HIDE DEF u
  <2>6. KeyOf(u) = KeyOf(t) BY <2>5 DEF KeyOf, GetBranch
  <2>7. u \in Tracker BY <2>5 DEF Fits, Shows
  <2>8. Follows(t, u) BY <2>2, <2>3, <2>5, <2>7 DEF Follows, Tracker
  <2> QED BY <2>1, <2>5, <2>6, <2>8 DEF u
<1> QED BY <1>1, <1>2

-----------------------------------------------------------------------------
\* The lookups under way are known to the tracker's fields, its active one among them.
Known(t, ls) ==
  /\ \A l \in ls : l \in Lookup /\ l.generation # 0 /\ l.generation <= t.lookupGeneration
  /\ t.activeLookup # 0 => \E l \in ls : l.generation = t.activeLookup

StatusInv ==
  /\ heads \in [Directory -> HeadBranch]
  /\ Fits(tracker) /\ tracker.pullRequestKey = KeyOf(tracker)
  /\ Known(tracker, lookups)
  /\ noticed => tracker.targetDirectory # Null
  /\ noticed \in BOOLEAN

LEMMA BecomeKnown ==
  ASSUME StatusInv, NEW t, NEW others, others \subseteq lookups, Fits(t), Follows(tracker, t),
         t.activeLookup # 0 /\ t.activeLookup = tracker.activeLookup =>
           \E l \in others : l.generation = t.activeLookup,
         Become(t, others)
  PROVE  tracker' = t /\ Known(tracker', lookups')
<1>1. t \in Tracker /\ tracker \in Tracker BY DEF StatusInv, Fits, Shows
<1>2. \A l \in others : l \in Lookup /\ l.generation # 0 /\ l.generation <= t.lookupGeneration
  BY <1>1 DEF StatusInv, Known, Follows, Tracker, Lookup
<1>3. tracker' = t BY DEF Become
<1>4. CASE t.activeLookup \in {0, tracker.activeLookup}
  <2>1. lookups' = others BY <1>4 DEF Become
  <2> QED BY <1>2, <1>3, <1>4, <2>1 DEF Known
<1>5. CASE t.activeLookup \notin {0, tracker.activeLookup}
  <2> DEFINE new == [generation |-> t.activeLookup, key |-> t.pullRequestKey]
  <2>1. lookups' = others \cup {new} BY <1>5 DEF Become
  <2>2. t.pullRequestKey \in Key BY <1>1, <1>5 DEF Fits, Shows, Tracker
  <2>3. new \in Lookup /\ new.generation # 0 /\ new.generation <= t.lookupGeneration
    BY <1>1, <1>5, <2>2 DEF Fits, Shows, Lookup, Tracker
  <2> QED BY <1>2, <1>3, <2>1, <2>3 DEF Known
<1> QED BY <1>4, <1>5

LEMMA InitHolds == ASSUME StatusInit PROVE StatusInv
<1>1. heads \in [Directory -> HeadBranch] BY DEF StatusInit, HeadBranch
<1>2. tracker \in Tracker BY DEF StatusInit, NoTracker, Tracker, HeadBranch
<1>3. Fits(tracker) BY <1>2 DEF StatusInit, NoTracker, Fits, Shows, Pays
<1>4. KeyOf(tracker) = Null BY DEF StatusInit, NoTracker, KeyOf
<1> QED BY <1>1, <1>3, <1>4 DEF StatusInit, NoTracker, StatusInv, Known

LEMMA SyncTargetKeeps ==
  ASSUME StatusInv, NEW d \in Directory, NEW fallback \in GitBranch \cup {Null},
         NEW watching \in BOOLEAN, NEW slips \in GitBranch \cup {heads[d]},
         SyncTarget(d, fallback, watching, slips)
  PROVE  StatusInv'
<1>1. tracker \in Tracker /\ ~tracker.disposed /\ d # Null
  BY DEF StatusInv, Fits, Shows, SyncTarget
<1> DEFINE t == IF d # tracker.targetDirectory
                THEN [tracker EXCEPT !.fallbackBranch = fallback, !.targetDirectory = d,
                                     !.branchCache = heads[d], !.watching = watching]
                ELSE [tracker EXCEPT !.fallbackBranch = fallback]
           u == SyncPullRequestTarget(t)
<1>2. Become(u, lookups)
  BY <1>1 DEF SyncTarget, ReadBranchFromHead, Tracker
<1>3. heads[d] \in HeadBranch BY DEF StatusInv
<1>4. t \in Tracker BY <1>1, <1>3 DEF Tracker, HeadBranch
<1>5. /\ t.disposed = tracker.disposed /\ t.newest = tracker.newest
      /\ t.lookupGeneration = tracker.lookupGeneration /\ t.activeLookup = tracker.activeLookup
      /\ t.pullRequestKey = tracker.pullRequestKey /\ t.pullRequest = tracker.pullRequest
      /\ t.owed = tracker.owed /\ t.refreshPending = tracker.refreshPending
      /\ t.targetDirectory = d
  BY <1>1 DEF Tracker
<1> HIDE DEF t
<1>6. Fits(t)
  BY <1>1, <1>4, <1>5 DEF StatusInv, Fits, Shows, Pays
<1>7. /\ Fits(u) /\ u.pullRequestKey = KeyOf(u) /\ Follows(t, u) /\ u.targetDirectory = d
  BY <1>1, <1>4, <1>5, <1>6, SyncFits DEF Fits, Shows
<1> HIDE DEF u
<1>8. Follows(tracker, u) BY <1>5, <1>7 DEF Follows
<1>9. tracker' = u /\ Known(tracker', lookups')
  BY <1>2, <1>7, <1>8, BecomeKnown DEF StatusInv, Known
<1>10. heads' \in [Directory -> HeadBranch]
  BY DEF StatusInv, SyncTarget, HeadBranch
<1>11. noticed' \in BOOLEAN BY DEF SyncTarget, StatusInv
<1> QED BY <1>1, <1>7, <1>9, <1>10, <1>11 DEF StatusInv

LEMMA HeadNoticedKeeps == ASSUME StatusInv, HeadNoticed PROVE StatusInv'
<1>1. tracker \in Tracker /\ tracker.targetDirectory \in Directory /\ ~tracker.disposed
  BY DEF StatusInv, Fits, Shows, HeadNoticed, Tracker
<1> DEFINE t == [tracker EXCEPT !.branchCache = heads[tracker.targetDirectory]]
           u == SyncPullRequestTarget(t)
<1>2. Become(u, lookups) BY DEF HeadNoticed, ReadBranchFromHead
<1>3. heads[tracker.targetDirectory] \in HeadBranch BY <1>1 DEF StatusInv
<1>4. t \in Tracker BY <1>1, <1>3 DEF Tracker
<1>5. /\ t.disposed = tracker.disposed /\ t.newest = tracker.newest
      /\ t.lookupGeneration = tracker.lookupGeneration /\ t.activeLookup = tracker.activeLookup
      /\ t.pullRequestKey = tracker.pullRequestKey /\ t.pullRequest = tracker.pullRequest
      /\ t.owed = tracker.owed /\ t.refreshPending = tracker.refreshPending
      /\ t.targetDirectory = tracker.targetDirectory /\ t.watching = tracker.watching
  BY <1>1 DEF Tracker
<1> HIDE DEF t
<1>6. Fits(t) BY <1>1, <1>4, <1>5 DEF StatusInv, Fits, Shows, Pays
<1>7. /\ Fits(u) /\ u.pullRequestKey = KeyOf(u) /\ Follows(t, u)
  BY <1>1, <1>4, <1>5, <1>6, SyncFits DEF Fits, Shows
<1> HIDE DEF u
<1>8. Follows(tracker, u) BY <1>5, <1>7 DEF Follows
<1>9. tracker' = u /\ Known(tracker', lookups')
  BY <1>2, <1>7, <1>8, BecomeKnown DEF StatusInv, Known
<1> QED BY <1>7, <1>9 DEF StatusInv, HeadNoticed

LEMMA RefreshAskedKeeps == ASSUME StatusInv, RefreshAsked PROVE StatusInv'
<1> DEFINE u == Refresh(tracker)
<1>1. Shows(tracker) /\ Pays(tracker) BY DEF StatusInv, Fits
<1>2. /\ Fits(u) /\ Follows(tracker, u) /\ u.targetDirectory = tracker.targetDirectory
      /\ u.branchCache = tracker.branchCache /\ u.fallbackBranch = tracker.fallbackBranch
      /\ u.pullRequestKey = tracker.pullRequestKey
  BY <1>1, RefreshFits
<1>3. Become(u, lookups) BY DEF RefreshAsked
<1> HIDE DEF u
<1>4. KeyOf(u) = KeyOf(tracker) BY <1>2 DEF KeyOf, GetBranch
<1>5. tracker' = u /\ Known(tracker', lookups')
  BY <1>2, <1>3, BecomeKnown DEF StatusInv, Known
<1> QED BY <1>2, <1>4, <1>5 DEF StatusInv, RefreshAsked

LEMMA DisposeKeeps == ASSUME StatusInv, Dispose PROVE StatusInv'
<1> DEFINE u == Disposed(tracker)
<1>1. tracker \in Tracker BY DEF StatusInv, Fits, Shows
<1>2. tracker.lookupGeneration + 1 \in Nat /\ Null \in HeadBranch BY <1>1 DEF Tracker, HeadBranch
<1> DEFINE c == CancelLookup(tracker)
           d == [c EXCEPT !.disposed = TRUE, !.targetDirectory = Null, !.watching = FALSE,
                          !.fallbackBranch = Null]
<1>3. /\ c \in Tracker /\ c.lookupGeneration = tracker.lookupGeneration + 1
      /\ c.activeLookup = 0 /\ c.newest = tracker.newest
  BY <1>1, <1>2 DEF CancelLookup, Tracker
<1> HIDE DEF c
<1>4. d \in Tracker /\ u = [d EXCEPT !.branchCache = Null, !.pullRequest = Null, !.pullRequestKey = Null]
  <2>1. d \in Tracker BY <1>2, <1>3 DEF Tracker
  <2>2. u = [d EXCEPT !.branchCache = Null, !.pullRequest = Null, !.pullRequestKey = Null]
    BY <1>3 DEF Disposed, c, Tracker
  <2> QED BY <2>1, <2>2
<1> HIDE DEF d
<1>5. u \in Tracker BY <1>2, <1>4 DEF Tracker
<1>6. /\ u.lookupGeneration = tracker.lookupGeneration + 1 /\ u.activeLookup = 0
      /\ u.targetDirectory = Null /\ ~u.watching /\ u.pullRequest = Null
      /\ u.pullRequestKey = Null /\ u.newest = tracker.newest
  BY <1>3, <1>4, <1>5 DEF Tracker, d
<1>7. Become(u, lookups) BY DEF Dispose
<1> HIDE DEF u
<1>8. Fits(u) /\ Follows(tracker, u)
  BY <1>1, <1>6, <1>5 DEF StatusInv, Fits, Shows, Pays, Follows, Tracker
<1>9. KeyOf(u) = Null BY <1>6 DEF KeyOf
<1>10. tracker' = u /\ Known(tracker', lookups')
  BY <1>6, <1>7, <1>8, BecomeKnown
<1> QED BY <1>6, <1>8, <1>9, <1>10 DEF StatusInv, Dispose

\* The answer of a lookup that is not the active one, or of the active one: with a refresh that
\* waits, which is looked up now, or without.
LEMMA RunLookupEndsKeeps ==
  ASSUME StatusInv, NEW l \in lookups, NEW answer \in LookupPullRequestStatus(l),
         RunLookupEnds(l, answer)
  PROVE  StatusInv'
<1>1. tracker \in Tracker /\ l \in Lookup /\ l.generation # 0
  BY DEF StatusInv, Fits, Shows, Known
<1> DEFINE after == IF answer # Null /\ Accepts(l)
                    THEN [tracker EXCEPT !.pullRequest = answer, !.newest = Max({tracker.newest, l.generation})]
                    ELSE tracker
           ended == [after EXCEPT !.activeLookup = 0, !.refreshPending = FALSE]
           next == IF l.generation # tracker.activeLookup THEN after
                   ELSE IF tracker.refreshPending THEN Refresh(ended) ELSE ended
<1>2. Become(next, lookups \ {l}) /\ UNCHANGED <<heads, noticed>>
  BY <1>1 DEF RunLookupEnds, Tracker
<1>3. /\ Shows(after) /\ Pays(after) /\ after.lookupGeneration = tracker.lookupGeneration
      /\ after.activeLookup = tracker.activeLookup /\ after.owed = tracker.owed
      /\ after.refreshPending = tracker.refreshPending /\ after.branchCache = tracker.branchCache
      /\ after.pullRequestKey = tracker.pullRequestKey /\ after.fallbackBranch = tracker.fallbackBranch
      /\ after.targetDirectory = tracker.targetDirectory
  <2>1. CASE answer # Null /\ Accepts(l)
    <3>1. answer = l BY <2>1 DEF LookupPullRequestStatus
    <3>2. tracker.newest \in Nat /\ l.generation \in Nat /\ tracker.newest <= l.generation
      BY <1>1, <2>1 DEF StatusInv, Fits, Shows, Accepts, Tracker, Lookup
    <3>3. Max({tracker.newest, l.generation}) = l.generation BY <3>2, MaxOfTwo
    <3>4. after = [tracker EXCEPT !.pullRequest = l, !.newest = l.generation]
      BY <2>1, <3>1, <3>3
    <3>5. after \in Tracker BY <1>1, <3>2, <3>4 DEF Tracker
    <3>6. /\ after.lookupGeneration = tracker.lookupGeneration /\ after.newest = l.generation
          /\ after.activeLookup = tracker.activeLookup /\ after.owed = tracker.owed
          /\ after.refreshPending = tracker.refreshPending /\ after.branchCache = tracker.branchCache
          /\ after.pullRequestKey = tracker.pullRequestKey /\ after.pullRequest = l
          /\ after.fallbackBranch = tracker.fallbackBranch /\ after.disposed = tracker.disposed
          /\ after.targetDirectory = tracker.targetDirectory /\ after.watching = tracker.watching
      BY <1>1, <3>4 DEF Tracker
    <3> HIDE DEF after
    <3>7. l.generation <= tracker.lookupGeneration /\ l.key = tracker.pullRequestKey
      BY <2>1, <3>2 DEF Accepts
    <3> QED BY <3>5, <3>6, <3>7 DEF StatusInv, Fits, Shows, Pays
  <2>2. CASE ~(answer # Null /\ Accepts(l))
    BY <2>2 DEF StatusInv, Fits
  <2> QED BY <2>1, <2>2
<1> HIDE DEF after
<1>4. after \in Tracker BY <1>3 DEF Shows
<1>5. /\ ended \in Tracker /\ ended.activeLookup = 0 /\ ended.pullRequestKey = after.pullRequestKey
      /\ ended.lookupGeneration = after.lookupGeneration /\ ended.owed = after.owed
      /\ ended.branchCache = after.branchCache /\ ended.fallbackBranch = after.fallbackBranch
      /\ ended.targetDirectory = after.targetDirectory /\ ended.newest = after.newest
      /\ ended.pullRequest = after.pullRequest /\ ended.disposed = after.disposed
      /\ ended.watching = after.watching
  BY <1>4 DEF Tracker
<1> HIDE DEF ended
<1>6. Shows(ended) BY <1>3, <1>5 DEF Shows, Tracker
<1>7. /\ Fits(next) /\ Follows(tracker, next) /\ next.pullRequestKey = tracker.pullRequestKey
      /\ next.branchCache = tracker.branchCache /\ next.fallbackBranch = tracker.fallbackBranch
      /\ next.targetDirectory = tracker.targetDirectory
      /\ next.activeLookup # 0 /\ next.activeLookup = tracker.activeLookup =>
           l.generation # tracker.activeLookup
  <2>1. CASE l.generation # tracker.activeLookup
    BY <1>1, <1>3, <2>1 DEF Fits, Follows, Tracker
  <2>2. CASE l.generation = tracker.activeLookup /\ tracker.refreshPending
    <3>1. next = Refresh(ended) BY <2>2
    <3>2. /\ Fits(Refresh(ended)) /\ Follows(ended, Refresh(ended))
          /\ Refresh(ended).targetDirectory = ended.targetDirectory
          /\ Refresh(ended).branchCache = ended.branchCache
          /\ Refresh(ended).fallbackBranch = ended.fallbackBranch
          /\ Refresh(ended).pullRequestKey = ended.pullRequestKey
      BY <1>5, <1>6, RefreshFits
    <3>3. tracker.activeLookup <= tracker.lookupGeneration BY DEF StatusInv, Fits, Shows
    <3>4. Refresh(ended) \in Tracker BY <3>2 DEF Fits, Shows
    <3> QED BY <1>1, <1>3, <1>5, <3>1, <3>2, <3>3, <3>4 DEF Follows, Tracker
  <2>3. CASE l.generation = tracker.activeLookup /\ ~tracker.refreshPending
    <3>1. next = ended BY <2>3
    <3>2. Pays(ended) BY <1>3, <1>5, <2>3 DEF Pays
    <3> QED BY <1>1, <1>3, <1>5, <1>6, <3>1, <3>2 DEF Fits, Follows, Tracker
  <2> QED BY <2>1, <2>2, <2>3
<1> HIDE DEF next
<1>8. KeyOf(next) = KeyOf(tracker) BY <1>7 DEF KeyOf, GetBranch
<1>9. next.activeLookup # 0 /\ next.activeLookup = tracker.activeLookup =>
        \E m \in lookups \ {l} : m.generation = next.activeLookup
  BY <1>7 DEF StatusInv, Known
<1>10. tracker' = next /\ Known(tracker', lookups')
  BY <1>2, <1>7, <1>9, BecomeKnown
<1> QED BY <1>2, <1>7, <1>8, <1>10 DEF StatusInv

LEMMA MoveHeadKeeps ==
  ASSUME StatusInv, NEW d \in Directory, NEW head \in GitBranch \cup {Detached, Null}, MoveHead(d, head)
  PROVE  StatusInv'
<1>1. heads' \in [Directory -> HeadBranch] BY DEF StatusInv, MoveHead, HeadBranch
<1>2. tracker \in Tracker /\ tracker.watching \in BOOLEAN BY DEF StatusInv, Fits, Shows, Tracker
<1>3. (noticed' => tracker.targetDirectory # Null) /\ noticed' \in BOOLEAN
  BY <1>2 DEF StatusInv, MoveHead
<1> QED BY <1>1, <1>3 DEF StatusInv, MoveHead

LEMMA StepKeeps == ASSUME StatusInv, [StatusNext]_statusVars PROVE StatusInv'
<1>1. CASE StatusNext
  BY <1>1, SyncTargetKeeps, RunLookupEndsKeeps, MoveHeadKeeps, HeadNoticedKeeps,
     RefreshAskedKeeps, DisposeKeeps DEF StatusNext
<1>2. CASE UNCHANGED statusVars BY <1>2 DEF statusVars, StatusInv
<1> QED BY <1>1, <1>2

LEMMA StatusInvariant == StatusSpec => []StatusInv
<1>1. StatusInit => StatusInv BY InitHolds
<1>2. StatusInv /\ [StatusNext]_statusVars => StatusInv' BY StepKeeps
<1> QED BY <1>1, <1>2, PTL DEF StatusSpec

\* FooterIsCurrent of RepositoryStatusTracker: the pull request shown was looked up for the
\* directory and branch shown, by the latest lookup that found one, and no refresh asked for is
\* forgotten, for any directories, branches, moves of heads and lookups that end in any order.
THEOREM FooterStaysCurrent == StatusSpec => []FooterIsCurrent
<1>1. StatusInv => FooterIsCurrent
  BY DEF StatusInv, Fits, Shows, Pays, Known, FooterIsCurrent, ShownFits, NoRefreshLost
<1> QED BY <1>1, StatusInvariant, PTL

\* The bounds of the model.
Bounded == moves \in 0..MaxMoves /\ tracker.lookupGeneration <= MaxGeneration

LEMMA StepBounded == ASSUME Bounded, [StatusNext]_statusVars PROVE Bounded'
<1>1. ASSUME NEW t, NEW others, Become(t, others), moves' = moves PROVE Bounded'
  BY <1>1 DEF Bounded, Become
<1>2. ASSUME NEW d \in Directory, NEW fallback, NEW watching, NEW slips,
             SyncTarget(d, fallback, watching, slips)
      PROVE  Bounded'
  <2>1. PICK t : Become(t, lookups)
    BY <1>2 DEF SyncTarget
  <2>2. moves' \in 0..MaxMoves
    BY <1>2 DEF SyncTarget, Bounded
  <2> QED BY <2>1, <2>2 DEF Bounded, Become
<1>3. ASSUME NEW l \in lookups, NEW answer, RunLookupEnds(l, answer) PROVE Bounded'
  <2>1. PICK t : Become(t, lookups \ {l})
    BY <1>3 DEF RunLookupEnds
  <2> QED BY <1>1, <1>3, <2>1 DEF RunLookupEnds
<1>4. ASSUME NEW d, NEW head, MoveHead(d, head) PROVE Bounded'
  BY <1>4 DEF MoveHead, Bounded
<1>5. CASE HeadNoticed \/ RefreshAsked \/ Dispose
  BY <1>1, <1>5 DEF HeadNoticed, RefreshAsked, Dispose
<1>6. CASE UNCHANGED statusVars
  BY <1>6 DEF statusVars, Bounded
<1> QED BY <1>2, <1>3, <1>4, <1>5, <1>6 DEF StatusNext

\* Heads, the tracker and its lookups are well typed, and within the bounds.
THEOREM StatusTypeCorrect == StatusSpec => []RepositoryStatusTypeOK
<1>1. StatusInit => Bounded
  BY DEF StatusInit, NoTracker, Bounded
<1>2. StatusInv /\ Bounded => RepositoryStatusTypeOK
  <2> SUFFICES ASSUME StatusInv, Bounded PROVE RepositoryStatusTypeOK
    OBVIOUS
  <2>1. tracker \in Tracker
    BY DEF StatusInv, Fits, Shows
  <2>2. \A l \in lookups : l.generation \in 1..tracker.lookupGeneration /\ l.key \in Key
    BY <2>1 DEF StatusInv, Known, Lookup, Tracker
  <2> QED BY <2>1, <2>2 DEF StatusInv, Bounded, RepositoryStatusTypeOK, Tracker, HeadBranch
<1> QED BY <1>1, <1>2, StepBounded, StatusInvariant, PTL DEF StatusSpec

HIDE RepositoryStatusAssumption

-----------------------------------------------------------------------------
\* The memory.
USE StateAssumption

\* The document of a session; a retired mode is never in the cell.
Document == [there : BOOLEAN, file : {"here", "moved"}, mode : AgentMode \cup {"none", "retired"},
             title : Title]

StateTyped ==
  /\ launch \in BOOLEAN /\ phase \in {"down", "starting", "up", "stopping"}
  /\ chat \in Chat \cup {NoChat} /\ agentMode \in AgentMode /\ title \in Title
  /\ stored \in [Chat -> Document] /\ current \in Document /\ current.mode # "retired"
  /\ extraction \in [of : Title, first : BOOLEAN] /\ asked \in Title
  /\ forkedFrom \in [Chat -> SUBSET Chat] /\ crossed \in BOOLEAN

\* The mode a start restores.
ModeAtStart == IF launch THEN "copilot" ELSE IF current.mode = "none" THEN "work" ELSE current.mode

InSession == phase \in {"starting", "up"}

\* A restart would load what is in the cell.
CellIsSaved == LoadSessionState(chat, current.file) = current

\* The cell is what a restart would load from the first handler to the shutdown; the title follows
\* when the session is up, and a turn's extraction is of the session that is up.
MemoryInv ==
  /\ StateTyped
  /\ current.there = InSession
  /\ InSession => /\ chat \in Chat /\ CellIsSaved
                  /\ agentMode = ModeAtStart /\ (launch => current.mode = "copilot")
  /\ phase = "up" => title = current.title
  /\ extraction # NoExtraction => phase \in {"up", "stopping"} /\ extraction.of = chat
  /\ TitlesStayHome

-----------------------------------------------------------------------------
LEMMA DocumentConstants ==
  /\ Absent \in Document /\ Absent.there = FALSE /\ Absent.mode = "none"
  /\ \A file \in {"here", "moved"} : /\ Default(file) \in Document /\ Default(file).title = NoChat
                                     /\ Default(file).there /\ Default(file).file = file
                                     /\ Default(file).mode = "none"
BY DEF Absent, Default, Document, Title

\* What is loaded: a whole document of that transcript, whose title is the saved one or none.
LEMMA LoadGivesDocument ==
  ASSUME StateTyped, NEW c \in Chat, NEW file \in {"here", "moved"}
  PROVE  LET doc == LoadSessionState(c, file) IN
         /\ doc \in Document /\ doc.mode # "retired" /\ doc.there /\ doc.file = file
         /\ doc.title \in {NoChat, stored[c].title}
         /\ stored[c].there /\ stored[c].file = file => doc.title = stored[c].title
<1>1. stored[c] \in Document
  BY DEF StateTyped
<1>2. CASE ~stored[c].there \/ stored[c].file # file
  BY <1>2, DocumentConstants DEF LoadSessionState
<1>3. CASE stored[c].there /\ stored[c].file = file
  <2>1. LoadSessionState(c, file)
          = [stored[c] EXCEPT !.mode = IF stored[c].mode = "retired" THEN "none" ELSE stored[c].mode]
    BY <1>3 DEF LoadSessionState
  <2> QED BY <1>1, <1>3, <2>1 DEF Document
<1> QED BY <1>2, <1>3

\* A saved document is loaded as it is, unless its mode was retired.
LEMMA LoadOfSaved ==
  ASSUME chat' \in Chat, current' \in Document, current'.there, current'.mode # "retired",
         stored'[chat'] = current'
  PROVE  CellIsSaved'
BY DEF CellIsSaved, LoadSessionState, Document

\* Loading again what was loaded changes nothing.
LEMMA LoadAgain ==
  ASSUME CellIsSaved, UNCHANGED <<chat, current, stored>> PROVE CellIsSaved'
BY DEF CellIsSaved, LoadSessionState

LEMMA MemoryInit == StateInit => MemoryInv
<1> SUFFICES ASSUME StateInit PROVE MemoryInv
  OBVIOUS
<1>1. [Default("here") EXCEPT !.mode = "retired"] \in Document
      /\ [Default("here") EXCEPT !.mode = "retired"].title = NoChat
  BY DEF Default, Document, Title
<1>2. Absent.title = NoChat
  BY DEF Absent, Default
<1>3. stored \in [Chat -> Document] /\ \A c \in Chat : stored[c].title = NoChat
  BY <1>1, <1>2, DocumentConstants DEF StateInit
<1>4. StateTyped
  BY <1>3, DocumentConstants DEF StateInit, StateTyped, AgentMode, Cycleable, Title, NoExtraction
<1>5. phase = "down" /\ InSession = FALSE /\ current.there = FALSE /\ extraction = NoExtraction
  BY DocumentConstants DEF StateInit, InSession
<1> QED BY <1>3, <1>4, <1>5 DEF MemoryInv, TitlesStayHome

-----------------------------------------------------------------------------
\* The first handlers of session_start.
LEMMA BeginKeeps ==
  ASSUME MemoryInv, NEW c \in Chat, NEW doc \in Document, NEW save \in BOOLEAN,
         doc.there, doc.mode # "retired",
         Begin(c, doc, save), forkedFrom' \in [Chat -> SUBSET Chat],
         save \/ doc = LoadSessionState(c, doc.file),
         doc.title \in {NoChat, c} \cup forkedFrom'[c] \/ crossed,
         \A d \in Chat \ {c} : forkedFrom'[d] = forkedFrom[d],
         ~save => forkedFrom' = forkedFrom
  PROVE  MemoryInv'
<1>k. PICK kept : kept = IF launch THEN [doc EXCEPT !.mode = "copilot"] ELSE doc
  OBVIOUS
<1>1. kept \in Document /\ kept.there /\ kept.mode # "retired" /\ kept.title = doc.title
      /\ kept.file = doc.file /\ (launch => kept.mode = "copilot") /\ (~launch => kept = doc)
  BY <1>k DEF Document, AgentMode
<1>2. /\ phase' = "starting" /\ chat' = c /\ current' = kept
      /\ stored' = IF save \/ launch THEN [stored EXCEPT ![c] = kept] ELSE stored
      /\ UNCHANGED <<launch, title, extraction, asked, crossed>> /\ phase = "down"
      /\ agentMode' = IF launch THEN "copilot" ELSE RestoreMode(doc)
  BY <1>k DEF Begin
<1>3. stored \in [Chat -> Document] /\ launch \in BOOLEAN
  BY DEF MemoryInv, StateTyped
<1>4. stored' \in [Chat -> Document] /\ \A d \in Chat \ {c} : stored'[d] = stored[d]
  BY <1>1, <1>2, <1>3
<1>5. CellIsSaved'
  <2>1. CASE save \/ launch
    <3>1. stored'[c] = kept
      BY <1>2, <1>3, <2>1
    <3> QED BY <1>1, <1>2, <3>1, LoadOfSaved
  <2>2. CASE ~(save \/ launch)
    <3>1. LoadSessionState(c, kept.file) = kept /\ stored' = stored
      BY <1>1, <1>2, <2>2
    <3> QED BY <1>2, <3>1 DEF CellIsSaved, LoadSessionState
  <2> QED BY <2>1, <2>2
<1>6. TitlesStayHome'
  <2> SUFFICES ASSUME ~crossed, NEW d \in Chat PROVE stored'[d].title \in {NoChat, d} \cup forkedFrom'[d]
    BY <1>2 DEF TitlesStayHome
  <2>1. stored[d].title \in {NoChat, d} \cup forkedFrom[d]
    BY DEF MemoryInv, TitlesStayHome
  <2>2. CASE d # c
    BY <1>4, <2>1, <2>2
  <2>3. CASE d = c
    <3>1. CASE save \/ launch
      BY <1>1, <1>2, <1>3, <2>3, <3>1
    <3>2. CASE ~(save \/ launch)
      BY <1>2, <2>1, <3>2
    <3> QED BY <3>1, <3>2
  <2> QED BY <2>2, <2>3
<1>7. agentMode' \in AgentMode /\ agentMode' = ModeAtStart'
  BY <1>1, <1>2 DEF ModeAtStart, RestoreMode, Document, AgentMode, Cycleable
<1>8. StateTyped'
  BY <1>1, <1>2, <1>7 DEF MemoryInv, StateTyped
<1>9. extraction = NoExtraction /\ extraction' = NoExtraction
  BY <1>2 DEF MemoryInv
<1> QED BY <1>1, <1>2, <1>5, <1>6, <1>7, <1>8, <1>9 DEF MemoryInv, InSession

LEMMA SessionStartsKeeps ==
  ASSUME MemoryInv, NEW c \in Chat, NEW file \in {"here", "moved"}, SessionStarts(c, file)
  PROVE  MemoryInv'
<1>1. PICK doc : doc = LoadSessionState(c, file)
  OBVIOUS
<1>2. /\ doc \in Document /\ doc.mode # "retired" /\ doc.there /\ doc.file = file
      /\ doc.title \in {NoChat, stored[c].title}
  BY <1>1, LoadGivesDocument DEF MemoryInv
<1>3. Begin(c, doc, FALSE) /\ forkedFrom' = forkedFrom /\ forkedFrom \in [Chat -> SUBSET Chat]
  BY <1>1 DEF SessionStarts, MemoryInv, StateTyped
<1>4. doc.title \in {NoChat, c} \cup forkedFrom'[c] \/ crossed
  BY <1>2, <1>3 DEF MemoryInv, TitlesStayHome
<1> QED BY <1>1, <1>2, <1>3, <1>4, BeginKeeps

LEMMA ForkStartsKeeps ==
  ASSUME MemoryInv, NEW c \in Chat, NEW parent \in Chat, ForkStarts(c, parent)
  PROVE  MemoryInv'
<1>1. PICK fields : fields = LoadSessionState(parent, stored[parent].file)
  OBVIOUS
<1>2. PICK doc : doc = [fields EXCEPT !.file = "here"]
  OBVIOUS
<1>3. stored[parent] \in Document /\ stored[parent].there
      /\ stored[parent].file \in {"here", "moved"}
  BY DEF ForkStarts, MemoryInv, StateTyped, Document
<1>4. /\ fields \in Document /\ fields.mode # "retired" /\ fields.there
      /\ fields.title = stored[parent].title
  BY <1>1, <1>3, LoadGivesDocument DEF MemoryInv
<1>5. doc \in Document /\ doc.there /\ doc.mode # "retired" /\ doc.title = stored[parent].title
  BY <1>2, <1>4 DEF Document
<1>6. Begin(c, doc, TRUE) /\ forkedFrom' = [forkedFrom EXCEPT ![c] = {parent} \cup forkedFrom[parent]]
  BY <1>1, <1>2 DEF ForkStarts, Inherited
<1>7. /\ forkedFrom' \in [Chat -> SUBSET Chat] /\ forkedFrom'[c] = {parent} \cup forkedFrom[parent]
      /\ \A d \in Chat \ {c} : forkedFrom'[d] = forkedFrom[d]
  BY <1>6 DEF MemoryInv, StateTyped
<1>8. doc.title \in {NoChat, c} \cup forkedFrom'[c] \/ crossed
  BY <1>5, <1>7 DEF MemoryInv, TitlesStayHome
<1> QED BY <1>5, <1>6, <1>7, <1>8, BeginKeeps

-----------------------------------------------------------------------------
\* A change saved at once: the cell and the saved document stay the same, outside a session nothing
\* changes.
LEMMA UpdateSaves ==
  ASSUME MemoryInv, NEW doc \in Document, doc.mode # "retired", doc.there = current.there, Update(doc),
         chat' = chat,
         InSession => doc.title \in {NoChat, chat} \cup forkedFrom[chat] \/ crossed'
  PROVE  /\ stored' \in [Chat -> Document] /\ current' \in Document /\ current'.mode # "retired"
         /\ InSession => current' = doc /\ CellIsSaved'
         /\ ~InSession => current' = current /\ stored' = stored
         /\ \/ crossed \/ crossed'
            \/ \A c \in Chat : stored'[c].title \in {NoChat, c} \cup forkedFrom[c]
<1>1. stored \in [Chat -> Document] /\ current \in Document /\ current.mode # "retired"
  BY DEF MemoryInv, StateTyped
<1>2. CASE InSession
  <2>1. chat \in Chat /\ doc.there /\ current.there
    BY <1>2 DEF MemoryInv
  <2>2. current' = doc /\ stored' = [stored EXCEPT ![chat] = doc]
    BY <2>1 DEF Update
  <2>3. stored' \in [Chat -> Document] /\ stored'[chat] = doc /\ \A c \in Chat \ {chat} : stored'[c] = stored[c]
    BY <1>1, <2>1, <2>2
  <2>4. CellIsSaved'
    BY <2>1, <2>2, <2>3, LoadOfSaved
  <2>5. crossed \/ crossed' \/ \A c \in Chat : stored'[c].title \in {NoChat, c} \cup forkedFrom[c]
    BY <1>2, <2>3 DEF MemoryInv, TitlesStayHome
  <2> QED BY <1>2, <2>2, <2>3, <2>4, <2>5
<1>3. CASE ~InSession
  <2>1. current' = current /\ stored' = stored
    BY <1>3 DEF MemoryInv, Update
  <2> QED BY <1>1, <1>3, <2>1 DEF MemoryInv, TitlesStayHome
<1> QED BY <1>2, <1>3

\* In a session the title in the cell is at home.
LEMMA CellTitle ==
  ASSUME MemoryInv, InSession
  PROVE  current.title \in {NoChat, chat} \cup forkedFrom[chat] \/ crossed
<1>1. chat \in Chat /\ current.file \in {"here", "moved"} /\ current = LoadSessionState(chat, current.file)
  BY DEF MemoryInv, CellIsSaved, StateTyped, Document
<1>2. current.title \in {NoChat, stored[chat].title}
  BY <1>1, LoadGivesDocument DEF MemoryInv
<1> QED BY <1>2 DEF MemoryInv, TitlesStayHome

LEMMA SetAgentModeKeeps ==
  ASSUME MemoryInv, NEW m \in Cycleable, SetAgentMode(m), ~(launch /\ InSession),
         UNCHANGED <<launch, phase, chat, title, extraction, asked, forkedFrom, crossed>>
  PROVE  MemoryInv'
<1>1. PICK doc : doc = [current EXCEPT !.mode = m]
  OBVIOUS
<1>2. doc \in Document /\ doc.mode = m /\ doc.there = current.there /\ doc.title = current.title
      /\ m # "retired" /\ m \in AgentMode /\ m # "none"
  BY <1>1 DEF MemoryInv, StateTyped, Document, AgentMode, Cycleable
<1>3. Update(doc) /\ agentMode' = m
  BY <1>1 DEF SetAgentMode
<1>4. InSession => doc.title \in {NoChat, chat} \cup forkedFrom[chat] \/ crossed'
  BY <1>2, CellTitle
<1>5. /\ stored' \in [Chat -> Document] /\ current' \in Document /\ current'.mode # "retired"
      /\ InSession => current' = doc /\ CellIsSaved'
      /\ ~InSession => current' = current /\ stored' = stored
      /\ crossed \/ \A c \in Chat : stored'[c].title \in {NoChat, c} \cup forkedFrom[c]
  BY <1>2, <1>3, <1>4, UpdateSaves
<1>6. StateTyped' /\ TitlesStayHome'
  BY <1>2, <1>3, <1>5 DEF MemoryInv, StateTyped, TitlesStayHome
<1>7. current'.there = InSession'
  BY <1>2, <1>5 DEF MemoryInv, InSession
<1>8. InSession => agentMode' = ModeAtStart'
  BY <1>2, <1>3, <1>5 DEF ModeAtStart
<1> QED BY <1>2, <1>5, <1>6, <1>8 DEF MemoryInv, InSession

\* applyTitle and clearTitle; the extraction may end with it.
LEMMA SetTitleKeeps ==
  ASSUME MemoryInv, NEW t \in Title, SetTitle(t), t \in {NoChat, chat} \/ crossed',
         UNCHANGED <<launch, phase, chat, agentMode, forkedFrom>>,
         asked' \in Title, extraction' \in {extraction, NoExtraction}, crossed' \in BOOLEAN,
         crossed => crossed'
  PROVE  MemoryInv'
<1>1. PICK doc : doc = [current EXCEPT !.title = t]
  OBVIOUS
<1>2. doc \in Document /\ doc.mode = current.mode /\ doc.there = current.there /\ doc.title = t
      /\ current.mode # "retired"
  BY <1>1 DEF MemoryInv, StateTyped, Document
<1>3. Update(doc) /\ title' = t
  BY <1>1 DEF SetTitle
<1>4. /\ stored' \in [Chat -> Document] /\ current' \in Document /\ current'.mode # "retired"
      /\ InSession => current' = doc /\ CellIsSaved'
      /\ ~InSession => current' = current /\ stored' = stored
      /\ crossed \/ crossed' \/ \A c \in Chat : stored'[c].title \in {NoChat, c} \cup forkedFrom[c]
  BY <1>2, <1>3, UpdateSaves
<1>5. StateTyped'
  <2>2. NoExtraction \in [of : Title, first : BOOLEAN]
    BY DEF NoExtraction, Title
  <2>1. extraction' \in [of : Title, first : BOOLEAN]
    BY <2>2 DEF MemoryInv, StateTyped
  <2> QED BY <1>3, <1>4, <2>1 DEF MemoryInv, StateTyped
<1>9. TitlesStayHome'
  BY <1>4 DEF TitlesStayHome
<1>6. current'.there = InSession'
  BY <1>2, <1>4 DEF MemoryInv, InSession
<1>7. InSession => agentMode' = ModeAtStart' /\ (launch => current'.mode = "copilot")
  BY <1>2, <1>4 DEF MemoryInv, ModeAtStart
<1>8. extraction' # NoExtraction => phase' \in {"up", "stopping"} /\ extraction'.of = chat'
  BY DEF MemoryInv
<1> QED BY <1>2, <1>3, <1>4, <1>5, <1>7, <1>9 DEF MemoryInv, InSession

\* A step that leaves the documents and the mode alone.
LEMMA DocumentsStay ==
  ASSUME MemoryInv, StateTyped', stored' = stored, UNCHANGED <<forkedFrom, crossed>>,
         current'.there = InSession',
         InSession' => /\ InSession /\ UNCHANGED <<launch, chat, current, agentMode>>,
         phase' = "up" => title' = current.title,
         extraction' # NoExtraction => phase' \in {"up", "stopping"} /\ extraction'.of = chat'
  PROVE  MemoryInv'
<1>1. TitlesStayHome'
  BY DEF MemoryInv, TitlesStayHome
<1>2. InSession' => CellIsSaved'
  BY LoadAgain DEF MemoryInv
<1> QED BY <1>1, <1>2 DEF MemoryInv, InSession, ModeAtStart

LEMMA MemoryInvInductive == MemoryInv /\ [StateNext]_stateVars => MemoryInv'
<1> SUFFICES ASSUME MemoryInv, [StateNext]_stateVars PROVE MemoryInv'
  OBVIOUS
<1>t. StateTyped /\ current.there = InSession /\ Absent \in Document /\ Absent.there = FALSE
      /\ Absent.mode # "retired" /\ NoExtraction \in [of : Title, first : BOOLEAN] /\ NoChat \in Title
  BY DocumentConstants DEF MemoryInv, NoExtraction, Title
<1>1. CASE UNCHANGED stateVars
  <2>1. StateTyped' /\ InSession' = InSession
    BY <1>1, <1>t DEF stateVars, StateTyped, InSession
  <2> QED BY <1>1, <2>1, DocumentsStay DEF stateVars, MemoryInv
<1>2. ASSUME NEW c \in Chat, NEW file \in {"here", "moved"}, SessionStarts(c, file) PROVE MemoryInv'
  BY <1>2, SessionStartsKeeps
<1>3. ASSUME NEW c \in Chat, NEW parent \in Chat, ForkStarts(c, parent) PROVE MemoryInv'
  BY <1>3, ForkStartsKeeps
<1>4. ASSUME NEW m \in Cycleable, GoalModeRestored(m) PROVE MemoryInv'
  <2>1. ~launch \/ ~InSession
    BY <1>4 DEF GoalModeRestored, MemoryInv
  <2> QED BY <1>4, <2>1, SetAgentModeKeeps DEF GoalModeRestored
<1>5. ASSUME NEW m \in Cycleable, CycleAgentMode(m) PROVE MemoryInv'
  <2>1. ~launch \/ ~InSession
    BY <1>5 DEF CycleAgentMode, MemoryInv, ModeAtStart
  <2> QED BY <1>5, <2>1, SetAgentModeKeeps DEF CycleAgentMode, rest
<1>6. CASE \E found \in BOOLEAN : Extracted(found)
  <2>1. PICK found \in BOOLEAN : Extracted(found)
    BY <1>6
  <2>2. extraction.of = chat /\ phase \in {"up", "stopping"} /\ extraction.of \in Title
    BY <2>1 DEF Extracted, MemoryInv, StateTyped
  <2>3. CASE found \/ extraction.first
    <3>1. PICK t \in Title : t = IF found THEN extraction.of ELSE NoChat
      BY <1>t, <2>2
    <3>2. SetTitle(t) /\ t \in {NoChat, chat}
      BY <2>1, <2>2, <2>3, <3>1 DEF Extracted
    <3> QED BY <1>t, <2>1, <3>2, SetTitleKeeps DEF Extracted, StateTyped
  <2>4. CASE ~(found \/ extraction.first)
    <3>1. UNCHANGED <<title, current, stored, launch, phase, chat, agentMode, asked, forkedFrom, crossed>>
          /\ extraction' = NoExtraction
      BY <2>1, <2>4 DEF Extracted
    <3>2. StateTyped' /\ InSession' = InSession
      BY <1>t, <3>1 DEF StateTyped, InSession
    <3> QED BY <3>1, <3>2, DocumentsStay DEF MemoryInv
  <2> QED BY <2>3, <2>4
<1>7. CASE \E found \in BOOLEAN : TitleAnswered(found)
  <2>1. PICK found \in BOOLEAN : TitleAnswered(found)
    BY <1>7
  <2>2. PICK t \in Title : t = IF found THEN asked ELSE NoChat
    BY <1>t DEF StateTyped
  <2>3. SetTitle(t) /\ (t \in {NoChat, chat} \/ crossed') /\ (crossed => crossed') /\ crossed' \in BOOLEAN
        /\ asked' \in Title
    BY <1>t, <2>1, <2>2 DEF TitleAnswered, StateTyped
  <2> QED BY <2>1, <2>3, SetTitleKeeps DEF TitleAnswered
<1>8. CASE ManualTitle
  <2>1. chat \in Title /\ crossed \in BOOLEAN /\ asked \in Title
    BY <1>t DEF StateTyped, Title
  <2> QED BY <1>8, <2>1, SetTitleKeeps DEF ManualTitle, rest
<1>9. CASE TitleRestored
  <2>1. phase = "starting" /\ phase' = "up" /\ title' = current.title
        /\ UNCHANGED <<rest, chat, stored, current, agentMode>>
    BY <1>9 DEF TitleRestored
  <2>2. StateTyped' /\ InSession' /\ InSession
    BY <1>t, <2>1 DEF StateTyped, InSession, rest, Document
  <2> QED BY <1>t, <2>1, <2>2, DocumentsStay DEF MemoryInv, rest
<1>10. CASE ShutdownBegins
  <2>1. phase' = "stopping" /\ current' = Absent /\ UNCHANGED <<rest, chat, stored, agentMode, title>>
        /\ phase = "up"
    BY <1>10 DEF ShutdownBegins
  <2>2. StateTyped' /\ InSession' = FALSE
    BY <1>t, <2>1 DEF StateTyped, InSession, rest
  <2> QED BY <1>t, <2>1, <2>2, DocumentsStay DEF MemoryInv, rest
<1>11. CASE ShutdownEnds
  <2>1. /\ phase = "stopping" /\ phase' = "down" /\ extraction' = NoExtraction
        /\ UNCHANGED <<launch, chat, stored, current, agentMode, title, asked, forkedFrom, crossed>>
    BY <1>11 DEF ShutdownEnds
  <2>2. StateTyped' /\ InSession' = FALSE /\ InSession = FALSE
    BY <1>t, <2>1 DEF StateTyped, InSession
  <2>3. current'.there = FALSE
    BY <1>t, <2>1, <2>2
  <2> QED BY <2>1, <2>2, <2>3, DocumentsStay DEF MemoryInv
<1>12. CASE Killed
  <2>1. /\ phase' = "down" /\ chat' = NoChat /\ current' = Absent /\ agentMode' = "work" /\ title' = NoChat
        /\ extraction' = NoExtraction /\ asked' = NoChat /\ launch' \in BOOLEAN
        /\ UNCHANGED <<stored, forkedFrom, crossed>>
    BY <1>12 DEF Killed
  <2>2. StateTyped' /\ InSession' = FALSE
    BY <1>t, <2>1 DEF StateTyped, InSession, AgentMode, Cycleable
  <2> QED BY <1>t, <2>1, <2>2, DocumentsStay DEF MemoryInv
<1>13. CASE TurnEnd
  <2>1. /\ phase = "up" /\ extraction' = [of |-> chat, first |-> title = NoChat]
        /\ UNCHANGED <<launch, phase, chat, stored, current, agentMode, title, asked, forkedFrom, crossed>>
    BY <1>13 DEF TurnEnd
  <2>2. chat \in Title /\ (title = NoChat) \in BOOLEAN
    BY <1>t DEF StateTyped, Title
  <2>3. extraction' \in [of : Title, first : BOOLEAN] /\ extraction'.of = chat
    BY <2>1, <2>2
  <2>4. StateTyped' /\ InSession' /\ InSession
    BY <1>t, <2>1, <2>3 DEF StateTyped, InSession
  <2> QED BY <1>t, <2>1, <2>3, <2>4, DocumentsStay DEF MemoryInv
<1>14. CASE AskTitle
  <2>1. phase = "up" /\ asked' = chat
        /\ UNCHANGED <<launch, phase, chat, stored, current, agentMode, title, extraction, forkedFrom, crossed>>
    BY <1>14 DEF AskTitle
  <2>2. StateTyped' /\ InSession' /\ InSession
    BY <1>t, <2>1 DEF StateTyped, InSession, Title
  <2> QED BY <1>t, <2>1, <2>2, DocumentsStay DEF MemoryInv
<1> QED
  BY <1>1, <1>2, <1>3, <1>4, <1>5, <1>6, <1>7, <1>8, <1>9, <1>10, <1>11, <1>12, <1>13, <1>14
     DEF StateNext

LEMMA MemoryInvAlways == StateSpec => []MemoryInv
BY MemoryInit, MemoryInvInductive, PTL DEF StateSpec

\* Every reachable state of the sessions' memory is well typed.
THEOREM StateTypeCorrect == StateSpec => []StateTypeOK
<1>1. MemoryInv => StateTypeOK
  BY DEF MemoryInv, StateTyped, StateTypeOK, Document, InSession
<1> QED BY <1>1, MemoryInvAlways, PTL

\* However sessions are left, resumed, moved and forked, and whenever a process is killed: what a
\* restart would restore is what the session works with, and a stored title is of that session
\* or of one it descends from.
THEOREM SessionsAlwaysRemember == StateSpec => []SessionRemembers
<1>1. MemoryInv => SessionRemembers
  BY DEF MemoryInv, InSession, CellIsSaved, ModeAtStart, SessionRemembers, RestartRestores
<1> QED BY <1>1, MemoryInvAlways, PTL

HIDE StateAssumption

-----------------------------------------------------------------------------
\* The composition.

\* A step of the run is one of a single component, and leaves the others where they are.
LEMMA SessionPartsMove ==
  ASSUME [SessionsNext]_sessionsVars
  PROVE  /\ [WsNext]_wsVars /\ [TreesNext]_treeVars /\ [DiffNext]_diffVars /\ [JournalNext]_journalVars
         /\ [AnchorNext]_anchorVars /\ [PlanNext]_planVars /\ [StateNext]_stateVars
         /\ [StatusNext]_statusVars
<1> USE DEF sessionsVars, SessionsNext, Agents, Trees, Review, Journal, Anchors, Plans, Memory, Footer
<1>1. [WsNext]_wsVars
  BY DEF WsNext, ToolStep, DaemonStep
<1>2. [TreesNext]_treeVars
  BY DEF TreesNext, SessionStep
<1>3. [DiffNext]_diffVars
  BY DEF DiffNext
<1>4. [JournalNext]_journalVars
  BY DEF JournalNext
<1>5. [AnchorNext]_anchorVars
  BY DEF AnchorNext
<1>6. [PlanNext]_planVars
  BY DEF PlanNext
<1>7. [StateNext]_stateVars
  BY DEF StateNext
<1>8. [StatusNext]_statusVars
  BY DEF StatusNext
<1> QED BY <1>1, <1>2, <1>3, <1>4, <1>5, <1>6, <1>7, <1>8

\* What a behavior of the run shows of a component is a behavior of that component.
THEOREM SessionsAreTheirParts ==
  SessionsSpec => /\ WsSpec /\ TreesSpec /\ DiffSpec /\ JournalSpec /\ AnchorSpec /\ PlanSpec
                  /\ StateSpec /\ StatusSpec
<1>1. SessionsInit => /\ WsInit /\ TreesInit /\ DiffInit /\ JournalInit /\ AnchorInit /\ PlanInit
                      /\ StateInit /\ StatusInit
  BY DEF SessionsInit
<1> QED BY <1>1, SessionPartsMove, PTL DEF SessionsSpec, WsSpec, TreesSpec, DiffSpec, JournalSpec,
           AnchorSpec, PlanSpec, StateSpec, StatusSpec

\* In the run, every component is well typed.
THEOREM SessionsTypeCorrect == SessionsSpec => []SessionsTypeOK
<1>1. SessionsSpec => /\ []WsTypeOK /\ []SessionWorktreesTypeOK /\ []DiffTypeOK /\ []JournalTypeOK
                      /\ []AnchorTypeOK /\ []PlanTypeOK /\ []StateTypeOK /\ []RepositoryStatusTypeOK
  BY SessionsAreTheirParts, WsTypeCorrect, TreesTypeCorrect, DiffTypeCorrect, JournalTypeCorrect,
     AnchorTypeCorrect, PlanTypeCorrect, StateTypeCorrect, StatusTypeCorrect
<1> QED BY <1>1, PTL DEF SessionsTypeOK
=============================================================================
