------------------------------- MODULE PlanTasks -------------------------------
(***************************************************************************)
(* The plan tool, from a draft to the prompt that starts its work.  A call *)
(* builds the draft, carrying approvals over from the one before; the user *)
(* reviews it in an overlay; an approved plan starts a goal cycle, in an   *)
(* implementation session only after a worktree is ready, and its handoff  *)
(* prompt is sent when the turn has ended.  Calls of one turn run in       *)
(* parallel; `draft` and the pending handoff are shared by all of them.    *)
(***************************************************************************)
EXTENDS Naturals, Sequences, FiniteSets

CONSTANTS
  Call,      \* plan tool calls; a draft object has the name of the call that built it
  Wording,   \* contents a part of a plan can have
  NoCall

ASSUME PlanAssumption == NoCall \notin Call /\ IsFiniteSet(Call)

\* Parts of a plan that are approved apart: goal with context, which startGoalCycle reads from
\* `draft`; and the others, which the call copies before it awaits the handoff.
Part == {"goal", "tasks"}

VARIABLES
  subagent,  \* whether this process is a dispatched agent: nobody reviews its plans
  mode,      \* the agent mode: analysis, or another one
  draft,     \* the draft the tool holds
  drafts,    \* each draft object
  call,      \* each tool call
  approved,  \* what the user approved, in any draft: a part and its wording
  cycles,    \* goal cycles, the last one active; every change is saved at once
  pending,   \* the implementation cycle whose handoff waits for the end of the turn, or 0
  dispatch   \* the handoff of each cycle

planVars == <<subagent, mode, draft, drafts, call, approved, cycles, pending, dispatch>>

NoCallYet == [pc |-> "idle", tasks |-> "", replaced |-> FALSE]
NoDispatch == [at |-> "none", sends |-> 0, compact |-> FALSE, watchdog |-> FALSE]
\* A call starts at most one cycle, update_goal one (bound).
Place == 1..(Cardinality(Call) + 1)
NoDraft == [p \in Part |-> [text |-> "", ok |-> FALSE]]
Cycle == 1..Len(cycles)

PlanTypeOK ==
  /\ subagent \in BOOLEAN /\ mode \in {"analysis", "work"}
  /\ draft \in Call \cup {NoCall}
  /\ \A c \in Call, p \in Part : drafts[c][p].ok \in BOOLEAN
  /\ \A c \in Call : call[c].pc \in {"idle", "review", "handoff", "done"}
  /\ approved \subseteq Part \X Wording
  /\ pending \in 0..Len(cycles)
  /\ \A i \in Place : dispatch[i].at \in {"none", "timer", "compacting", "done", "gone"}

PlanInit ==
  /\ subagent \in BOOLEAN /\ mode \in {"analysis", "work"}
  /\ draft = NoCall /\ drafts = [c \in Call |-> NoDraft]
  /\ call = [c \in Call |-> NoCallYet] /\ approved = {}
  /\ cycles = <<>> /\ pending = 0
  /\ dispatch = [i \in Place |-> NoDispatch]

-----------------------------------------------------------------------------
\* Drafts.

\* isAllApproved.
AllApproved == draft # NoCall /\ \A p \in Part : drafts[draft][p].ok

\* Mutant: an approval is carried over whatever the part says now.
CarryAnyVerdict(p, text) == draft # NoCall /\ drafts[draft][p].ok

\* computeGoalContextReview, computeSectionReview, collectiveTasksReview: an approval is
\* carried over from the draft before if the part is unchanged.
Carry(p, text) == draft # NoCall /\ drafts[draft][p] = [text |-> text, ok |-> TRUE]

\* plan: the new draft takes the place of whatever draft there is, and goes to review.
\* Without a UI it is submitted as it is.
Plan(c) ==
  /\ call[c].pc = "idle" /\ ~subagent
  /\ \E content \in [Part -> Wording] :
       drafts' = [drafts EXCEPT ![c] =
         [p \in Part |-> [text |-> content[p], ok |-> Carry(p, content[p])]]]
  /\ call' = [d \in Call |-> IF d = c THEN [call[c] EXCEPT !.pc = "review"]
                             ELSE [call[d] EXCEPT !.replaced = @ \/ call[d].pc = "handoff"]]
  /\ draft' = c
  /\ UNCHANGED <<subagent, mode, approved, cycles, pending, dispatch>>

\* showDrillDown: approve or revise; the last verdict on a part stands.
Verdict(d, p, ok) ==
  /\ drafts' = [drafts EXCEPT ![d][p].ok = ok]
  /\ approved' = IF ok THEN approved \cup {<<p, drafts[d][p].text>>} ELSE approved

\* The user goes through an overlay, of a call's own draft or, with /show-plan, of the tool's
\* draft even while a call is at work on it; goal and context, and the tasks, are judged
\* together.  A part that is not approved has feedback or is still undecided.
Judge(d, p) ==
  /\ call[d].pc = "review" \/ draft = d
  /\ \E ok \in BOOLEAN : Verdict(d, p, ok)
  /\ UNCHANGED <<subagent, mode, draft, call, cycles, pending, dispatch>>

\* A declined review drops the draft, whosever it is by now.
Decline(c) ==
  /\ call[c].pc = "review" /\ call' = [call EXCEPT ![c].pc = "done"] /\ draft' = NoCall
  /\ UNCHANGED <<subagent, mode, drafts, approved, cycles, pending, dispatch>>

-----------------------------------------------------------------------------
\* Goal cycles.

\* startGoalCycle: the active cycle is archived, the new one persisted.
StartCycle(goal, tasks, planned, replaced) ==
  cycles' = Append([i \in Cycle |-> [cycles[i] EXCEPT !.active = FALSE]],
                   [goal |-> goal, tasks |-> tasks, planned |-> planned, replaced |-> replaced,
                    active |-> TRUE])

\* update_goal (bound: once, and first).
UpdateGoal ==
  /\ Len(cycles) = 0 /\ StartCycle("", "", FALSE, FALSE)
  /\ UNCHANGED <<subagent, mode, draft, drafts, call, approved, pending, dispatch>>

End(c) == call' = [call EXCEPT ![c].pc = "done"]

\* Submitted with something not approved: the draft stays, for the next call to start from.
\* Without a draft, another call having dropped it, the tool throws.
Feedback(c) ==
  /\ call[c].pc = "review" /\ ~AllApproved /\ End(c)
  /\ UNCHANGED <<subagent, mode, draft, drafts, approved, cycles, pending, dispatch>>

\* Submitted and approved, for analysis: the cycle starts in place.
StartAnalysis(c) ==
  /\ call[c].pc = "review" /\ AllApproved /\ mode = "analysis"
  /\ StartCycle(drafts[draft]["goal"].text, drafts[draft]["tasks"].text, TRUE, FALSE)
  /\ draft' = NoCall /\ End(c)
  /\ UNCHANGED <<subagent, mode, drafts, approved, pending, dispatch>>

\* In a subagent nobody reviews: the plan is approved and starts, all in the one call.
PlanInSubagent(c) ==
  /\ call[c].pc = "idle" /\ subagent /\ End(c)
  /\ \E content \in [Part -> Wording] : StartCycle(content["goal"], content["tasks"], FALSE, FALSE)
  /\ UNCHANGED <<subagent, mode, draft, drafts, approved, pending, dispatch>>

\* Approved, to be implemented, from here on with a copy of the tasks: runHandoff resolves, activates and sets up a worktree.
Handoff(c) ==
  /\ call[c].pc = "review" /\ AllApproved /\ mode # "analysis"
  /\ call' = [call EXCEPT ![c] = [@ EXCEPT !.pc = "handoff", !.tasks = drafts[draft]["tasks"].text]]
  /\ UNCHANGED <<subagent, mode, draft, drafts, approved, cycles, pending, dispatch>>

\* runHandoff ends.  A setup of the worktree that fails does not stop it.
RunHandoff(c) == call[c].pc = "handoff" /\ End(c)

\* Cancelled, or the worktree could not be activated: the approved draft stays.
HandoffFails(c) ==
  /\ RunHandoff(c)
  /\ UNCHANGED <<subagent, mode, draft, drafts, approved, cycles, pending, dispatch>>

\* The worktree is ready: work mode, the cycle, the pending handoff.  The tasks are the
\* call's copy, the goal is the draft's; without a draft the tool throws.
HandoffReady(c) ==
  /\ RunHandoff(c) /\ mode' = "work"
  /\ IF draft = NoCall THEN UNCHANGED <<draft, cycles, pending>>
     ELSE /\ StartCycle(drafts[draft]["goal"].text, call[c].tasks, TRUE, call[c].replaced)
          /\ pending' = Len(cycles) + 1 /\ draft' = NoCall
  /\ UNCHANGED <<subagent, drafts, approved, dispatch>>

\* The user cycles the agent mode, outside copilot.
CycleMode ==
  /\ mode' = IF mode = "analysis" THEN "work" ELSE "analysis"
  /\ UNCHANGED <<subagent, draft, drafts, call, approved, cycles, pending, dispatch>>

\* A reload or restart between turns: the cycles are read back, draft and pending handoff are
\* gone; so is a handoff that was being dispatched.
Reopen ==
  /\ \A c \in Call : call[c].pc \in {"idle", "done"}
  /\ \E c \in Call : call[c].pc = "done"
  /\ draft' = NoCall /\ pending' = 0
  /\ dispatch' = [i \in Place |-> [dispatch[i] EXCEPT !.at = IF @ \in {"none", "done"} THEN @ ELSE "gone",
                                              !.compact = FALSE, !.watchdog = FALSE]]
  /\ UNCHANGED <<subagent, mode, drafts, call, approved, cycles>>

-----------------------------------------------------------------------------
\* The handoff prompt.

sessionRest == <<subagent, mode, draft, drafts, call, approved, cycles>>

\* agent_end takes the pending handoff and defers it to the next macrotask.
AgentEnd ==
  /\ pending # 0 /\ \A c \in Call : call[c].pc \in {"idle", "done"}
  /\ dispatch' = [dispatch EXCEPT ![pending].at = "timer"] /\ pending' = 0
  /\ UNCHANGED sessionRest

\* Mutant: every callback sends.
SendAgain(d) == [d EXCEPT !.sends = @ + 1, !.at = "done"]

\* sendOnce.
SendOnce(d) == IF d.at = "done" THEN d ELSE [d EXCEPT !.sends = @ + 1, !.at = "done"]

\* dispatchImplementationHandoff: a context that is full is compacted first.
Timer(i) ==
  /\ dispatch[i].at = "timer"
  /\ \E full \in BOOLEAN :
       dispatch' = [dispatch EXCEPT ![i] =
         IF full THEN [@ EXCEPT !.at = "compacting", !.compact = TRUE, !.watchdog = TRUE]
         ELSE SendOnce(@)]
  /\ UNCHANGED <<sessionRest, pending>>

\* The compaction completes, fails or throws, if ever; it cancels the watchdog.
Compacted(i) ==
  /\ dispatch[i].compact
  /\ dispatch' = [dispatch EXCEPT ![i] = SendOnce([@ EXCEPT !.compact = FALSE, !.watchdog = FALSE])]
  /\ UNCHANGED <<sessionRest, pending>>

Watchdog(i) ==
  /\ dispatch[i].watchdog
  /\ dispatch' = [dispatch EXCEPT ![i] = SendOnce([@ EXCEPT !.watchdog = FALSE])]
  /\ UNCHANGED <<sessionRest, pending>>

PlanNext ==
  \/ \E c \in Call : \/ Plan(c) \/ PlanInSubagent(c) \/ Decline(c) \/ Feedback(c)
                     \/ StartAnalysis(c) \/ Handoff(c) \/ HandoffFails(c) \/ HandoffReady(c)
                     \/ \E p \in Part : Judge(c, p)
  \/ UpdateGoal \/ CycleMode \/ Reopen \/ AgentEnd
  \/ \E i \in Place : Timer(i) \/ Compacted(i) \/ Watchdog(i)

PlanSpec == PlanInit /\ [][PlanNext]_planVars

-----------------------------------------------------------------------------
\* What a planned cycle asks for, its tasks and its goal, the user approved in those words,
\* however often the plan was resubmitted and whichever calls ran beside it; only the goal
\* may be another call's, when that call replaced the draft while the worktree was made
\* ready.  Violated if an approval could outlive a change of the part it was given to.
ApprovedContentStarts ==
  \A i \in Cycle : cycles[i].planned =>
    /\ <<"tasks", cycles[i].tasks>> \in approved
    /\ <<"goal", cycles[i].goal>> \in approved \/ cycles[i].replaced

\* dispatchImplementationHandoff: in whichever order the compaction's callbacks and the
\* watchdog come, the prompt that starts the work is not sent twice, nothing ends without
\* having sent it but a restart, and a compaction that never reports does not strand it: a
\* timer that will send it is armed until it is sent.
HandoffSentOnce ==
  \A i \in Place :
    /\ dispatch[i].sends <= 1
    /\ dispatch[i].at = "done" => dispatch[i].sends = 1
    /\ dispatch[i].at = "compacting" => dispatch[i].watchdog
=============================================================================
