----------------------------- MODULE SessionState -----------------------------
(***************************************************************************)
(* What a pi session remembers: its agent mode and its title; its          *)
(* worktree is kept likewise. A process-scoped cell holds the state of     *)
(* the session it is in and saves it at every change; a later process, or  *)
(* a fork, starts from what was saved. The handlers of session_start and   *)
(* session_shutdown await one another, titles are extracted by a model in  *)
(* the background, and the process may die at any time.                    *)
(***************************************************************************)
EXTENDS Naturals, FiniteSets

CONSTANTS
  Chat,      \* sessions
  NoChat,
  MaxStarts  \* bound on how often a session starts, in any process

ASSUME StateAssumption == NoChat \notin Chat /\ MaxStarts \in Nat

VARIABLES
  launch,     \* whether the process was launched with --copilot
  phase,      \* of the session: down, starting, up, stopping
  chat,       \* the session the process is in
  stored,     \* the saved document of each session
  current,    \* the cell: a document, or none
  agentMode,  \* the live mode, process scoped
  title,      \* the title shown
  extraction,    \* pendingTitle: the extraction a turn started
  asked,      \* the extraction /title awaits: of which session
  forkedFrom, \* the sessions each one descends from
  crossed,    \* a /title outlived the session it was asked in
  starts

stateVars ==
  <<launch, phase, chat, stored, current, agentMode, title, extraction, asked, forkedFrom, crossed, starts>>

Cycleable == {"analysis", "planning", "work"}
AgentMode == Cycleable \cup {"copilot"}
Title == Chat \cup {NoChat}   \* a title is named after the session whose messages it sums up

\* createDefaultSessionState.
Default(file) == [there |-> TRUE, file |-> file, mode |-> "none", title |-> NoChat]
Absent == [Default("here") EXCEPT !.there = FALSE]
NoExtraction == [of |-> NoChat, first |-> FALSE]

StateTypeOK ==
  /\ launch \in BOOLEAN /\ phase \in {"down", "starting", "up", "stopping"}
  /\ chat \in Chat \cup {NoChat} /\ agentMode \in AgentMode /\ title \in Title
  /\ \A c \in Chat : stored[c].mode \in AgentMode \cup {"none", "retired"} /\ stored[c].title \in Title
  /\ current.mode \in AgentMode \cup {"none"} /\ current.there = (phase \in {"starting", "up"})
  /\ extraction.of \in Title /\ asked \in Title

\* A document may have been saved by a version with other modes.
StateInit ==
  /\ launch \in BOOLEAN /\ phase = "down" /\ chat = NoChat
  /\ stored \in [Chat -> {Absent, [Default("here") EXCEPT !.mode = "retired"]}]
  /\ current = Absent /\ agentMode = "work" /\ title = NoChat
  /\ extraction = NoExtraction /\ asked = NoChat
  /\ forkedFrom = [c \in Chat |-> {}] /\ crossed = FALSE /\ starts = 0

-----------------------------------------------------------------------------
\* The document.

\* loadSessionState: a document of another transcript is none; a retired mode is no mode.
LoadSessionState(c, file) ==
  IF ~stored[c].there \/ stored[c].file # file THEN Default(file)
  ELSE [stored[c] EXCEPT !.mode = IF @ = "retired" THEN "none" ELSE @]

\* loadForkInheritedFields.
Inherited(parent) ==
  LET fields == LoadSessionState(parent, stored[parent].file) IN [fields EXCEPT !.file = "here"]

\* updateCurrentSessionState: saved at once, by a rename.  Nothing outside a session.
Update(doc) ==
  IF current.there THEN current' = doc /\ stored' = [stored EXCEPT ![chat] = doc]
  ELSE UNCHANGED <<current, stored>>

\* setAgentMode: the document, then the live mode.
SetAgentMode(mode) == Update([current EXCEPT !.mode = mode]) /\ agentMode' = mode

\* Mutant: a session without a mode keeps the one of the session before.
RestoreKeepsMode(doc) == IF doc.mode = "none" THEN agentMode ELSE doc.mode

\* restoreAgentModeFromSessionState.
RestoreMode(doc) == IF doc.mode = "none" THEN "work" ELSE doc.mode

-----------------------------------------------------------------------------
\* The session's life.

rest == <<launch, forkedFrom, crossed, extraction, asked>>

\* registerState and registerSession, the first handlers: the document, and the mode.
Begin(c, doc, saved) ==
  /\ phase = "down" /\ starts < MaxStarts /\ starts' = starts + 1
  /\ phase' = "starting" /\ chat' = c
  /\ LET mode == IF launch THEN "copilot" ELSE RestoreMode(doc)
         kept == IF launch THEN [doc EXCEPT !.mode = "copilot"] ELSE doc
     IN /\ agentMode' = mode /\ current' = kept
        /\ stored' = IF saved \/ launch THEN [stored EXCEPT ![c] = kept] ELSE stored
  /\ UNCHANGED <<launch, title, extraction, asked, crossed>>

\* startup, new, resume and reload; the transcript may have been moved.
SessionStarts(c, file) == Begin(c, LoadSessionState(c, file), FALSE) /\ UNCHANGED forkedFrom

\* The child inherits, whatever there is under its id, and is saved at once.
ForkStarts(c, parent) ==
  /\ c # parent /\ ~stored[c].there /\ stored[parent].there
  /\ Begin(c, Inherited(parent), TRUE)
  /\ forkedFrom' = [forkedFrom EXCEPT ![c] = {parent} \cup forkedFrom[parent]]

\* The workspace, the tasks, and last the title: restored by their handlers.
\* tasks: a goal cycle's mode, if the document has none.
GoalModeRestored(mode) ==
  /\ phase = "starting" /\ current.mode = "none" /\ SetAgentMode(mode)
  /\ UNCHANGED <<launch, phase, chat, title, extraction, asked, forkedFrom, crossed, starts>>

TitleRestored ==
  /\ phase = "starting" /\ phase' = "up" /\ title' = current.title
  /\ UNCHANGED <<rest, chat, stored, current, agentMode, starts>>

\* registerState's handler is the first: from here on nothing is saved.
ShutdownBegins ==
  /\ phase = "up" /\ phase' = "stopping" /\ current' = Absent
  /\ UNCHANGED <<rest, chat, stored, agentMode, title, starts>>

\* The title's handler is the last.
ShutdownEnds ==
  /\ phase = "stopping" /\ phase' = "down" /\ extraction' = NoExtraction
  /\ UNCHANGED <<launch, chat, stored, current, agentMode, title, asked, forkedFrom, crossed, starts>>

\* The process is killed, and another one launched.
Killed ==
  /\ phase # "down" /\ phase' = "down" /\ chat' = NoChat /\ current' = Absent /\ agentMode' = "work"
  /\ title' = NoChat /\ extraction' = NoExtraction /\ asked' = NoChat /\ launch' \in BOOLEAN
  /\ UNCHANGED <<stored, forkedFrom, crossed, starts>>

-----------------------------------------------------------------------------
\* In a session; a key is served while handlers are awaited, too.

\* cycleAgentMode: copilot is locked.
CycleAgentMode(mode) ==
  /\ phase # "down" /\ agentMode # "copilot" /\ mode \in Cycleable \ {agentMode}
  /\ SetAgentMode(mode) /\ UNCHANGED <<rest, phase, chat, title, starts>>

\* applyTitle and clearTitle.
SetTitle(t) == title' = t /\ Update([current EXCEPT !.title = t])

ManualTitle ==
  /\ phase \in {"up", "stopping"} /\ SetTitle(chat)
  /\ UNCHANGED <<rest, phase, chat, agentMode, starts>>

\* turn_end: while there is no title, and every fifth turn; the one before is aborted.
TurnEnd ==
  /\ phase = "up" /\ extraction' = [of |-> chat, first |-> title = NoChat]
  /\ UNCHANGED <<launch, phase, chat, stored, current, agentMode, title, asked, forkedFrom, crossed, starts>>

\* A title, or none: the old one is kept unless there was none when it was asked for.
Extracted(found) ==
  /\ extraction # NoExtraction /\ extraction' = NoExtraction
  /\ IF found \/ extraction.first THEN SetTitle(IF found THEN extraction.of ELSE NoChat)
     ELSE UNCHANGED <<title, current, stored>>
  /\ UNCHANGED <<launch, phase, chat, agentMode, asked, forkedFrom, crossed, starts>>

\* /title without a text.
AskTitle ==
  /\ phase = "up" /\ asked = NoChat /\ asked' = chat
  /\ UNCHANGED <<launch, phase, chat, stored, current, agentMode, title, extraction, forkedFrom, crossed, starts>>

\* Nothing aborts it when the session ends.
TitleAnswered(found) ==
  /\ asked # NoChat /\ asked' = NoChat /\ SetTitle(IF found THEN asked ELSE NoChat)
  /\ crossed' = (crossed \/ asked # chat)
  /\ UNCHANGED <<launch, phase, chat, agentMode, extraction, forkedFrom, starts>>

StateNext ==
  \/ \E c \in Chat, file \in {"here", "moved"} : SessionStarts(c, file)
  \/ \E c, parent \in Chat : ForkStarts(c, parent)
  \/ \E mode \in Cycleable : GoalModeRestored(mode) \/ CycleAgentMode(mode)
  \/ \E found \in BOOLEAN : Extracted(found) \/ TitleAnswered(found)
  \/ TitleRestored \/ ShutdownBegins \/ ShutdownEnds \/ Killed
  \/ ManualTitle \/ TurnEnd \/ AskTitle

StateSpec == StateInit /\ [][StateNext]_stateVars

-----------------------------------------------------------------------------
\* What the session would find if the process died now is what it works with: the cell, the
\* live mode and the title shown are those a restart restores.
RestartRestores ==
  phase = "up" =>
    /\ LoadSessionState(chat, current.file) = current
    /\ agentMode = (IF launch THEN "copilot" ELSE IF current.mode = "none" THEN "work" ELSE current.mode)
    /\ title = current.title

\* A title sums up the session it is stored in, or one that was forked into it.
TitlesStayHome ==
  crossed \/ \A c \in Chat : stored[c].title \in {NoChat, c} \cup forkedFrom[c]

\* However a session is left, resumed or forked: what it remembers is its own, and saved.
SessionRemembers == RestartRestores /\ TitlesStayHome
===============================================================================
