------------------------------- MODULE Workstreams -------------------------------
(***************************************************************************)
(* Workstreams: records of the hub that one session creates and edits and  *)
(* that another one starts from.  The tools of pi read a record over one   *)
(* connection and write it over another, the hub commits before it         *)
(* acknowledges, and the acknowledgement may be lost.  An edit sends a     *)
(* whole new version, and carries the fields it does not name over from    *)
(* the version it read.  A session started with --workstream resolves its  *)
(* workstream, attaches to it and gets the brief, once in its thread.      *)
(* What launch_workstream does to worktrees is SessionWorktrees'.          *)
(***************************************************************************)
EXTENDS Naturals, Sequences, FiniteSets

CONSTANTS
  Stream,          \* calls of create_workstream; a record has the name of its call
  Slug,            \* generated names
  NoSlug,
  Revision,        \* calls of edit_workstream
  Seat,            \* sessions started with --workstream
  MaxSlugAttempts

ASSUME WorkstreamAssumption ==
  NoSlug \notin Slug /\ Stream \cap Revision = {} /\ MaxSlugAttempts \in Nat \ {0}

VARIABLES
  rows,     \* the hub's workstreams: slug, status, and versions, the last one current
  creates,  \* each create_workstream call
  revises,  \* each edit_workstream call
  seats,    \* each session
  attached  \* workstream_agents

streamVars == <<rows, creates, revises, seats, attached>>

\* brief stands for constraints, too.  A text is named by the call that wrote it.
Field == {"label", "brief"}
Body == [Field -> Stream \cup Revision]
NoRow == [slug |-> NoSlug, status |-> "none", versions |-> <<>>]
NoCreate == [pc |-> "idle", attempts |-> 0, reported |-> NoSlug]
NoRevision == [pc |-> "idle", of |-> NoSlug, named |-> {}, read |-> 0, reported |-> 0]
NoSeat == [pc |-> "off", of |-> NoSlug, turns |-> FALSE, briefs |-> 0, told |-> FALSE]

WorkstreamTypeOK ==
  /\ \A w \in Stream : /\ rows[w].slug \in Slug \cup {NoSlug} /\ rows[w].status \in {"none", "open", "closed"}
                         /\ \A n \in DOMAIN rows[w].versions : rows[w].versions[n].body \in Body
  /\ \A w \in Stream : creates[w].pc \in {"idle", "asking", "done"} /\ creates[w].attempts \in 0..MaxSlugAttempts
  /\ \A e \in Revision : revises[e].pc \in {"idle", "writing", "done"}
  /\ \A s \in Seat : seats[s].pc \in {"off", "exploring", "reading", "attaching", "open"}
  /\ attached \subseteq Seat \X Stream

WorkstreamInit ==
  /\ rows = [w \in Stream |-> NoRow] /\ creates = [w \in Stream |-> NoCreate]
  /\ revises = [e \in Revision |-> NoRevision] /\ seats = [s \in Seat |-> NoSeat]
  /\ attached = {}

-----------------------------------------------------------------------------
\* The hub.

\* get_workstream, by slug; an id, which nobody guesses, finds the same row.
Found(slug) == {w \in Stream : slug # NoSlug /\ rows[w].slug = slug}

\* create_workstream: the slug is unique in its table; version 1 with the row.
Insert(w, slug, body) ==
  rows' = [rows EXCEPT ![w] = [slug |-> slug, status |-> "open",
                               versions |-> <<[body |-> body, by |-> w, from |-> 0]>>]]

\* revise_workstream: the next version and the row's content in one transaction.
AppendVersion(w, body, e) ==
  rows' = [rows EXCEPT ![w].versions = Append(@, [body |-> body, by |-> e, from |-> revises[e].read])]

-----------------------------------------------------------------------------
\* create_workstream, edit_workstream, set_workstream_status.

toolRest == <<revises, seats, attached>>

\* Not connected, nothing is sent.
CreateWorkstream(w) ==
  /\ creates[w].pc = "idle" /\ creates' = [creates EXCEPT ![w].pc = "asking"]
  /\ UNCHANGED <<rows, toolRest>>

\* The name is taken: another one, of the same workstream, while there are attempts left.
SlugConflict(w, slug) ==
  /\ creates[w].pc = "asking" /\ Found(slug) # {}
  /\ LET spent == creates[w].attempts + 1 IN
     creates' = [creates EXCEPT ![w] = [@ EXCEPT !.attempts = spent,
                                                 !.pc = IF spent = MaxSlugAttempts THEN "done" ELSE "asking"]]
  /\ UNCHANGED <<rows, toolRest>>

\* Committed; the acknowledgement comes, or the call fails without it.
Created(w, slug, acked) ==
  /\ creates[w].pc = "asking" /\ Found(slug) = {}
  /\ Insert(w, slug, [f \in Field |-> w])
  /\ creates' = [creates EXCEPT ![w] = [@ EXCEPT !.pc = "done", !.reported = IF acked THEN slug ELSE NoSlug]]
  /\ UNCHANGED toolRest

\* The hub is away: the call fails.
CreateFails(w) ==
  /\ creates[w].pc = "asking" /\ creates' = [creates EXCEPT ![w].pc = "done"]
  /\ UNCHANGED <<rows, toolRest>>

editRest == <<creates, seats, attached>>

\* resolveWorkstreamDetail: what the workstream says now; at least one field is named.
ResolveDetail(e, w, named) ==
  /\ revises[e].pc = "idle" /\ rows[w].slug # NoSlug /\ named # {}
  /\ revises' = [revises EXCEPT ![e] = [pc |-> "writing", of |-> w, named |-> named,
                                        read |-> Len(rows[w].versions), reported |-> 0]]
  /\ UNCHANGED <<rows, editRest>>

\* Mutant: only what the caller names is sent, the rest as it was created.
CarryFirst(e) ==
  [f \in Field |-> IF f \in revises[e].named THEN e ELSE rows[revises[e].of].versions[1].body[f]]

\* A field that is not named is carried over from the version that was read.
CarryForward(e) ==
  [f \in Field |-> IF f \in revises[e].named THEN e
                   ELSE rows[revises[e].of].versions[revises[e].read].body[f]]

Revised(e, acked) ==
  /\ revises[e].pc = "writing" /\ AppendVersion(revises[e].of, CarryForward(e), e)
  /\ LET version == Len(rows[revises[e].of].versions) + 1 IN
     revises' = [revises EXCEPT ![e] = [@ EXCEPT !.pc = "done", !.reported = IF acked THEN version ELSE 0]]
  /\ UNCHANGED editRest

ReviseFails(e) ==
  /\ revises[e].pc = "writing" /\ revises' = [revises EXCEPT ![e].pc = "done"]
  /\ UNCHANGED <<rows, editRest>>

SetStatus(w, status) ==
  /\ rows[w].status \notin {"none", status} /\ rows' = [rows EXCEPT ![w].status = status]
  /\ UNCHANGED <<creates, toolRest>>

-----------------------------------------------------------------------------
\* pi --workstream.

seatRest == <<rows, creates, revises>>
At(s, pc) == seats[s].pc = pc

\* session_start: on a thread with turns in it nothing is to be done; a fresh one starts to explore.
StartSeat(s) ==
  /\ At(s, "off")
  /\ seats' = [seats EXCEPT ![s].pc = IF seats[s].turns THEN "open" ELSE "exploring"]
  /\ UNCHANGED <<seatRest, attached>>

\* The flag's value, or the slug of the worktree's label copilot/<slug>; without a worktree, or
\* with another label and no value, the session goes on without a workstream.
Identify(s, slug) ==
  /\ At(s, "exploring")
  /\ seats' = [seats EXCEPT ![s] = [@ EXCEPT !.pc = IF slug = NoSlug THEN "open" ELSE "reading", !.of = slug]]
  /\ UNCHANGED <<seatRest, attached>>

\* getWorkstreamDetail: found, or not, or the hub does not answer.
ReadDetail(s) ==
  /\ At(s, "reading")
  /\ Found(seats[s].of) # {} /\ seats' = [seats EXCEPT ![s].pc = "attaching"]
  /\ UNCHANGED <<seatRest, attached>>

NoDetail(s) ==
  /\ At(s, "reading") /\ seats' = [seats EXCEPT ![s].pc = "open"]
  /\ UNCHANGED <<seatRest, attached>>

\* attachToWorkstream, and the brief whatever came of it: `reached` the hub, `acked` by it.
Attach(s, reached, acked) ==
  /\ At(s, "attaching") /\ (acked => reached)
  /\ attached' = IF reached THEN attached \cup ({s} \X Found(seats[s].of)) ELSE attached
  /\ seats' = [seats EXCEPT ![s] =
       [@ EXCEPT !.pc = "open", !.turns = TRUE, !.briefs = seats[s].briefs + 1, !.told = acked]]
  /\ UNCHANGED seatRest

\* The user types something.
Converse(s) ==
  /\ ~At(s, "off") /\ ~seats[s].turns /\ seats' = [seats EXCEPT ![s].turns = TRUE]
  /\ UNCHANGED <<seatRest, attached>>

\* A reload, or the process ends and the session is resumed; before the first turn nothing
\* of the thread is kept.  Handlers that are awaited end with the process only.
Leave(s) ==
  /\ ~At(s, "off") /\ seats' = [seats EXCEPT ![s] = [@ EXCEPT !.pc = "off", !.of = NoSlug]]
  /\ UNCHANGED <<seatRest, attached>>

WorkstreamNext ==
  \/ \E w \in Stream : CreateWorkstream(w) \/ CreateFails(w)
  \/ \E w \in Stream, slug \in Slug :
       SlugConflict(w, slug) \/ \E acked \in BOOLEAN : Created(w, slug, acked)
  \/ \E e \in Revision, w \in Stream, named \in SUBSET Field : ResolveDetail(e, w, named)
  \/ \E e \in Revision : ReviseFails(e) \/ \E acked \in BOOLEAN : Revised(e, acked)
  \/ \E w \in Stream, status \in {"open", "closed"} : SetStatus(w, status)
  \/ \E s \in Seat, slug \in Slug \cup {NoSlug} : Identify(s, slug)
  \/ \E s \in Seat : \/ StartSeat(s) \/ ReadDetail(s) \/ NoDetail(s) \/ Converse(s) \/ Leave(s)
                     \/ \E reached, acked \in BOOLEAN : Attach(s, reached, acked)

WorkstreamSpec == WorkstreamInit /\ [][WorkstreamNext]_streamVars

-----------------------------------------------------------------------------
\* A version differs from the one before it only in what its own edit named, and in what
\* was changed since that edit read: unless edits overlap, none undoes another.
NoEditUndone ==
  \A w \in Stream : \A n \in 2..Len(rows[w].versions) :
    LET v == rows[w].versions[n] IN
    v.from = n - 1 =>
      \A f \in Field \ revises[v.by].named : v.body[f] = rows[w].versions[n - 1].body[f]

\* What a tool reported is so: the slug finds that workstream and no other, the version is
\* the edit's own, the session is attached.
ReportsHold ==
  /\ \A w \in Stream : creates[w].reported # NoSlug => Found(creates[w].reported) = {w}
  /\ \A e \in Revision : revises[e].reported # 0 =>
       rows[revises[e].of].versions[revises[e].reported].by = e
  /\ \A s \in Seat : seats[s].told => \E w \in Stream : <<s, w>> \in attached

\* A thread is given the brief at most once, however often its session starts.
BriefGivenOnce == \A s \in Seat : seats[s].briefs <= 1

\* However creates, edits and sessions overlap and acknowledgements are lost: no edit is
\* undone but by one it overlaps with, what was reported holds, and no thread has its brief twice.
WorkstreamsHold == NoEditUndone /\ ReportsHold /\ BriefGivenOnce
===============================================================================
