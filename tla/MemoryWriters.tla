--------------------------- MODULE MemoryWriters ---------------------------
(***************************************************************************)
(* Who changes the long-term memory of one private chat: the reviews       *)
(* (memory_review.py), the user's /memory commands (memory_commands.py),   *)
(* the jobs whose Agent was given a snapshot (agent_memory.py), and the    *)
(* maintenance.  Each handler runs to its end without suspension, but an   *)
(* Agent works between the snapshot of a job and its commit.               *)
(***************************************************************************)
EXTENDS MemoryCuration

CONSTANTS Jobs,
          Scheduled,               \* the jobs of the chat's schedule
          MaxBatch,                \* proposals of one review or job
          MaxReviews, MaxCommands  \* bounds on the steps of the others

ASSUME SomeAreScheduled == Scheduled \subseteq Jobs
ASSUME StepsBounded == MaxBatch \in Nat /\ MaxReviews \in Nat /\ MaxCommands \in Nat

VARIABLES db,
          scopeEnabled,                 \* memory_scopes
          job, seen,               \* the jobs, and the rows in their snapshots
          clearing,                \* a confirmation of clear is outstanding
          reviews, commands        \* counters for the bounds
vars == <<db, scopeEnabled, job, seen, clearing, reviews, commands>>

TypeOK ==
    /\ db \in Databases
    /\ db.backed \subseteq Present(db) /\ db.scheduled \subseteq Present(db)
    /\ db.next \in 1..(MaxItems + 1) /\ db.ok = TRUE
    /\ \A i \in Present(db) :
          i < db.next /\ db.items[i].target \in Present(db) \union {None}
    /\ scopeEnabled \in BOOLEAN /\ clearing \in BOOLEAN
    /\ job \in [Jobs -> {"new", "open", "over"}]
    /\ seen \in [Jobs -> [Ids -> Item \union {None}]]
    /\ reviews \in 0..MaxReviews /\ commands \in 0..MaxCommands

Init ==
    /\ db = Empty
    /\ scopeEnabled = TRUE /\ clearing = FALSE
    /\ job = [j \in Jobs |-> "new"]
    /\ seen = [j \in Jobs |-> [i \in Ids |-> None]]
    /\ reviews = 0 /\ commands = 0
-----------------------------------------------------------------------------
(* Proposals.                                                              *)

Proposal(op, item, fact, sure, asked, user) ==
    LET p == [op |-> op, item |-> item, related |-> {}, fact |-> fact, sensitive |-> FALSE,
              sure |-> sure, asked |-> asked, target |-> None, kind |-> "ordinary",
              user |-> user, direct |-> FALSE]
    IN [p EXCEPT !.direct = user \/ CanActivate(p)]

\* The curator is shown no agent work.  It proposes with the least evidence
\* that is accepted.  It may call sensitive what it adds, which changes nothing
\* if the content is classified so; of a row it may not, unless the content is
\* (_target_metadata_mismatch).
Shown == {i \in Present(db) : db.items[i].kind # "work"}
FactsFor(i) == {f \in Facts : SameCategory(f, db.items[i].fact)}
NormalAdditions(f) ==
    {Proposal("add", None, f, TRUE, asked, FALSE) : asked \in {None, "candidate"}}
    \union {Proposal("mark_candidate", None, f, FALSE, None, FALSE)}
Sensitively(p) == [p EXCEPT !.sensitive = TRUE]
Additions(f) ==
    IF f \in Private THEN NormalAdditions(f)
    ELSE NormalAdditions(f) \union {Sensitively(p) : p \in NormalAdditions(f)}
Changes(i, f) ==
    {Proposal("revise", i, f, TRUE, asked, FALSE) :
        asked \in {None, "active", "candidate", "dormant"}}
    \union {Proposal("contradict", i, f, TRUE, None, FALSE)}
    \union {Proposal(op, i, f, FALSE, None, FALSE) : op \in {"revise", "contradict"}}
CuratorProposals ==
    (UNION {Additions(f) : f \in Facts})
    \union {Proposal("reinforce", i, None, TRUE, None, FALSE) : i \in Shown}
    \union (UNION {UNION {Changes(i, f) : f \in FactsFor(i)} : i \in Shown})

Batches(S) == UNION {[1..n -> S] : n \in 1..MaxBatch}

\* validate and commit_review: all that was accepted, or nothing.
Committed(accepted) == {e \in ReviewTransaction(db, accepted) : e.ok}
-----------------------------------------------------------------------------
(* Reviews.  A batch the store refuses leaves no trace here: its sources    *)
(* stay in the buffer (MemoryReview).                                      *)

Review ==
    /\ scopeEnabled /\ reviews < MaxReviews
    /\ \E batch \in Batches(CuratorProposals) : \E accepted \in Accepted(db, batch) :
          db' \in Committed(accepted) \ {db}
    /\ reviews' = reviews + 1
    /\ UNCHANGED <<scopeEnabled, job, seen, clearing, commands>>
-----------------------------------------------------------------------------
(* Commands.                                                               *)

Command ==
    /\ commands < MaxCommands /\ commands' = commands + 1
    /\ UNCHANGED <<job, seen, reviews>>

\* _validate_and_commit: nothing is done when a proposal is rejected.
Commanded(batch) ==
    /\ Command
    /\ scopeEnabled
    /\ \E accepted \in Accepted(db, batch) :
          Len(accepted) = Len(batch) /\ db' \in Committed(accepted)
    /\ UNCHANGED <<scopeEnabled, clearing>>

Remember(f) ==
    /\ f \notin Projects
    /\ Commanded(<<Proposal("add", None, f, TRUE, "active", TRUE)>>)

Correct(i, f) ==
    /\ f \in FactsFor(i)
    /\ Commanded(<<Proposal("revise", i, f, TRUE, None, TRUE)>>)

Confirm(i) ==
    /\ db.items[i].status = "candidate"
    /\ Commanded(<<Proposal("reinforce", i, None, TRUE, None, TRUE)>>)

\* _forget and the intent "forget": work notes are deleted by hard_delete,
\* after the others were accepted; without others nothing is validated.
Forget(S) ==
    LET work == {i \in S : db.items[i].kind = "work"}
        batch == SetToSeq({Proposal("forget", i, None, TRUE, None, TRUE) : i \in S \ work})
    IN  /\ Command
        /\ batch # <<>> => scopeEnabled
        /\ \E accepted \in Accepted(db, batch) :
              /\ Len(accepted) = Len(batch)
              /\ \E e \in Committed(accepted) : db' = Without(e, work)
        /\ UNCHANGED <<scopeEnabled, clearing>>

AskClear == ~clearing /\ Command /\ clearing' = TRUE /\ UNCHANGED <<db, scopeEnabled>>

ClearExpires ==
    /\ clearing /\ clearing' = FALSE
    /\ UNCHANGED <<db, scopeEnabled, job, seen, reviews, commands>>

Clear ==
    /\ clearing /\ clearing' = FALSE
    /\ db' = Without(db, Present(db))
    /\ UNCHANGED <<scopeEnabled, job, seen, reviews, commands>>

SetEnabled == Command /\ scopeEnabled' = ~scopeEnabled /\ UNCHANGED <<db, clearing>>
-----------------------------------------------------------------------------
(* The Agents of jobs.                                                     *)

\* prepare: the snapshot.
Prepare(j) ==
    /\ job[j] = "new" /\ scopeEnabled
    /\ job' = [job EXCEPT ![j] = "open"]
    /\ seen' = [seen EXCEPT ![j] =
                   [i \in Ids |-> IF i \in Exported(db, j \in Scheduled) THEN db.items[i]
                                  ELSE None]]
    /\ UNCHANGED <<db, scopeEnabled, clearing, reviews, commands>>

\* inspect lets pass new notes and revisions of notes in the snapshot.
JobProposals(j) ==
    LET notes == {i \in Ids : seen[j][i] # None /\ seen[j][i].kind = "work"} IN
    {[op |-> "add", fact |-> f, item |-> None, version |-> 0] : f \in Projects}
    \union {[op |-> "revise", fact |-> f, item |-> i, version |-> seen[j][i].version] :
               f \in Projects, i \in notes}

\* _normalize_agent_proposals: no two of the same.
Distinct(batch) ==
    \A m, n \in DOMAIN batch :
        m # n /\ batch[m].op = batch[n].op =>
            IF batch[m].op = "add" THEN batch[m].fact # batch[n].fact
            ELSE batch[m].item # batch[n].item

Close(j) ==
    /\ job' = [job EXCEPT ![j] = "over"]
    /\ seen' = [seen EXCEPT ![j] = [i \in Ids |-> None]]

\* commit, once everything was delivered.
Deliver(j) ==
    /\ job[j] = "open" /\ scopeEnabled
    /\ \E batch \in Batches(JobProposals(j)) :
          /\ Distinct(batch)
          /\ \E e \in AgentTransaction(db, batch) :
                /\ e.ok
                /\ db' = IF j \in Scheduled
                         THEN [e EXCEPT !.scheduled = @ \union Written(db, e)] ELSE e
    /\ Close(j)
    /\ UNCHANGED <<scopeEnabled, clearing, reviews, commands>>

\* The delivery failed, there was nothing to commit, or it was refused.
Discard(j) ==
    /\ job[j] = "open"
    /\ Close(j)
    /\ UNCHANGED <<db, scopeEnabled, clearing, reviews, commands>>
-----------------------------------------------------------------------------
\* apply_decay
Maintain ==
    /\ Command
    /\ \E fading \in SUBSET {i \in Present(db) : db.items[i].status = "active"} :
          \E sleeping \in SUBSET fading :
              /\ fading # {}
              /\ db' = Decayed(db, fading, sleeping)
    /\ UNCHANGED <<scopeEnabled, clearing>>

Next ==
    \/ Review
    \/ \E f \in Facts : Remember(f)
    \/ \E i \in Present(db), f \in Facts : Correct(i, f)
    \/ \E i \in Present(db) : Confirm(i)
    \/ \E S \in SUBSET Present(db) : S # {} /\ Forget(S)
    \/ AskClear \/ ClearExpires \/ Clear \/ SetEnabled
    \/ \E j \in Jobs : Prepare(j) \/ Deliver(j) \/ Discard(j)
    \/ Maintain

Spec == Init /\ [][Next]_vars
-----------------------------------------------------------------------------
\* The full-text index holds the content of the active and dormant rows, and
\* of nothing else, whichever writer last touched a row.
IndexAgrees ==
    \A i \in Ids :
        db.index[i] = IF i \in Present(db) /\ db.items[i].status \in Indexed
                      THEN db.items[i].fact ELSE None

\* What the classifier calls sensitive is nowhere held as normal outside
\* the Agents' own notes, and equal items agree on it, by whatever path
\* (revision, contradiction, candidate, merge) the content came.
SensitivityAgrees ==
    \A i \in Alive(db) :
        db.items[i].kind # "work" =>
            /\ db.items[i].fact \in Private => db.items[i].sensitive
            /\ \A k \in Alive(db) :
                  db.items[k].kind # "work" /\ db.items[k].fact = db.items[i].fact =>
                      db.items[k].sensitive = db.items[i].sensitive

\* A job's Agent changes its own notes only, and rewrites one only if it is
\* still the note of the job's snapshot: no change made while the Agent
\* worked is lost.
NoLostNote ==
    [][\A j \in Jobs : job[j] = "open" /\ job'[j] = "over" =>
          \A i \in Present(db) :
             /\ i \in Present(db')
             /\ db'.items[i] # db.items[i] => db.items[i].kind = "work"
             /\ db'.items[i].fact # db.items[i].fact => db.items[i] = seen[j][i]]_vars

\* A review deletes no row, revives no contradicted one, and keeps in the
\* revisions whatever it changes.
ReviewsKeep ==
    [][reviews' # reviews =>
          \A i \in Present(db) :
             /\ i \in Present(db')
             /\ db.items[i].status = "contradicted" => db'.items[i] = db.items[i]
             /\ db.history[i] \subseteq db'.history[i]
             /\ db.items[i].sensitive => db'.items[i].sensitive]_vars

\* docs/superpowers/specs/2026-07-19-long-term-memory-design.md: "To activate a
\* proposal, the normalized cited source must be essentially the proposed
\* assertion".  Every item in force was once asserted directly, or confirmed.
ActiveHasEvidence ==
    \A i \in Retrievable(db) : db.items[i].kind # "work" => i \in db.backed

\* Same document: invalid operations "reject only that operation. Other valid
\* operations in the batch may commit."  The store applies what was accepted.
BatchApplies ==
    \A batch \in Batches(CuratorProposals) : \A accepted \in Accepted(db, batch) :
        \A e \in ReviewTransaction(db, accepted) : e.ok
=============================================================================
