---------------------------- MODULE MemoryItems ----------------------------
(***************************************************************************)
(* The memory_items of LongTermMemoryStore (long_term_memory.py) in one    *)
(* scope, about one subject, as operators on a database d: the rows, the   *)
(* full-text index, and for each row the texts its memory_revisions keep.  *)
(* An operation of a transaction maps d to the set of databases it may     *)
(* leave; ok = FALSE stands for the exception that rolls it back.          *)
(*                                                                         *)
(* A fact is a normalized content with its category: two contents with the *)
(* same memory_identity_key, sensitivity aside, are one fact.  Scores and  *)
(* dates are left out; confidence is above the threshold (sure) or below.  *)
(* backed is history: the items that a direct assertion, or the user, ever *)
(* supported.                                                              *)
(***************************************************************************)
EXTENDS Naturals, FiniteSets, SequencesExt

CONSTANTS Facts,
          Projects,   \* the facts of category "project"
          Private,    \* those classify_memory_sensitivity calls sensitive
          MaxItems,   \* bound on the rows that are ever inserted
          None

ASSUME FactsGiven == Projects \subseteq Facts /\ Private \subseteq Facts
ASSUME NoneIsNothing == None \notin Facts \union Nat
ASSUME ItemsBounded == MaxItems \in Nat

Ids == 1..MaxItems
Live == {"candidate", "active", "dormant"}
Indexed == {"active", "dormant"}
Statuses == Live \union {"contradicted"}
Item == [fact : Facts, sensitive : BOOLEAN, status : Statuses,
         target : Ids \union {None}, kind : {"ordinary", "work"}, version : Nat]
Databases == [items : [Ids -> Item \union {None}], index : [Ids -> Facts \union {None}],
              history : [Ids -> SUBSET Facts], backed : SUBSET Ids,
              scheduled : SUBSET Ids, next : Nat, ok : BOOLEAN]
ASSUME NoneIsNoRow == None \notin Item

SameCategory(f, g) == (f \in Projects) <=> (g \in Projects)

Empty == [items |-> [i \in Ids |-> None], index |-> [i \in Ids |-> None],
          history |-> [i \in Ids |-> {}], backed |-> {}, scheduled |-> {},
          next |-> 1, ok |-> TRUE]

Present(d) == {i \in Ids : d.items[i] # None}
Alive(d) == {i \in Present(d) : d.items[i].status \in Live}
-----------------------------------------------------------------------------
(* Rows.                                                                   *)

\* Mutant of Indexing: a row that leaves the index keeps its entry.
IndexKept(it, old) == IF it.status \in Indexed THEN it.fact ELSE old
\* _sync_fts: the row's new index entry.
Indexing(it, old) == IF it.status \in Indexed THEN it.fact ELSE None

\* An INSERT or UPDATE of a row with its index entry and its revision.
Save(d, i, it, texts) ==
    [d EXCEPT !.items[i] = [it EXCEPT !.version = @ + 1],
              !.index[i] = Indexing(it, @),
              !.history[i] = @ \union texts]

\* Mutant of Without: nothing that refers to the rows is touched.
RowsOnly(d, gone) == [d EXCEPT !.items = [i \in Ids |-> IF i \in gone THEN None ELSE @[i]],
                               !.index = [i \in Ids |-> IF i \in gone THEN None ELSE @[i]]]
\* _hard_delete_row; candidate_target_id is ON DELETE SET NULL.
Without(d, gone) ==
    [d EXCEPT !.items = [i \in Ids |->
                            IF i \in gone \/ @[i] = None THEN None
                            ELSE IF @[i].target \in gone
                            THEN [@[i] EXCEPT !.target = None] ELSE @[i]],
              !.index = [i \in Ids |-> IF i \in gone THEN None ELSE @[i]],
              !.history = [i \in Ids |-> IF i \in gone THEN {} ELSE @[i]],
              !.backed = @ \ gone, !.scheduled = @ \ gone]

Raised(d) == {[d EXCEPT !.ok = FALSE]}

\* apply_decay: the scores of some active rows fall, below the threshold
\* (or their date has passed) for those that go to sleep.
Aged(it, sleeps) ==
    [it EXCEPT !.version = @ + 1, !.status = IF sleeps THEN "dormant" ELSE @]
Decayed(d, fading, sleeping) ==
    [d EXCEPT !.items = [i \in Ids |-> IF i \in fading THEN Aged(@[i], i \in sleeping)
                                        ELSE @[i]]]
-----------------------------------------------------------------------------
(* _find_duplicate_or_raise_collision.                                     *)

Twins(d, f, except) == {i \in Alive(d) \ {except} : d.items[i].fact = f}
Collides(d, f, sensitive, except) ==
    \E i \in Twins(d, f, except) : d.items[i].sensitive # sensitive
Duplicates(d, f, target, except) ==
    {i \in Twins(d, f, except) : d.items[i].target = target}
-----------------------------------------------------------------------------
(* _apply_operation.  A proposal p has op, item (the row it is about),     *)
(* related (rows to merge away), fact, sensitive, sure, asked (a status),  *)
(* target (candidate_target_id), kind (of source), user (a user's command) *)
(* and direct (its evidence is a direct assertion, or the user's word).    *)

Awake(status) == IF status \in {"candidate", "dormant"} THEN "active" ELSE status
Backed(d, i, p) == [d EXCEPT !.backed = IF p.direct THEN @ \union {i} ELSE @]

\* Support for a row that exists; promote: it may become active.
Reinforced(d, i, p, promote) ==
    LET it == d.items[i] IN
    Save(Backed(d, i, p), i,
         [it EXCEPT !.status = IF promote THEN Awake(@) ELSE @, !.kind = p.kind],
         {it.fact})

NewStatus(p) == IF p.op = "mark_candidate" THEN "candidate"
                ELSE IF p.asked = None THEN "active" ELSE p.asked

\* _insert_item once candidate_target_id is known.
Inserted(d, p, target) ==
    LET sensitive == p.sensitive \/ (target # None /\ d.items[target].sensitive)
        duplicates == Duplicates(d, p.fact, target, None)
        new == [fact |-> p.fact, sensitive |-> sensitive, status |-> NewStatus(p),
                target |-> target, kind |-> p.kind, version |-> 0]
    IN  IF Collides(d, p.fact, sensitive, None) THEN Raised(d)
        ELSE IF duplicates # {}
        THEN {Reinforced(d, i, p, NewStatus(p) = "active") : i \in duplicates}
        ELSE {Save([Backed(d, i, p) EXCEPT !.next = @ + 1], i, new, {p.fact}) :
                 i \in {d.next} \intersect Ids}

\* _insert_item: a candidate equal to an item in force targets that item.
Insert(d, p) ==
    LET matches == Duplicates(d, p.fact, None, None)
        Target(i) == IF d.items[i].status = "candidate" THEN None ELSE i
    IN  IF NewStatus(p) # "candidate" \/ p.target # None THEN Inserted(d, p, p.target)
        ELSE IF Collides(d, p.fact, p.sensitive, None) THEN Raised(d)
        ELSE IF matches = {} THEN Inserted(d, p, None)
        ELSE UNION {Inserted(d, p, Target(i)) : i \in matches}

\* merge: the related rows are deleted, the item is supported.
AnyActor(p) == TRUE                      \* mutant: the curator may delete, too
MayDelete(p) == p.user
Merged(d, i, related, p) ==
    IF MayDelete(p) THEN {Reinforced(Without(d, related \ {i}), i, p, TRUE)} ELSE Raised(d)

Revised(d, p) ==
    LET it == d.items[p.item]
        duplicates == Duplicates(d, p.fact, None, p.item)
    IN  IF (it.sensitive /\ ~p.sensitive) \/ Collides(d, p.fact, p.sensitive, p.item)
        THEN Raised(d)
        ELSE IF duplicates # {}
        THEN UNION {Merged(d, i, {p.item}, p) : i \in duplicates}
        ELSE IF p.fact = it.fact /\ p.sensitive = it.sensitive
        THEN {Reinforced(d, p.item, p, TRUE)}
        ELSE {Save(Backed(d, p.item, p), p.item,
                   [it EXCEPT !.fact = p.fact, !.sensitive = p.sensitive, !.kind = p.kind,
                              !.status = IF p.asked = None THEN @ ELSE p.asked],
                   {it.fact, p.fact})}

\* The row is kept as contradicted, its replacement is inserted.
Contradicted(d, p) ==
    LET it == d.items[p.item] IN
    Insert(Save(d, p.item, [it EXCEPT !.status = "contradicted"], {it.fact, p.fact}),
           [p EXCEPT !.op = "add", !.sensitive = @ \/ it.sensitive])

\* _isolate_ambiguous_content: what is not sure becomes a candidate.
Isolated(d, p) ==
    IF p.sure \/ p.op \notin {"add", "mark_candidate", "revise", "contradict"} THEN p
    ELSE IF p.item = None THEN [p EXCEPT !.op = "mark_candidate"]
    ELSE [p EXCEPT !.op = "mark_candidate", !.item = None, !.target = p.item,
                   !.sensitive = @ \/ d.items[p.item].sensitive]

Apply(d, proposal) ==
    IF proposal.item \notin Present(d) \union {None} THEN Raised(d)
    ELSE LET p == Isolated(d, proposal) IN
         CASE p.op \in {"add", "mark_candidate"} -> Insert(d, p)
           [] p.op = "forget" -> IF MayDelete(p) THEN {Without(d, {p.item})} ELSE Raised(d)
           [] p.op = "merge" -> Merged(d, p.item, p.related \intersect Present(d), p)
           [] p.op = "reinforce" -> {Reinforced(d, p.item, p, TRUE)}
           [] p.op = "revise" -> Revised(d, p)
           [] p.op = "contradict" -> Contradicted(d, p)

\* commit_review without its sources: all the operations in order, or none.
Applied(ds, p) == UNION {IF e.ok THEN Apply(e, p) ELSE {e} : e \in ds}
ReviewTransaction(d, proposals) ==
    LET after[n \in 0..Len(proposals)] ==
            IF n = 0 THEN {d} ELSE Applied(after[n - 1], proposals[n])
    IN  after[Len(proposals)]
-----------------------------------------------------------------------------
(* commit_agent_memories.  A proposal p of a job has op, fact, item, and   *)
(* version (of the item in the job's snapshot).                            *)

WorkNote(p) == [op |-> "add", fact |-> p.fact, sensitive |-> FALSE, asked |-> None,
                target |-> None, kind |-> "work", direct |-> FALSE]

AnyVersion(d, p) == TRUE                 \* mutant: no WHERE version = ?
Fresh(d, p) == d.items[p.item].version = p.version

\* An equal note is supported; the newest of several rows is the one looked at.
AgentNote(d, p, same) ==
    IF Collides(d, p.fact, FALSE, None) THEN Raised(d)
    ELSE IF same = {} THEN Inserted(d, WorkNote(p), None)
    ELSE UNION {IF d.items[i].kind # "work" THEN Raised(d)
                ELSE {Reinforced(d, i, WorkNote(p), TRUE)} : i \in same}

AgentStep(d, p) ==
    IF p.op = "add" THEN AgentNote(d, p, Duplicates(d, p.fact, None, None))
    ELSE IF \/ p.item \notin Present(d)
            \/ d.items[p.item].kind # "work"
            \/ ~Fresh(d, p)
         THEN Raised(d)
         ELSE {Save(d, p.item, [d.items[p.item] EXCEPT !.fact = p.fact],
                    {d.items[p.item].fact, p.fact})}

\* All the proposals of a job in order, or none.
AgentSteps(ds, p) == UNION {IF e.ok THEN AgentStep(e, p) ELSE {e} : e \in ds}
AgentTransaction(d, proposals) ==
    LET after[n \in 0..Len(proposals)] ==
            IF n = 0 THEN {d} ELSE AgentSteps(after[n - 1], proposals[n])
    IN  after[Len(proposals)]

\* agent_memory_commit_items: the rows a job added, supported or revised.
Written(d, e) == {i \in Present(e) : e.items[i] # d.items[i]}
-----------------------------------------------------------------------------
\* retrieve_candidates and export_agent_memories, without their limits.
Retrievable(d) == {i \in Present(d) : d.items[i].status = "active"}
Exported(d, scheduled) ==
    {i \in Present(d) : \/ d.items[i].status = "active"
                        \/ /\ scheduled /\ i \in d.scheduled
                           /\ d.items[i].status = "dormant" /\ d.items[i].kind = "work"}
=============================================================================
