--------------------------- MODULE MemoryCuration ---------------------------
(***************************************************************************)
(* MemoryValidator of memory_curation.py: it reads the database d, decides *)
(* on the proposals of a batch one after another, and keeps what those     *)
(* already accepted will have done (staged_items, staged_content), for the *)
(* store applies them only when all are decided.                           *)
(*                                                                         *)
(* Whether the cited messages support a proposal, and whether its subject  *)
(* may say it, is left to the choice of the proposals; what evidence is    *)
(* demanded of one that can activate an item is not (Evident).             *)
(***************************************************************************)
EXTENDS MemoryItems

ContentOps == {"add", "mark_candidate", "revise", "contradict"}
Rejected == [op |-> "rejected"]

Staged(d) == [rows |-> d, added |-> {}]
-----------------------------------------------------------------------------
(* _duplicate.  Agent work is not looked at.                               *)

Known(st, f) == {i \in Twins(st.rows, f, None) : st.rows.items[i].kind # "work"}
SensitivityCollision(st, p) ==
    \/ \E i \in Known(st, p.fact) : st.rows.items[i].sensitive # p.sensitive
    \/ \E a \in st.added : a.fact = p.fact /\ a.sensitive # p.sensitive
Matching(st, p) == {i \in Known(st, p.fact) : st.rows.items[i].target = p.target}
-----------------------------------------------------------------------------
(* _validate_one.                                                          *)

\* _curator_proposal_can_activate
CanActivate(p) ==
    /\ p.op # "mark_candidate" /\ p.asked # "candidate"
    /\ p.op # "reinforce" => p.sure
Evident(p) == p.user \/ (CanActivate(p) => p.direct)

\* The row the proposal is about may still be changed.
Open(st, p) ==
    p.item # None => /\ p.item \in Present(st.rows)
                     /\ st.rows.items[p.item].status \in Live

\* _with_target_metadata, then the classification of the content.
AsProposed(st, p) == p.sensitive           \* mutant: the content is not looked at
Sensitivity(st, p) ==
    \/ p.sensitive
    \/ p.item # None /\ st.rows.items[p.item].sensitive
    \/ p.fact \in Private

\* _candidate_if_ambiguous
Ambiguous(p) ==
    IF p.sure \/ p.op \notin ContentOps THEN p
    ELSE [p EXCEPT !.op = "mark_candidate", !.item = None,
                   !.target = IF p.item = None THEN @ ELSE p.item]

\* What becomes of a proposal whose content is that of item i.
Onto(st, p, i) ==
    CASE p.op = "mark_candidate" ->
            IF p.target = None /\ st.rows.items[i].status # "candidate"
            THEN [p EXCEPT !.target = i] ELSE p
      [] p.op = "add" -> [p EXCEPT !.op = "reinforce", !.item = i, !.fact = None]
      [] p.op = "revise" ->
            IF i = p.item THEN [p EXCEPT !.op = "reinforce", !.fact = None]
            ELSE IF p.user
            THEN [p EXCEPT !.op = "merge", !.item = i, !.related = {p.item}, !.fact = None]
            ELSE Rejected
      [] OTHER -> p

Validated(st, proposal) ==
    IF ~(Open(st, proposal) /\ Evident(proposal)) THEN {Rejected}
    ELSE LET p == Ambiguous([proposal EXCEPT !.sensitive = Sensitivity(st, proposal)])
             same == Matching(st, p)
         IN  IF p.op \notin ContentOps \/ same = {} THEN
                IF p.op \in ContentOps /\ SensitivityCollision(st, p) THEN {Rejected} ELSE {p}
             ELSE IF SensitivityCollision(st, p) THEN {Rejected}
             ELSE {Onto(st, p, i) : i \in same}
-----------------------------------------------------------------------------
(* _stage_operation.                                                       *)

StagedRow(row, p) ==
    CASE p.op = "forget" -> None
      [] p.op \in {"merge", "reinforce"} -> [row EXCEPT !.status = Awake(@)]
      [] p.op = "contradict" -> [row EXCEPT !.status = "contradicted"]
      [] p.op = "revise" ->
            [row EXCEPT !.fact = p.fact, !.sensitive = p.sensitive,
                        !.status = IF p.asked = None THEN @ ELSE p.asked]

Stage(st, p) ==
    [rows |-> IF p.item = None THEN st.rows
              ELSE [st.rows EXCEPT !.items =
                       [i \in Ids |-> IF i = p.item THEN StagedRow(@[i], p)
                                      ELSE IF p.op = "merge" /\ i \in p.related THEN None
                                      ELSE @[i]]],
     added |-> IF p.op \in {"add", "mark_candidate", "contradict"}
               THEN st.added \union {[fact |-> p.fact, sensitive |-> p.sensitive]}
               ELSE st.added]

\* validate: the sequences of accepted proposals, with what they stage.
Decide(v, proposal) ==
    {IF p = Rejected THEN v
     ELSE [st |-> Stage(v.st, p), accepted |-> Append(v.accepted, p)] :
        p \in Validated(v.st, proposal)}

Decided(vs, proposal) == UNION {Decide(v, proposal) : v \in vs}
Accepted(d, proposals) ==
    LET decided[n \in 0..Len(proposals)] ==
            IF n = 0 THEN {[st |-> Staged(d), accepted |-> <<>>]}
            ELSE Decided(decided[n - 1], proposals[n])
    IN  {v.accepted : v \in decided[Len(proposals)]}
=============================================================================
