---------------------------- MODULE CodingEvents ----------------------------
(***************************************************************************)
(* The event-sourced side of the coding ledger: the event log of           *)
(* lbah/coding/events.py, its projection, and the mirroring of a ledger    *)
(* mutation into events (lbah/coding/certificates.py).                     *)
(*                                                                         *)
(* A log is the sequence of its events in the order of their seq: append   *)
(* numbers each event one above the largest, so position and seq agree.    *)
(* Nothing in the harness appends the add_evidence event.                  *)
(***************************************************************************)
EXTENDS CodingLedger, Sequences

Declare(id, c)      == [type |-> "declare_concern", id |-> id, concern |-> c]
Revise(id, c)       == [type |-> "revise_concern", id |-> id, concern |-> c]
SetStatus(id, s, E) == [type |-> "set_status", id |-> id, status |-> s, evidence |-> E]

(* An event that changes no concern: note, record_action, fork_workspace,  *)
(* record_llm_io, record_tool_io, record_observation.                      *)
Note(kind) == [type |-> "note", kind |-> kind]

(* One event folded into the projection P.  declare and revise are         *)
(* last-write-wins on every field except evidence, which is merged;        *)
(* set_status of an unknown id does nothing.                               *)
ApplyEvent(P, e) ==
    CASE e.type = "set_status" ->
            [i \in DOMAIN P |->
                IF i # e.id THEN P[i]
                ELSE [P[i] EXCEPT !.status = e.status, !.evidence = @ \union e.evidence]]
      [] e.type \in {"declare_concern", "revise_concern"} ->
            [i \in DOMAIN P \union {e.id} |->
                IF i # e.id THEN P[i]
                ELSE IF i \notin DOMAIN P THEN e.concern
                ELSE [e.concern EXCEPT !.evidence = @ \union P[i].evidence]]
      [] OTHER -> P

(* The one item of evidence a set_status carries: the last new one.  An    *)
(* action appends its update's evidence first and its rationale last, an   *)
(* observation its message last, so the last new item is in "latest"       *)
(* whenever that set has a new item.                                       *)
LastNew(new, latest) ==
    IF new = {} THEN {}
    ELSE IF latest \intersect new # {} THEN {CHOOSE e \in latest \intersect new : TRUE}
    ELSE {CHOOSE e \in new : TRUE}

(* What mirror_ledger_delta does to the projection of the log, concern by  *)
(* concern: nothing, one event, or a set_status followed by a revise.      *)
NeedsRevise(b, c) ==
    \/ b.kind # c.kind
    \/ b.text # c.text
    \/ b.concern # c.concern
    \/ b.evidence # c.evidence /\ b.status = c.status

(* Variant: a concern whose status changed is not revised as well.         *)
MirrorConcernElse(p, b, c, latest) ==
    IF b.status # c.status THEN [p EXCEPT !.status = c.status]
    ELSE IF NeedsRevise(b, c) THEN [c EXCEPT !.evidence = @ \union p.evidence]
    ELSE p

MirrorConcern(p, b, c, latest) ==
    LET item    == IF b.status = c.status THEN {} ELSE LastNew(c.evidence \ b.evidence, latest)
        status  == IF b.status = c.status THEN p.status ELSE c.status
        marked  == [p EXCEPT !.status = status, !.evidence = @ \union item]
    IN IF NeedsRevise(b, c) THEN [c EXCEPT !.evidence = @ \union marked.evidence]
       ELSE marked

MirrorDelta(P, before, after, latest) ==
    [i \in DOMAIN P \union DOMAIN after |->
        IF i \notin DOMAIN after THEN P[i]
        ELSE IF i \notin DOMAIN P THEN after[i]
        ELSE IF i \notin DOMAIN before
             THEN [after[i] EXCEPT !.evidence = @ \union P[i].evidence]
        ELSE MirrorConcern(P[i], before[i], after[i], latest)]

(* Variant: a concern whose status changed is not revised as well.         *)
DeltaEventsElse(i, before, after, latest) ==
    IF i \notin DOMAIN before THEN <<Declare(i, after[i])>>
    ELSE LET b == before[i]
             c == after[i]
         IN IF b.status # c.status
            THEN <<SetStatus(i, c.status, LastNew(c.evidence \ b.evidence, latest))>>
            ELSE IF NeedsRevise(b, c) THEN <<Revise(i, c)>> ELSE << >>

(* The same as a sequence of events, for the modules that keep the log.    *)
DeltaEvents(i, before, after, latest) ==
    IF i \notin DOMAIN before THEN <<Declare(i, after[i])>>
    ELSE LET b == before[i]
             c == after[i]
         IN (IF b.status # c.status
             THEN <<SetStatus(i, c.status, LastNew(c.evidence \ b.evidence, latest))>>
             ELSE << >>)
            \o (IF NeedsRevise(b, c) THEN <<Revise(i, c)>> ELSE << >>)
=============================================================================
