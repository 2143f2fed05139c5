--------------------------- MODULE MCHarnessLoop ----------------------------
(***************************************************************************)
(* Two or three variables, one of them stale, on a reversible and an       *)
(* irreversible surface, with proposals that fail each of the gates.       *)
(***************************************************************************)
EXTENDS HarnessLoop

CONSTANTS va, vb, vc, soft, hard, other, p1, p2, p3

MCVarIds == {va, vb, vc}
MCSurfaces == {soft, hard, other}
MCIdentified == {soft, hard}
MCIrreversible == {hard}
MCPayloads == {p1, p2, p3}

Var(id, concern, freshness, risks) ==
    [id |-> id, concern |-> concern, freshness |-> freshness, risks |-> risks,
     surfaces |-> {}, forbidden |-> FALSE]

(* A proposal of two agents that were each told everything that counts.    *)
Proposal(surface, payload, final, carries, claims) ==
    [surface |-> surface, payload |-> payload, final |-> final, carries |-> carries,
     claims |-> claims, verdicts |-> {"passed", "unregistered"}, shortcut |-> FALSE,
     traced |-> TRUE, shared |-> TRUE,
     handoffs |-> <<[mentions |-> {va}, isolated |-> FALSE],
                    [mentions |-> {vb}, isolated |-> TRUE]>>]

(* va is high and stale; vb is stale, and too low to be reopened alone.    *)
MCVars == <<Var(va, 9, 2, 3), Var(vb, 6, 4, 1)>>

(* A stronger vb that is stale, a forbidden vc.                            *)
MCSurfaceable == {Var(vb, 10, 0, 2), [Var(vc, 5, 10, 1) EXCEPT !.forbidden = TRUE]}

MCProposals == {
    Proposal(soft, p1, TRUE, {va, vb}, {va}),
    Proposal(hard, p2, TRUE, {va, vb}, {}),
    Proposal(soft, p3, FALSE, {va, vb, vc}, {}),
    Proposal(soft, p1, FALSE, {va}, {vb}),
    Proposal(soft, p2, FALSE, {va}, {}),
    Proposal(hard, p3, TRUE, {vb}, {}),
    [Proposal(soft, p1, TRUE, {va, vb}, {}) EXCEPT !.verdicts = {"passed", "raised"}],
    Proposal(other, p2, TRUE, {va, vb}, {}),
    [Proposal(soft, p3, TRUE, {va, vb}, {}) EXCEPT !.traced = FALSE, !.handoffs = << >>],
    [Proposal(soft, p3, TRUE, {va, vb}, {}) EXCEPT !.handoffs = Tail(@)],
    [Proposal(soft, p1, TRUE, {va, vb}, {}) EXCEPT !.handoffs[2].isolated = FALSE],
    [Proposal(soft, p2, TRUE, {va, vb}, {}) EXCEPT !.shortcut = TRUE] }
=============================================================================
