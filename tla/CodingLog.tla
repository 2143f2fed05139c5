----------------------------- MODULE CodingLog ------------------------------
(***************************************************************************)
(* The event log of a coding run as the sequence of its events             *)
(* (lbah/coding/events.py), and the branch a tournament makes of it        *)
(* (lbah/coding/tournament.py).                                            *)
(*                                                                         *)
(* CodingRun keeps the projection of the log and no log; here the two are  *)
(* kept side by side, under the same changes of the ledger, to check that  *)
(* the one is always the projection of the other.                          *)
(***************************************************************************)
EXTENDS CodingEvents, SequencesExt

CONSTANTS
    MaxTurns,       \* bound on the ledger changes of a run
    Proposals,      \* actions applied to the ledger
    Observations,   \* observations applied to the ledger
    FirstLedger     \* CodingLedger.from_task(task)

Proposal == [updates: SUBSET [id: Ids, concern: CodingConcern], addressed: SUBSET Ids,
             rationale: SUBSET Texts]

ASSUME LogAssumption ==
    /\ MaxTurns \in Nat
    /\ \A a \in Proposals : a \in Proposal
    /\ Observations \subseteq CodingObservation
    /\ IsLedger(FirstLedger) /\ IsFiniteSet(DOMAIN FirstLedger)

VARIABLES
    turn,        \* number of ledger changes
    working,     \* the concerns of the working ledger
    observed,    \* number of observations in ledger.events
    log,         \* the events of the log
    mirror       \* the concerns of log.project(), kept step by step

logVars == <<turn, working, observed, log, mirror>>

LogTypeOK ==
    /\ turn \in 0..MaxTurns
    /\ IsLedger(working) /\ IsLedger(mirror)
    /\ observed \in 0..turn
    /\ \A n \in DOMAIN log :
        log[n].type \in {"declare_concern", "revise_concern", "set_status", "note"}
-----------------------------------------------------------------------------

(* events_from_ledger: one declare for each concern.                       *)
EventsFromLedger(L) ==
    LET ids == SetToSeq(DOMAIN L) IN [n \in DOMAIN ids |-> Declare(ids[n], L[ids[n]])]

(* The projections that folding the events of l into P goes through.       *)
Folds(P, l) ==
    LET upTo[n \in 0..Len(l)] == IF n = 0 THEN P ELSE ApplyEvent(upTo[n - 1], l[n])
    IN upTo

Project(l) == Folds(<< >>, l)[Len(l)]

(* The events of a change of the ledger, concern by concern.  Concerns do  *)
(* not mix in a projection, so their order among one another is immaterial.*)
Deltas(before, after, latest, ids) ==
    LET upTo[n \in 0..Len(ids)] ==
            IF n = 0 THEN << >>
            ELSE upTo[n - 1] \o DeltaEvents(ids[n], before, after, latest)
    IN upTo

DeltaLog(before, after, latest) ==
    LET ids == SetToSeq(DOMAIN after) IN Deltas(before, after, latest, ids)[Len(ids)]

LogInit ==
    /\ turn = 0
    /\ working = FirstLedger /\ observed = 0
    /\ log = EventsFromLedger(FirstLedger)
    /\ mirror = FirstLedger

Change(after, latest) ==
    /\ turn < MaxTurns /\ turn' = turn + 1
    /\ working' = after
    /\ mirror' = MirrorDelta(mirror, working, after, latest)

RecordAction ==
    \E a \in Proposals :
        LET after == ApplyAction(working, a)
        IN /\ Change(after, a.rationale)
           /\ log' = Append(log, Note("record_action")) \o DeltaLog(working, after, a.rationale)
           /\ UNCHANGED observed

(* Variant: the observation is recorded by the ledger and by its caller.   *)
RecordTwice ==
    \E o \in Observations :
        LET after == ApplyObservation(working, observed + 1, o)
        IN /\ Change(after, {o.message})
           /\ log' = Append(log \o DeltaLog(working, after, {o.message}),
                            Note("record_observation"))
           /\ observed' = observed + 2

RecordObservation ==
    \E o \in Observations :
        LET after == ApplyObservation(working, observed + 1, o)
        IN /\ Change(after, {o.message})
           /\ log' = Append(log \o DeltaLog(working, after, {o.message}),
                            Note("record_observation"))
           /\ observed' = observed + 1

LogDone == turn = MaxTurns /\ UNCHANGED logVars

LogNext == RecordAction \/ RecordObservation \/ LogDone

LogSpec == LogInit /\ [][LogNext]_logVars
-----------------------------------------------------------------------------

(* The log of a candidate: the tournament's root log, forked after its     *)
(* opening note, the mark of the fork, and the events of the candidate's   *)
(* own log but for the declarations of what is declared already.           *)
Declared(b, e) ==
    \E n \in DOMAIN b : b[n].type = "declare_concern" /\ b[n].id = e.id

Root == Append(EventsFromLedger(FirstLedger), Note("tournament_start"))

Fork == Append(Root, Note("fork_workspace"))

(* Variant: every event of a concern the branch declares is skipped.       *)
BranchesSkipping(child) ==
    LET upTo[n \in 0..Len(child)] ==
            IF n = 0 THEN Fork
            ELSE IF child[n].type # "note" /\ Declared(upTo[n - 1], child[n]) THEN upTo[n - 1]
            ELSE Append(upTo[n - 1], child[n])
    IN upTo

Branches(child) ==
    LET upTo[n \in 0..Len(child)] ==
            IF n = 0 THEN Fork
            ELSE IF child[n].type = "declare_concern" /\ Declared(upTo[n - 1], child[n])
                 THEN upTo[n - 1]
            ELSE Append(upTo[n - 1], child[n])
    IN upTo

Branch(child) == Branches(child)[Len(child)]

(* Folding the events of the log, in the order of their seq, gives the     *)
(* projection that CodingRun keeps step by step: a status change followed  *)
(* by a revise of the same concern loses neither.                          *)
LogProjects == Project(log) = mirror

(* At every point of a run the log is well formed and gives the projection.*)
LogAgrees == LogTypeOK /\ LogProjects

(* A candidate's branch of the tournament's log projects to the same       *)
(* concerns as the candidate's own log, though the branch starts from      *)
(* declarations of its own and skips the candidate's.                      *)
BranchProjects == Project(Branch(log)) = Project(log)
=============================================================================
