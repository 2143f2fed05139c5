--------------------------- MODULE ConcernEvents ---------------------------
(***************************************************************************)
(* The append-only log of concern events (core/events.py): a ledger is     *)
(* its projection, a branch is a copy of the log up to an event, and two   *)
(* logs are compared through their projections.                            *)
(*                                                                         *)
(* append gives an event the highest sequence number plus one, and a       *)
(* branch keeps what has a number up to the fork, so the number of an      *)
(* event is its place in the log.  The payload of an event is the part of  *)
(* the fields it sets.  An event names its variable in variable_id or, if  *)
(* it has none, in the payload's "id"; callers may do either.  A variable  *)
(* is revised after it has been declared: the projection of a log that     *)
(* revises what it does not know raises, for the want of required fields.  *)
(***************************************************************************)
EXTENDS Integers, Sequences, FiniteSets, SequencesExt

CONSTANTS Ids,          \* the ids of the variables
          Values,       \* what a variable may be worth
          None,         \* neither a value nor an id
          MaxEvents,    \* how many events the log may have (bounds the model)
          MaxBranch     \* how many events the branch may add (bounds the model)

ASSUME NoneAssumption == None \notin Ids /\ None \notin Values

ASSUME LogAssumption == MaxEvents \in Nat /\ MaxBranch \in Nat

VARIABLES log,      \* the events of the log
          fork,     \* the number the branch was forked at, or -1
          branch    \* the events of the branch

logVars == <<log, fork, branch>>

(* Of the fields, one that diff compares and one that it does not.         *)
Compared == {"value"}
Fields == Compared \cup {"proxy_risks"}
Default == [value |-> None, proxy_risks |-> 0]

Payloads ==
    {<<>>}
        \cup [{"value"} -> Values \cup {None}]
        \cup [{"proxy_risks"} -> {0, 1}]
        \cup [value : Values \cup {None}, proxy_risks : {0}]

Event == [type : {"declare", "revise", "add_surface", "note"},
          id : Ids \cup {None}, payloadId : Ids \cup {None}, payload : Payloads]

(***************************************************************************)
(* project: what a log comes to.  The last event that sets a field wins;   *)
(* notes and recorded model calls, and events that name no variable, are   *)
(* passed over; surfaces are gathered apart.                               *)
(***************************************************************************)
EventId(e) == IF e.id # None THEN e.id ELSE e.payloadId

(* f, and g where f says nothing: TLC's @@, written out for the proofs.    *)
Over(f, g) ==
    [x \in DOMAIN f \cup DOMAIN g |-> IF x \in DOMAIN f THEN f[x] ELSE g[x]]

Declared(vars) == DOMAIN vars

(* Variant: a revision replaces the variable instead of updating it.       *)
FoldReplacing(e, vars) ==
    IF e.type \in {"note", "add_surface"} \/ EventId(e) = None THEN vars
    ELSE Over([id \in {EventId(e)} |-> Over(e.payload, Default)], vars)

Fold(e, vars) ==
    IF e.type \in {"note", "add_surface"} \/ EventId(e) = None THEN vars
    ELSE LET old == IF EventId(e) \in Declared(vars) THEN vars[EventId(e)] ELSE Default
         IN Over([id \in {EventId(e)} |-> Over(e.payload, old)], vars)

Projections(events) ==
    LET upTo[n \in 0..Len(events)] ==
            IF n = 0 THEN <<>> ELSE Fold(events[n], upTo[n - 1])
    IN upTo

Project(events) == Projections(events)[Len(events)]

Surfaces(events) ==
    {EventId(e) : e \in {f \in Range(events) : f.type = "add_surface"}} \ {None}

(* lineage: the events that name a variable in variable_id.                *)
Lineages(events, id) ==
    LET upTo[n \in 0..Len(events)] ==
            IF n = 0 THEN <<>>
            ELSE IF events[n].id = id THEN Append(upTo[n - 1], events[n]) ELSE upTo[n - 1]
    IN upTo

Lineage(events, id) == Lineages(events, id)[Len(events)]

(* diff: the variables two projections do not share, and the compared      *)
(* fields they disagree on.                                                *)
Unshared(before, after) ==
    (Declared(before) \cup Declared(after)) \ (Declared(before) \cap Declared(after))

Changed(before, after) ==
    {d \in (Declared(before) \cap Declared(after)) \X Compared :
        before[d[1]][d[2]] # after[d[1]][d[2]]}

(* Variant: a variable that only one side has is passed over.              *)
DiffCommon(before, after) == Changed(before, after)

Diff(before, after) ==
    Changed(before, after) \cup (Unshared(before, after) \X {"declared"})

(* Variant: the declaration has the variable's value and nothing else.     *)
EventsFromValues(vars) ==
    [i \in 1..Cardinality(Declared(vars)) |->
        LET id == SetToSeq(Declared(vars))[i]
        IN [type |-> "declare", id |-> id, payloadId |-> id,
            payload |-> [value |-> vars[id].value]]]

(* events_from_ledger: one declaration for every variable.                 *)
EventsFromLedger(vars) ==
    [i \in 1..Cardinality(Declared(vars)) |->
        LET id == SetToSeq(Declared(vars))[i]
        IN [type |-> "declare", id |-> id, payloadId |-> id, payload |-> vars[id]]]

-----------------------------------------------------------------------------

(* The events a caller may append: a declaration of a variable with all    *)
(* its fields, of which the value is None for a known proxy risk           *)
(* (concern_mapper.py:45), a revision of some fields of a declared one, which may name *)
(* the variable in the payload alone, a note and a surface.                *)
Appendable(events) ==
    LET known == Declared(Project(events))
    IN {e \in Event :
            /\ (e.type = "declare") =>
                    /\ e.id # None /\ e.payloadId = e.id
                    /\ DOMAIN e.payload = Fields
            /\ (e.type = "revise") =>
                    /\ EventId(e) \in known /\ Cardinality(DOMAIN e.payload) = 1
                    /\ (e.id = None \/ e.payloadId = None)
            /\ (e.type = "note") => e.id = None /\ e.payloadId = None /\ e.payload = <<>>
            /\ (e.type = "add_surface") =>
                    e.id # None /\ e.payloadId = None /\ e.payload = <<>>}

LogInit == log = <<>> /\ fork = -1 /\ branch = <<>>

AppendEvent(e) ==
    /\ Len(log) < MaxEvents
    /\ e \in Appendable(log)
    /\ log' = Append(log, e)
    /\ UNCHANGED <<fork, branch>>

(* Variant: the event the log is forked at is left out.                    *)
ForkBefore(seq) ==
    /\ fork = -1
    /\ fork' = seq /\ branch' = SubSeq(log, 1, seq - 1)
    /\ UNCHANGED log

ForkAt(seq) ==
    /\ fork = -1
    /\ fork' = seq /\ branch' = SubSeq(log, 1, seq)
    /\ UNCHANGED log

AppendToBranch(e) ==
    /\ fork # -1
    /\ Len(branch) < fork + MaxBranch
    /\ e \in Appendable(branch)
    /\ branch' = Append(branch, e)
    /\ UNCHANGED <<log, fork>>

LogNext ==
    \/ \E e \in Event : AppendEvent(e)
    \/ \E seq \in 0..Len(log) : ForkAt(seq)
    \/ \E e \in Event : AppendToBranch(e)

LogSpec == LogInit /\ [][LogNext]_logVars

-----------------------------------------------------------------------------

LogTypeOK ==
    /\ log \in Seq(Event) /\ branch \in Seq(Event)
    /\ fork \in -1..MaxEvents
    /\ Len(log) <= MaxEvents

(* A field is worth what the events that name the variable made of it last *)
(* or, if none set it, what it is by default.  The lineage of the variable *)
(* explains it unless an event named the variable in its payload alone:    *)
(* that one is projected (events.py:164) and is not in the lineage         *)
(* (events.py:191).                                                        *)
LineageExplains ==
    LET vars == Project(log)
    IN \A id \in Declared(vars), field \in Fields :
        LET setting == {n \in 1..Len(log) :
                            /\ log[n].type \in {"declare", "revise"}
                            /\ EventId(log[n]) = id /\ field \in DOMAIN log[n].payload}
            lineage == {n \in 1..Len(Lineage(log, id)) :
                            /\ Lineage(log, id)[n].type \in {"declare", "revise"}
                            /\ field \in DOMAIN Lineage(log, id)[n].payload}
        IN IF setting = {} THEN vars[id][field] = Default[field]
           ELSE /\ vars[id][field] = log[Max(setting)].payload[field]
                /\ (\A n \in setting : log[n].id = id) =>
                        vars[id][field] = Lineage(log, id)[Max(lineage)].payload[field]

(* A branch that has just been forked agrees with the log as it was, and   *)
(* whatever the two disagree on later was touched, in one or the other,    *)
(* after the fork: nobody else's variable is named in their difference.    *)
DiffNamesOnlyTouched ==
    fork # -1 =>
        \A d \in Diff(Project(log), Project(branch)) :
            \/ \E n \in fork + 1..Len(log) : EventId(log[n]) = d[1]
            \/ \E n \in fork + 1..Len(branch) : EventId(branch[n]) = d[1]

(* Two ledgers that differ while diff finds nothing differ in a field diff *)
(* does not compare (events.py:97), and some event after the fork set it:  *)
(* in everything else an empty difference means the same ledger.           *)
DiffMissesOnlyUncompared ==
    /\ fork # -1
    /\ Diff(Project(log), Project(branch)) = {}
    /\ Project(log) # Project(branch)
    => \E events \in {log, branch} : \E n \in fork + 1..Len(events) :
            /\ \/ events[n].type = "revise"
               \/ EventId(events[n]) \in Declared(Project(SubSeq(log, 1, fork)))
            /\ "proxy_risks" \in DOMAIN events[n].payload

(* The bridge from a ledger to a log loses nothing: projecting the log     *)
(* made of a ledger gives the ledger back.                                 *)
LedgerRoundTrip == Project(EventsFromLedger(Project(log))) = Project(log)

(* What projection, lineage and difference of a log say of one another.    *)
QueriesAgree ==
    /\ LogTypeOK
    /\ LineageExplains
    /\ DiffNamesOnlyTouched /\ DiffMissesOnlyUncompared
    /\ LedgerRoundTrip
=============================================================================
