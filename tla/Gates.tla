------------------------------- MODULE Gates --------------------------------
(***************************************************************************)
(* The gates of the core harness and the decision made from them           *)
(* (lbah/modules/transport_auditor.py, proxy_adversary.py,                 *)
(* orchestration_auditor.py, reopenability_governor.py, verifier.py,       *)
(* lbah/core/certificates.py).                                             *)
(*                                                                         *)
(* Concern and freshness are in tenths, the weight of a gate in            *)
(* twentieths; a gate that is not emitted has weight 0.  Every variable    *)
(* has a concrete value of its own, so that a payload is what it carries.  *)
(***************************************************************************)
EXTENDS Integers, Sequences, Functions

CONSTANTS
    VarIds,         \* ids of concern variables
    Surfaces,       \* ids of commitment surfaces
    Identified,     \* those that the surface mapper found
    Irreversible,   \* those that are irreversible, all of them if the task is
    Critical,       \* the ids in metadata.critical_variable_ids
    TraceRequired,  \* metadata.requires_orchestration_trace
    Payloads        \* names of payloads

ASSUME GatesAssumption ==
    /\ Irreversible \subseteq Surfaces /\ Identified \subseteq Surfaces
    /\ Critical \subseteq VarIds /\ TraceRequired \in BOOLEAN

(* risks: the number of proxy_risks, the "forbidden" tag among them;       *)
(* surfaces: the required_surfaces, none standing for all.                 *)
ConcernVariable == [id: VarIds, concern: 1..10, freshness: 0..10, risks: Nat,
                    surfaces: SUBSET Surfaces, forbidden: BOOLEAN]

(* mentions: the variables named in its fields, by id, name or value;      *)
(* isolated: it has an access list or says that it is isolated.            *)
Handoff == [mentions: SUBSET VarIds, isolated: BOOLEAN]

(* What a validator of the surface, or of the environment, comes to.       *)
Verdict == {"passed", "failed", "raised", "unregistered"}

(* carries: the variables whose value is in the payload; final: the type   *)
(* of action that ends the task; verdicts: what the validators would say;  *)
(* shortcut: a proxy check of the environment or of the gauge probe fails; *)
(* traced, shared, handoffs: the orchestration trace in the payload.       *)
ActionProposal == [surface: Surfaces, payload: Payloads, final: BOOLEAN,
                   carries: SUBSET VarIds, claims: SUBSET VarIds,
                   verdicts: SUBSET Verdict, shortcut: BOOLEAN,
                   traced: BOOLEAN, shared: BOOLEAN, handoffs: Seq(Handoff)]

Gate(passed, weight) == [passed |-> passed, weight |-> weight]
Silent == Gate(TRUE, 0)

-----------------------------------------------------------------------------

Audited(v, p) == ~v.forbidden /\ (v.surfaces = {} \/ p.surface \in v.surfaces)

ValueGates(L, p) ==
    [n \in DOMAIN L |-> IF Audited(L[n], p)
                        THEN Gate(L[n].id \in p.carries, 2 * L[n].concern) ELSE Silent]

Mentioned(p) == UNION {p.handoffs[n].mentions : n \in DOMAIN p.handoffs}

(* The orchestration auditor asks for forbidden variables too.             *)
MustHandOver(v, p) == v.concern >= 7 /\ (v.surfaces = {} \/ p.surface \in v.surfaces)

HandoffGates(L, p) ==
    [n \in DOMAIN L |-> IF MustHandOver(L[n], p)
                        THEN Gate(L[n].id \in Mentioned(p), 2 * L[n].concern) ELSE Silent]

(* Two agents or more write to one transcript, and none of them is kept    *)
(* apart from it.                                                          *)
Collapses(p) ==
    Len(p.handoffs) >= 2 /\ p.shared /\ \A n \in DOMAIN p.handoffs : ~p.handoffs[n].isolated

TransportGates(L, p) ==
    ValueGates(L, p) \o (IF p.traced THEN <<Gate(TRUE, 4)>> \o HandoffGates(L, p)
                         ELSE IF TraceRequired THEN <<Gate(FALSE, 16)>> ELSE << >>)

WrongSlot(L, p) ==
    LET ids == {L[n].id : n \in DOMAIN L}
    IN (ids \intersect Critical) \intersect p.carries = {} \/ (ids \ Critical) \intersect p.carries # {}

ForbiddenPresent(L, p) == \E n \in DOMAIN L : L[n].forbidden /\ L[n].id \in p.carries
StaleUsed(L, p) == \E n \in DOMAIN L : L[n].id \in p.claims /\ L[n].freshness < 5

(* history: the last three payloads proposed.                              *)
ConstantAnswer(p, history) ==
    history # << >> /\ \A n \in DOMAIN history : history[n] = p.payload

ProxyGates(L, p, history) ==
    <<IF Critical = {} THEN Silent ELSE Gate(~WrongSlot(L, p), 20),
      Gate(~ForbiddenPresent(L, p), 20),
      Gate(~StaleUsed(L, p), 16),
      Gate(~p.shortcut, 20),
      IF ConstantAnswer(p, history) THEN Gate(FALSE, 12) ELSE Silent,
      IF p.traced THEN Gate(~Collapses(p), 14) ELSE Silent>>

(* A validator that raises has failed, one that is not registered has      *)
(* passed; on a surface that nobody identified none is asked.              *)
Valid(p) == p.surface \in Identified /\ p.verdicts \intersect {"failed", "raised"} = {}

(* concern * (1 - freshness) * irreversibility * proxy risk, in 1/2000ths. *)
ReopenScore(v, s) ==
    v.concern * (10 - v.freshness) * (IF s \in Irreversible THEN 2 ELSE 1)
        * (IF v.risks >= 4 THEN 10 ELSE 3 + 2 * v.risks)

ReopenThreshold(L, s) ==
    CASE s \in Irreversible -> 300
      [] s \notin Irreversible /\ (\E n \in DOMAIN L : L[n].concern >= 9) -> 500
      [] OTHER -> 900

NeedsReopen(L, v, s) ==
    v.freshness < 10 /\ ReopenScore(v, s) >= ReopenThreshold(L, s)

(* A variable that is fresh has no gate; one that passes has half weight.  *)
ReopenGates(L, p) ==
    [n \in DOMAIN L |->
        IF L[n].freshness = 10 THEN Silent
        ELSE IF NeedsReopen(L, L[n], p.surface) THEN Gate(FALSE, 2 * L[n].concern)
        ELSE Gate(TRUE, L[n].concern)]

-----------------------------------------------------------------------------

Fails(gates, weight) == \E n \in DOMAIN gates : ~gates[n].passed /\ gates[n].weight >= weight

Total(gates)  == SumFunction([n \in DOMAIN gates |-> gates[n].weight])
Passed(gates) == SumFunction([n \in DOMAIN gates |-> IF gates[n].passed THEN gates[n].weight ELSE 0])

(* A weighted score is Passed over Total, and 1 when there is no gate.     *)
Weight(gates) == IF Total(gates) = 0 THEN 1 ELSE Total(gates)
Good(gates)   == IF Total(gates) = 0 THEN 1 ELSE Passed(gates)

(* The load score, behavior and validity being 1 once every validator      *)
(* passes, is below the threshold of the surface.                          *)
Underloaded(L, p, history) ==
    LET T == TransportGates(L, p)
        P == ProxyGates(L, p, history)
        R == ReopenGates(L, p)
    IN 100 * Good(T) * Good(P) * Good(R)
         < (IF p.surface \in Irreversible THEN 15 ELSE 45) * Weight(T) * Weight(P) * Weight(R)

MustReopen(L, p) == Fails(ReopenGates(L, p), 18)

(* Variant: a failed transport has to weigh more than any weight.          *)
MustReviseLax(L, p, history) ==
    ~Valid(p) \/ Fails(ProxyGates(L, p, history), 14) \/ Fails(TransportGates(L, p), 21)

MustRevise(L, p, history) ==
    ~Valid(p) \/ Fails(ProxyGates(L, p, history), 14) \/ Fails(TransportGates(L, p), 14)

(* decide_from_gates never asks the user.                                  *)
Decide(L, p, history) ==
    IF MustReopen(L, p) THEN "reopen"
    ELSE IF MustRevise(L, p, history) THEN "revise"
    ELSE IF Underloaded(L, p, history) THEN "block"
    ELSE "allow"
=============================================================================
