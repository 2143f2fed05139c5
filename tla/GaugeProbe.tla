----------------------------- MODULE GaugeProbe -----------------------------
(***************************************************************************)
(* The gauge-fixing probe (core/events.py): does a commitment move when a  *)
(* distinction of the ledger is changed in everything that carries it?     *)
(*                                                                         *)
(* What the probe changes is a bundle: a function from the carriers (the   *)
(* variables of the ledger, the entries of the task's metadata) to what    *)
(* they hold: None, a leaf, which is compared as a whole and never         *)
(* searched for a part, or a list or dict, a function from its places to   *)
(* its leaves, which is searched and never compared.  A commitment is a    *)
(* function from its places to what stands there.                          *)
(***************************************************************************)
EXTENDS ConcernEvents

CONSTANTS Composites,   \* the values that are lists or dicts
          Sentinel      \* what _gauge_alt_value makes up

ASSUME GaugeAssumption ==
    /\ Composites \subseteq Values
    /\ \A x \in Composites :
        x = [place \in DOMAIN x |-> x[place]] /\ Range(x) \subseteq Values \ Composites
    /\ Sentinel \notin Values \cup {None}

Bundle(vars, metadata) == Over([id \in Declared(vars) |-> vars[id].value], metadata)

(* Variant: only the variable is changed, not what else holds its value.   *)
SweepNode(bundle, id, proxy) == [bundle EXCEPT ![id] = proxy]

(* Variant: a list or dict is compared as a whole, like a leaf.            *)
SwapWhole(x, old, new) == IF x = old THEN new ELSE x

(* _sweep_value: the leaf old gives way to new, also inside a list or      *)
(* dict; a list or dict itself gives way to nothing.                       *)
Swap(x, old, new) ==
    IF x \in Composites THEN [place \in DOMAIN x |-> IF x[place] = old THEN new ELSE x[place]]
    ELSE IF x = old THEN new ELSE x

(* The alternate ledger: every carrier swept, or the variable alone        *)
(* overridden when it has no value to look for.                            *)
Sweep(bundle, id, proxy) ==
    IF bundle[id] = None THEN [bundle EXCEPT ![id] = proxy]
    ELSE [c \in DOMAIN bundle |-> Swap(bundle[c], bundle[id], proxy)]

(* The bundles the agent commits on: commit below is a function of them.   *)
Probed(bundle, id, proxy) == {bundle, Sweep(bundle, id, proxy)}

CommitmentChanged(bundle, id, proxy, commit) ==
    commit[Sweep(bundle, id, proxy)] # commit[bundle]

Leaves(x) == IF x \in Composites THEN Range(x) ELSE {x}

(* _value_present: a list or dict is no leaf of anything.                  *)
ValuePresent(bundle, id, commit) ==
    bundle[id] # None /\ \E x \in Range(commit[bundle]) : bundle[id] \in Leaves(x)

Verdict(bundle, id, proxy, commit) ==
    IF CommitmentChanged(bundle, id, proxy, commit) THEN "gauge_fixed"
    ELSE IF ValuePresent(bundle, id, commit) THEN "invariant_but_value_present"
    ELSE "invariant_and_absent"

(* _gauge_alt_value of the proxy adversary: what another variable holds,   *)
(* or else a sentinel nothing holds.                                       *)
AltValues(vars, id) ==
    LET others == {vars[o].value : o \in Declared(vars)} \ {None, vars[id].value}
    IN IF others # {} THEN others ELSE {Sentinel}

(* A commitment that shows what it reads from some carriers and a value of *)
(* its own, either as leaves or worked into a text.                        *)
AgentCommit(reads, own, encoded, bundle) ==
    LET shown == Over([c \in reads |-> bundle[c]], [own |-> own])
    IN IF encoded THEN [signature |-> shown] ELSE shown

(* Variant: a leaf follows the value it holds, whether or not a variable   *)
(* held it when the action was proposed.                                   *)
TrackingAny(vars, leaf, bundle) ==
    [leaf |-> IF \E id \in Declared(vars) : bundle[id] # leaf
              THEN bundle[CHOOSE id \in Declared(vars) : bundle[id] # leaf] ELSE leaf]

(* tracking_commit_fn: the payload of the proposal, where a leaf that a    *)
(* variable held follows the variable.                                     *)
TrackingCommit(vars, leaf, bundle) ==
    [leaf |-> IF \E id \in Declared(vars) : vars[id].value = leaf
              THEN bundle[CHOOSE id \in Declared(vars) : vars[id].value = leaf] ELSE leaf]

-----------------------------------------------------------------------------

(* The verdict says what the commitment owes to the distinction, whatever  *)
(* the agent reads and however it writes it down: it is gauge-fixed        *)
(* exactly if the agent reads a carrier that holds the value, the variable *)
(* or another one, as a leaf or inside a list or dict; it is let pass as   *)
(* merely present exactly if the agent shows the value and has it from     *)
(* itself; otherwise it blocks.  A variable without a value is fixed by    *)
(* those who read it; one whose value is a list or dict blocks even them   *)
(* (events.py:343), for its value is a leaf of nothing.                    *)
VerdictIsEarned ==
    LET vars == Project(log)
    IN \A id \in Declared(vars), meta \in Values, own \in Values \cup {None},
          encoded \in BOOLEAN, reads \in SUBSET (Declared(vars) \cup {"metadata"}) :
        LET bundle == Bundle(vars, [metadata |-> meta])
            carried == IF bundle[id] = None THEN id \in reads
                       ELSE \E c \in reads : bundle[id] \in Leaves(bundle[c])
            shown == bundle[id] # None /\ ~encoded /\ bundle[id] \in Leaves(own)
        IN \A proxy \in AltValues(vars, id) :
            LET commit == [b \in Probed(bundle, id, proxy) |-> AgentCommit(reads, own, encoded, b)]
            IN Verdict(bundle, id, proxy, commit) =
                IF carried THEN "gauge_fixed"
                ELSE IF shown THEN "invariant_but_value_present"
                ELSE "invariant_and_absent"

(* With the commitment the held-out evaluation derives from a payload the  *)
(* probe of a variable asks whether the payload has its value as a leaf,   *)
(* and nothing more: the verdict is never the one in between.  Only        *)
(* variables that have a value are probed (proxy_adversary.py:195).        *)
TrackingIsPresence ==
    LET vars == Project(log)
    IN \A id \in {i \in Declared(vars) : vars[i].value # None}, meta \in Values,
          leaf \in (Values \ Composites) \cup {Sentinel, None} :
        LET bundle == Bundle(vars, [metadata |-> meta]) IN
        \A proxy \in AltValues(vars, id) :
            LET commit == [b \in Probed(bundle, id, proxy) |-> TrackingCommit(vars, leaf, b)]
            IN Verdict(bundle, id, proxy, commit) =
                IF leaf = bundle[id] THEN "gauge_fixed" ELSE "invariant_and_absent"

(* Both uses of the gauge probe: with a commitment that can be run again,  *)
(* and with the one derived from a payload.                                *)
VerdictsAreEarned == VerdictIsEarned /\ TrackingIsPresence
=============================================================================
