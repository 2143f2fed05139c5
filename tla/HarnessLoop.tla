---------------------------- MODULE HarnessLoop -----------------------------
(***************************************************************************)
(* LoadBearingHarness.run (lbah/core/runner.py): the agent proposes, the   *)
(* gates judge the proposal against the concern ledger, and the decision   *)
(* is carried out in the environment, until the environment is done or     *)
(* the steps run out.  The loop is one thread; one turn of it is one step. *)
(*                                                                         *)
(* The proxy adversary may surface variables: none of the shipped checks   *)
(* does, the hook is for subclasses.  The event log is kept as its         *)
(* projection, one variable for each id.                                   *)
(***************************************************************************)
EXTENDS Gates, FiniteSets

CONSTANTS
    MaxSteps,      \* task.max_steps
    Proposals,     \* what the agent may propose
    InitialVars,   \* what the concern mapper extracted, in order
    Surfaceable,   \* variables that a proxy adversary may surface
    MaxSurfaced    \* bound on how often it does

ASSUME LoopAssumption ==
    /\ MaxSteps \in Nat /\ MaxSurfaced \in Nat
    /\ Proposals \subseteq ActionProposal
    /\ InitialVars \in Seq(ConcernVariable)
    /\ Surfaceable \subseteq ConcernVariable

(* The environments (lbah/environments): the number of steps after which   *)
(* they are done, whether a block ends the run and whether it is a step,   *)
(* whether some actions do not end the task, and whether the governor's    *)
(* reopen action does: only the browser ignores an action it does not know.*)
Environment(terminal_on_block, limit, block_counts, probes, reopen_ends) ==
    [terminal_on_block |-> terminal_on_block, limit |-> limit, block_counts |-> block_counts,
     probes |-> probes, reopen_ends |-> reopen_ends]

ToolUseEnv   == Environment(FALSE, 5, TRUE,  FALSE, TRUE)
CodingEnv    == Environment(TRUE,  3, FALSE, FALSE, TRUE)
MemoryEnv    == Environment(FALSE, 5, FALSE, TRUE,  TRUE)
RetrievalEnv == Environment(TRUE,  6, FALSE, TRUE,  TRUE)
BrowserEnv   == Environment(FALSE, 8, FALSE, TRUE,  FALSE)

Environments == {ToolUseEnv, CodingEnv, MemoryEnv, RetrievalEnv, BrowserEnv}

Modes == {"guarded", "audit"}

VARIABLES
    pc,          \* "run", "ended", or "raised"
    env, mode,   \* the environment and the mode of the run
    step,        \* the loop counter
    envSteps,    \* state.step when the environment was last asked whether it is done
    endings,     \* number of executed actions that end the task: state.done
    committed,   \* who ended it: "nobody", "agent" or "governor"
    ledger,      \* ledger.variables
    projection,  \* the variables of log.project()
    history,     \* the last three payloads proposed
    proposal,    \* the last proposal
    decision,    \* the decision of the last certificate
    reopens,     \* number of reopen decisions
    surfaced     \* number of surfaced variables

vars == <<pc, env, mode, step, envSteps, endings, committed, ledger, projection,
          history, proposal, decision, reopens, surfaced>>

TypeOK ==
    /\ pc \in {"run", "ended", "raised"}
    /\ env \in Environments /\ mode \in Modes
    /\ step \in 0..MaxSteps
    /\ envSteps \in 0..step
    /\ endings \in Nat
    /\ committed \in {"nobody", "agent", "governor"}
    /\ ledger \in Seq(ConcernVariable)
    /\ DOMAIN projection \subseteq VarIds
    /\ projection \in [DOMAIN projection -> ConcernVariable]
    /\ history \in Seq(Payloads) /\ Len(history) <= 3
    /\ proposal \in Proposals \union {<< >>}
    /\ decision \in {"none", "allow", "block", "reopen", "revise"}
    /\ reopens \in 0..step /\ surfaced \in 0..MaxSurfaced

-----------------------------------------------------------------------------

(* The last variable of an id is the one that counts when the variables    *)
(* become a dictionary, in the log's projection and in a merge.            *)
LastOf(L, id) ==
    L[CHOOSE n \in DOMAIN L : L[n].id = id /\ \A m \in n+1..Len(L) : L[m].id # id]

Ids(L) == {L[n].id : n \in DOMAIN L}

AsDict(L) == [id \in Ids(L) |-> LastOf(L, id)]

(* Where the ids of a list of variables occur first, in order.             *)
Firsts(L) == {n \in DOMAIN L : \A m \in 1..n-1 : L[m].id # L[n].id}

NthFirst(L, k) ==
    CHOOSE n \in Firsts(L) : Cardinality({m \in Firsts(L) : m <= n}) = k

(* merge_variables: the dictionary of the existing variables, in the order *)
(* of their first occurrence, updated with v unless its concern is no      *)
(* higher.                                                                 *)
Merge(L, v) ==
    LET kept == [k \in 1..Cardinality(Firsts(L)) |->
                    LET old == LastOf(L, L[NthFirst(L, k)].id)
                    IN IF old.id = v.id /\ old.concern < v.concern THEN v ELSE old]
    IN IF v.id \in Ids(L) THEN kept ELSE Append(kept, v)

(* The log gets a declaration of what is new, and a revision of what       *)
(* differs in concern or freshness: a variable has one value.              *)
MirrorMerge(P, before, after) ==
    [id \in DOMAIN P \union Ids(after) |->
        IF id \notin Ids(after) THEN P[id]
        ELSE LET v == LastOf(after, id)
                 b == LastOf(before, id)
             IN IF id \in Ids(before) /\ <<b.concern, b.freshness>> = <<v.concern, v.freshness>>
                THEN P[id] ELSE v]

(* by_id finds the first variable of an id.                                *)
Refresh(L, ids) ==
    [n \in DOMAIN L |->
        IF L[n].id \in ids /\ \A m \in 1..n-1 : L[m].id # L[n].id
        THEN [L[n] EXCEPT !.freshness = 10] ELSE L[n]]

RefreshLog(P, ids) ==
    [id \in DOMAIN P |-> IF id \in ids THEN [P[id] EXCEPT !.freshness = 10] ELSE P[id]]

(* The variables that the reopen action names.                             *)
Stale(L, p) == {L[n].id : n \in {m \in DOMAIN L : NeedsReopen(L, L[m], p.surface)}}

EnvDone == endings' > 0 \/ envSteps' >= env.limit

Init ==
    /\ pc = "run"
    /\ env \in Environments /\ mode \in Modes
    /\ step = 0 /\ envSteps = 0 /\ endings = 0 /\ committed = "nobody"
    /\ ledger = InitialVars /\ projection = AsDict(InitialVars)
    /\ history = << >> /\ proposal = << >> /\ decision = "none"
    /\ reopens = 0 /\ surfaced = 0

(* Variant: the whole history of payloads is kept and compared.            *)
DecidedAll(p, d) ==
    /\ pc = "run" /\ step < MaxSteps
    /\ proposal' = p /\ decision' = d
    /\ d = IF mode = "audit" THEN "allow" ELSE Decide(ledger, p, history)
    /\ step' = step + 1
    /\ history' = Append(history, p.payload)
    /\ UNCHANGED <<env, mode>>

(* A turn of the loop up to its decision.  It sets state.step to the loop  *)
(* counter, whatever the environment made of it before.                    *)
Decided(p, d) ==
    /\ pc = "run" /\ step < MaxSteps
    /\ proposal' = p /\ decision' = d
    /\ d = IF mode = "audit" THEN "allow" ELSE Decide(ledger, p, history)
    /\ step' = step + 1
    /\ history' = LET h == Append(history, p.payload)
                  IN IF Len(h) > 3 THEN Tail(h) ELSE h
    /\ UNCHANGED <<env, mode>>

(* The end of a turn: what the adversary surfaced is merged, then the      *)
(* environment is asked whether it is done.                                *)
FinishTurn(L, P) ==
    /\ \/ ledger' = L /\ projection' = P /\ surfaced' = surfaced
       \/ /\ surfaced < MaxSurfaced /\ surfaced' = surfaced + 1
          /\ \E v \in Surfaceable :
                ledger' = Merge(L, v) /\ projection' = MirrorMerge(P, L, Merge(L, v))
    /\ pc' = IF EnvDone THEN "ended" ELSE "run"

(* A turn that leaves the loop before the merge.                           *)
LeaveTurn == pc' = "ended" /\ UNCHANGED <<ledger, projection, surfaced>>

Execute(final, who) ==
    /\ envSteps' = step + 1
    /\ endings' = IF final THEN endings + 1 ELSE endings
    /\ committed' = IF final THEN who ELSE committed

Allow ==
    /\ \E p \in Proposals :
        /\ Decided(p, "allow")
        /\ Execute(p.final \/ ~env.probes, "agent")
    /\ reopens' = reopens
    /\ IF EnvDone THEN LeaveTurn ELSE FinishTurn(ledger, projection)

Block ==
    /\ \E p \in Proposals : Decided(p, "block")
    /\ envSteps' = IF env.block_counts THEN step + 1 ELSE step
    /\ UNCHANGED <<endings, committed, reopens>>
    /\ IF env.terminal_on_block THEN LeaveTurn ELSE FinishTurn(ledger, projection)

(* Variant: the variables are not marked fresh in the log.                 *)
ReopenUnlogged ==
    \E p \in Proposals :
        /\ Decided(p, "reopen")
        /\ Execute(env.reopen_ends, "governor")
        /\ reopens' = reopens + 1
        /\ FinishTurn(Refresh(ledger, Stale(ledger, p)), projection)

(* Variant: the variables are not marked fresh.                            *)
ReopenUnmarked ==
    \E p \in Proposals :
        /\ Decided(p, "reopen")
        /\ Execute(env.reopen_ends, "governor")
        /\ reopens' = reopens + 1
        /\ FinishTurn(ledger, projection)

(* Variant: the environment is not asked whether it is done.               *)
ReopenOn ==
    \E p \in Proposals :
        /\ Decided(p, "reopen")
        /\ Execute(env.reopen_ends, "governor")
        /\ reopens' = reopens + 1
        /\ surfaced' = surfaced /\ pc' = "run"
        /\ ledger' = Refresh(ledger, Stale(ledger, p))
        /\ projection' = RefreshLog(projection, Stale(ledger, p))

(* The environment executes the governor's own action as it does any other,*)
(* and the variables it names are fresh from then on.                      *)
Reopen ==
    \E p \in Proposals :
        /\ Decided(p, "reopen")
        /\ Execute(env.reopen_ends, "governor")
        /\ reopens' = reopens + 1
        /\ FinishTurn(Refresh(ledger, Stale(ledger, p)), RefreshLog(projection, Stale(ledger, p)))

(* Variant: a proposal that is to be revised takes no turn.                *)
ReviseUncounted ==
    /\ pc = "run" /\ step < MaxSteps
    /\ \E p \in Proposals :
        /\ proposal' = p /\ decision' = "revise"
        /\ mode # "audit" /\ Decide(ledger, p, history) = "revise"
        /\ history' = LET h == Append(history, p.payload)
                      IN IF Len(h) > 3 THEN Tail(h) ELSE h
    /\ UNCHANGED <<env, mode, step, envSteps, endings, committed, reopens>>
    /\ FinishTurn(ledger, projection)

Revise ==
    /\ \E p \in Proposals : Decided(p, "revise")
    /\ envSteps' = step
    /\ UNCHANGED <<endings, committed, reopens>>
    /\ FinishTurn(ledger, projection)

(* Nothing guards the agent, the modules or the environment.               *)
Raise ==
    /\ pc = "run" /\ step < MaxSteps
    /\ pc' = "raised"
    /\ UNCHANGED <<env, mode, step, envSteps, endings, committed, ledger, projection,
                   history, proposal, decision, reopens, surfaced>>

Exhaust ==
    /\ pc = "run" /\ step = MaxSteps
    /\ pc' = "ended"
    /\ UNCHANGED <<env, mode, step, envSteps, endings, committed, ledger, projection,
                   history, proposal, decision, reopens, surfaced>>

Terminated == pc \in {"ended", "raised"} /\ UNCHANGED vars

Next == Allow \/ Block \/ Reopen \/ Revise \/ Raise \/ Exhaust \/ Terminated

(* An agent that answers and modules that end let every turn happen.       *)
Spec == Init /\ [][Next]_vars /\ WF_vars(Next)
-----------------------------------------------------------------------------

(* "mirrors every mutation into log so log.project() stays equal to        *)
(* ledger": the log has one variable for each id, and it is the ledger's.  *)
LogProjectsLedger ==
    /\ DOMAIN projection = Ids(ledger) /\ Len(ledger) = Cardinality(Ids(ledger))
    /\ \A n \in DOMAIN ledger : projection[ledger[n].id] = ledger[n]

(* In guarded mode the agent's actions are executed only with every        *)
(* variable of high concern of their surface carried, and handed over by   *)
(* the agents that the payload's trace tells of, none that is forbidden,   *)
(* no stale value claimed and no variable of the highest concern due for a *)
(* recheck, whatever was surfaced, refreshed or refused in the turns       *)
(* before.                                                                 *)
ExecutedIsSound ==
    [][mode = "guarded" /\ decision' = "allow" /\ step' > step =>
        LET p == proposal' IN
        /\ Valid(p)
        /\ p.traced => ~Collapses(p)
        /\ TraceRequired => p.traced
        /\ \A n \in DOMAIN ledger :
            LET v == ledger[n] IN
            /\ Audited(v, p) /\ v.concern >= 7 => v.id \in p.carries
            /\ p.traced /\ MustHandOver(v, p) => v.id \in Mentioned(p)
            /\ v.forbidden => v.id \notin p.carries
            /\ v.id \in p.claims => v.freshness >= 5
            /\ v.concern >= 9 => ~NeedsReopen(ledger, v, p.surface)]_vars

(* A reopen settles what it was for: there are never more of them than     *)
(* variables that could be stale, the surfaced ones included, so that the  *)
(* governor cannot spend the run's steps on a variable it has refreshed.   *)
ReopensSettle == reopens <= Len(InitialVars) + surfaced

(* The environment executes one action that ends the task and none after.  *)
OneEnding == endings <= 1 /\ (endings = 1 => pc = "ended")

(* However the turns go, refused, surfaced or reopened, nothing is done    *)
(* over and over.                                                          *)
TurnsSettle == TypeOK /\ ReopensSettle /\ OneEnding

(* Every run ends, in all environments: what is refused uses up steps.     *)
Termination == <>(pc # "run")

(* The governor forces "a recheck": what ends a run is an action of the    *)
(* agent's.                                                                *)
AgentCommits == committed # "governor"
=============================================================================
