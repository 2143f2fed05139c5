------------------------------- MODULE Replay -------------------------------
(***************************************************************************)
(* Capture and replay of a coding run (lbah/core/replay.py,                *)
(* lbah/coding/replay.py, and where lbah/coding/runner.py calls them).  A  *)
(* run with capture_io writes an envelope for every answer of the agent's  *)
(* model and one for every executed action into its log.  A second run of  *)
(* the same agent is then served from those envelopes: its model is the    *)
(* ReplayModelAdapter, its actions go to the ReplayToolExecutor.           *)
(*                                                                         *)
(* A request is what the agent puts into its prompt: the loop counter, the *)
(* last observations and whether the workspace lists modified files.  What *)
(* else it holds, of the ledger, follows from the actions and observations *)
(* so far; leaving it out lets more requests match than do.  The replay    *)
(* may keep a workspace, at the same root and with the same edits done to  *)
(* it, or none.  One turn of either run is one step.                       *)
(***************************************************************************)
EXTENDS Naturals, FiniteSets, SequencesExt

CONSTANTS
    MaxSteps,   \* task.max_steps, of both runs
    Adapters,   \* the CapturingModelAdapters that write to the log
    Actions,    \* the actions a model may answer with, finish apart
    Results,    \* the observations those actions may give
    Modifying,  \* pairs of an action and a result that leave a modified file
    Window,     \* number of recent observations in a request
    Kept        \* the replay keeps a workspace

Finish     == "finish"
Unreadable == "unreadable"     \* an answer that is no action
Verified   == "verified"
Refused    == "refused"
Failed     == "proposal_error"         \* the model call raised
NotParsed  == "proposal_error_parse"   \* its answer is no action
Mismatch   == "proposal_error_replay"  \* it raised ReplayMismatchError

ASSUME ReplayAssumption ==
    /\ MaxSteps \in Nat /\ Window \in Nat \ {0} /\ Kept \in BOOLEAN
    /\ Modifying \subseteq Actions \X Results
    /\ Cardinality(Adapters) \in Nat \ {0}
    /\ Actions \intersect {Finish, Unreadable} = {}
    /\ Results \intersect {Verified, Refused, Failed, NotParsed, Mismatch} = {}

Answers      == Actions \union {Finish, Unreadable}
Observations == Results \union {Verified, Refused, Failed, NotParsed, Mismatch}
Requests     == [step: 0..MaxSteps, recent: BoundedSeq(Observations, Window), modified: BOOLEAN]
Envelopes    == [adapter: Adapters, index: 0..MaxSteps, request: Requests, response: Answers]
Executed     == [step: 0..MaxSteps, action: Answers, observation: Observations]

VARIABLES
    phase,     \* "capture", "replay" or "over"
    step,      \* the captured run's loop counter
    seen,      \* its observations
    llm,       \* the record_llm_io events of its log, in order
    tools,     \* the record_tool_io events
    failures,  \* number of its model calls that raised
    used,      \* adapters that answered
    rstep,     \* the replay's loop counter
    rseen,     \* its observations
    cursor,    \* number of model envelopes served
    executed   \* its executed actions, one per tool envelope served

vars == <<phase, step, seen, llm, tools, failures, used, rstep, rseen, cursor, executed>>

captured == <<step, seen, llm, tools, failures, used>>
replayed == <<rstep, rseen, cursor, executed>>

TypeOK ==
    /\ phase \in {"capture", "replay", "over"}
    /\ step \in 0..MaxSteps /\ rstep \in 0..MaxSteps
    /\ seen \in Seq(Observations) /\ rseen \in Seq(Observations)
    /\ llm \in Seq(Envelopes) /\ tools \in Seq(Executed)
    /\ failures \in 0..step /\ used \subseteq Adapters
    /\ cursor \in 0..Len(llm)
    /\ executed \in Seq(Executed) /\ Len(executed) <= cursor

-----------------------------------------------------------------------------

Recent(s) == SubSeq(s, IF Len(s) > Window THEN Len(s) - Window + 1 ELSE 1, Len(s))

(* Some execution in ex has modified a file.                               *)
Modified(ex) == \E i \in DOMAIN ex : <<ex[i].action, ex[i].observation>> \in Modifying

Request(n, s, modified) == [step |-> n, recent |-> Recent(s), modified |-> modified]

Init ==
    /\ phase = "capture"
    /\ step = 0 /\ seen = << >> /\ llm = << >> /\ tools = << >>
    /\ failures = 0 /\ used = {}
    /\ rstep = 0 /\ rseen = << >> /\ cursor = 0 /\ executed = << >>

(* Variant: the turn of a failed call is free.                             *)
CallRaisesFree ==
    /\ phase = "capture" /\ step < MaxSteps
    /\ seen' = Append(seen, Failed)
    /\ failures' = failures + 1
    /\ UNCHANGED <<phase, step, llm, tools, used, replayed>>

(* A call that raises is not captured; the runner observes the error.      *)
CallRaises ==
    /\ phase = "capture" /\ step < MaxSteps
    /\ seen' = Append(seen, Failed)
    /\ step' = step + 1
    /\ failures' = failures + 1
    /\ UNCHANGED <<phase, llm, tools, used, replayed>>

(* A call that answers: call_index counts the calls of its own adapter.    *)
Index(a) == Cardinality({i \in DOMAIN llm : llm[i].adapter = a})

Capture(a, answer) ==
    /\ llm' = Append(llm, [adapter |-> a, index |-> Index(a),
                           request |-> Request(step, seen, Modified(tools)), response |-> answer])
    /\ used' = used \union {a}
    /\ step' = step + 1

AnswerUnreadable ==
    /\ phase = "capture" /\ step < MaxSteps
    /\ \E a \in Adapters : Capture(a, Unreadable)
    /\ seen' = Append(seen, NotParsed)
    /\ UNCHANGED <<phase, tools, failures, replayed>>

Outcomes(action) == IF action = Finish THEN {Verified, Refused} ELSE Results

(* Variant: a refused finish, a failed action, is not captured.            *)
ActUncaptured ==
    /\ phase = "capture" /\ step < MaxSteps
    /\ \E a \in Adapters, action \in Actions \union {Finish}, o \in Observations :
        /\ o \in Outcomes(action)
        /\ Capture(a, action)
        /\ tools' = IF o = Refused THEN tools
                    ELSE Append(tools, [step |-> step, action |-> action, observation |-> o])
        /\ seen' = Append(seen, o)
        /\ phase' = IF o = Verified THEN "replay" ELSE phase
    /\ UNCHANGED <<failures, replayed>>

(* An action is executed and captured, whether or not it succeeds; a       *)
(* verified finish ends the run.                                           *)
Act ==
    /\ phase = "capture" /\ step < MaxSteps
    /\ \E a \in Adapters, action \in Actions \union {Finish}, o \in Observations :
        /\ o \in Outcomes(action)
        /\ Capture(a, action)
        /\ tools' = Append(tools, [step |-> step, action |-> action, observation |-> o])
        /\ seen' = Append(seen, o)
        /\ phase' = IF o = Verified THEN "replay" ELSE phase
    /\ UNCHANGED <<failures, replayed>>

CaptureEnds ==
    /\ phase = "capture" /\ step = MaxSteps
    /\ phase' = "replay"
    /\ UNCHANGED <<captured, replayed>>

(* envelopes_from_log: a stable sort by call_index, over all adapters.     *)
Before(i, j) ==
    \/ llm[i].index < llm[j].index
    \/ llm[i].index = llm[j].index /\ i < j

Envelope(n) ==
    llm[CHOOSE i \in DOMAIN llm : Cardinality({j \in DOMAIN llm : Before(j, i)}) = n - 1]

(* Variant: the next envelope answers whatever the request is.             *)
MatchesAny == phase = "replay" /\ rstep < MaxSteps /\ cursor < Len(llm)

(* ReplayModelAdapter.complete: the next envelope answers its own request  *)
(* and no other.                                                           *)
Matches ==
    /\ phase = "replay" /\ rstep < MaxSteps
    /\ cursor < Len(llm)
    /\ Envelope(cursor + 1).request = Request(rstep, rseen, Kept /\ Modified(executed))

Serve ==
    /\ rstep' = rstep + 1
    /\ cursor' = cursor + 1

ReplayUnreadable ==
    /\ Matches /\ Envelope(cursor + 1).response = Unreadable
    /\ Serve
    /\ rseen' = Append(rseen, NotParsed)
    /\ UNCHANGED <<phase, captured, executed>>

(* ReplayToolExecutor.execute: the next tool envelope answers the action   *)
(* if it is of the same type; if not, the mismatch leaves the run.         *)
ToolMatches(action) ==
    Len(executed) < Len(tools) /\ tools[Len(executed) + 1].action = action

ReplayAct ==
    /\ Matches
    /\ LET action == Envelope(cursor + 1).response
           o      == tools[Len(executed) + 1].observation
       IN /\ action # Unreadable
          /\ ToolMatches(action)
          /\ executed' = Append(executed,
                            [step |-> rstep, action |-> action, observation |-> o])
          /\ rseen' = Append(rseen, o)
          /\ phase' = IF o = Verified THEN "over" ELSE phase
    /\ Serve
    /\ UNCHANGED captured

(* Variant: the call is made again until it matches.                       *)
DivergeRetried ==
    /\ phase = "replay" /\ rstep < MaxSteps /\ ~Matches
    /\ UNCHANGED vars

(* Another request, or no envelope left, raises inside propose_action: the *)
(* runner observes one more proposal error.                                *)
Diverge ==
    /\ phase = "replay" /\ rstep < MaxSteps /\ ~Matches
    /\ rseen' = Append(rseen, Mismatch)
    /\ rstep' = rstep + 1
    /\ UNCHANGED <<phase, captured, cursor, executed>>

ReplayEnds ==
    /\ phase = "replay" /\ rstep = MaxSteps
    /\ phase' = "over"
    /\ UNCHANGED <<captured, replayed>>

Done == phase = "over" /\ UNCHANGED vars

Next ==
    \/ CallRaises \/ AnswerUnreadable \/ Act \/ CaptureEnds
    \/ ReplayUnreadable \/ ReplayAct \/ Diverge \/ ReplayEnds
    \/ Done

(* One thread runs either run; every call of a model or a tool returns.    *)
Spec == Init /\ [][Next]_vars /\ WF_vars(Next)
-----------------------------------------------------------------------------

(* A replay does what the captured run did, in its order, in the same      *)
(* turns and with the same outcomes, as far as it does anything: strict    *)
(* matching of requests leaves no other action to be served, whatever      *)
(* calls failed and whichever adapters share the log.                      *)
ReplayIsPrefix == IsPrefix(executed, tools)

(* The two streams of a log never disagree: an action that is served finds *)
(* its own tool envelope next, so no execution ever raises a mismatch.     *)
StreamsAgree ==
    Matches /\ Envelope(cursor + 1).response # Unreadable =>
        ToolMatches(Envelope(cursor + 1).response)

(* A run whose model calls all answered, through one adapter, is           *)
(* reproduced whole from its log: every action, every observation, no      *)
(* envelope left.                                                          *)
Reproduced == executed = tools /\ rseen = seen /\ cursor = Len(llm)

QuietRunReproduced ==
    phase = "over" /\ failures = 0 /\ Cardinality(used) <= 1 => Reproduced

(* What a replay may be taken for.                                         *)
ReplayIsFaithful == TypeOK /\ ReplayIsPrefix /\ StreamsAgree /\ QuietRunReproduced

(* Both runs end, the diverging replay too.                                *)
Termination == <>(phase = "over")
=============================================================================
