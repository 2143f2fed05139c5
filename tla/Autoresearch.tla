---------------------------- MODULE Autoresearch ----------------------------
(***************************************************************************)
(* The search over the harness's own knobs (eval/autoresearch.py): every   *)
(* point of a grid is measured against the baseline through a sequence of  *)
(* gates, the best one that improves on the baseline is promoted, every    *)
(* decision is a note of an event log, and two files are written at the    *)
(* end.                                                                    *)
(*                                                                         *)
(* Rates are in percent.  Thresholds are in units of 0.0001, and one unit  *)
(* stands for the last place of a double where the code's subtraction does *)
(* not give the literal the baseline has.  What an evaluation measures is  *)
(* any of Measures; the same knobs measured on the same seeds give the     *)
(* same.                                                                   *)
(***************************************************************************)
EXTENDS Integers, Sequences, FiniteSets, SequencesExt

CONSTANTS Budgets, MinConcerns, Normals,    \* the sequences the grid is made of
          Measures,         \* what a configuration may score
          MaxFalseBlock,    \* the oracle's false blocks a gate lets pass
          MinCatch,         \* the held-out catch a gate asks for
          MaxRuns           \* how often the search is started (bounds the model)

ASSUME SearchAssumption ==
    /\ Budgets \in Seq(Nat) /\ MinConcerns \in Seq(Nat) /\ Normals \in Seq(Nat)
    /\ MaxFalseBlock \in Nat /\ MinCatch \in Nat /\ MaxRuns \in Nat \ {0}
    /\ Measures \subseteq [gauge : Nat, catch : Nat, load : Nat, falseBlock : Nat]

VARIABLES require,      \* whether the contamination gate is asked for, and has seeds
          literal,      \* the baseline is the default one, not a point of the grid
          run,          \* the number of the process
          at,           \* the place in the grid, 0 while the baseline is measured
          sampled,      \* the point at hand has passed the in-sample gate
          baseline,     \* the baseline's measure
          trials, events,
          best,         \* the trial that would be promoted
          files         \* for each file the process that wrote it, and what it promotes

searchVars == <<require, literal, run, at, sampled, baseline, trials, events, best, files>>

NoMeasure == [gauge |-> 0, catch |-> 0, load |-> 0, falseBlock |-> 0]
NoTrial == [point |-> 0, measure |-> NoMeasure, decision |-> "none", stage |-> "none"]
NoFile == [run |-> 0, promoted |-> 0]

-----------------------------------------------------------------------------

Least(a, b) == IF a < b THEN a ELSE b
Most(a, b) == IF a > b THEN a ELSE b

(* 0.45 - 0.30 is one place above the double nearest to 0.15.              *)
Minus(a, b) == IF a = 4500 /\ b = 3000 THEN a - b + 1 ELSE a - b

Thresholds(normal) ==
    [low_risk |-> Least(9500, normal + 2000), normal |-> normal,
     high_risk |-> Most(500, Minus(normal, 2000)),
     irreversible |-> Most(500, Minus(normal, 3000))]

Baseline ==
    [gauge_probe_budget |-> 0, gauge_min_concern |-> 50,
     thresholds |->
        IF literal THEN [low_risk |-> 6500, normal |-> 4500, high_risk |-> 2500,
                         irreversible |-> 1500]
        ELSE Thresholds(4500)]

(* _candidate_grid: the product of the three lists, the last one fastest.  *)
Grid ==
    LET n == Len(Normals)
        c == Len(MinConcerns)
    IN [i \in 1..(Len(Budgets) * c * n) |->
            [gauge_probe_budget |-> Budgets[((i - 1) \div (c * n)) + 1],
             gauge_min_concern |-> MinConcerns[(((i - 1) \div n) % c) + 1],
             thresholds |-> Thresholds(Normals[((i - 1) % n) + 1])]]

(* The point of the grid that is the baseline, but perhaps for the last    *)
(* place.                                                                  *)
SameAsBaseline(knobs) ==
    /\ knobs.gauge_probe_budget = Baseline.gauge_probe_budget
    /\ knobs.gauge_min_concern = Baseline.gauge_min_concern
    /\ knobs.thresholds.normal = Baseline.thresholds.normal

Ordered(th) ==
    th.low_risk >= th.normal /\ th.normal >= th.high_risk /\ th.high_risk >= th.irreversible

Objective(m) == 200 * m.gauge + 50 * m.catch + 10 * m.load - 200 * m.falseBlock

(* _passes_gates.  The contamination slice is run with scripted agents and *)
(* does not see the knobs: its rates are the same for every point, one and *)
(* zero, or zero and zero if it has no seeds.                              *)
(* Variant: the contamination gate is never asked.                         *)
FinalStageHeld == "held_out"

FinalStage == IF require = "no" THEN "held_out" ELSE "contamination"

(* Variant: the held-out gate forgets the oracle's false blocks.           *)
PassesWithoutOracle(m, stage) ==
    /\ stage = "in_sample" => m.falseBlock <= MaxFalseBlock
    /\ stage \in {"held_out", "contamination"} => m.catch >= MinCatch
    /\ stage = "contamination" => require # "no seeds"

Passes(m, stage) ==
    /\ m.falseBlock <= MaxFalseBlock
    /\ stage \in {"held_out", "contamination"} => m.catch >= MinCatch
    /\ stage = "contamination" => require # "no seeds"

(* Variant: a tie with the baseline is promoted.                           *)
ImprovesOrTies(m) == Objective(m) >= Objective(baseline)

Improves(m) == Objective(m) > Objective(baseline)

-----------------------------------------------------------------------------

Note(kind, trial) == [kind |-> kind, trial |-> trial]

SearchInit ==
    /\ require \in {"yes", "no", "no seeds"} /\ literal \in BOOLEAN
    /\ run = 1
    /\ files = [result |-> NoFile, log |-> NoFile]
    /\ at = 0 /\ sampled = FALSE /\ baseline = NoMeasure
    /\ trials = <<>> /\ best = NoTrial /\ events = <<Note("baseline", NoTrial)>>

MeasureBaseline(m) ==
    /\ at = 0
    /\ baseline' = m
    /\ events' = Append(events, Note("baseline_metrics", NoTrial))
    /\ at' = 1
    /\ UNCHANGED <<require, literal, run, sampled, trials, best, files>>

Searching == at \in DOMAIN Grid

(* Every decision is a trial and a note, and the search goes on to the     *)
(* next point.                                                             *)
(* Variant: a point that fails is a trial without a note.                  *)
DecideQuietly(m, decision, stage) ==
    LET trial == [point |-> at, measure |-> m, decision |-> decision, stage |-> stage]
    IN /\ trials' = Append(trials, trial)
       /\ events' = IF decision = "promote" THEN Append(events, Note(decision, trial))
                    ELSE events
       /\ at' = at + 1 /\ sampled' = FALSE
       /\ UNCHANGED <<require, literal, run, baseline, files>>

Decide(m, decision, stage) ==
    LET trial == [point |-> at, measure |-> m, decision |-> decision, stage |-> stage]
    IN /\ trials' = Append(trials, trial)
       /\ events' = Append(events, Note(decision, trial))
       /\ at' = at + 1 /\ sampled' = FALSE
       /\ UNCHANGED <<require, literal, run, baseline, files>>

SkipBaseline ==
    /\ Searching /\ Grid[at] = Baseline
    /\ at' = at + 1
    /\ UNCHANGED <<require, literal, run, sampled, baseline, trials, events, best, files>>

Tried == Searching /\ Grid[at] # Baseline

StaticGate ==
    /\ Tried /\ ~Ordered(Grid[at].thresholds)
    /\ Decide(NoMeasure, "discard", "static")
    /\ UNCHANGED best

InSample(m) ==
    /\ Tried /\ Ordered(Grid[at].thresholds) /\ ~sampled
    /\ \/ /\ ~Passes(m, "in_sample")
          /\ Decide(m, "discard", "in_sample")
          /\ UNCHANGED best
       \/ /\ Passes(m, "in_sample")
          /\ sampled' = TRUE
          /\ UNCHANGED <<require, literal, run, at, baseline, trials, events, best, files>>

(* The first of several equally good points is kept.                       *)
Better(trial) ==
    best = NoTrial \/ Objective(trial.measure) > Objective(best.measure)

HeldOut(m) ==
    /\ sampled
    /\ SameAsBaseline(Grid[at]) => m = baseline
    /\ \/ /\ ~Passes(m, FinalStage) \/ ~Improves(m)
          /\ Decide(m, "discard", FinalStage)
          /\ UNCHANGED best
       \/ /\ Passes(m, FinalStage) /\ Improves(m)
          /\ Decide(m, "promote", FinalStage)
          /\ best' = IF Better(Last(trials')) THEN Last(trials') ELSE best

(* The files are written one after the other, over those of an earlier     *)
(* process.                                                                *)
Written == [run |-> run, promoted |-> best.point]

WriteResult ==
    /\ at > Len(Grid) /\ files.result.run # run
    /\ files' = [files EXCEPT !.result = Written]
    /\ UNCHANGED <<require, literal, run, at, sampled, baseline, trials, events, best>>

(* Variant: the log is written without waiting for the result.             *)
WriteLogFirst ==
    /\ at > Len(Grid) /\ files.log.run # run
    /\ files' = [files EXCEPT !.log = Written]
    /\ UNCHANGED <<require, literal, run, at, sampled, baseline, trials, events, best>>

WriteLog ==
    /\ files.result.run = run /\ files.log.run # run
    /\ files' = [files EXCEPT !.log = Written]
    /\ UNCHANGED <<require, literal, run, at, sampled, baseline, trials, events, best>>

(* The process ends, done or killed, and another one searches in the same  *)
(* directory.                                                              *)
StartAgain ==
    /\ run < MaxRuns
    /\ run' = run + 1
    /\ require' \in {"yes", "no", "no seeds"} /\ literal' \in BOOLEAN
    /\ at' = 0 /\ sampled' = FALSE /\ baseline' = NoMeasure
    /\ trials' = <<>> /\ best' = NoTrial /\ events' = <<Note("baseline", NoTrial)>>
    /\ UNCHANGED files

SearchNext ==
    \/ \E m \in Measures : MeasureBaseline(m) \/ InSample(m) \/ HeldOut(m)
    \/ SkipBaseline
    \/ StaticGate
    \/ WriteResult
    \/ WriteLog
    \/ StartAgain

SearchSpec == SearchInit /\ [][SearchNext]_searchVars
-----------------------------------------------------------------------------

Trial == [point : 1..Len(Grid), measure : Measures \cup {NoMeasure},
          decision : {"promote", "discard"},
          stage : {"static", "in_sample", "held_out", "contamination"}]

SearchTypeOK ==
    /\ at \in 0..(Len(Grid) + 1) /\ run \in 1..MaxRuns /\ sampled \in BOOLEAN
    /\ Range(trials) \subseteq Trial /\ best \in Trial \cup {NoTrial}
    /\ best = NoTrial <=> \A n \in DOMAIN trials : trials[n].decision # "promote"

Promotions(ts) == {n \in DOMAIN ts : ts[n].decision = "promote"}

(* What is promoted has passed every gate, beats the baseline, is as good  *)
(* as any trial that did, and is the first of those.                       *)
PromotedIsBest ==
    best # NoTrial =>
        /\ Ordered(Grid[best.point].thresholds)
        /\ best.measure.falseBlock <= MaxFalseBlock /\ best.measure.catch >= MinCatch
        /\ Objective(best.measure) > Objective(baseline)
        /\ \A n \in Promotions(trials) :
            /\ Objective(trials[n].measure) <= Objective(best.measure)
            /\ Objective(trials[n].measure) = Objective(best.measure)
                    => trials[n].point >= best.point

(* What a reader of the log alone takes for the trials.                    *)
Told(l) ==
    LET upTo[n \in 0..Len(l)] ==
            IF n = 0 THEN <<>>
            ELSE IF l[n].kind \in {"promote", "discard"} THEN Append(upTo[n - 1], l[n].trial)
            ELSE upTo[n - 1]
    IN upTo[Len(l)]

(* The log tells the story of the search: its decisions are the trials, in *)
(* their order, and whoever reads them alone arrives at the same           *)
(* promotion.                                                              *)
DecisionsReplay ==
    LET told == Told(events)
        candidates == {n \in Promotions(told) :
                            \A k \in Promotions(told) :
                                Objective(told[k].measure) <= Objective(told[n].measure)}
    IN /\ told = trials
       /\ best = IF candidates = {} THEN NoTrial
                 ELSE told[CHOOSE n \in candidates : \A k \in candidates : n <= k]

(* Each point of the grid is tried once, in the order of the grid, but for *)
(* one that equals the baseline.  The default baseline equals none         *)
(* (autoresearch.py:304), as a threshold the grid computes is not the      *)
(* literal of the baseline: measured again its point is a trial, and never *)
(* promoted.                                                               *)
EveryPointTried ==
    LET tried == {n \in 1..(at - 1) : Grid[n] # Baseline}
    IN /\ Len(trials) = Cardinality(tried)
       /\ {trials[n].point : n \in DOMAIN trials} = tried
       /\ literal => Len(trials) = Most(at, 1) - 1
       /\ \A n \in DOMAIN trials :
            SameAsBaseline(Grid[trials[n].point]) => trials[n].decision = "discard"

(* The contamination gate looks at no knob: without seeds for its slice    *)
(* nothing is promoted, whatever the points score.                         *)
DetectorIsForAll == require = "no seeds" => best = NoTrial

(* Of the files on disk the result is never older than the log, and two    *)
(* that one process wrote promote the same point.                          *)
FilesAgree ==
    /\ files.result.run >= files.log.run
    /\ files.result.run = files.log.run => files.result = files.log

(* The search promotes the best point its gates let through, having tried  *)
(* them all, and its log and its files tell of no other.                   *)
SearchIsSound ==
    /\ SearchTypeOK
    /\ PromotedIsBest /\ DetectorIsForAll
    /\ EveryPointTried
    /\ DecisionsReplay /\ FilesAgree
=============================================================================
