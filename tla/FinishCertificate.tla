-------------------------- MODULE FinishCertificate --------------------------
(***************************************************************************)
(* The certificate a coding run's result carries (lbah/coding/             *)
(* certificates.py, with the trace validators of lbah/validators/          *)
(* tool_validators.py and decide_from_gates of lbah/core/certificates.py). *)
(* The verdict of the run and the decision of its certificate are reached  *)
(* separately: the first from the verifier and the contamination gate, the *)
(* second from gates over the checks, the trace and the ledger.            *)
(***************************************************************************)
EXTENDS CodingRun

VARIABLES
    trace,        \* what the validators read off the run's trace
    certificate   \* the failed gates and the decision of the result's certificate

cvars == <<vars, trace, certificate>>

ToolTypes == {"read_file", "search", "run_command", "run_tests", "inspect"}
ToolGates == {"result_ignore", "output_fabrication", "tool_skip", "unnecessary_tool_use"}

Decisions == {"none", "allow", "revise", "block"}

(* tools: entries of a tool; linked: those with a concern or a rationale;  *)
(* read: a file was read, whose content the patch may ignore; edited and   *)
(* finished: there is an entry of an edit, of a finish.                    *)
NoTrace == [tools |-> 0, linked |-> 0, read |-> FALSE, edited |-> FALSE, finished |-> FALSE]
NoCertificate == [failed |-> {}, decision |-> "none"]

CTypeOK ==
    /\ TypeOK
    /\ trace \in [tools: Nat, linked: Nat, read: BOOLEAN, edited: BOOLEAN, finished: BOOLEAN]
    /\ trace.linked <= trace.tools /\ trace.tools <= step
    /\ certificate.failed \subseteq CheckNames \union {GateCheck} \union ToolGates
    /\ certificate.decision \in Decisions

-----------------------------------------------------------------------------

(* The entry of an executed action; a search's matches are strings, which  *)
(* result_ignore passes over, and an edit counts whether or not it failed. *)
Entered(t, a, success) ==
    LET tool == a.type \in ToolTypes
        link == tool /\ (a.addressed # {} \/ a.rationale # {})
    IN [tools    |-> t.tools + IF tool THEN 1 ELSE 0,
        linked   |-> t.linked + IF link THEN 1 ELSE 0,
        read     |-> t.read \/ (a.type = "read_file" /\ success),
        edited   |-> t.edited \/ a.type = "edit_file",
        finished |-> t.finished \/ a.type = "finish"]

(* High concerns that are open and have no evidence at all.                *)
Bare(L) == {i \in DOMAIN L : L[i].concern >= 70 /\ L[i].status = "open" /\ L[i].evidence = {}}

(* Variant: concerns of any level count.                                   *)
ToolSkipAnyLevel(t, L) ==
    t.tools = 0 /\ {i \in DOMAIN L : L[i].status = "open" /\ L[i].evidence = {}} # {}

ToolSkip(t, L) == t.tools = 0 /\ Bare(L) # {}

UnnecessaryToolUse(t) == t.tools >= 4 /\ 4 * t.linked < t.tools

(* ignored: what was read is neither in the diff nor in the last finish;   *)
(* fabricated: that finish cites an output that no entry shows.            *)
FailedGates(failed, t, L, ignored, fabricated) ==
    failed \union {g \in ToolGates :
        CASE g = "result_ignore"      -> ignored /\ t.read /\ t.finished /\ ~t.edited
          [] g = "output_fabrication" -> fabricated /\ t.finished
          [] g = "tool_skip"          -> ToolSkip(t, L)
          [] OTHER                    -> UnnecessaryToolUse(t)}

(* Any failed validator and a fabrication ask for a revision.  An ignored  *)
(* result weighs less than 0.7, but leaves a load score of 0.4, below the  *)
(* threshold.  The one reopen gate, that there is a log, always passes.    *)
Decision(gates) ==
    CASE gates = {}                -> "allow"
      [] gates = {"result_ignore"} -> "block"
      [] OTHER                     -> "revise"

CInit == Init /\ trace = NoTrace /\ certificate = NoCertificate

(* An action is executed, and entered with its observation.                *)
Enter ==
    /\ pc = "execute"
    /\ Next
    /\ trace' = Entered(trace, action, observation'.success)
    /\ UNCHANGED certificate

(* Variant: the certificate is made of the last verification's checks.     *)
CertifyLastChecks ==
    /\ pc \in {"gate", "fail_closed"}
    /\ Next
    /\ pc' = "returned"
    /\ \E ignored, fabricated \in BOOLEAN :
        LET gates == FailedGates(checks, trace, ledger, ignored, fabricated)
        IN certificate' = [failed |-> gates, decision |-> Decision(gates)]
    /\ UNCHANGED trace

(* The result is made, and its certificate from the checks it lists.       *)
Certify ==
    /\ pc \in {"gate", "fail_closed"}
    /\ Next
    /\ pc' = "returned"
    /\ \E ignored, fabricated \in BOOLEAN :
        LET gates == FailedGates(result'.failed, trace, ledger', ignored, fabricated)
        IN certificate' = [failed |-> gates, decision |-> Decision(gates)]
    /\ UNCHANGED trace

(* Other steps make no entry; a proposal that raised enters no tool.       *)
Unrecorded ==
    /\ pc # "execute"
    /\ Next
    /\ ~(pc \in {"gate", "fail_closed"} /\ pc' = "returned")
    /\ UNCHANGED <<trace, certificate>>

CNext == Enter \/ Certify \/ Unrecorded

CSpec == CInit /\ [][CNext]_cvars /\ WF_cvars(CNext)
-----------------------------------------------------------------------------

(* The certificate never authorises what the run refused: a result whose   *)
(* certificate allows it is a success, although a marked tree at the end   *)
(* of the budget may pass every check, and the behavior the certificate    *)
(* records is the run's verdict.                                           *)
AllowedIsSuccess ==
    pc = "returned" =>
        /\ certificate.decision = "allow" => result.success
        /\ certificate.failed \subseteq ToolGates <=> result.success

(* A success that the certificate does not allow is one whose trace looks  *)
(* wrong, never one that left high concerns without having looked: what    *)
(* the verifier asks of the ledger includes what the certificate asks.     *)
SuccessSkippedNothing ==
    pc = "returned" /\ result.success => "tool_skip" \notin certificate.failed

(* The certificate and the verdict, reached apart, do not contradict each  *)
(* other.                                                                  *)
CertificateAgrees == CTypeOK /\ AllowedIsSuccess /\ SuccessSkippedNothing
=============================================================================
