----------------------------- MODULE PolicyLoader -----------------------------
(***************************************************************************)
(* internal/policy/loader.go: the active policy of a process, the loop     *)
(* that re-reads its file, GET /v1/policy, and what the active policy      *)
(* decides.                                                                *)
(*                                                                         *)
(* Only the loop calls Reload. Everything Reload does after reading the    *)
(* file happens under mu, but for the load of the pointer, which nobody    *)
(* else stores to: one step. Status loads the pointer before it takes mu:  *)
(* two steps.                                                              *)
(***************************************************************************)
EXTENDS Policy, Evaluation

CONSTANTS Documents,    \* what the policy file may hold
          Unreadable,   \* the file cannot be read
          NoPolicy,     \* no document has been read or reported
          Clients,      \* concurrent callers of Status
          MaxEdits,     \* bound: how often the file changes
          Agents,       \* whose requests the verdict properties look at
          Proposals

ASSUME EditsAssumption == MaxEdits \in Nat

(* A nil pointer is no snapshot. *)
ASSUME NilAssumption == \A doc \in Documents : Parses(doc) => Snapshot(doc) # NilSnapshot

VARIABLES file,       \* the content of the policy file
          edits,      \* how often it has changed
          active,     \* the snapshot behind the atomic pointer
          loadedAt,   \* the document whose load set the loadedAt field
          lastErr,    \* the content Reload last rejected, NoPolicy when the error is clear
          loop,       \* the reload goroutine: "idle", "read" or "exited"
          raw,        \* the bytes it has read
          closing,    \* Close was called: "no", "waiting", "returned"
          seen,       \* client -> the snapshot its Status has loaded
          reported    \* client -> its last Status

vars == <<file, edits, active, loadedAt, lastErr, loop, raw, closing, seen, reported>>

-----------------------------------------------------------------------------
(* NewLoader fails on an invalid file, so there is no loader without a policy. *)
Init ==
    /\ file \in {doc \in Documents : Parses(doc)}
    /\ edits = 0
    /\ active = Snapshot(file) /\ loadedAt = file
    /\ lastErr = NoPolicy
    /\ loop = "idle" /\ raw = NoPolicy
    /\ closing = "no"
    /\ seen = [c \in Clients |-> NilSnapshot]
    /\ reported = [c \in Clients |-> NoPolicy]

(* The operator saves the file, or it disappears. *)
Edit ==
    /\ edits < MaxEdits
    /\ file' \in (Documents \cup {Unreadable}) \ {file}
    /\ edits' = edits + 1
    /\ UNCHANGED <<active, loadedAt, lastErr, loop, raw, closing, seen, reported>>

(* A tick: os.ReadFile. *)
ReadFile ==
    /\ loop = "idle"
    /\ loop' = "read" /\ raw' = file
    /\ UNCHANGED <<file, edits, active, loadedAt, lastErr, closing, seen, reported>>

recordError == lastErr' = raw /\ UNCHANGED <<active, loadedAt>>

clearError == lastErr' = NoPolicy /\ UNCHANGED <<active, loadedAt>>

Publish == active' = Snapshot(raw) /\ loadedAt' = raw /\ lastErr' = NoPolicy

(* Wrong variants: an unchanged file leaves an old error standing; what     *)
(* decodes is published without the checks of build.                        *)
KeepsStaleError ==
    CASE raw = Unreadable                        -> recordError
      [] raw # Unreadable /\ raw = active.digest -> UNCHANGED <<active, loadedAt, lastErr>>
      [] raw # Unreadable /\ raw # active.digest /\ ~Parses(raw) -> recordError
      [] OTHER                                   -> Publish

PublishesUnchecked ==
    CASE raw \in {Unreadable, Malformed} -> recordError
      [] OTHER                           -> Publish

Applied ==
    CASE raw = Unreadable                                          -> recordError
      [] raw # Unreadable /\ raw = active.digest                   -> clearError
      [] raw # Unreadable /\ raw # active.digest /\ ~Parses(raw)   -> recordError
      [] OTHER                                                     -> Publish

(* The rest of Reload. *)
Reload ==
    /\ loop = "read"
    /\ Applied
    /\ loop' = "idle" /\ raw' = NoPolicy
    /\ UNCHANGED <<file, edits, closing, seen, reported>>

Close ==
    /\ closing = "no"
    /\ closing' = "waiting"
    /\ UNCHANGED <<file, edits, active, loadedAt, lastErr, loop, raw, seen, reported>>

(* Wrong variants: the loop leaves without closing done; Close does not wait *)
(* for it.                                                                   *)
LeavesSilently ==
    /\ loop = "idle" /\ closing # "no"
    /\ loop' = "gone"
    /\ UNCHANGED <<file, edits, active, loadedAt, lastErr, raw, closing, seen, reported>>

DoesNotWait ==
    /\ closing = "waiting"
    /\ closing' = "returned"
    /\ UNCHANGED <<file, edits, active, loadedAt, lastErr, loop, raw, seen, reported>>

(* The loop's select takes the stop case; a tick may be ready as well. *)
LoopStops ==
    /\ loop = "idle" /\ closing # "no"
    /\ loop' = "exited"
    /\ UNCHANGED <<file, edits, active, loadedAt, lastErr, raw, closing, seen, reported>>

CloseReturns ==
    /\ closing = "waiting" /\ loop = "exited"
    /\ closing' = "returned"
    /\ UNCHANGED <<file, edits, active, loadedAt, lastErr, loop, raw, seen, reported>>

(* Wrong variant: a client's first snapshot is kept for its later calls. *)
LoadsOnce(c) ==
    /\ seen[c] = NilSnapshot
    /\ seen' = [seen EXCEPT ![c] = IF reported[c] = NoPolicy THEN active ELSE Snapshot(reported[c].digest)]
    /\ UNCHANGED <<file, edits, active, loadedAt, lastErr, loop, raw, closing, reported>>

StatusLoads(c) ==
    /\ seen[c] = NilSnapshot
    /\ seen' = [seen EXCEPT ![c] = active]
    /\ UNCHANGED <<file, edits, active, loadedAt, lastErr, loop, raw, closing, reported>>

StatusReports(c) ==
    /\ seen[c] # NilSnapshot
    /\ reported' = [reported EXCEPT ![c] = [digest |-> seen[c].digest, loadedAt |-> loadedAt,
                                            error |-> lastErr # NoPolicy]]
    /\ seen' = [seen EXCEPT ![c] = NilSnapshot]
    /\ UNCHANGED <<file, edits, active, loadedAt, lastErr, loop, raw, closing>>

Next ==
    \/ Edit \/ ReadFile \/ Reload \/ Close \/ LoopStops \/ CloseReturns
    \/ \E c \in Clients : StatusLoads(c) \/ StatusReports(c)

Spec == Init /\ [][Next]_vars

(* The ticker keeps firing, a running goroutine is scheduled, and a select  *)
(* chooses at random among its ready cases.                                 *)
FairSpec ==
    /\ Spec
    /\ WF_vars(ReadFile) /\ WF_vars(Reload) /\ SF_vars(LoopStops) /\ WF_vars(CloseReturns)

-----------------------------------------------------------------------------
(* The file ends up in force: once it stays as it is and the loop is not    *)
(* closed, a good file becomes and remains the active policy with no error  *)
(* shown, and a bad one leaves an error shown (README.md: "An invalid file  *)
(* is rejected, logged, reported by GET /v1/policy").                       *)
FileTakesEffect ==
    <>[](closing = "no") =>
        <>[](IF file # Unreadable /\ Parses(file)
             THEN active = Snapshot(file) /\ lastErr = NoPolicy
             ELSE lastErr = file)

(* Status settles as well: an answer that a reload has torn apart, a digest *)
(* with the load time of the next policy, does not stay. Once the file      *)
(* rests, every further answer is of one policy, a good file's own, and     *)
(* shows an error exactly when the file is bad (README.md, GET /v1/policy:  *)
(* "Active policy version, digest, load time and reload status").           *)
StatusSettles ==
    <>[](closing = "no") =>
        \A c \in Clients :
            <>[][StatusReports(c) =>
                    /\ reported'[c].loadedAt = reported'[c].digest
                    /\ IF file # Unreadable /\ Parses(file)
                       THEN reported'[c].digest = file /\ ~reported'[c].error
                       ELSE reported'[c].error]_vars

(* Close comes back, even when ticks keep coming (loader.go: "Close stops   *)
(* the reload loop and waits for it to exit").                              *)
CloseTerminates == closing = "waiting" ~> closing = "returned"

(* After Close has returned nothing is published any more.                  *)
ClosedForGood ==
    [][closing = "returned" => UNCHANGED <<active, loadedAt, lastErr>>]_vars

(* What is active was accepted, whatever was saved or half read meanwhile,  *)
(* and an error is shown only for a file that was refused (SECURITY.md: "An *)
(* invalid reload never replaces the active policy").                       *)
OnlyGoodPolicies ==
    /\ Parses(active.digest) /\ active = Snapshot(active.digest) /\ loadedAt = active.digest
    /\ lastErr # NoPolicy => lastErr = Unreadable \/ ~Parses(lastErr)

(* What makes OnlyGoodPolicies and ClosedForGood inductive: the bytes come  *)
(* from the file, which is where a snapshot's document comes from, and      *)
(* Close has returned only to find the loop gone.                           *)
LoaderInv ==
    /\ loop = "read" => raw \in Documents \cup {Unreadable}
    /\ file \in Documents \cup {Unreadable}
    /\ active.digest \in Documents
    /\ OnlyGoodPolicies
    /\ closing = "returned" => loop = "exited"

-----------------------------------------------------------------------------
(* What the active policy decides. *)

(* The conditions that speak against a, proposing p: a reference for        *)
(* Evaluate that looks at the document instead of the snapshot.             *)
Objections(doc, a, p) ==
    {reason \in {"AGENT_UNKNOWN", "COMMAND_UNKNOWN", "COMMAND_NOT_PERMITTED_FOR_AGENT",
                 "TARGET_UNREGISTERED", "TARGET_PROTECTED", "ENVIRONMENT_DENIED"} :
        LET grants == {g \in ToSet(doc.agents) : g.id = a}
            hits == {t \in ToSet(doc.targets) : t.id = p.target}
            catalogued == p.type \in ToSet(doc.commands)
        IN CASE reason = "AGENT_UNKNOWN"        -> grants = {}
             [] reason = "COMMAND_UNKNOWN"      -> ~catalogued
             [] reason = "COMMAND_NOT_PERMITTED_FOR_AGENT"
                  -> catalogued /\ \E g \in grants : p.type \notin ToSet(g.commands)
             [] reason = "TARGET_UNREGISTERED"  -> hits = {}
             [] reason = "TARGET_PROTECTED"     -> \E t \in hits : t.protected = "yes"
             [] reason = "ENVIRONMENT_DENIED"   -> \E t \in hits : doc.environments[t.environment] = "deny"}

(* Evaluate denies exactly when the policy document objects, and then names *)
(* every objection once; only what it does not object to is allowed, or     *)
(* held for approval by its environment; the fallback for an unusable       *)
(* policy is never reached (ARCHITECTURE.md: DENY lists "all applicable     *)
(* deny reasons").                                                          *)
VerdictMatchesDocument ==
    \A a \in Agents, p \in Proposals :
        LET d == Evaluate(active, a, p)
            objections == Objections(active.digest, a, p)
        IN IF objections # {}
           THEN d.verdict = "DENY" /\ ToSet(d.reasons) = objections /\ IsInjective(d.reasons)
           ELSE d.verdict = IF TargetMode(active, p.target) = "allow" THEN "ALLOW" ELSE "REQUIRE_APPROVAL"

(* s permits nothing that t does not: less catalogue, fewer grants, fewer   *)
(* targets, more protection, stricter environments.                         *)
Tighter(s, t) ==
    /\ s.commands \subseteq t.commands
    /\ DOMAIN s.agents \subseteq DOMAIN t.agents
    /\ \A a \in DOMAIN s.agents : s.agents[a] \subseteq t.agents[a]
    /\ DOMAIN s.targets \subseteq DOMAIN t.targets
    /\ \A x \in DOMAIN s.targets :
          /\ t.targets[x].protected => s.targets[x].protected
          /\ \/ TargetMode(s, x) = TargetMode(t, x)
             \/ TargetMode(s, x) = "deny"
             \/ TargetMode(t, x) = "allow"

(* A request that re-validation allows after the policy was tightened was   *)
(* allowed before: tightening between ingress and execution only takes      *)
(* away (README.md: "workflow re-validation when the policy is tightened    *)
(* between ingress and execution").                                         *)
TighteningOnlyDenies ==
    [][Tighter(active', active) =>
          \A a \in Agents, p \in Proposals :
              Evaluate(active', a, p).verdict = "ALLOW" => Evaluate(active, a, p).verdict = "ALLOW"]_vars
=============================================================================
