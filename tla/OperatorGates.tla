----------------------------- MODULE OperatorGates -----------------------------
(***************************************************************************)
(* The two gates an operator has on /settle, and the audit log behind them *)
(* (src/admin.ts, src/adminRoutes.ts, src/balance.ts, src/server.ts): the  *)
(* kill switch, a cache over one durable row; the balance guard, a cache   *)
(* over an account on the ledger; and one audit row per toggle and settle. *)
(*                                                                         *)
(* A query has a deadline: setKillSwitchState may fail in the process and  *)
(* land in the database afterwards, also after the process is gone.  Two   *)
(* operators may toggle at once, and two refreshes may overlap: neither    *)
(* toggle() nor refresh() waits for the one before it.                     *)
(***************************************************************************)
EXTENDS Integers, FiniteSets

CONSTANTS
  Toggles,               \* POST /admin/kill-switch requests
  Settles,               \* POST /settle requests
  None,
  DefaultEnabled,        \* OPERATOR_KILL_SWITCH
  Balances,              \* what the sponsor account can hold
  SoftFloor, HardFloor,
  MaxRefreshes,          \* bound: refreshes of the balance at one time
  MaxCrashes, MaxChanges   \* bounds

KillSwitchState == [enabled : BOOLEAN, by : Toggles \cup {None}]

ASSUME GatesAssumption ==
  /\ None \notin Toggles \cup Settles \cup KillSwitchState
  /\ Toggles \cap Settles = {}
  /\ DefaultEnabled \in BOOLEAN
  /\ Balances \subseteq Nat /\ {SoftFloor, HardFloor} \subseteq Nat
  /\ {MaxRefreshes, MaxCrashes, MaxChanges} \subseteq Nat

VARIABLES
  up,
  state,         \* KillSwitch.state: [enabled, by]
  row,           \* the kill_switch row, or None
  writes,        \* toggles whose setKillSwitchState is on its way
  want,          \* per toggle: `enabled` of its body
  pc,            \* per toggle and settle: where its request stands
  outcome,       \* per settle: how its pipeline ended
  auditLog,      \* admin_audit_log: set of [by, action]
  currentStatus, \* BalanceGuard.currentStatus
  asked,         \* refreshes whose fetch is on its way to Horizon
  answers,       \* balances on their way back, not yet applied
  balance,       \* of the sponsor account on the ledger
  crashes, changes,
  committed,     \* history: toggles whose write has landed
  overlapped,    \* history: toggles that ran while another was under way
  lastAnswered   \* history: the toggle answered since which nothing touched the row

switchVars == <<state, row, writes, want, committed, overlapped, lastAnswered>>
settleVars == <<outcome>>
guardVars == <<currentStatus, asked, answers, balance, changes>>
vars == <<up, switchVars, pc, settleVars, auditLog, guardVars, crashes>>

Ended == {"idle", "answered", "failed", "died"}

\* hydrate: the row if there is one; otherwise the default, which is not written.
Hydrated ==
  IF row # None THEN row ELSE [enabled |-> DefaultEnabled, by |-> None]

Init ==
  /\ up = TRUE
  /\ row = None /\ writes = {}
  /\ state = Hydrated
  /\ want = [t \in Toggles |-> FALSE]
  /\ pc = [x \in Toggles \cup Settles |-> "idle"]
  /\ outcome = [s \in Settles |-> None]
  /\ auditLog = {}
  /\ currentStatus = "unknown"
  /\ asked = 0 /\ answers = {}
  /\ balance \in Balances
  /\ crashes = 0 /\ changes = 0
  /\ committed = {} /\ overlapped = {} /\ lastAnswered = None

Goto(x, from, to) ==
  /\ up /\ pc[x] = from
  /\ pc' = [pc EXCEPT ![x] = to]

-----------------------------------------------------------------------------
(* KillSwitch.toggle: the durable write, then the cache.                   *)

Underway == {t \in Toggles : pc[t] \notin Ended} \cup writes

Toggle(t, enabled) ==
  /\ Goto(t, "idle", "writing")
  /\ want' = [want EXCEPT ![t] = enabled]
  /\ writes' = writes \cup {t}
  /\ overlapped' = IF Underway = {} THEN overlapped
                   ELSE overlapped \cup Underway \cup {t}
  /\ lastAnswered' = None
  /\ UNCHANGED <<up, state, row, committed, settleVars, auditLog, guardVars,
                 crashes>>

SetKillSwitchState(t) ==
  /\ t \in writes
  /\ writes' = writes \ {t}
  /\ row' = [enabled |-> want[t], by |-> t]
  /\ committed' = committed \cup {t}
  /\ lastAnswered' = None
  /\ UNCHANGED <<up, state, want, overlapped, pc, settleVars, auditLog,
                 guardVars, crashes>>

\* Mutant of ToggleWritten: the write is not awaited.
ToggleUnawaited(t) ==
  /\ Goto(t, "writing", "auditing")
  /\ state' = [enabled |-> want[t], by |-> t]
  /\ lastAnswered' = t
  /\ UNCHANGED <<up, row, writes, want, committed, overlapped, settleVars,
                 auditLog, guardVars, crashes>>

ToggleWritten(t) ==
  /\ t \in committed
  /\ Goto(t, "writing", "auditing")
  /\ state' = [enabled |-> want[t], by |-> t]
  /\ lastAnswered' = IF t \in overlapped THEN lastAnswered ELSE t
  /\ UNCHANGED <<up, row, writes, want, committed, overlapped, settleVars,
                 auditLog, guardVars, crashes>>

\* The query ran into its deadline or failed: the cache is left alone and the
\* request fails, whatever becomes of the write.
ToggleFails(t) ==
  /\ Goto(t, "writing", "failed")
  /\ UNCHANGED <<up, switchVars, settleVars, auditLog, guardVars, crashes>>

-----------------------------------------------------------------------------
(* /settle: the switch, then the guard, then the rest of the pipeline.     *)

SettleAllowed == currentStatus # "critical"

Outcomes == {"paid", "failed"}

\* Both gates are read in one turn; what follows them succeeds or fails.
Settle(s) ==
  IF state.enabled \/ ~SettleAllowed
  THEN /\ Goto(s, "idle", "auditing")
       /\ outcome' = [outcome EXCEPT ![s] = "refused"]
       /\ UNCHANGED <<up, switchVars, auditLog, guardVars, crashes>>
  ELSE /\ Goto(s, "idle", "settling")
       /\ UNCHANGED <<up, switchVars, settleVars, auditLog, guardVars, crashes>>

SettleEnds(s) ==
  /\ Goto(s, "settling", "auditing")
  /\ \E o \in Outcomes : outcome' = [outcome EXCEPT ![s] = o]
  /\ UNCHANGED <<up, switchVars, auditLog, guardVars, crashes>>

-----------------------------------------------------------------------------
(* logAuditEvent: awaited, its failure swallowed.                          *)

\* Mutant of SettleAction: the answer's status code alone decides.
SettleActionByStatus(s) ==
  IF outcome[s] # "refused"
  THEN "settlement_success" ELSE "settlement_failure"

\* A failed settlement is also answered with 200: `success` decides.
SettleAction(s) ==
  IF outcome[s] = "paid" THEN "settlement_success" ELSE "settlement_failure"

Action(x) ==
  IF x \in Settles THEN SettleAction(x)
  ELSE IF want[x] THEN "kill_switch_enabled" ELSE "kill_switch_disabled"

AuditRow(x) == [by |-> x, action |-> Action(x)]

\* appendAuditLog lands or is lost, and the request is answered all the same.
Answer(x) ==
  /\ Goto(x, "auditing", "answered")
  /\ \E landed \in SUBSET {AuditRow(x)} : auditLog' = auditLog \cup landed
  /\ UNCHANGED <<up, switchVars, settleVars, guardVars, crashes>>

-----------------------------------------------------------------------------
(* BalanceGuard.refresh, every intervalMs.                                 *)

Refresh ==
  /\ up /\ asked + Cardinality(answers) < MaxRefreshes
  /\ asked' = asked + 1
  /\ UNCHANGED <<up, switchVars, pc, settleVars, auditLog, currentStatus,
                 answers, balance, changes, crashes>>

\* The account as Horizon saw it, at some moment of the fetch.
Fetch ==
  /\ asked > 0
  /\ asked' = asked - 1
  /\ answers' = answers \cup {balance}
  /\ UNCHANGED <<up, switchVars, pc, settleVars, auditLog, currentStatus,
                 balance, changes, crashes>>

StatusOf(stroops) ==
  IF stroops < HardFloor THEN "critical"
  ELSE IF stroops < SoftFloor THEN "low" ELSE "ok"

\* Mutant of ApplyBalance: a guard that has refused keeps refusing.
ApplyBalanceLatched(stroops) ==
  /\ stroops \in answers
  /\ answers' = answers \ {stroops}
  /\ currentStatus' = IF currentStatus = "critical" THEN "critical"
                      ELSE StatusOf(stroops)
  /\ UNCHANGED <<up, switchVars, pc, settleVars, auditLog, asked, balance,
                 changes, crashes>>

ApplyBalance(stroops) ==
  /\ stroops \in answers
  /\ answers' = answers \ {stroops}
  /\ currentStatus' = StatusOf(stroops)
  /\ UNCHANGED <<up, switchVars, pc, settleVars, auditLog, asked, balance,
                 changes, crashes>>

\* No answer, or one that is not a number.
FetchFails ==
  /\ asked > 0
  /\ asked' = asked - 1
  /\ currentStatus' = "unknown"
  /\ UNCHANGED <<up, switchVars, pc, settleVars, auditLog, answers, balance,
                 changes, crashes>>

BalanceChanges ==
  /\ changes < MaxChanges
  /\ \E b \in Balances \ {balance} : balance' = b
  /\ changes' = changes + 1
  /\ UNCHANGED <<up, switchVars, pc, settleVars, auditLog, currentStatus,
                 asked, answers, crashes>>

-----------------------------------------------------------------------------

Crash ==
  /\ up /\ crashes < MaxCrashes
  /\ up' = FALSE
  /\ crashes' = crashes + 1
  /\ pc' = [x \in DOMAIN pc |-> IF pc[x] \in Ended THEN pc[x] ELSE "died"]
  /\ \E landed \in SUBSET {AuditRow(x) : x \in {y \in DOMAIN pc : pc[y] = "auditing"}} :
       auditLog' = auditLog \cup landed
  /\ asked' = 0 /\ answers' = {}
  /\ currentStatus' = "unknown"
  /\ state' = [enabled |-> DefaultEnabled, by |-> None]
  /\ UNCHANGED <<row, writes, want, committed, overlapped, lastAnswered,
                 settleVars, balance, changes>>

\* A failed read of the row aborts the boot: the process stays down.
Boot ==
  /\ ~up
  /\ up' = TRUE
  /\ state' = Hydrated
  /\ UNCHANGED <<row, writes, want, committed, overlapped, lastAnswered, pc,
                 settleVars, auditLog, guardVars, crashes>>

Operator(t) ==
  \/ \E enabled \in BOOLEAN : Toggle(t, enabled)
  \/ SetKillSwitchState(t) \/ ToggleWritten(t) \/ ToggleFails(t)

Guard ==
  \/ Refresh \/ Fetch \/ FetchFails
  \/ \E stroops \in answers : ApplyBalance(stroops)

Next ==
  \/ \E t \in Toggles : Operator(t)
  \/ \E s \in Settles : Settle(s) \/ SettleEnds(s)
  \/ \E x \in Toggles \cup Settles : Answer(x)
  \/ Guard \/ BalanceChanges \/ Crash \/ Boot

Spec == Init /\ [][Next]_vars

\* The interval timer fires, not every fetch fails and an answer is applied, a
\* process that crashed is started again.
Fairness ==
  /\ WF_vars(Refresh) /\ SF_vars(Fetch)
  /\ \A stroops \in Balances : WF_vars(ApplyBalance(stroops))
  /\ WF_vars(Boot)

FairSpec == Spec /\ Fairness

-----------------------------------------------------------------------------
(* Properties.                                                             *)

\* The types of the state.
TypeOK ==
  /\ up \in BOOLEAN
  /\ state \in KillSwitchState /\ row \in KillSwitchState \cup {None}
  /\ writes \subseteq Toggles /\ committed \subseteq Toggles
  /\ overlapped \subseteq Toggles /\ lastAnswered \in Toggles \cup {None}
  /\ want \in [Toggles -> BOOLEAN]
  /\ pc \in [Toggles \cup Settles ->
               Ended \cup {"writing", "auditing", "settling"}]
  /\ outcome \in [Settles -> Outcomes \cup {"refused", None}]
  /\ auditLog \subseteq
       [by : Toggles \cup Settles,
        action : {"kill_switch_enabled", "kill_switch_disabled",
                  "settlement_success", "settlement_failure"}]
  /\ currentStatus \in {"unknown", "critical", "low", "ok"}
  /\ asked \in 0..MaxRefreshes /\ answers \subseteq Balances
  /\ balance \in Balances
  /\ crashes \in 0..MaxCrashes /\ changes \in 0..MaxChanges

\* A toggle that overlapped no other and was answered rules until the next one
\* is asked for or an abandoned write lands: in the cache and in the database,
\* through crashes and restarts (admin.ts:32-66).
AnsweredToggleRules ==
  lastAnswered # None =>
    LET ruling == [enabled |-> want[lastAnswered], by |-> lastAnswered]
    IN  row = ruling /\ (up => state = ruling)

\* The audit log claims no success that did not pay and was not answered as
\* one, and no toggle that is not in the database; a settle has one row.
AuditTruthful ==
  \A a \in auditLog :
    /\ a.action = "settlement_success" => outcome[a.by] = "paid"
    /\ a.by \in Toggles => a.by \in committed
    /\ \A b \in auditLog : b.by = a.by => b = a

\* The guard follows the ledger: a sponsor account that stays drained is
\* noticed and one that is topped up is too, whatever refreshes failed or were
\* applied late (balance.ts).  A refresh never ends the polling.
StatusFollowsBalance ==
  \A b \in Balances :
    balance = b ~> currentStatus = StatusOf(b) \/ balance # b
=============================================================================
