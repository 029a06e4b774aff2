--------------------------- MODULE OperatorProofs ---------------------------
(***************************************************************************)
(* Theorems about the kill switch and the audit log, for any number of     *)
(* toggles and settles, any crashes and any writes that land late.         *)
(*                                                                         *)
(* A toggle rules once it is answered because it was alone: no other one   *)
(* was under way, so no write but its own could land (AloneInv), and the   *)
(* next one withdraws its claim.  A row of the audit log is exact because  *)
(* its request has ended: what the row was computed from is settled        *)
(* (RowsInv).                                                              *)
(***************************************************************************)
EXTENDS OperatorGates, FiniteSetTheorems, TLAPS

USE DEF switchVars, settleVars, guardVars

-----------------------------------------------------------------------------
(* Types.                                                                  *)

\* The readings on their way back are finitely many: they can be counted.
FiniteAnswers == IsFiniteSet(answers)

LEMMA ActionType ==
  ASSUME TypeOK, NEW x \in Toggles \cup Settles
  PROVE  AuditRow(x) \in [by : Toggles \cup Settles,
                          action : {"kill_switch_enabled", "kill_switch_disabled",
                                    "settlement_success", "settlement_failure"}]
BY DEF AuditRow, Action, SettleAction

LEMMA InitTypeOK == Init => TypeOK /\ FiniteAnswers
<1>1. IsFiniteSet({})
  BY FS_EmptySet
<1> QED
  BY <1>1, GatesAssumption
  DEF Init, Hydrated, TypeOK, KillSwitchState, FiniteAnswers, Ended

LEMMA OperatorType ==
  ASSUME TypeOK, NEW t \in Toggles, Operator(t)
  PROVE  TypeOK'
<1> USE DEF TypeOK, KillSwitchState, Ended, Goto
<1>1. ASSUME NEW enabled \in BOOLEAN, Toggle(t, enabled) PROVE TypeOK'
  <2>1. Underway \subseteq Toggles
    BY DEF Underway
  <2> QED BY <1>1, <2>1 DEF Toggle
<1>2. CASE SetKillSwitchState(t)
  BY <1>2 DEF SetKillSwitchState
<1>3. CASE ToggleWritten(t)
  BY <1>3 DEF ToggleWritten
<1>4. CASE ToggleFails(t)
  BY <1>4 DEF ToggleFails
<1> QED BY <1>1, <1>2, <1>3, <1>4 DEF Operator

LEMMA GuardType ==
  ASSUME TypeOK, FiniteAnswers, Guard \/ BalanceChanges
  PROVE  TypeOK' /\ FiniteAnswers'
<1> USE GatesAssumption DEF TypeOK, FiniteAnswers
<1>1. CASE Refresh
  <2>1. Cardinality(answers) \in Nat
    BY FS_CardinalityType
  <2>2. asked' \in 0 .. MaxRefreshes
    BY <1>1, <2>1 DEF Refresh
  <2> QED BY <1>1, <2>2 DEF Refresh
<1>2. CASE Fetch
  BY <1>2, FS_AddElement DEF Fetch
<1>3. CASE FetchFails
  BY <1>3 DEF FetchFails
<1>4. ASSUME NEW stroops \in answers, ApplyBalance(stroops)
      PROVE  TypeOK' /\ FiniteAnswers'
  BY <1>4, FS_RemoveElement DEF ApplyBalance, StatusOf
<1>5. CASE BalanceChanges
  <2>1. changes' \in 0 .. MaxChanges
    BY <1>5 DEF BalanceChanges
  <2> QED BY <1>5, <2>1 DEF BalanceChanges
<1> QED BY <1>1, <1>2, <1>3, <1>4, <1>5 DEF Guard

LEMMA NextTypeOK ==
  TypeOK /\ FiniteAnswers /\ [Next]_vars => TypeOK' /\ FiniteAnswers'
<1> SUFFICES ASSUME TypeOK, FiniteAnswers, [Next]_vars
             PROVE  TypeOK' /\ FiniteAnswers'
  OBVIOUS
<1> USE GatesAssumption
<1>1. ASSUME NEW t \in Toggles, Operator(t) PROVE TypeOK' /\ FiniteAnswers'
  <2>1. UNCHANGED answers
    BY <1>1 DEF Operator, Toggle, SetKillSwitchState, ToggleWritten, ToggleFails
  <2> QED BY <1>1, <2>1, OperatorType DEF FiniteAnswers
<1>2. ASSUME NEW s \in Settles, Settle(s) \/ SettleEnds(s)
      PROVE  TypeOK' /\ FiniteAnswers'
  <2>1. pc' \in [Toggles \cup Settles ->
                   Ended \cup {"writing", "auditing", "settling"}]
    BY <1>2 DEF Settle, SettleEnds, Goto, TypeOK
  <2>2. outcome' \in [Settles -> Outcomes \cup {"refused", None}]
    BY <1>2 DEF Settle, SettleEnds, TypeOK
  <2>3. UNCHANGED <<up, switchVars, auditLog, guardVars, crashes>>
    BY <1>2 DEF Settle, SettleEnds
  <2> QED BY <2>1, <2>2, <2>3 DEF TypeOK, FiniteAnswers
<1>3. ASSUME NEW x \in Toggles \cup Settles, Answer(x)
      PROVE  TypeOK' /\ FiniteAnswers'
  <2>1. PICK landed \in SUBSET {AuditRow(x)} : auditLog' = auditLog \cup landed
    BY <1>3 DEF Answer
  <2>2. auditLog' \subseteq [by : Toggles \cup Settles,
           action : {"kill_switch_enabled", "kill_switch_disabled",
                     "settlement_success", "settlement_failure"}]
    BY <2>1, ActionType DEF TypeOK
  <2> QED BY <1>3, <2>2 DEF Answer, Goto, TypeOK, FiniteAnswers, Ended
<1>4. CASE Guard \/ BalanceChanges
  BY <1>4, GuardType
<1>5. CASE Crash
  <2>1. auditLog' \subseteq [by : Toggles \cup Settles,
           action : {"kill_switch_enabled", "kill_switch_disabled",
                     "settlement_success", "settlement_failure"}]
    BY <1>5, ActionType DEF Crash, TypeOK
  <2>2. pc' \in [Toggles \cup Settles ->
                   Ended \cup {"writing", "auditing", "settling"}]
    BY <1>5 DEF Crash, TypeOK, Ended
  <2>3. asked' \in 0 .. MaxRefreshes /\ answers' \subseteq Balances
        /\ FiniteAnswers' /\ crashes' \in 0 .. MaxCrashes
    BY <1>5, FS_EmptySet DEF Crash, TypeOK, FiniteAnswers
  <2> QED BY <1>5, <2>1, <2>2, <2>3 DEF Crash, TypeOK, KillSwitchState
<1>6. CASE Boot
  BY <1>6 DEF Boot, Hydrated, TypeOK, KillSwitchState, FiniteAnswers
<1>7. CASE UNCHANGED vars
  BY <1>7 DEF vars, TypeOK, FiniteAnswers
<1> QED BY <1>1, <1>2, <1>3, <1>4, <1>5, <1>6, <1>7 DEF Next

\* The switch, the guard and the log keep their types: a row read back at boot
\* is a state of the switch, and no more refreshes overlap than are started.
THEOREM TypeCorrect == Spec => []TypeOK
BY InitTypeOK, NextTypeOK, PTL DEF Spec

-----------------------------------------------------------------------------
(* The kill switch.                                                        *)

Ruling(t) == [enabled |-> want[t], by |-> t]

\* A write is asked for once and lands once, before its toggle goes on.
WriteInv ==
  /\ \A t \in Toggles : pc[t] = "idle" => t \notin writes \cup committed
  /\ writes \cap committed = {}
  /\ \A t \in Toggles : pc[t] = "auditing" => t \in committed

\* While a toggle that overlapped none awaits its write, no other write is on
\* its way and no other toggle awaits one.
AloneInv ==
  \A t \in Toggles : pc[t] = "writing" /\ t \notin overlapped =>
    /\ writes \subseteq {t}
    /\ \A u \in Toggles \ {t} : pc[u] # "writing"
    /\ t \in committed => row = Ruling(t)

\* AnsweredToggleRules, and why nothing can land after it.
RulingInv ==
  lastAnswered # None =>
    /\ writes = {}
    /\ \A t \in Toggles : pc[t] # "writing"
    /\ row = Ruling(lastAnswered)
    /\ up => state = Ruling(lastAnswered)

SwitchInv == TypeOK /\ WriteInv /\ AloneInv /\ RulingInv

LEMMA SwitchStep ==
  ASSUME SwitchInv, NEW t \in Toggles, Operator(t)
  PROVE  (WriteInv /\ AloneInv /\ RulingInv)'
<1> USE GatesAssumption DEF SwitchInv, TypeOK, WriteInv, AloneInv, RulingInv,
      Ruling, Goto, Ended
<1>1. ASSUME NEW enabled \in BOOLEAN, Toggle(t, enabled)
      PROVE  (WriteInv /\ AloneInv /\ RulingInv)'
  <2>1. \A u \in Toggles \ {t} : pc[u] = "writing" => u \in overlapped'
    BY <1>1 DEF Toggle, Underway
  <2>2. t \notin overlapped' => writes = {} /\ \A u \in Toggles : pc[u] # "writing"
    BY <1>1 DEF Toggle, Underway
  <2>3. AloneInv'
    BY <1>1, <2>1, <2>2 DEF Toggle
  <2> QED BY <1>1, <2>3 DEF Toggle
<1>2. CASE SetKillSwitchState(t)
  BY <1>2 DEF SetKillSwitchState
<1>3. CASE ToggleWritten(t)
  BY <1>3 DEF ToggleWritten
<1>4. CASE ToggleFails(t)
  BY <1>4 DEF ToggleFails
<1> QED BY <1>1, <1>2, <1>3, <1>4 DEF Operator

LEMMA SwitchInvStep == SwitchInv /\ [Next]_vars => (WriteInv /\ AloneInv /\ RulingInv)'
<1> SUFFICES ASSUME SwitchInv, [Next]_vars
             PROVE  (WriteInv /\ AloneInv /\ RulingInv)'
  OBVIOUS
<1> USE GatesAssumption DEF SwitchInv, TypeOK, WriteInv, AloneInv, RulingInv,
      Ruling, Goto
<1>1. ASSUME NEW s \in Settles, Settle(s) \/ SettleEnds(s)
      PROVE  (WriteInv /\ AloneInv /\ RulingInv)'
  BY <1>1 DEF Settle, SettleEnds
<1>2. ASSUME NEW x \in Toggles \cup Settles, Answer(x)
      PROVE  (WriteInv /\ AloneInv /\ RulingInv)'
  BY <1>2 DEF Answer
<1>3. CASE Guard \/ BalanceChanges \/ UNCHANGED vars
  BY <1>3 DEF Guard, Refresh, Fetch, FetchFails, ApplyBalance, BalanceChanges, vars
<1>4. CASE Crash
  <2>1. \A t \in Toggles : /\ pc'[t] # "writing" /\ pc'[t] # "auditing"
                           /\ pc'[t] = "idle" => pc[t] = "idle"
    BY <1>4 DEF Crash, Ended
  <2> QED BY <1>4, <2>1 DEF Crash
<1>5. CASE Boot
  BY <1>5 DEF Boot, Hydrated, KillSwitchState
<1> QED BY <1>1, <1>2, <1>3, <1>4, <1>5, SwitchStep DEF Next

LEMMA SwitchInvariant == Spec => []SwitchInv
<1>1. Init => SwitchInv
  BY InitTypeOK DEF Init, SwitchInv, WriteInv, AloneInv, RulingInv
<1>2. SwitchInv /\ FiniteAnswers /\ [Next]_vars => SwitchInv' /\ FiniteAnswers'
  BY SwitchInvStep, NextTypeOK DEF SwitchInv
<1> QED BY <1>1, <1>2, InitTypeOK, PTL DEF Spec

\* A toggle that overlapped no other rules in the database and in the cache
\* until the next is asked for, through any crash and any restart.
THEOREM AnsweredRules == Spec => []AnsweredToggleRules
<1>1. SwitchInv => AnsweredToggleRules
  BY DEF SwitchInv, RulingInv, Ruling, AnsweredToggleRules
<1> QED BY <1>1, SwitchInvariant, PTL

-----------------------------------------------------------------------------
(* The audit log.                                                          *)

\* A row is the one its request asked for, and that request has ended.
RowsInv ==
  \A a \in auditLog :
    /\ a.by \in Toggles \cup Settles
    /\ a = AuditRow(a.by)
    /\ pc[a.by] \in {"answered", "died"}
    /\ a.by \in Toggles => a.by \in committed

LEMMA RowsKept ==
  ASSUME RowsInv, TypeOK,
         NEW added, auditLog' = auditLog \cup added,
         \A a \in added : \E x \in Toggles \cup Settles :
           /\ a = AuditRow(x)
           /\ pc'[x] \in {"answered", "died"}
           /\ x \in Toggles => x \in committed
           /\ AuditRow(x)' = AuditRow(x),
         \A x \in Toggles \cup Settles : pc[x] \in {"answered", "died"} =>
           pc'[x] = pc[x] /\ AuditRow(x)' = AuditRow(x),
         committed \subseteq committed'
  PROVE  RowsInv'
<1> SUFFICES ASSUME NEW a \in auditLog'
             PROVE  /\ a.by \in Toggles \cup Settles
                    /\ a = AuditRow(a.by)'
                    /\ pc'[a.by] \in {"answered", "died"}
                    /\ a.by \in Toggles => a.by \in committed'
  BY DEF RowsInv
<1>1. CASE a \in auditLog
  BY <1>1 DEF RowsInv
<1>2. CASE a \in added
  <2>1. PICK x \in Toggles \cup Settles :
           /\ a = AuditRow(x)
           /\ pc'[x] \in {"answered", "died"}
           /\ x \in Toggles => x \in committed
           /\ AuditRow(x)' = AuditRow(x)
    BY <1>2
  <2>2. a.by = x
    BY <2>1 DEF AuditRow
  <2> QED BY <2>1, <2>2
<1> QED BY <1>1, <1>2

LEMMA RowsStep == SwitchInv /\ RowsInv /\ [Next]_vars => RowsInv'
<1> SUFFICES ASSUME SwitchInv, RowsInv, [Next]_vars PROVE RowsInv'
  OBVIOUS
<1> USE GatesAssumption DEF SwitchInv, TypeOK, Goto
<1>1. ASSUME NEW x \in Toggles \cup Settles, Answer(x) PROVE RowsInv'
  <2>1. PICK landed \in SUBSET {AuditRow(x)} : auditLog' = auditLog \cup landed
    BY <1>1 DEF Answer
  <2>2. \A y \in Toggles \cup Settles : AuditRow(y)' = AuditRow(y)
    BY <1>1 DEF Answer, AuditRow, Action, SettleAction
  <2>3. /\ pc[x] = "auditing" /\ pc'[x] = "answered"
        /\ \A y \in Toggles \cup Settles : y # x => pc'[y] = pc[y]
        /\ committed' = committed
    BY <1>1 DEF Answer
  <2>4. x \in Toggles => x \in committed
    BY <2>3 DEF WriteInv
  <2> QED BY <2>1, <2>2, <2>3, <2>4, RowsKept
<1>2. CASE Crash
  <2>1. PICK landed \in SUBSET {AuditRow(x) : x \in {y \in DOMAIN pc : pc[y] = "auditing"}} :
          auditLog' = auditLog \cup landed
    BY <1>2 DEF Crash
  <2>2. \A y \in Toggles \cup Settles : AuditRow(y)' = AuditRow(y)
    BY <1>2 DEF Crash, AuditRow, Action, SettleAction
  <2>3. \A y \in Toggles \cup Settles :
          /\ pc[y] = "auditing" => pc'[y] = "died"
          /\ pc[y] \in {"answered", "died"} => pc'[y] = pc[y]
    BY <1>2 DEF Crash, Ended
  <2>4. \A a \in landed : \E x \in Toggles \cup Settles :
          /\ a = AuditRow(x) /\ pc[x] = "auditing"
          /\ x \in Toggles => x \in committed
    BY <2>1 DEF WriteInv
  <2>5. committed' = committed
    BY <1>2 DEF Crash
  <2> QED BY <2>1, <2>2, <2>3, <2>4, <2>5, RowsKept
<1>3. ASSUME UNCHANGED auditLog, committed \subseteq committed',
             \A x \in Toggles \cup Settles : pc[x] \in {"answered", "died"} =>
               pc'[x] = pc[x] /\ AuditRow(x)' = AuditRow(x)
      PROVE  RowsInv'
  BY <1>3, RowsKept
<1>4. ASSUME NEW t \in Toggles, Operator(t) PROVE RowsInv'
  <2>1. UNCHANGED <<auditLog, outcome>> /\ committed \subseteq committed'
    BY <1>4 DEF Operator, Toggle, SetKillSwitchState, ToggleWritten, ToggleFails
  <2>2. \A x \in Toggles \cup Settles : pc[x] \in {"answered", "died"} =>
          pc'[x] = pc[x] /\ (x \in Toggles => want'[x] = want[x])
    BY <1>4 DEF Operator, Toggle, SetKillSwitchState, ToggleWritten, ToggleFails
  <2>3. \A x \in Toggles \cup Settles : pc[x] \in {"answered", "died"} =>
          AuditRow(x)' = AuditRow(x)
    BY <2>1, <2>2 DEF AuditRow, Action, SettleAction
  <2> QED BY <1>3, <2>1, <2>2, <2>3
<1>5. ASSUME NEW s \in Settles, Settle(s) \/ SettleEnds(s) PROVE RowsInv'
  <2>1. UNCHANGED <<auditLog, want, committed>>
    BY <1>5 DEF Settle, SettleEnds
  <2>2. \A x \in Toggles \cup Settles : pc[x] \in {"answered", "died"} =>
          pc'[x] = pc[x] /\ (x \in Settles => outcome'[x] = outcome[x])
    BY <1>5 DEF Settle, SettleEnds
  <2>3. \A x \in Toggles \cup Settles : pc[x] \in {"answered", "died"} =>
          AuditRow(x)' = AuditRow(x)
    BY <2>1, <2>2 DEF AuditRow, Action, SettleAction
  <2> QED BY <1>3, <2>1, <2>2, <2>3
<1>6. CASE Guard \/ BalanceChanges \/ Boot \/ UNCHANGED vars
  <2>1. UNCHANGED <<auditLog, want, committed, outcome, pc>>
    BY <1>6 DEF Guard, Refresh, Fetch, FetchFails, ApplyBalance, BalanceChanges,
       Boot, vars
  <2>2. \A x \in Toggles \cup Settles : AuditRow(x)' = AuditRow(x)
    BY <2>1 DEF AuditRow, Action, SettleAction
  <2> QED BY <1>3, <2>1, <2>2
<1> QED BY <1>1, <1>2, <1>4, <1>5, <1>6 DEF Next

\* The log claims no success that did not pay and no toggle that is not in the
\* database, and has at most one row for a request, whichever rows are lost.
THEOREM LogTruthful == Spec => []AuditTruthful
<1>1. Init => RowsInv
  BY DEF Init, RowsInv
<1>2. RowsInv => AuditTruthful
  <2> SUFFICES ASSUME RowsInv, NEW a \in auditLog
               PROVE  /\ a.action = "settlement_success" => outcome[a.by] = "paid"
                      /\ a.by \in Toggles => a.by \in committed
                      /\ \A b \in auditLog : b.by = a.by => b = a
    BY DEF AuditTruthful
  <2>1. a = AuditRow(a.by) /\ a.by \in Toggles \cup Settles
    BY DEF RowsInv
  <2>2. a.action = Action(a.by)
    BY <2>1 DEF AuditRow
  <2>3. a.action = "settlement_success" => outcome[a.by] = "paid"
    BY <2>1, <2>2 DEF Action, SettleAction
  <2>4. \A b \in auditLog : b.by = a.by => b = a
    BY <2>1 DEF RowsInv
  <2> QED BY <2>1, <2>3, <2>4 DEF RowsInv
<1> QED BY <1>1, <1>2, RowsStep, SwitchInvariant, PTL DEF Spec
=============================================================================
