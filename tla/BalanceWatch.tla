---------------------------- MODULE BalanceWatch ----------------------------
(***************************************************************************)
(* PlatformBalanceService: every instance looks at the platform account's   *)
(* balance by a timer, which does not wait for the last look to end, and    *)
(* sends an alert if the balance is low or critical, at most one of a level *)
(* in a cooldown. The clock counts the ticks of the timer.                  *)
(***************************************************************************)
EXTENDS Naturals, FiniteSets

CONSTANTS
  Watchers,      \* one per instance
  Cooldown,      \* alertCooldownMs, in ticks
  LastLook,      \* bounds the clock
  MaxUnsent      \* bounds balances that could not be read and alerts that were lost

Levels == {"CRITICAL", "WARNING"}

VARIABLES
  time,
  balance,       \* of the account: "healthy" or one of the levels it calls for
  looks,         \* per instance: what its open looks will read: nothing yet, or a level
  lastAlert,     \* per instance and level: lastAlertTime, 0 for never
  alerts,        \* history: the alerts raised, and whether they were sent
  unsent,
  seen           \* history: the low balances that were seen, per instance

vars == <<time, balance, looks, lastAlert, alerts, unsent, seen>>

Init ==
  /\ time = Cooldown /\ balance = "healthy" /\ looks = [w \in Watchers |-> 0]
  /\ lastAlert = [w \in Watchers |-> [l \in Levels |-> 0]]
  /\ alerts = {} /\ unsent = 0 /\ seen = {}

----------------------------------------------------------------------------
(* The cron starts a look in every instance. *)
Tick ==
  /\ time < LastLook /\ time' = time + 1
  /\ looks' = [w \in Watchers |-> looks[w] + 1]
  /\ UNCHANGED <<balance, lastAlert, alerts, unsent, seen>>
Spend ==
  /\ balance' \in (Levels \cup {"healthy"}) \ {balance}
  /\ UNCHANGED <<time, looks, lastAlert, alerts, unsent, seen>>

\* Variant: one cooldown for both levels.
CoolingAny(w, l) == \E k \in Levels : lastAlert[w][k] # 0 /\ time - lastAlert[w][k] < Cooldown
Cooling(w, l) == lastAlert[w][l] # 0 /\ time - lastAlert[w][l] < Cooldown

\* Variant: the cooldown starts when the alert is sent.
StampSent(w, l, sent) == IF sent THEN [lastAlert EXCEPT ![w][l] = time] ELSE lastAlert
(* The cooldown starts before the dispatch, whatever becomes of it. *)
Stamp(w, l, sent) == [lastAlert EXCEPT ![w][l] = time]

(* triggerAlert *)
TriggerAlert(w, l, sent) ==
  IF Cooling(w, l) THEN UNCHANGED <<lastAlert, alerts>>
  ELSE /\ lastAlert' = Stamp(w, l, sent)
       /\ alerts' = alerts \cup {[by |-> w, level |-> l, at |-> time, sent |-> sent]}

(* checkPlatformBalance: a balance that cannot be read raises nothing. *)
CheckPlatformBalance(w) ==
  /\ looks[w] > 0 /\ looks' = [looks EXCEPT ![w] = @ - 1]
  /\ \/ /\ balance = "healthy" /\ UNCHANGED <<lastAlert, alerts, unsent, seen>>
     \/ /\ balance # "healthy" /\ seen' = seen \cup {[by |-> w, level |-> balance, at |-> time]}
        /\ \/ TriggerAlert(w, balance, TRUE) /\ UNCHANGED unsent
           \/ /\ ~Cooling(w, balance) /\ unsent < MaxUnsent /\ unsent' = unsent + 1
              /\ TriggerAlert(w, balance, FALSE)
     \/ unsent < MaxUnsent /\ unsent' = unsent + 1 /\ UNCHANGED <<lastAlert, alerts, seen>>
  /\ UNCHANGED <<time, balance>>

Next == Tick \/ Spend \/ \E w \in Watchers : CheckPlatformBalance(w)
Spec == Init /\ [][Next]_vars

----------------------------------------------------------------------------
Clock == 0 .. LastLook
TypeOK ==
  /\ time \in Clock /\ balance \in Levels \cup {"healthy"} /\ unsent \in 0 .. MaxUnsent
  /\ looks \in [Watchers -> Clock] /\ lastAlert \in [Watchers -> [Levels -> Clock]]
  /\ alerts \subseteq [by : Watchers, level : Levels, at : Clock, sent : BOOLEAN]
  /\ seen \subseteq [by : Watchers, level : Levels, at : Clock]

(* An instance raises one alert of a level within a cooldown, and whenever it saw *)
(* such a balance it had raised one of that very level within the cooldown        *)
(* (triggerAlert).                                                                *)
AlertsArePaced ==
  /\ \A a, b \in alerts : a.by = b.by /\ a.level = b.level /\ a # b =>
       a.at >= b.at + Cooldown \/ b.at >= a.at + Cooldown
  /\ \A s \in seen : \E a \in alerts :
       a.by = s.by /\ a.level = s.level /\ a.at <= s.at /\ s.at < a.at + Cooldown
=============================================================================
