------------------------------- MODULE Alerts -------------------------------
(***************************************************************************)
(* What the escalation of a dispute sets off: DiscordService posts one      *)
(* alert in the background and lists the disputes whose alert failed for    *)
(* good; NotificationService writes to each party by mail and then by push, *)
(* as far as the party wants it, and reports whether one of them went out.  *)
(* The keys of both services are configured: without its key a channel      *)
(* returns false untried.                                                   *)
(***************************************************************************)
EXTENDS Naturals, Sequences, SequencesExt

CONSTANTS
  Escalations,      \* calls of notifyDisputeNeedsJurors
  DisputeOf,        \* the dispute of each
  MaxPosts,         \* DISCORD_NOTIFICATION_MAX_RETRIES
  MaxFailed,        \* MAX_FAILED_NOTIFICATIONS (1000)
  Letters,          \* calls of notifyParty and notifyEvidenceRequired, one recipient
  MailTries, PushTries  \* 3 and 2

Channels == {"mail", "push"}
Triable == [mail |-> MailTries, push |-> PushTries]

VARIABLES
  alert,            \* per alert: the posts made and its state
  failedNotifications, \* the disputes on the list, the oldest failure first
  failures,         \* history: the disputes of failed alerts, in order
  expired,          \* history: disputes dropped for their age since they failed last
  preferences,      \* the channels the recipient wants; {} also when alerts are off
  letter            \* per letter: the channels wanted at its start, the tries made,
                    \* the channels that took it, and where it stands

vars == <<alert, failedNotifications, failures, expired, preferences, letter>>

NoLetter == [state |-> "new", wanted |-> {}, tries |-> [c \in Channels |-> 0], took |-> {}, told |-> FALSE]
Init ==
  /\ alert = [e \in Escalations |-> [posts |-> 0, state |-> "posting"]]
  /\ failedNotifications = <<>> /\ failures = <<>> /\ expired = {}
  /\ preferences = Channels /\ letter = [n \in Letters |-> NoLetter]

----------------------------------------------------------------------------
\* Variant: a dispute that failed before keeps its place in the list.
RecordInPlace(d) ==
  LET all == IF d \in ToSet(failedNotifications) THEN failedNotifications ELSE Append(failedNotifications, d) IN
  failedNotifications' = IF Len(all) > MaxFailed THEN Tail(all) ELSE all
\* Variant: the earlier failure of the dispute stays in the list.
RecordAgain(d) ==
  LET all == Append(failedNotifications, d) IN
  failedNotifications' = IF Len(all) > MaxFailed THEN Tail(all) ELSE all
(* recordFailedNotification: the latest failure of a dispute replaces the one *)
(* before; beyond the cap the oldest goes (by its time in milliseconds).      *)
Record(d) ==
  LET all == Append(RemoveFirst(failedNotifications, d), d) IN
  failedNotifications' = IF Len(all) > MaxFailed THEN Tail(all) ELSE all

(* One post: accepted, lost on the way (worth another), or answered with a    *)
(* status: "Discord webhook returned status 503" is none isRetryable knows,   *)
(* so it is final.                                                            *)
PostAlert(e) ==
  /\ alert[e].state = "posting"
  /\ \E answer \in {"accepted", "lost", "status"} :
       LET final == answer = "status" \/ (answer = "lost" /\ alert[e].posts + 1 = MaxPosts) IN
       /\ alert' = [alert EXCEPT ![e] = [posts |-> @.posts + 1,
            state |-> IF final THEN "failed" ELSE IF answer = "accepted" THEN "sent" ELSE "posting"]]
       /\ IF final THEN /\ Record(DisputeOf[e]) /\ failures' = Append(failures, DisputeOf[e])
                        /\ expired' = expired \ {DisputeOf[e]}
                   ELSE UNCHANGED <<failedNotifications, failures, expired>>
  /\ UNCHANGED <<preferences, letter>>

(* getFailedNotifications drops those that are older than a week.             *)
EvictExpired ==
  /\ failedNotifications # <<>>
  /\ \E k \in 1 .. Len(failedNotifications) :
       /\ expired' = expired \cup ToSet(SubSeq(failedNotifications, 1, k))
       /\ failedNotifications' = SubSeq(failedNotifications, k + 1, Len(failedNotifications))
  /\ UNCHANGED <<alert, failures, preferences, letter>>

----------------------------------------------------------------------------
UpdatePreferences ==
  /\ \E c \in Channels : preferences' = IF c \in preferences THEN preferences \ {c} ELSE preferences \cup {c}
  /\ UNCHANGED <<alert, failedNotifications, failures, expired, letter>>

\* Variant: the answer for push overwrites that for mail.
ToldLast(l) == "push" \in l.took
\* notified = push || notified
Told(l) == l.took # {}
Over(l, c) == c \notin l.wanted \/ c \in l.took \/ l.tries[c] = Triable[c]
(* notifyParty, notifyEvidenceRequired: the preferences of now; off, no letter. *)
Begin(n) ==
  /\ letter[n].state = "new"
  /\ letter' = [letter EXCEPT ![n].state = IF preferences = {} THEN "over" ELSE "writing", ![n].wanted = preferences]
  /\ UNCHANGED <<alert, failedNotifications, failures, expired, preferences>>
(* withRetry with no test of the error: every failure is worth another try.    *)
Try(n) ==
  LET l == letter[n] IN
  /\ l.state = "writing"
  /\ \E c \in Channels, taken \in BOOLEAN :
       /\ ~Over(l, c) /\ (c = "push" => Over(l, "mail"))
       /\ letter' = [letter EXCEPT ![n].tries[c] = @ + 1, ![n].took = IF taken THEN @ \cup {c} ELSE @]
  /\ UNCHANGED <<alert, failedNotifications, failures, expired, preferences>>
End(n) ==
  /\ letter[n].state = "writing" /\ \A c \in Channels : Over(letter[n], c)
  /\ letter' = [letter EXCEPT ![n].state = "over", ![n].told = Told(letter[n])]
  /\ UNCHANGED <<alert, failedNotifications, failures, expired, preferences>>

NextAlert == (\E e \in Escalations : PostAlert(e)) \/ EvictExpired
NextLetter == UpdatePreferences \/ \E n \in Letters : Begin(n) \/ Try(n) \/ End(n)
Next == NextAlert \/ NextLetter
Spec == Init /\ [][Next]_vars

----------------------------------------------------------------------------
TypeOK ==
  /\ alert \in [Escalations -> [posts : 0 .. MaxPosts, state : {"posting", "sent", "failed"}]]
  /\ IsInjective(failedNotifications) /\ ToSet(failures) \cup expired \subseteq {DisputeOf[e] : e \in Escalations}
  /\ preferences \subseteq Channels
  /\ \A n \in Letters : /\ letter[n].state \in {"new", "writing", "over"}
                        /\ UNION {letter[n].wanted, letter[n].took} \subseteq Channels

(* The list holds no more than its cap, and the disputes of the latest failures   *)
(* as far as the cap goes, unless their age made them go; a failed alert is       *)
(* among the failures (recordFailedNotification, evictExpiredNotifications).      *)
LatestFailuresListed ==
  /\ Len(failedNotifications) <= MaxFailed
  /\ \A e \in Escalations : alert[e].state = "failed" => DisputeOf[e] \in ToSet(failures)
  /\ \A i \in 1 .. Len(failures) : i > Len(failures) - MaxFailed =>
       failures[i] \in ToSet(failedNotifications) \cup expired

(* A recipient is reported as notified just when one of the channels wanted took  *)
(* the letter; otherwise each of them had all its tries (notifyParty).            *)
ReportedAsTaken ==
  \A n \in Letters : letter[n].state = "over" =>
    /\ letter[n].told = (letter[n].took # {})
    /\ letter[n].told \/ \A c \in letter[n].wanted : letter[n].tries[c] = Triable[c]
=============================================================================
