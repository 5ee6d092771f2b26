--------------------------- MODULE Notifications ---------------------------
(***************************************************************************)
(* internal/notify: the dispatcher that the loop calls with each event of  *)
(* a task, and the notifiers it calls one after the other.  Slack and the  *)
(* webhook answer, fail or time out after five seconds; a mail is sent in  *)
(* a dialogue with the server that has no deadline and does not look at    *)
(* the context.  Fire returns when the last notifier has, and the daemon   *)
(* takes no other signal until then.                                       *)
(***************************************************************************)
EXTENDS Integers, Sequences, SequencesExt

CONSTANTS Configured, \* Seq(Notification): the notifications
          Events,     \* the events the loop fires
          MaxFires    \* bound: events of the run

Notification ==
  [provider : {"slack", "webhook", "email", "other"}, complete : BOOLEAN, on : SUBSET Events]

NotificationsAssumption == Configured \in Seq(Notification) /\ MaxFires \in Nat

VARIABLES fires,     \* how many events were fired
          event,     \* the event in hand, or "none"
          at,        \* the entry in hand; past the last one Fire returns
          sending,   \* "no", "connecting", "talking"
          attempts,  \* Seq(Nat): the entries called for this event
          cancelled  \* is the context of the call over?

vars == <<fires, event, at, sending, attempts, cancelled>>

(* buildNotifier: a notification without its address, recipients or with   *)
(* an unknown provider is left out; the others keep their order.           *)
Usable(n) == n.provider # "other" /\ n.complete

AddEntry(entries, n) == IF Usable(n) THEN Append(entries, n) ELSE entries

Entries == FoldLeft(AddEntry, << >>, Configured)

Init ==
  /\ fires = 0 /\ event = "none" /\ at = 1
  /\ sending = "no" /\ attempts = <<>> /\ cancelled = FALSE

Fire(ev) ==
  /\ event = "none" /\ fires < MaxFires
  /\ fires' = fires + 1 /\ event' = ev /\ at' = 1
  /\ sending' = "no" /\ attempts' = <<>>
  /\ UNCHANGED cancelled

Subscribed(i) == event \in Entries[i].on

InHand == event # "none" /\ at <= Len(Entries) /\ sending = "no"

(* An entry that is not subscribed to the event is passed over.            *)
Skip ==
  /\ InHand /\ ~Subscribed(at)
  /\ at' = at + 1
  /\ UNCHANGED <<fires, event, sending, attempts, cancelled>>

Call ==
  /\ InHand /\ Subscribed(at)
  /\ attempts' = Append(attempts, at)
  /\ sending' = "connecting"
  /\ UNCHANGED <<fires, event, at, cancelled>>

IsMail == Entries[at].provider = "email"

(* Mutant: an error ends the round.                                        *)
StopAtError(ok) == at' = IF ok THEN at + 1 ELSE Len(Entries) + 1

(* A notifier has returned; its error is logged and the next one is called. *)
NextEntry(ok) == at' = at + 1

Returned(ok) ==
  /\ sending' = "no"
  /\ NextEntry(ok)
  /\ UNCHANGED <<fires, event, attempts, cancelled>>

(* Mutant: a client without a timeout; only the context ends the request.  *)
NoHttpTimeout == sending = "connecting" /\ ~IsMail /\ cancelled /\ Returned(FALSE)

(* The client of Slack and of the webhook: an answer, good or bad, within  *)
(* five seconds, or the error of the timeout; a cancelled context ends the *)
(* request.                                                                *)
HttpAnswer ==
  /\ sending = "connecting" /\ ~IsMail /\ ~cancelled
  /\ \E ok \in BOOLEAN : Returned(ok)

HttpTimeout == sending = "connecting" /\ ~IsMail /\ Returned(FALSE)

(* A mail: the dial is bounded, by ten seconds or by the system.           *)
MailRefused == sending = "connecting" /\ IsMail /\ Returned(FALSE)

MailConnected ==
  /\ sending = "connecting" /\ IsMail
  /\ sending' = "talking"
  /\ UNCHANGED <<fires, event, at, attempts, cancelled>>

(* The server answers, in its own time, or never.                          *)
MailAnswer == sending = "talking" /\ \E ok \in BOOLEAN : Returned(ok)

FireReturns ==
  /\ event # "none" /\ at > Len(Entries)
  /\ event' = "none"
  /\ UNCHANGED <<fires, at, sending, attempts, cancelled>>

Cancel ==
  /\ ~cancelled
  /\ cancelled' = TRUE
  /\ UNCHANGED <<fires, event, at, sending, attempts>>

Next ==
  \/ \E ev \in Events : Fire(ev)
  \/ Skip \/ Call \/ HttpAnswer \/ HttpTimeout
  \/ MailRefused \/ MailConnected \/ MailAnswer \/ FireReturns \/ Cancel

Spec == Init /\ [][Next]_vars

(* Goroutines run and timeouts fire; servers need not answer.              *)
FairSpec ==
  /\ Spec
  /\ WF_vars(Skip) /\ WF_vars(Call) /\ WF_vars(FireReturns)
  /\ WF_vars(HttpTimeout) /\ WF_vars(MailRefused \/ MailConnected)

---------------------------------------------------------------------------
(* Types; every entry that is called exists and is subscribed.             *)
TypeOK ==
  /\ fires \in 0..MaxFires
  /\ event \in Events \union {"none"}
  /\ at \in 1..(Len(Entries) + 1)
  /\ sending \in {"no", "connecting", "talking"}
  /\ cancelled \in BOOLEAN
  /\ event # "none" => \A i \in DOMAIN attempts : Subscribed(attempts[i])

(* When Fire returns, each notifier that is subscribed to the event has    *)
(* been called once, in the order of the configuration, although others    *)
(* before it failed or timed out (Dispatcher.Fire).                        *)
EverySubscriberIsCalled ==
  [][event # "none" /\ event' = "none" =>
       /\ ToSet(attempts) = {i \in 1..Len(Entries) : Subscribed(i)}
       /\ \A j, k \in DOMAIN attempts : j < k => attempts[j] < attempts[k]]_vars

(* A notifier does not block the loop for good: every Fire returns, unless *)
(* a mail server takes the connection and then never answers.              *)
EveryFireReturns ==
  []<>(sending # "talking") => (event # "none" ~> event = "none")
============================================================================
