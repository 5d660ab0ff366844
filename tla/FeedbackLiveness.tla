---------------------------- MODULE FeedbackLiveness ----------------------------
(***************************************************************************)
(* Does a sending domain's event channel answer?  Decided from the send    *)
(* log alone: D1's for every mailbox (/api/health), a mailbox object's own *)
(* rows for the status of one request.                                     *)
(*                                                                         *)
(* The channel (subscription, queue, consumer) is the environment: it is   *)
(* cut and restored at any time, and while it is cut no event arrives.  A  *)
(* tick is the unit of Maturity and Lookback.  How rows and stamps come    *)
(* about is module EventRouting; here the log follows the rows, late or    *)
(* never.                                                                  *)
(***************************************************************************)
EXTENDS Integers, FiniteSets

CONSTANTS
  Requests, Domains, Boxes,   \* requests; sending domains; mailboxes
  DomainOf, BoxOf,
  Maturity, Lookback,      \* FEEDBACK_MATURITY_MS, FEEDBACK_LOOKBACK_MS
  LastTick                 \* bound on time

ASSUME FeedbackAssumption ==
  /\ DomainOf \in [Requests -> Domains] /\ BoxOf \in [Requests -> Boxes]
  /\ Maturity \in Nat /\ Lookback \in Nat /\ LastTick \in Nat
  /\ Maturity < Lookback /\ IsFiniteSet(Requests)

VARIABLES
  now,
  rows,      \* the objects' transactional_requests
  log,       \* D1: transactional_request_log
  wired,     \* the domains whose channel works
  lastUp,    \* per domain, the last tick it worked
  lastDown   \* and the last tick it did not

feedbackVars == <<now, rows, log, wired, lastUp, lastDown>>

Never == -1     \* no timestamp: sorts before every other, as "" does
Stamp == {Never} \cup 0 .. LastTick
SendRow == [status : {"none", "unknown", "sent"}, at : Stamp, event : Stamp]
NoRow == [status |-> "none", at |-> Never, event |-> Never]

FeedbackTypeOK ==
  /\ now \in 0 .. LastTick
  /\ rows \in [Requests -> SendRow] /\ log \in [Requests -> SendRow]
  /\ wired \subseteq Domains
  /\ lastUp \in [Domains -> Stamp] /\ lastDown \in [Domains -> Stamp]

FeedbackInit ==
  /\ now = 0
  /\ rows = [s \in Requests |-> NoRow] /\ log = rows
  /\ wired \in SUBSET Domains
  /\ lastUp = [d \in Domains |-> IF d \in wired THEN 0 ELSE Never]
  /\ lastDown = [d \in Domains |-> IF d \in wired THEN Never ELSE 0]

--------------------------------------------------------------------------------
(* The send log as the classifier reads it.                                *)

feedbackMaturityCutoff == now - Maturity
feedbackLookbackFloor == now - Lookback

\* Mutants: an open outcome is evidence; an old send is.
CountedUnknowns(t, sends) ==
  {s \in sends : t[s].status # "none" /\ t[s].at >= feedbackLookbackFloor}
CountedForever(t, sends) == {s \in sends : t[s].status = "sent"}

\* The rows of table t that a query counts: acknowledged, and current.
Counted(t, sends) ==
  {s \in sends : t[s].status = "sent" /\ t[s].at >= feedbackLookbackFloor}

Latest(stamps) == CHOOSE x \in stamps \cup {Never} : \A y \in stamps : y <= x

\* SenderFeedbackObservation: the aggregates of one query.
Observation(t, sends) ==
  LET counted == Counted(t, sends)
      observed == {s \in counted : t[s].event # Never}
      silent == {s \in counted \ observed : t[s].at < feedbackMaturityCutoff}
  IN [dispatched |-> Cardinality(counted),
      observed |-> Cardinality(observed),
      lastEventAt |-> Latest({t[s].event : s \in observed}),
      silentMatureDispatches |-> Cardinality(silent),
      lastSilentMatureAt |-> Latest({t[s].at : s \in silent})]

\* GROUP BY domain, over every mailbox; and one mailbox's rows of one domain.
OfDomain(d) == {s \in Requests : DomainOf[s] = d}
readSenderFeedbackObservations(d) == Observation(log, OfDomain(d))
observeSenderFeedback(b, d) == Observation(rows, {s \in OfDomain(d) : BoxOf[s] = b})

\* Mutants: an old gap counts for ever; one event proves the channel.
ClassifyGapsForever(o) ==
  IF o.dispatched = 0 THEN "unobserved"
  ELSE IF o.observed = 0
       THEN IF o.silentMatureDispatches > 0 THEN "never_observed" ELSE "unobserved"
  ELSE IF o.silentMatureDispatches = 0 THEN "live" ELSE "went_dark"
ClassifyAnyEvent(o) ==
  IF o.observed > 0 THEN "live"
  ELSE IF o.silentMatureDispatches > 0 THEN "never_observed" ELSE "unobserved"

classifyFeedbackLiveness(o) ==
  IF o.dispatched = 0 THEN "unobserved"
  ELSE IF o.observed = 0
       THEN IF o.silentMatureDispatches > 0 THEN "never_observed" ELSE "unobserved"
  ELSE IF o.silentMatureDispatches = 0 THEN "live"
  ELSE IF o.lastSilentMatureAt > o.lastEventAt THEN "went_dark" ELSE "live"

Dark(state) == state \in {"never_observed", "went_dark"}

\* /api/health: the domains the log speaks of, the dark ones, and one mode.
getSendingFeedbackStatus ==
  LET state(d) == classifyFeedbackLiveness(readSenderFeedbackObservations(d))
      domains == {d \in Domains : readSenderFeedbackObservations(d).dispatched > 0}
      dark == {d \in domains : Dark(state(d))}
  IN [dark |-> dark,
      mode |-> IF domains = {} THEN "no_sends"
               ELSE IF dark # {} THEN "dark"
               ELSE IF \E d \in domains : state(d) = "live" THEN "live"
               ELSE "observing"]

\* The deliveryFeedback of one request's status.
getTransactionalRequestStatus(s) ==
  classifyFeedbackLiveness(observeSenderFeedback(BoxOf[s], DomainOf[s]))

--------------------------------------------------------------------------------
(* The world the log is written in.                                        *)

\* A request ends as acknowledged or as unknown.
Dispatch(s) ==
  /\ rows[s].status = "none"
  /\ \E status \in {"sent", "unknown"} :
       rows' = [rows EXCEPT ![s] = [status |-> status, at |-> now, event |-> Never]]
  /\ UNCHANGED <<now, log, wired, lastUp, lastDown>>

\* The row is projected, when the send ends and with every replay.
LogWrite(s) ==
  /\ rows[s].status # "none"
  /\ log' = [log EXCEPT ![s] = rows[s]]
  /\ UNCHANGED <<now, rows, wired, lastUp, lastDown>>

\* An event arrives at the object, which stamps the time of its arrival; an
\* unknown with an event was sent.
EventStampsObject(s) ==
  /\ rows[s].status # "none" /\ lastUp[DomainOf[s]] = now
  /\ rows' = [rows EXCEPT ![s].event = now, ![s].status = "sent"]
  /\ UNCHANGED <<now, log, wired, lastUp, lastDown>>

\* Then the consumer stamps D1's row, if there is one, with the event's own time.
EventStampsLog(s) ==
  /\ rows[s].event # Never /\ log[s].status # "none"
  /\ \E t \in rows[s].at .. rows[s].event :
       log' = [log EXCEPT ![s].event = t, ![s].status = "sent"]
  /\ UNCHANGED <<now, rows, wired, lastUp, lastDown>>

Cut(d) ==
  /\ d \in wired
  /\ wired' = wired \ {d}
  /\ lastDown' = [lastDown EXCEPT ![d] = now]
  /\ UNCHANGED <<now, rows, log, lastUp>>

Restore(d) ==
  /\ d \in Domains \ wired
  /\ wired' = wired \cup {d}
  /\ lastUp' = [lastUp EXCEPT ![d] = now]
  /\ UNCHANGED <<now, rows, log, lastDown>>

\* "Delivered events arrive within seconds and deferrals within hours, so a
\* day is generous": an acknowledged send over a channel that worked since is
\* answered, in both tables, before it is mature.
Owed(t, s) ==
  /\ t[s].status = "sent" /\ t[s].event = Never
  /\ t[s].at > lastDown[DomainOf[s]]

Tick ==
  /\ now < LastTick
  /\ \A s \in Requests : Owed(rows, s) \/ Owed(log, s) => now < rows[s].at + Maturity
  /\ now' = now + 1
  /\ lastUp' = [d \in Domains |-> IF d \in wired THEN now' ELSE lastUp[d]]
  /\ lastDown' = [d \in Domains |-> IF d \in wired THEN lastDown[d] ELSE now']
  /\ UNCHANGED <<rows, log, wired>>

FeedbackNext ==
  \/ \E s \in Requests : Dispatch(s) \/ LogWrite(s) \/ EventStampsObject(s) \/ EventStampsLog(s)
  \/ \E d \in Domains : Cut(d) \/ Restore(d)
  \/ Tick

FeedbackSpec == FeedbackInit /\ [][FeedbackNext]_feedbackVars

--------------------------------------------------------------------------------
(* Properties.                                                             *)

Verdict(d) == classifyFeedbackLiveness(readSenderFeedbackObservations(d))

\* A current send old enough to be judged, made after its channel last worked.
Unanswerable(t) ==
  {s \in Counted(t, Requests) : /\ t[s].at < feedbackMaturityCutoff
                             /\ t[s].at > lastUp[DomainOf[s]]}

\* "A false live is exactly the misreading this mechanism exists to prevent": a
\* mature send into a channel that is down turns its domain and the health
\* report dark, and in the object its own status.
CutIsSeen ==
  /\ \A s \in Unanswerable(log) :
       /\ getSendingFeedbackStatus.mode = "dark"
       /\ DomainOf[s] \in getSendingFeedbackStatus.dark
  /\ \A s \in Unanswerable(rows) : Dark(getTransactionalRequestStatus(s))

\* "An operator who learns to ignore this field": a domain is called dark only
\* if its channel was down within the period looked back on.
AlarmIsTrue ==
  \A s \in Requests :
    \/ DomainOf[s] \in getSendingFeedbackStatus.dark
    \/ Dark(getTransactionalRequestStatus(s))
    => lastDown[DomainOf[s]] >= feedbackLookbackFloor

\* "Reporting it forever would make the signal permanently red": the first
\* event for a send made after the last outage ends the alarm.
AlarmClears ==
  \A s \in Counted(log, Requests) :
    log[s].event # Never /\ log[s].at > lastDown[DomainOf[s]] =>
      Verdict(DomainOf[s]) = "live"

FeedbackInvariant ==
  /\ FeedbackTypeOK
  /\ CutIsSeen
  /\ AlarmIsTrue
  /\ AlarmClears

\* Comment of observeSenderFeedback: one mailbox's sample "can only make the
\* verdict more cautious" than D1's.  Claimed here where D1 is up to date.
NarrowerIsCautious ==
  log = rows =>
    \A s \in Requests : Dark(getTransactionalRequestStatus(s)) => Dark(Verdict(DomainOf[s]))

\* Comment of FeedbackLivenessState: never_observed means that no event has ever
\* arrived.  The query looks back thirty days.
NeverMeansNever ==
  \A d \in Domains :
    Verdict(d) = "never_observed" => \A s \in OfDomain(d) : log[s].event = Never
================================================================================
