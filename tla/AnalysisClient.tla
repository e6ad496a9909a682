--------------------------- MODULE AnalysisClient ---------------------------
(***************************************************************************)
(* The mobile client of an analysis and the events it follows.             *)
(*                                                                         *)
(* On the server every job has a log of numbered events.  A transaction    *)
(* (AnalysisEventEngine.emit_event) reads the largest number, inserts the  *)
(* next ones and commits them with the job's new status; the unique        *)
(* constraint on (organization, job, sequence) and the fence on the job    *)
(* make one of two overlapping transactions fail.  GET .../events answers  *)
(* with the events after Last-Event-ID that are committed when it runs and *)
(* then ends: nothing reconnects by itself.                                *)
(*                                                                         *)
(* The client (AnalysisController) keeps one status for one active         *)
(* analysis.  Its calls are asynchronous: a reply or an event finds        *)
(* whatever the user did meanwhile.  The controller is the one the app     *)
(* builds, without a resume store: a restart begins from nothing.          *)
(*                                                                         *)
(* Of the event types the ones that lead to the same client status are     *)
(* one: "progress" stands for state_changed, plan_ready, tool_started,     *)
(* tool_completed, clarification_received and resumed.                     *)
(***************************************************************************)
EXTENDS Integers, FiniteSets, Sequences

LOCAL INSTANCE Functions

CONSTANTS
    Jobs,        \* analyses
    NoJob,       \* no analysis
    Writers,     \* transactions that emit events
    MaxEvents,   \* bound: events altogether
    MaxSubmits,  \* bound: submissions by the user
    MaxCalls     \* bound: calls under way at a time

VARIABLES
    status,   \* [Jobs -> server status, "none" before it is created]
    asked,    \* jobs with a clarification that awaits its answer
    log,      \* [Jobs -> sequence of [number, kind]]
    writer,   \* [Writers -> the transaction it has open, if any]
    client,   \* what the controller shows and has applied; refreshed is history:
              \* the job a refresh found completed since the last submission
    streams,  \* open event streams and the events on their way
    calls,    \* calls on their way to the server or back
    submits   \* submissions so far

server == <<status, asked, log, writer>>
app == <<client, streams, calls>>
vars == <<server, app, submits>>

ClientAssumption ==
    /\ NoJob \notin Jobs
    /\ MaxEvents \in Nat /\ MaxSubmits \in Nat /\ MaxCalls \in Nat

ASSUME ClientAssumption

NoWriter == [job |-> NoJob, kinds |-> <<>>, base |-> 0,
             from |-> "none", result |-> "none"]

Init ==
    /\ status = [j \in Jobs |-> "none"] /\ asked = {}
    /\ log = [j \in Jobs |-> <<>>]
    /\ writer = [w \in Writers |-> NoWriter]
    /\ client = [shown |-> "idle", active |-> NoJob, last |-> 0,
                 submitting |-> FALSE, refreshed |-> NoJob]
    /\ streams = {} /\ calls = {} /\ submits = 0

-----------------------------------------------------------------------------
(* The server                                                              *)

Numbered(kinds, base) ==
    [i \in DOMAIN kinds |-> [number |-> base + i, kind |-> kinds[i]]]

(* What a transaction emits, and the statuses it leads from and to.  The   *)
(* tool commits its dataset with the events before it, and nobody takes    *)
(* the job over from there; a policy that denies commits everything at     *)
(* once; a failure is recorded alone, after a rollback.                    *)
Batches ==
    {[from |-> "RUNNING", to |-> "TOOLED",    kinds |-> <<"accepted", "progress">>],
     [from |-> "TOOLED",  to |-> "COMPLETED", kinds |-> <<"progress", "completed">>],
     [from |-> "RUNNING", to |-> "NEEDS",  kinds |-> <<"accepted", "progress", "clarify">>],
     [from |-> "RUNNING", to |-> "FAILED", kinds |-> <<"accepted", "progress", "failed">>],
     [from |-> "RUNNING", to |-> "FAILED", kinds |-> <<"failed">>],
     [from |-> "TOOLED",  to |-> "FAILED", kinds |-> <<"failed">>]}

(* Bound: there are at most MaxEvents events once n more are emitted.      *)
Room(n) == FoldFunction(LAMBDA events, sum : Len(events) + sum, n, log) <= MaxEvents

LastNumber(j) == IF log[j] = <<>> THEN 0 ELSE log[j][Len(log[j])].number

BeginEmit(w, j, b) ==
    /\ writer[w] = NoWriter
    /\ \A v \in Writers : writer[v].job \in {NoJob, j}  \* bound: one job at a time
    /\ status[j] = b.from
    /\ Room(Len(b.kinds))
    /\ writer' = [writer EXCEPT ![w] = [job |-> j, kinds |-> b.kinds,
                                        base |-> LastNumber(j),
                                        from |-> b.from, result |-> b.to]]
    /\ UNCHANGED <<status, asked, log, app, submits>>

(* The job is still where the transaction found it.                        *)
Fenced(w) == status[writer[w].job] = writer[w].from

(* Mutant of Free: there is no unique constraint.                          *)
FreeAlways(w, j) == TRUE

Free(w, j) == \A e \in {log[j][i] : i \in DOMAIN log[j]} : e.number <= writer[w].base

CommitEmit(w) ==
    LET j == writer[w].job IN
    /\ j # NoJob
    /\ IF Fenced(w) /\ Free(w, j)
       THEN /\ status' = [status EXCEPT ![j] = writer[w].result]
            /\ log' = [log EXCEPT ![j] = @ \o Numbered(writer[w].kinds, writer[w].base)]
            /\ asked' = IF writer[w].result = "NEEDS" THEN asked \cup {j} ELSE asked
       ELSE UNCHANGED <<status, log, asked>>
    /\ writer' = [writer EXCEPT ![w] = NoWriter]
    /\ UNCHANGED <<app, submits>>

(* A clarification that is due expires under the locks of its row and its  *)
(* job's, and says so even of a job that has ended meanwhile.              *)
ExpireClarification(j) ==
    /\ j \in asked /\ Room(1)
    /\ status' = [status EXCEPT ![j] = IF @ = "NEEDS" THEN "EXPIRED" ELSE @]
    /\ log' = [log EXCEPT ![j] = @ \o Numbered(<<"expired">>, LastNumber(j))]
    /\ asked' = asked \ {j}
    /\ UNCHANGED <<writer, app, submits>>

Live(j) == status[j] \in {"RUNNING", "TOOLED", "NEEDS"}

Answer(c, s, j) == calls' = (calls \ {c}) \cup {[c EXCEPT !.state = s, !.job = j]}

(* A submission creates a job, whether or not the client hears of it.      *)
Create(c, j) ==
    /\ c.op = "create" /\ status[j] = "none"
    /\ status' = [status EXCEPT ![j] = "RUNNING"]
    /\ \E s \in {"ok", "error"} : Answer(c, s, j)
    /\ UNCHANGED <<asked, log, writer>>

Respond(c) ==
    /\ c.op = "respond" /\ c.job \in asked
    /\ status[c.job] = "NEEDS" /\ Room(1)
    /\ status' = [status EXCEPT ![c.job] = "RUNNING"]
    /\ log' = [log EXCEPT ![c.job] = @ \o Numbered(<<"progress">>, LastNumber(c.job))]
    /\ asked' = asked \ {c.job}
    /\ \E s \in {"ok", "error"} : Answer(c, s, c.job)
    /\ UNCHANGED writer

(* An answer to a clarification that is due expires it, and emits nothing. *)
RespondTooLate(c) ==
    /\ c.op = "respond" /\ c.job \in asked /\ status[c.job] = "NEEDS"
    /\ status' = [status EXCEPT ![c.job] = "EXPIRED"]
    /\ asked' = asked \ {c.job}
    /\ Answer(c, "error", c.job)
    /\ UNCHANGED <<log, writer>>

(* Neither way to cancel emits an event.  The one of a clarification holds *)
(* the locks of both rows.                                                 *)
GiveUp(c) ==
    /\ c.op = "giveUp" /\ c.job \in asked /\ status[c.job] = "NEEDS"
    /\ status' = [status EXCEPT ![c.job] = "CANCELLED"]
    /\ asked' = asked \ {c.job}
    /\ Answer(c, "ok", c.job)
    /\ UNCHANGED <<log, writer>>

(* The one of an analysis validates the status it read without a lock, and *)
(* writes over the one there is by then.                                   *)
CancelRead(c) ==
    /\ c.op = "cancel" /\ Live(c.job)
    /\ Answer(c, "read", c.job)
    /\ UNCHANGED server

CancelWrite(c) ==
    /\ c.state = "read"
    /\ status' = [status EXCEPT ![c.job] = "CANCELLED"]
    /\ calls' = calls \ {c}
    /\ UNCHANGED <<asked, log, writer>>

(* The state of a job, of which the client looks for one value only, and   *)
(* the result of a completed one.                                          *)
Snapshot(c) ==
    /\ c.op \in {"refresh", "fetch"} /\ c.job # NoJob
    /\ status[c.job] = "COMPLETED"
    /\ Answer(c, "ok", c.job)
    /\ UNCHANGED server

(* A call that is refused, or fails on the way.  The client does nothing   *)
(* with what a cancel answers, nor with a refresh that fails.              *)
Refuse(c) ==
    /\ IF c.op \in {"cancel", "refresh"} THEN calls' = calls \ {c}
       ELSE Answer(c, "error", c.job)
    /\ UNCHANGED server

Serve(c) ==
    /\ \/ /\ c.state = "sent"
          /\ \/ \E j \in Jobs : Create(c, j)
             \/ Respond(c) \/ RespondTooLate(c) \/ GiveUp(c) \/ CancelRead(c)
             \/ Snapshot(c)
       \/ CancelWrite(c)
       \/ c.state \in {"sent", "read"} /\ Refuse(c)
    /\ UNCHANGED <<client, streams, submits>>

(* The request for events is answered with those committed by then, in the *)
(* order of their numbers, which are their places (EventsNumbered).        *)
Replay(s) ==
    /\ s.at = "connecting"
    /\ streams' = (streams \ {s}) \cup
         {[s EXCEPT !.at = "open",
                    !.queue = SubSeq(log[s.job], s.after + 1, Len(log[s.job]))]}
    /\ UNCHANGED <<server, client, calls, submits>>

-----------------------------------------------------------------------------
(* The client                                                              *)

Terminal == {"completed", "failedTerminal", "cancelled", "expired"}

Send(op, job) ==
    /\ Cardinality(calls) < MaxCalls
    /\ calls' = calls \cup {[op |-> op, job |-> job, state |-> "sent"]}

Stream(j, after) == [job |-> j, after |-> after, at |-> "connecting", queue |-> <<>>]

(* Mutant of Subscribe: the stream there was goes on.                      *)
SubscribeToo(j, after) == streams' = streams \cup {Stream(j, after)}

(* Subscribing cancels the stream there was.                               *)
Subscribe(j, after) == streams' = {Stream(j, after)}

Submit ==
    /\ ~client.submitting /\ submits < MaxSubmits
    /\ client' = [client EXCEPT !.shown = "submitting", !.submitting = TRUE,
                                !.refreshed = NoJob]
    /\ Send("create", NoJob)
    /\ submits' = submits + 1
    /\ UNCHANGED <<server, streams>>

(* The number of the last event and the Last-Event-ID of the analysis      *)
(* before are kept for the new one.                                        *)
CreateReplied(c) ==
    /\ c.op = "create"
    /\ IF c.state = "ok"
       THEN /\ client' = [client EXCEPT !.shown = "accepted", !.active = c.job,
                                        !.submitting = FALSE]
            /\ Subscribe(c.job, client.last)
       ELSE /\ client' = [client EXCEPT !.shown = "failedTerminal",
                                        !.submitting = FALSE]
            /\ UNCHANGED streams
    /\ calls' = calls \ {c}

ShownAfter(kind) ==
    CASE kind = "accepted" -> "accepted"
      [] kind = "progress" -> "working"
      [] kind = "clarify" -> "needsClarification"
      [] kind = "completed" -> "completed"
      [] kind = "failed" -> "failedTerminal"
      [] kind = "expired" -> "expired"

(* Only "accepted" says which job it belongs to.                           *)
Stale(s, e) ==
    \/ client.shown \in Terminal
    \/ e.kind = "accepted" /\ s.job # client.active
    \/ e.number <= client.last

(* Events are missing before this one.                                     *)
Gap(e) == client.last > 0 /\ e.number > client.last + 1

(* The result of a completed analysis is fetched for the job its event     *)
(* names, which is none.                                                   *)
Apply(e) ==
    /\ client' = [client EXCEPT !.shown = ShownAfter(e.kind), !.last = e.number]
    /\ IF e.kind = "completed" THEN Send("fetch", NoJob) ELSE UNCHANGED calls

(* A gap is not applied: the state of the job that is active is asked for. *)
Deliver(s) ==
    LET e == Head(s.queue) IN
    /\ s.queue # <<>>
    /\ streams' = (streams \ {s}) \cup {[s EXCEPT !.queue = Tail(@)]}
    /\ CASE Stale(s, e) -> UNCHANGED <<client, calls>>
         [] ~Stale(s, e) /\ Gap(e) -> Send("refresh", client.active) /\ UNCHANGED client
         [] OTHER -> Apply(e)
    /\ UNCHANGED <<server, submits>>

(* A stream that breaks shows "reconnecting"; one that ends shows nothing. *)
StreamBreaks(s) ==
    /\ streams' = streams \ {s}
    /\ client' = [client EXCEPT !.shown = "reconnecting"]
    /\ UNCHANGED <<server, calls, submits>>

StreamEnds(s) ==
    /\ s.at = "open" /\ s.queue = <<>>
    /\ streams' = streams \ {s}
    /\ UNCHANGED <<server, client, calls, submits>>

AnswerClarification ==
    /\ client.active # NoJob /\ ~client.submitting
    /\ client.shown = "needsClarification"
    /\ client' = [client EXCEPT !.submitting = TRUE]
    /\ Send("respond", client.active)
    /\ UNCHANGED <<server, streams, submits>>

RespondReplied(c) ==
    /\ c.op = "respond"
    /\ client' = [client EXCEPT !.submitting = FALSE,
                                !.shown = IF c.state = "ok" THEN "working" ELSE @]
    /\ calls' = calls \ {c}
    /\ UNCHANGED streams

GiveUpClarification ==
    /\ client.active # NoJob /\ client.shown = "needsClarification"
    /\ Send("giveUp", client.active)
    /\ UNCHANGED <<server, client, streams, submits>>

GaveUp(c) ==
    /\ c.op = "giveUp"
    /\ client' = IF c.state = "ok" THEN [client EXCEPT !.shown = "cancelled"]
                 ELSE client
    /\ calls' = calls \ {c}
    /\ UNCHANGED streams

(* Shown before the server hears of it, and whatever it answers.           *)
CancelAnalysis ==
    /\ client.active # NoJob
    /\ client.shown \notin {"completed", "cancelled", "failedTerminal"}
    /\ client' = [client EXCEPT !.shown = "cancelled"]
    /\ Send("cancel", client.active)
    /\ UNCHANGED <<server, streams, submits>>

(* A refresh that finds the job completed: applied to whatever is shown    *)
(* by then, and the result fetched next is of the job that was asked about. *)
RefreshReplied(c) ==
    /\ c.op = "refresh" /\ c.state = "ok"
    /\ client' = [client EXCEPT !.shown = "completed", !.refreshed = c.job]
    /\ calls' = (calls \ {c}) \cup {[op |-> "fetch", job |-> c.job, state |-> "sent"]}
    /\ UNCHANGED streams

FetchReplied(c) ==
    /\ c.op = "fetch"
    /\ client' = IF c.state = "ok" THEN client
                 ELSE [client EXCEPT !.shown = "failedTerminal"]
    /\ calls' = calls \ {c}
    /\ UNCHANGED streams

Replied(c) ==
    /\ c.state \in {"ok", "error"}
    /\ \/ CreateReplied(c) \/ RespondReplied(c) \/ GaveUp(c)
       \/ RefreshReplied(c) \/ FetchReplied(c)
    /\ UNCHANGED <<server, submits>>

(* Nothing is under way and no more is submitted.                          *)
Ended ==
    /\ calls = {} /\ streams = {} /\ \A w \in Writers : writer[w] = NoWriter
    /\ UNCHANGED vars

Next ==
    \/ \E w \in Writers :
          CommitEmit(w) \/ \E j \in Jobs, b \in Batches : BeginEmit(w, j, b)
    \/ \E j \in Jobs : ExpireClarification(j)
    \/ \E c \in calls : Serve(c) \/ Replied(c)
    \/ \E s \in streams : Replay(s) \/ Deliver(s) \/ StreamBreaks(s) \/ StreamEnds(s)
    \/ Submit \/ AnswerClarification \/ GiveUpClarification \/ CancelAnalysis
    \/ Ended

Spec == Init /\ [][Next]_vars

-----------------------------------------------------------------------------
(* Properties                                                              *)

(* The events of a job are numbered from one without a gap or a repeat,    *)
(* whoever emits at the same time, so that the number of the last event is *)
(* a place to resume from (emit_event and uq_analysis_events_org_job_seq). *)
EventsNumbered ==
    \A j \in Jobs : \A i \in DOMAIN log[j] : log[j][i].number = i

Told(j, shown) == \E i \in DOMAIN log[j] : ShownAfter(log[j][i].kind) = shown

(* What is shown of an analysis that works, asks, is completed or expired  *)
(* is in the events of the analysis that is active, although its events    *)
(* name no job and replies and events of an earlier one may still arrive;  *)
(* the one exception is a completion that a refresh found since the last   *)
(* submission, which is in the events of the analysis the refresh asked    *)
(* about, active by then or not                                            *)
(* (AnalysisController._handleDomainEvent, _subscribeToEvents,             *)
(* refreshActiveSnapshot).                                                 *)
ShownIsTold ==
    client.shown \in {"working", "needsClarification", "completed", "expired"} =>
        \/ Told(client.active, client.shown)
        \/ /\ client.shown = "completed" /\ client.refreshed # NoJob
           /\ Told(client.refreshed, "completed")
=============================================================================
