------------------------- MODULE AnalysisClient_proofs -------------------------
(***************************************************************************)
(* The events of every job are numbered by their places, and what the app  *)
(* shows is told by the events of the analysis that is active, or of the   *)
(* one a refresh found completed, for any number of jobs, writers, events, *)
(* submissions and calls.                                                  *)
(***************************************************************************)
EXTENDS AnalysisClient, SequenceTheorems, TLAPS

Statuses == {"none", "RUNNING", "TOOLED", "NEEDS", "COMPLETED", "FAILED", "EXPIRED", "CANCELLED"}
Kinds == {"accepted", "progress", "clarify", "completed", "failed", "expired"}
Events == [number : Nat, kind : Kinds]
ShownTold == {"working", "needsClarification", "completed", "expired"}
ShownStates ==
    ShownTold \cup {"idle", "submitting", "accepted", "failedTerminal",
                    "reconnecting", "cancelled"}

Transactions == [job : Jobs \cup {NoJob}, kinds : Seq(Kinds), base : Nat,
                 from : Statuses, result : Statuses]

ServerTyped ==
    /\ status \in [Jobs -> Statuses] /\ asked \subseteq Jobs
    /\ log \in [Jobs -> Seq(Events)]
    /\ writer \in [Writers -> Transactions]

Consoles == [shown : ShownStates, active : Jobs \cup {NoJob}, last : Nat,
             submitting : BOOLEAN, refreshed : Jobs \cup {NoJob}]

AppTyped ==
    /\ client \in Consoles
    /\ streams \subseteq [job : Jobs, after : Nat, at : {"connecting", "open"},
                          queue : Seq(Events)]
    /\ calls \subseteq [op : {"create", "respond", "giveUp", "cancel", "refresh", "fetch"},
                        job : Jobs \cup {NoJob},
                        state : {"sent", "read", "ok", "error"}]
    /\ \A c \in calls :
          /\ c.state = "read" => c.op = "cancel"
          /\ c.op \in {"respond", "giveUp", "cancel"} => c.job \in Jobs
          /\ c.op = "create" /\ c.state = "ok" => c.job \in Jobs

TypeOK == ServerTyped /\ AppTyped

(* A transaction has read a number that was the last, and events are only  *)
(* added.                                                                  *)
ReadNumbers ==
    \A w \in Writers : writer[w].job # NoJob => writer[w].base <= Len(log[writer[w].job])

(* A job is completed by a transaction that says so.                       *)
CompletionTold ==
    /\ \A w \in Writers : writer[w].result = "COMPLETED" =>
                             writer[w].kinds = <<"progress", "completed">>
    /\ \A j \in Jobs : status[j] = "COMPLETED" => Told(j, "completed")

ServerRight == EventsNumbered /\ ReadNumbers /\ CompletionTold

(* The events on their way are from the log of the active analysis.        *)
OfActive(s) ==
    /\ s.job = client.active
    /\ \A i \in DOMAIN s.queue : \E k \in DOMAIN log[s.job] : log[s.job][k] = s.queue[i]

(* While a submission or an answer is under way there is no other, so the  *)
(* answer finds the analysis it is for.                                    *)
Busy(c) == c.op \in {"create", "respond"}
OneBusy ==
    /\ \A c \in calls : Busy(c) => client.submitting
    /\ \A c, d \in calls : Busy(c) /\ Busy(d) => c = d

Answered(c) ==
    /\ c.op = "respond" =>
          /\ c.job = client.active
          /\ c.state = "ok" => Told(c.job, "working")
    /\ c.op = "refresh" /\ c.state = "ok" => c.job \in Jobs /\ Told(c.job, "completed")

Truthful ==
    client.shown \in ShownTold =>
        \/ client.active \in Jobs /\ Told(client.active, client.shown)
        \/ /\ client.shown = "completed" /\ client.refreshed \in Jobs
           /\ Told(client.refreshed, "completed")

Shows ==
    /\ \A s \in streams : OfActive(s)
    /\ OneBusy
    /\ \A c \in calls : Answered(c)
    /\ Truthful

IInv == TypeOK /\ ServerRight /\ Shows

-----------------------------------------------------------------------------
(* The log                                                                 *)

LEMMA NumberedEvents ==
    ASSUME NEW kinds \in Seq(Kinds), NEW base \in Nat
    PROVE  /\ Numbered(kinds, base) \in Seq(Events)
           /\ Len(Numbered(kinds, base)) = Len(kinds)
           /\ \A i \in 1..Len(kinds) : Numbered(kinds, base)[i].number = base + i
           /\ \A i \in 1..Len(kinds) : Numbered(kinds, base)[i].kind = kinds[i]
<1>1. Len(kinds) \in Nat /\ DOMAIN kinds = 1..Len(kinds)
  BY LenProperties
<1>2. \A i \in 1..Len(kinds) : kinds[i] \in Kinds
  BY ElementOfSeq
<1> DEFINE n == Len(kinds)
           f == [i \in 1..n |-> [number |-> base + i, kind |-> kinds[i]]]
<1>3. Numbered(kinds, base) = f
  BY <1>1 DEF Numbered
<1>4. f \in [1..n -> Events]
  BY <1>1, <1>2 DEF Events
<1>5. f \in Seq(Events)
  <2> HIDE DEF f
  <2> QED
    BY <1>1, <1>4
<1>6. Len(f) = n
  BY <1>1, <1>5
<1> QED
  BY <1>3, <1>5, <1>6

(* A sequence and another after it, place by place.                        *)
Follows(t, s, u) ==
    /\ Len(s) <= Len(t)
    /\ \A i \in DOMAIN s : i \in DOMAIN t /\ t[i] = s[i]
    /\ \A i \in 1..Len(u) : Len(s) + i \in DOMAIN t /\ t[Len(s) + i] = u[i]
    /\ \A i \in DOMAIN t : i \in DOMAIN s \/
           \E m \in 1..Len(u) : i = Len(s) + m

LEMMA PlaceByPlace ==
    ASSUME NEW p \in Nat, NEW q \in Nat, NEW s, NEW t, NEW u,
           DOMAIN s = 1..p, DOMAIN u = 1..q, DOMAIN t = 1..(p + q),
           Len(s) = p, Len(u) = q, Len(t) = p + q,
           \A i \in 1..(p + q) : t[i] = IF i <= p THEN s[i] ELSE u[i - p]
    PROVE  Follows(t, s, u)
<1>1. ASSUME NEW i \in DOMAIN s PROVE i \in DOMAIN t /\ t[i] = s[i]
  <2>1. i \in 1..(p + q) /\ i <= p
    OBVIOUS
  <2> QED
    BY <2>1
<1>2. ASSUME NEW i \in 1..q PROVE p + i \in DOMAIN t /\ t[p + i] = u[i]
  <2>1. p + i \in 1..(p + q) /\ ~(p + i <= p) /\ (p + i) - p = i
    OBVIOUS
  <2> QED
    BY <2>1
<1>3. ASSUME NEW i \in DOMAIN t, i \notin DOMAIN s
      PROVE  \E m \in 1..q : i = p + m
  <2>1. i - p \in 1..q /\ i = p + (i - p)
    BY <1>3
  <2> QED
    BY <2>1
<1>4. p <= p + q
  OBVIOUS
<1> QED
  BY <1>1, <1>2, <1>3, <1>4, Zenon DEF Follows

LEMMA Concatenated ==
    ASSUME NEW S, NEW s \in Seq(S), NEW u \in Seq(S)
    PROVE  s \o u \in Seq(S) /\ Follows(s \o u, s, u)
<1>1. /\ s \o u \in Seq(S) /\ Len(s \o u) = Len(s) + Len(u)
      /\ \A i \in 1..(Len(s) + Len(u)) :
             (s \o u)[i] = IF i <= Len(s) THEN s[i] ELSE u[i - Len(s)]
  BY ConcatProperties
<1>2. /\ DOMAIN s = 1..Len(s) /\ Len(s) \in Nat
      /\ DOMAIN u = 1..Len(u) /\ Len(u) \in Nat
      /\ DOMAIN (s \o u) = 1..(Len(s) + Len(u))
  BY <1>1, LenProperties
<1> QED
  BY <1>1, <1>2, PlaceByPlace

(* One log grows by a numbered tail, the others stay as they are.          *)
LEMMA OneLogGrows ==
    ASSUME ServerTyped, EventsNumbered, NEW j \in Jobs, NEW kinds \in Seq(Kinds),
           NEW old \in Seq(Events), old = log[j],
           NEW new \in Seq(Events), Len(new) = Len(kinds),
           \A i \in 1..Len(kinds) :
               new[i].number = Len(old) + i /\ new[i].kind = kinds[i],
           NEW t \in Seq(Events), Follows(t, old, new),
           log'[j] = t, \A k \in Jobs : k # j => log'[k] = log[k]
    PROVE  /\ EventsNumbered'
           /\ \A k \in Jobs : Len(log[k]) <= Len(log'[k])
           /\ \A k \in Jobs : \A i \in DOMAIN log[k] :
                  i \in DOMAIN log'[k] /\ log'[k][i] = log[k][i]
           /\ \A i \in 1..Len(kinds) : \E m \in DOMAIN log'[j] :
                  log'[j][m].kind = kinds[i]
<1>1. /\ Len(old) \in Nat /\ old = log[j]
      /\ \A i \in DOMAIN old : old[i].number = i
  BY LenProperties DEF EventsNumbered
<1>2. /\ Len(new) = Len(kinds)
      /\ \A i \in 1..Len(kinds) : new[i].number = Len(old) + i /\ new[i].kind = kinds[i]
  OBVIOUS
<1>3. Follows(t, old, new)
  OBVIOUS
<1>5. log'[j] = t /\ \A k \in Jobs : k # j => log'[k] = log[k]
  OBVIOUS
<1>7. \A k \in Jobs : Len(log[k]) \in Nat
  BY LenProperties DEF ServerTyped
<1>8. EventsNumbered'
  <2> SUFFICES ASSUME NEW k \in Jobs, NEW i \in DOMAIN log'[k]
               PROVE  log'[k][i].number = i
    BY DEF EventsNumbered
  <2>1. CASE k # j
    BY <1>5, <2>1 DEF EventsNumbered
  <2>2. CASE k = j
    <3>1. i \in DOMAIN t /\ log'[k][i] = t[i]
      BY <1>5, <2>2
    <3>2. CASE i \in DOMAIN old
      <4>1. t[i] = old[i]
        BY <1>3, <3>2 DEF Follows
      <4> QED
        BY <1>1, <3>1, <3>2, <4>1
    <3>3. ASSUME NEW m \in 1..Len(new), i = Len(old) + m
          PROVE  t[i].number = i
      <4>1. t[Len(old) + m] = new[m]
        BY <1>3 DEF Follows
      <4>2. m \in 1..Len(kinds)
        BY <1>2
      <4>3. new[m].number = Len(old) + m
        BY <1>2, <4>2
      <4> QED
        BY <3>3, <4>1, <4>3
    <3> QED
      BY <1>3, <3>1, <3>2, <3>3 DEF Follows
  <2> QED
    BY <2>1, <2>2
<1>9. \A k \in Jobs : Len(log[k]) <= Len(log'[k])
  <2> TAKE k \in Jobs
  <2>1. CASE k = j
    BY <1>1, <1>3, <1>5, <2>1 DEF Follows
  <2>2. CASE k # j
    BY <1>5, <1>7, <2>2
  <2> QED
    BY <2>1, <2>2
<1>10. ASSUME NEW k \in Jobs, NEW i \in DOMAIN log[k]
       PROVE  i \in DOMAIN log'[k] /\ log'[k][i] = log[k][i]
  <2>1. CASE k = j
    <3>1. i \in DOMAIN old /\ old[i] = log[k][i]
      BY <1>1, <2>1
    <3>2. i \in DOMAIN t /\ t[i] = old[i]
      BY <1>3, <3>1 DEF Follows
    <3> QED
      BY <1>5, <2>1, <3>1, <3>2
  <2>2. CASE k # j
    BY <1>5, <2>2
  <2> QED
    BY <2>1, <2>2
<1>11. ASSUME NEW i \in 1..Len(kinds)
       PROVE  \E m \in DOMAIN log'[j] : log'[j][m].kind = kinds[i]
  <2>1. Len(old) + i \in DOMAIN t /\ t[Len(old) + i] = new[i]
    BY <1>2, <1>3 DEF Follows
  <2>2. new[i].kind = kinds[i]
    BY <1>2
  <2>3. log'[j] = t
    BY <1>5
  <2> QED
    BY <2>1, <2>2, <2>3
<1> QED
  BY <1>8, <1>9, <1>10, <1>11

(* What follows from appending events to the log of one job.               *)
LEMMA Appended ==
    ASSUME ServerTyped, EventsNumbered, NEW j \in Jobs, NEW kinds \in Seq(Kinds),
           log' = [log EXCEPT ![j] = @ \o Numbered(kinds, Len(log[j]))]
    PROVE  /\ log' \in [Jobs -> Seq(Events)]
           /\ EventsNumbered'
           /\ \A k \in Jobs : Len(log[k]) <= Len(log'[k])
           /\ \A k \in Jobs : \A i \in DOMAIN log[k] :
                  i \in DOMAIN log'[k] /\ log'[k][i] = log[k][i]
           /\ \A i \in 1..Len(kinds) : \E m \in DOMAIN log'[j] :
                  log'[j][m].kind = kinds[i]
<1> PICK old : old = log[j]
  OBVIOUS
<1>1. /\ old \in Seq(Events) /\ Len(old) \in Nat /\ old = log[j]
      /\ \A i \in DOMAIN old : old[i].number = i
  BY LenProperties DEF ServerTyped, EventsNumbered
<1> PICK new : new = Numbered(kinds, Len(old))
  OBVIOUS
<1>2. /\ new \in Seq(Events) /\ Len(new) = Len(kinds)
      /\ \A i \in 1..Len(kinds) : new[i].number = Len(old) + i /\ new[i].kind = kinds[i]
  BY <1>1, NumberedEvents
<1> PICK t : t = old \o new
  OBVIOUS
<1>3. t \in Seq(Events) /\ Follows(t, old, new)
  BY <1>1, <1>2, Concatenated
<1>4. log' = [log EXCEPT ![j] = t]
  OBVIOUS
<1>5. log'[j] = t /\ \A k \in Jobs : k # j => log'[k] = log[k]
  BY <1>4 DEF ServerTyped
<1>6. log' \in [Jobs -> Seq(Events)]
  BY <1>3, <1>4 DEF ServerTyped
<1>7. /\ EventsNumbered'
      /\ \A k \in Jobs : Len(log[k]) <= Len(log'[k])
      /\ \A k \in Jobs : \A i \in DOMAIN log[k] :
             i \in DOMAIN log'[k] /\ log'[k][i] = log[k][i]
      /\ \A i \in 1..Len(kinds) : \E m \in DOMAIN log'[j] :
             log'[j][m].kind = kinds[i]
  <2>1. old \in Seq(Events) /\ old = log[j]
    BY <1>1
  <2>2. new \in Seq(Events) /\ Len(new) = Len(kinds)
    BY <1>2
  <2>3. \A i \in 1..Len(kinds) : new[i].number = Len(old) + i /\ new[i].kind = kinds[i]
    BY <1>2
  <2>4. t \in Seq(Events) /\ Follows(t, old, new)
    BY <1>3
  <2>5. log'[j] = t /\ \A k \in Jobs : k # j => log'[k] = log[k]
    BY <1>5
  <2> QED
    BY <2>1, <2>2, <2>3, <2>4, <2>5, OneLogGrows, ZenonT(60)
<1> QED
  BY <1>6, <1>7

LEMMA LastIsLength ==
    ASSUME ServerTyped, EventsNumbered, NEW j \in Jobs
    PROVE  LastNumber(j) = Len(log[j])
<1>1. log[j] \in Seq(Events) /\ Len(log[j]) \in Nat /\ DOMAIN log[j] = 1..Len(log[j])
  BY LenProperties DEF ServerTyped
<1>2. CASE log[j] = <<>>
  BY <1>2 DEF LastNumber
<1>3. CASE log[j] # <<>>
  <2>1. Len(log[j]) \in DOMAIN log[j]
    BY <1>1, <1>3, EmptySeq
  <2> QED
    BY <1>3, <2>1 DEF LastNumber, EventsNumbered
<1> QED
  BY <1>2, <1>3

(* The constraint lets a transaction in only if its number is still last.  *)
LEMMA FreeIsLast ==
    ASSUME ServerTyped, ServerRight, NEW w \in Writers, writer[w].job # NoJob,
           Free(w, writer[w].job)
    PROVE  writer[w].job \in Jobs /\ writer[w].base = Len(log[writer[w].job])
<1> DEFINE j == writer[w].job
<1>1. j \in Jobs /\ writer[w].base \in Nat /\ writer[w].base <= Len(log[j])
  BY DEF ServerTyped, Transactions, ServerRight, ReadNumbers
<1>2. Len(log[j]) \in Nat /\ DOMAIN log[j] = 1..Len(log[j])
  BY <1>1, LenProperties DEF ServerTyped
<1>3. CASE Len(log[j]) = 0
  BY <1>1, <1>2, <1>3
<1>4. CASE Len(log[j]) # 0
  <2>1. Len(log[j]) \in DOMAIN log[j]
    BY <1>2, <1>4
  <2>2. log[j][Len(log[j])].number <= writer[w].base
    BY <2>1 DEF Free
  <2>3. log[j][Len(log[j])].number = Len(log[j])
    BY <1>1, <2>1 DEF ServerRight, EventsNumbered
  <2> QED
    BY <1>1, <1>2, <2>2, <2>3
<1> QED
  BY <1>3, <1>4

-----------------------------------------------------------------------------
(* The server                                                              *)

LogGrows == \A k \in Jobs : \A i \in DOMAIN log[k] :
                i \in DOMAIN log'[k] /\ log'[k][i] = log[k][i]

LEMMA ToldStays ==
    ASSUME LogGrows, NEW j \in Jobs, NEW x, Told(j, x)
    PROVE  Told(j, x)'
<1> PICK i \in DOMAIN log[j] : ShownAfter(log[j][i].kind) = x
  BY DEF Told
<1>1. i \in DOMAIN log'[j] /\ log'[j][i] = log[j][i]
  BY DEF LogGrows
<1>2. ShownAfter(log'[j][i].kind) = x
  BY <1>1
<1> QED
  BY <1>1, <1>2 DEF Told, ShownAfter

LEMMA BatchTypes ==
    \A b \in Batches :
        /\ b.from \in Statuses /\ b.to \in Statuses /\ b.kinds \in Seq(Kinds)
        /\ b.to = "COMPLETED" => b.kinds = <<"progress", "completed">>
<1>1. /\ <<"accepted", "progress">> \in Seq(Kinds)
      /\ <<"progress", "completed">> \in Seq(Kinds)
      /\ <<"accepted", "progress", "clarify">> \in Seq(Kinds)
      /\ <<"accepted", "progress", "failed">> \in Seq(Kinds)
      /\ <<"failed">> \in Seq(Kinds)
  BY DEF Kinds
<1> TAKE b \in Batches
<1>2. CASE b = [from |-> "RUNNING", to |-> "TOOLED", kinds |-> <<"accepted", "progress">>]
  <2>1. b.from = "RUNNING" /\ b.to = "TOOLED" /\ b.kinds = <<"accepted", "progress">>
    BY <1>2, Zenon
  <2> QED
    BY <1>1, <2>1, Zenon DEF Statuses
<1>3. CASE b = [from |-> "TOOLED", to |-> "COMPLETED", kinds |-> <<"progress", "completed">>]
  <2>1. b.from = "TOOLED" /\ b.to = "COMPLETED" /\ b.kinds = <<"progress", "completed">>
    BY <1>3, Zenon
  <2> QED
    BY <1>1, <2>1, Zenon DEF Statuses
<1>4. CASE b = [from |-> "RUNNING", to |-> "NEEDS",
                kinds |-> <<"accepted", "progress", "clarify">>]
  <2>1. /\ b.from = "RUNNING" /\ b.to = "NEEDS"
        /\ b.kinds = <<"accepted", "progress", "clarify">>
    BY <1>4, Zenon
  <2> QED
    BY <1>1, <2>1, Zenon DEF Statuses
<1>5. CASE b = [from |-> "RUNNING", to |-> "FAILED", kinds |-> <<"failed">>]
  <2>1. b.from = "RUNNING" /\ b.to = "FAILED" /\ b.kinds = <<"failed">>
    BY <1>5, Zenon
  <2> QED
    BY <1>1, <2>1, Zenon DEF Statuses
<1>6. CASE b = [from |-> "TOOLED", to |-> "FAILED", kinds |-> <<"failed">>]
  <2>1. b.from = "TOOLED" /\ b.to = "FAILED" /\ b.kinds = <<"failed">>
    BY <1>6, Zenon
  <2> QED
    BY <1>1, <2>1, Zenon DEF Statuses
<1>7. CASE b = [from |-> "RUNNING", to |-> "FAILED",
                kinds |-> <<"accepted", "progress", "failed">>]
  <2>1. /\ b.from = "RUNNING" /\ b.to = "FAILED"
        /\ b.kinds = <<"accepted", "progress", "failed">>
    BY <1>7, Zenon
  <2> QED
    BY <1>1, <2>1, Zenon DEF Statuses
<1> QED
  BY <1>2, <1>3, <1>4, <1>5, <1>6, <1>7, Zenon DEF Batches

LEMMA NoWriterTyped == NoWriter \in Transactions
  BY DEF NoWriter, Statuses, Transactions

LEMMA BeginKeeps ==
    ASSUME ServerTyped, ServerRight, NEW w \in Writers, NEW j \in Jobs, NEW b \in Batches,
           BeginEmit(w, j, b)
    PROVE  ServerTyped' /\ ServerRight' /\ LogGrows
<1>1. LastNumber(j) = Len(log[j]) /\ Len(log[j]) \in Nat
  BY LastIsLength, LenProperties DEF ServerRight, ServerTyped
<1> DEFINE r == [job |-> j, kinds |-> b.kinds, base |-> LastNumber(j),
                  from |-> b.from, result |-> b.to]
<1>2. r \in Transactions
  BY <1>1, BatchTypes DEF Transactions
<1>3. /\ r.job = j /\ r.base = LastNumber(j)
      /\ r.result = "COMPLETED" => r.kinds = <<"progress", "completed">>
  BY BatchTypes
<1>4. /\ writer' = [writer EXCEPT ![w] = r] /\ status' = status /\ log' = log
      /\ asked' = asked
  BY DEF BeginEmit
<1> HIDE DEF r
<1>5. ServerTyped'
  BY <1>2, <1>4 DEF ServerTyped
<1>6. ASSUME NEW v \in Writers, writer'[v].job # NoJob
      PROVE  writer'[v].base <= Len(log'[writer'[v].job])
  <2>1. CASE v = w
    BY <1>1, <1>3, <1>4, <2>1 DEF ServerTyped
  <2>2. CASE v # w
    BY <1>4, <1>6, <2>2 DEF ServerTyped, ServerRight, ReadNumbers
  <2> QED
    BY <2>1, <2>2
<1>7. CompletionTold'
  BY <1>3, <1>4 DEF ServerRight, CompletionTold, ServerTyped, Told
<1> QED
  BY <1>4, <1>5, <1>6, <1>7 DEF ServerRight, EventsNumbered, ReadNumbers, LogGrows

(* What was read stays behind a log that grows.                            *)
LEMMA ReadStays ==
    ASSUME ServerTyped, ReadNumbers, NEW w \in Writers, writer[w].job # NoJob,
           \A k \in Jobs : Len(log[k]) <= Len(log'[k]),
           log' \in [Jobs -> Seq(Events)]
    PROVE  writer[w].base <= Len(log'[writer[w].job])
<1>1. /\ writer[w].job \in Jobs /\ writer[w].base \in Nat
      /\ writer[w].base <= Len(log[writer[w].job])
  BY DEF ServerTyped, Transactions, ReadNumbers
<1> PICK j \in Jobs : j = writer[w].job
  BY <1>1
<1>2. /\ Len(log[j]) \in Nat /\ Len(log'[j]) \in Nat /\ Len(log[j]) <= Len(log'[j])
      /\ writer[w].base <= Len(log[j])
  BY <1>1, LenProperties DEF ServerTyped
<1>3. writer[w].base <= Len(log'[j])
  BY <1>1, <1>2
<1> QED
  BY <1>3

LEMMA CommitKeeps ==
    ASSUME ServerTyped, ServerRight, NEW w \in Writers, CommitEmit(w)
    PROVE  ServerTyped' /\ ServerRight' /\ LogGrows
<1>1. writer' = [writer EXCEPT ![w] = NoWriter] /\ writer[w].job # NoJob
  BY DEF CommitEmit
<1>2. writer' \in [Writers -> Transactions]
  BY <1>1, NoWriterTyped DEF ServerTyped
<1>3. ASSUME NEW v \in Writers, writer'[v].job # NoJob
      PROVE  writer'[v] = writer[v]
  BY <1>1, <1>3 DEF NoWriter, ServerTyped
<1>6. \A v \in Writers : writer'[v].result = "COMPLETED" =>
                           writer'[v].kinds = <<"progress", "completed">>
  <2>1. NoWriter.result # "COMPLETED"
    BY DEF NoWriter
  <2> QED
    BY <1>1, <2>1 DEF ServerRight, CompletionTold, ServerTyped
<1>4. CASE UNCHANGED <<status, log, asked>>
  <2>1. CompletionTold'
    BY <1>4, <1>6 DEF ServerRight, CompletionTold, Told
  <2> QED
    BY <1>2, <1>3, <1>4, <2>1
    DEF ServerTyped, ServerRight, EventsNumbered, ReadNumbers, LogGrows
<1>5. CASE /\ Free(w, writer[w].job)
           /\ status' = [status EXCEPT ![writer[w].job] = writer[w].result]
           /\ log' = [log EXCEPT ![writer[w].job] =
                         @ \o Numbered(writer[w].kinds, writer[w].base)]
           /\ asked' \subseteq asked \cup {writer[w].job}
  <2> PICK j \in Jobs : j = writer[w].job /\ writer[w].base = Len(log[j])
    BY <1>1, <1>5, FreeIsLast
  <2> PICK kinds \in Seq(Kinds) : kinds = writer[w].kinds
    BY DEF ServerTyped, Transactions
  <2>1. log' = [log EXCEPT ![j] = @ \o Numbered(kinds, Len(log[j]))]
    BY <1>5, SMTT(30)
  <2>2. /\ log' \in [Jobs -> Seq(Events)] /\ EventsNumbered'
        /\ \A k \in Jobs : Len(log[k]) <= Len(log'[k])
        /\ LogGrows
        /\ \A i \in 1..Len(kinds) : \E m \in DOMAIN log'[j] : log'[j][m].kind = kinds[i]
    BY <2>1, Appended DEF ServerRight, LogGrows
  <2>3. status' \in [Jobs -> Statuses] /\ asked' \subseteq Jobs
    <3>1. writer[w].result \in Statuses
      BY DEF ServerTyped, Transactions
    <3> QED
      BY <1>5, <3>1 DEF ServerTyped
  <2>4. ReadNumbers'
    BY <1>3, <2>2, ReadStays DEF ServerRight, ReadNumbers
  <2>5. ASSUME NEW k \in Jobs, status'[k] = "COMPLETED" PROVE Told(k, "completed")'
    <3>1. CASE k = j
      <4>1. writer[w].result = "COMPLETED"
        BY <1>5, <2>5, <3>1 DEF ServerTyped
      <4>2. kinds = <<"progress", "completed">>
        BY <4>1 DEF ServerRight, CompletionTold
      <4>3. 2 \in 1..Len(kinds) /\ kinds[2] = "completed"
        BY <4>2
      <4>4. \E m \in DOMAIN log'[j] : log'[j][m].kind = "completed"
        BY <2>2, <4>3
      <4> QED
        BY <3>1, <4>4 DEF Told, ShownAfter
    <3>2. CASE k # j
      <4>1. status[k] = "COMPLETED"
        BY <1>5, <2>5, <3>2 DEF ServerTyped
      <4> QED
        BY <2>2, <4>1, ToldStays DEF ServerRight, CompletionTold
    <3> QED
      BY <3>1, <3>2
  <2>6. CompletionTold'
    BY <1>6, <2>5 DEF CompletionTold
  <2> QED
    BY <1>2, <2>2, <2>3, <2>4, <2>6 DEF ServerTyped, ServerRight
<1>7. (IF writer[w].result = "NEEDS" THEN asked \cup {writer[w].job} ELSE asked)
          \subseteq asked \cup {writer[w].job}
  OBVIOUS
<1> QED
  BY <1>4, <1>5, <1>7 DEF CommitEmit

(* One event is appended to the log of a job that is not completed by it.  *)
LEMMA EmitKeeps ==
    ASSUME ServerTyped, ServerRight, NEW j \in Jobs, NEW k \in Kinds, NEW x \in Statuses,
           x # "COMPLETED" \/ x = status[j],
           log' = [log EXCEPT ![j] = @ \o Numbered(<<k>>, LastNumber(j))],
           status' = [status EXCEPT ![j] = x], writer' = writer,
           asked' \subseteq Jobs
    PROVE  ServerTyped' /\ ServerRight' /\ LogGrows /\ Told(j, ShownAfter(k))'
<1>1. <<k>> \in Seq(Kinds) /\ Len(<<k>>) = 1 /\ <<k>>[1] = k
  OBVIOUS
<1>2. LastNumber(j) = Len(log[j])
  BY LastIsLength DEF ServerRight
<1>3. log' = [log EXCEPT ![j] = @ \o Numbered(<<k>>, Len(log[j]))]
  BY <1>2
<1>4. /\ log' \in [Jobs -> Seq(Events)] /\ EventsNumbered'
      /\ \A i \in Jobs : Len(log[i]) <= Len(log'[i])
      /\ LogGrows
      /\ \A i \in 1..Len(<<k>>) : \E m \in DOMAIN log'[j] : log'[j][m].kind = <<k>>[i]
  BY <1>1, <1>3, Appended, ZenonT(60) DEF ServerRight, LogGrows
<1>5. \E m \in DOMAIN log'[j] : log'[j][m].kind = k
  <2>1. 1 \in 1..Len(<<k>>)
    BY <1>1
  <2>2. \E m \in DOMAIN log'[j] : log'[j][m].kind = <<k>>[1]
    BY <1>4, <2>1, Zenon
  <2> QED
    BY <1>1, <2>2
<1>6. Told(j, ShownAfter(k))'
  BY <1>5 DEF Told
<1>7. ServerTyped'
  BY <1>4 DEF ServerTyped
<1>8. ReadNumbers'
  BY <1>4, ReadStays DEF ServerRight, ReadNumbers
<1>9. \A i \in Jobs : status'[i] = "COMPLETED" => status[i] = "COMPLETED"
  BY DEF ServerTyped
<1>10. CompletionTold'
  BY <1>4, <1>9, ToldStays DEF ServerRight, CompletionTold
<1> QED
  BY <1>4, <1>6, <1>7, <1>8, <1>10 DEF ServerRight

LEMMA RespondKeeps ==
    ASSUME ServerTyped, ServerRight, NEW c, c.job \in Jobs, Respond(c)
    PROVE  ServerTyped' /\ ServerRight' /\ LogGrows /\ Told(c.job, "working")'
<1>1. /\ log' = [log EXCEPT ![c.job] = @ \o Numbered(<<"progress">>, LastNumber(c.job))]
      /\ status' = [status EXCEPT ![c.job] = "RUNNING"] /\ writer' = writer
      /\ asked' \subseteq Jobs
  BY DEF Respond, ServerTyped
<1>2. /\ "progress" \in Kinds /\ "RUNNING" \in Statuses /\ "RUNNING" # "COMPLETED"
      /\ ShownAfter("progress") = "working"
  BY DEF Kinds, Statuses, ShownAfter
<1>3. ServerTyped' /\ ServerRight' /\ LogGrows /\ Told(c.job, ShownAfter("progress"))'
  BY <1>1, <1>2, EmitKeeps
<1> QED
  BY <1>2, <1>3 DEF Told, ShownAfter

LEMMA ExpireKeeps ==
    ASSUME ServerTyped, ServerRight, NEW j \in Jobs, ExpireClarification(j)
    PROVE  ServerTyped' /\ ServerRight' /\ LogGrows
<1> PICK x : x = IF status[j] = "NEEDS" THEN "EXPIRED" ELSE status[j]
  OBVIOUS
<1>1. /\ log' = [log EXCEPT ![j] = @ \o Numbered(<<"expired">>, LastNumber(j))]
      /\ status' = [status EXCEPT ![j] = x] /\ writer' = writer
      /\ asked' \subseteq Jobs
  BY DEF ExpireClarification, ServerTyped
<1>2. "expired" \in Kinds /\ x \in Statuses /\ (x # "COMPLETED" \/ x = status[j])
  BY DEF Kinds, Statuses, ServerTyped
<1> QED
  BY <1>1, <1>2, EmitKeeps

LEMMA StatusKeeps ==
    ASSUME ServerTyped, ServerRight, NEW j \in Jobs, NEW x \in Statuses,
           x # "COMPLETED", status' = [status EXCEPT ![j] = x],
           UNCHANGED <<log, writer>>, asked' \subseteq Jobs
    PROVE  ServerTyped' /\ ServerRight' /\ LogGrows
<1>1. ServerTyped'
  BY DEF ServerTyped
<1>2. \A i \in Jobs : status'[i] = "COMPLETED" => status[i] = "COMPLETED"
  BY DEF ServerTyped
<1>3. CompletionTold'
  BY <1>2 DEF ServerRight, CompletionTold, Told
<1> QED
  BY <1>1, <1>3 DEF ServerTyped, ServerRight, EventsNumbered, ReadNumbers, LogGrows

LEMMA ServerStays ==
    ASSUME ServerTyped, ServerRight, UNCHANGED server
    PROVE  ServerTyped' /\ ServerRight' /\ LogGrows
  BY DEF ServerTyped, ServerRight, EventsNumbered, ReadNumbers, CompletionTold, Told,
         LogGrows, server

-----------------------------------------------------------------------------
(* What the server does is seen by the app only later                      *)

LEMMA StreamStays ==
    ASSUME LogGrows, NEW s, s.job \in Jobs, OfActive(s), client' = client
    PROVE  OfActive(s)'
<1>1. \A i \in DOMAIN s.queue : \E k \in DOMAIN log'[s.job] : log'[s.job][k] = s.queue[i]
  BY DEF OfActive, LogGrows
<1> QED
  BY <1>1 DEF OfActive

(* The log grows and the app is as it was.                                 *)
LEMMA AppStays ==
    ASSUME AppTyped, Shows, LogGrows, client' = client
    PROVE  /\ \A s \in streams : OfActive(s)'
           /\ \A c \in calls : Answered(c)'
           /\ Truthful'
<1>1. \A s \in streams : OfActive(s)'
  BY StreamStays DEF AppTyped, Shows
<1>2. ASSUME NEW c \in calls PROVE Answered(c)'
  <2>1. c.op = "respond" =>
            c.job = client.active /\ (c.state = "ok" => Told(c.job, "working")')
    <3> SUFFICES ASSUME c.op = "respond"
                 PROVE  c.job = client.active /\ (c.state = "ok" => Told(c.job, "working")')
      OBVIOUS
    <3>1. c.job \in Jobs /\ c.job = client.active
             /\ (c.state = "ok" => Told(c.job, "working"))
      BY DEF AppTyped, Shows, Answered
    <3> QED
      BY <3>1, ToldStays
  <2>2. c.op = "refresh" /\ c.state = "ok" =>
            c.job \in Jobs /\ Told(c.job, "completed")'
    BY ToldStays DEF Shows, Answered
  <2> QED
    BY <2>1, <2>2 DEF Answered
<1>3. Truthful'
  <2> SUFFICES ASSUME client'.shown \in ShownTold
               PROVE  \/ client'.active \in Jobs /\ Told(client.active, client.shown)'
                      \/ /\ client'.shown = "completed" /\ client'.refreshed \in Jobs
                         /\ Told(client.refreshed, "completed")'
    BY DEF Truthful
  <2> PICK j, x, f : j = client.active /\ x = client.shown /\ f = client.refreshed
    OBVIOUS
  <2>1. CASE j \in Jobs /\ Told(j, x)
    <3>1. Told(j, x)'
      BY <2>1, ToldStays
    <3> QED
      BY <2>1, <3>1 DEF Told
  <2>2. CASE x = "completed" /\ f \in Jobs /\ Told(f, "completed")
    <3>1. Told(f, "completed")'
      BY <2>2, ToldStays
    <3> QED
      BY <2>2, <3>1 DEF Told
  <2> QED
    BY <2>1, <2>2 DEF Shows, Truthful
<1> QED
  BY <1>1, <1>2, <1>3

-----------------------------------------------------------------------------
(* Calls                                                                   *)

Call(op, job, state) == [op |-> op, job |-> job, state |-> state]
Calls == [op : {"create", "respond", "giveUp", "cancel", "refresh", "fetch"},
          job : Jobs \cup {NoJob}, state : {"sent", "read", "ok", "error"}]
Streams == [job : Jobs, after : Nat, at : {"connecting", "open"}, queue : Seq(Events)]
CallTyped(c) ==
    /\ c \in Calls
    /\ c.state = "read" => c.op = "cancel"
    /\ c.op \in {"respond", "giveUp", "cancel"} => c.job \in Jobs
    /\ c.op = "create" /\ c.state = "ok" => c.job \in Jobs

LEMMA AppTypes ==
    AppTyped <=>
        /\ client \in Consoles
        /\ streams \subseteq Streams
        /\ \A c \in calls : CallTyped(c)
  BY DEF AppTyped, Streams, Calls, CallTyped

(* A call that is answered.                                                *)
LEMMA AnswerKeeps ==
    ASSUME AppTyped, Shows, LogGrows, client' = client, streams' = streams,
           NEW c \in calls, NEW x \in {"read", "ok", "error"}, NEW j \in Jobs \cup {NoJob},
           x = "read" => c.op = "cancel",
           Answer(c, x, j),
           c.op \in {"respond", "giveUp", "cancel"} => j \in Jobs,
           c.op = "create" /\ x = "ok" => j \in Jobs,
           c.op = "respond" => j = c.job /\ (x = "ok" => Told(j, "working")'),
           c.op = "refresh" /\ x = "ok" => j \in Jobs /\ Told(j, "completed")'
    PROVE  AppTyped' /\ Shows'
<1> PICK d : d = [c EXCEPT !.state = x, !.job = j]
  OBVIOUS
<1>1. c \in Calls
  BY DEF AppTyped, Calls
<1>2. d \in Calls /\ d.op = c.op /\ d.state = x /\ d.job = j
  BY <1>1 DEF Calls
<1>3. calls' = (calls \ {c}) \cup {d}
  BY DEF Answer
<1>4. AppTyped'
  <2>1. CallTyped(d)
    BY <1>2 DEF CallTyped
  <2>2. \A e \in calls' : CallTyped(e)
    BY <1>3, <2>1 DEF AppTyped, CallTyped, Calls
  <2> QED
    BY <2>2 DEF AppTyped, CallTyped, Calls
<1>5. OneBusy'
  <2>1. Busy(d) <=> Busy(c)
    BY <1>2 DEF Busy
  <2>2. \A e \in calls' : e = d \/ (e \in calls /\ e # c)
    BY <1>3
  <2>3. \A e \in calls' : Busy(e) => client'.submitting
    BY <2>1, <2>2 DEF Shows, OneBusy
  <2>4. \A e, f \in calls' : Busy(e) /\ Busy(f) => e = f
    BY <2>1, <2>2 DEF Shows, OneBusy
  <2> QED
    BY <2>3, <2>4 DEF OneBusy, Busy
<1>6. Answered(d)'
  <2>1. c.op = "respond" => c.job = client.active
    BY DEF Shows, Answered
  <2> QED
    BY <1>2, <2>1 DEF Answered
<1>7. \A e \in calls' : Answered(e)'
  BY <1>3, <1>6, AppStays
<1>8. Truthful'
  BY AppStays
<1>9. \A s \in streams' : OfActive(s)'
  BY AppStays
<1> QED
  BY <1>4, <1>5, <1>7, <1>8, <1>9 DEF Shows

(* A call that is over and whose answer nobody waits for.                  *)
LEMMA OverKeeps ==
    ASSUME AppTyped, Shows, LogGrows, client' = client, streams' = streams,
           calls' \subseteq calls
    PROVE  AppTyped' /\ Shows'
<1>1. AppTyped'
  BY DEF AppTyped
<1>2. OneBusy'
  BY DEF Shows, OneBusy, Busy
<1>3. /\ \A s \in streams' : OfActive(s)'
      /\ \A c \in calls' : Answered(c)'
      /\ Truthful'
  BY AppStays
<1> QED
  BY <1>1, <1>2, <1>3 DEF Shows

LEMMA ServeKeeps ==
    ASSUME IInv, ClientAssumption, NEW c \in calls, Serve(c)
    PROVE  IInv'
<1>1. ServerTyped /\ AppTyped /\ ServerRight /\ Shows
  BY DEF IInv, TypeOK
<1>2. client' = client /\ streams' = streams
  BY DEF Serve
<1>3. /\ c.job \in Jobs \cup {NoJob}
      /\ c.op \in {"respond", "giveUp", "cancel"} => c.job \in Jobs
      /\ c.state = "read" => c.op = "cancel"
  BY <1>1 DEF AppTyped
<1>4. ASSUME NEW j \in Jobs, Create(c, j) PROVE IInv'
  <2>1. PICK x \in {"ok", "error"} : Answer(c, x, j)
    BY <1>4 DEF Create
  <2>2. ServerTyped' /\ ServerRight' /\ LogGrows
    BY <1>1, <1>4, StatusKeeps DEF Create, Statuses, ServerTyped
  <2>3. AppTyped' /\ Shows'
    BY <1>1, <1>2, <1>4, <2>1, <2>2, AnswerKeeps DEF Create
  <2> QED
    BY <2>2, <2>3 DEF IInv, TypeOK
<1>5. ASSUME Respond(c) PROVE IInv'
  <2>1. PICK x \in {"ok", "error"} : Answer(c, x, c.job)
    BY <1>5 DEF Respond
  <2>2. c.op = "respond" /\ c.job \in Jobs
    BY <1>3, <1>5 DEF Respond
  <2>3. ServerTyped' /\ ServerRight' /\ LogGrows /\ Told(c.job, "working")'
    BY <1>1, <1>5, <2>2, RespondKeeps
  <2>4. AppTyped' /\ Shows'
    BY <1>1, <1>2, <2>1, <2>2, <2>3, AnswerKeeps
  <2> QED
    BY <2>3, <2>4 DEF IInv, TypeOK
<1>6. ASSUME GiveUp(c) PROVE IInv'
  <2>1. Answer(c, "ok", c.job) /\ c.op = "giveUp" /\ c.job \in Jobs
    BY <1>3, <1>6 DEF GiveUp
  <2>2. ServerTyped' /\ ServerRight' /\ LogGrows
    BY <1>1, <1>6, <2>1, StatusKeeps DEF GiveUp, Statuses, ServerTyped
  <2>3. AppTyped' /\ Shows'
    BY <1>1, <1>2, <2>1, <2>2, AnswerKeeps
  <2> QED
    BY <2>2, <2>3 DEF IInv, TypeOK
<1>7. ASSUME CancelRead(c) PROVE IInv'
  <2>1. ServerTyped' /\ ServerRight' /\ LogGrows
    BY <1>1, <1>7, ServerStays DEF CancelRead
  <2>2. Answer(c, "read", c.job) /\ c.op = "cancel" /\ c.job \in Jobs
    BY <1>3, <1>7 DEF CancelRead
  <2>3. AppTyped' /\ Shows'
    BY <1>1, <1>2, <2>1, <2>2, AnswerKeeps
  <2> QED
    BY <2>1, <2>3 DEF IInv, TypeOK
<1>8. ASSUME CancelWrite(c) PROVE IInv'
  <2>1. c.job \in Jobs /\ calls' \subseteq calls
    BY <1>3, <1>8 DEF CancelWrite
  <2>2. ServerTyped' /\ ServerRight' /\ LogGrows
    BY <1>1, <1>8, <2>1, StatusKeeps DEF CancelWrite, Statuses, ServerTyped
  <2>3. AppTyped' /\ Shows'
    BY <1>1, <1>2, <2>1, <2>2, OverKeeps
  <2> QED
    BY <2>2, <2>3 DEF IInv, TypeOK
<1>9. ASSUME Snapshot(c) PROVE IInv'
  <2>1. ServerTyped' /\ ServerRight' /\ LogGrows
    BY <1>1, <1>9, ServerStays DEF Snapshot
  <2>2. /\ Answer(c, "ok", c.job) /\ c.op \in {"refresh", "fetch"} /\ c.job \in Jobs
        /\ status[c.job] = "COMPLETED"
    BY <1>3, <1>9 DEF Snapshot
  <2>3. Told(c.job, "completed")'
    BY <1>1, <2>1, <2>2, ToldStays DEF ServerRight, CompletionTold
  <2>4. AppTyped' /\ Shows'
    BY <1>1, <1>2, <2>1, <2>2, <2>3, AnswerKeeps
  <2> QED
    BY <2>1, <2>4 DEF IInv, TypeOK
<1>10. ASSUME Refuse(c) PROVE IInv'
  <2>1. ServerTyped' /\ ServerRight' /\ LogGrows
    BY <1>1, <1>10, ServerStays DEF Refuse
  <2>2. CASE c.op \in {"cancel", "refresh"}
    <3>1. calls' \subseteq calls
      BY <1>10, <2>2 DEF Refuse
    <3>2. AppTyped' /\ Shows'
      BY <1>1, <1>2, <2>1, <3>1, OverKeeps
    <3> QED
      BY <2>1, <3>2 DEF IInv, TypeOK
  <2>3. CASE c.op \notin {"cancel", "refresh"}
    <3>1. Answer(c, "error", c.job)
      BY <1>10, <2>3 DEF Refuse
    <3>2. AppTyped' /\ Shows'
      BY <1>1, <1>2, <1>3, <2>1, <2>3, <3>1, AnswerKeeps
    <3> QED
      BY <2>1, <3>2 DEF IInv, TypeOK
  <2> QED
    BY <2>2, <2>3
<1>11. ASSUME RespondTooLate(c) PROVE IInv'
  <2>1. Answer(c, "error", c.job) /\ c.op = "respond" /\ c.job \in Jobs
    BY <1>3, <1>11 DEF RespondTooLate
  <2>2. ServerTyped' /\ ServerRight' /\ LogGrows
    BY <1>1, <1>11, <2>1, StatusKeeps DEF RespondTooLate, Statuses, ServerTyped
  <2>3. AppTyped' /\ Shows'
    BY <1>1, <1>2, <2>1, <2>2, AnswerKeeps
  <2> QED
    BY <2>2, <2>3 DEF IInv, TypeOK
<1> QED
  BY <1>4, <1>5, <1>6, <1>7, <1>8, <1>9, <1>10, <1>11 DEF Serve

LEMMA WriterKeeps ==
    ASSUME IInv,
           \/ \E w \in Writers :
                 CommitEmit(w) \/ \E j \in Jobs, b \in Batches : BeginEmit(w, j, b)
           \/ \E j \in Jobs : ExpireClarification(j)
    PROVE  IInv'
<1>1. ServerTyped /\ AppTyped /\ ServerRight /\ Shows
  BY DEF IInv, TypeOK
<1>2. client' = client /\ streams' = streams /\ calls' = calls
  BY DEF CommitEmit, BeginEmit, ExpireClarification, app
<1>3. ServerTyped' /\ ServerRight' /\ LogGrows
  BY <1>1, CommitKeeps, BeginKeeps, ExpireKeeps
<1>4. AppTyped'
  BY <1>1, <1>2 DEF AppTyped
<1>5. OneBusy'
  BY <1>1, <1>2 DEF Shows, OneBusy, Busy
<1>6. /\ \A s \in streams' : OfActive(s)'
      /\ \A c \in calls' : Answered(c)'
      /\ Truthful'
  BY <1>1, <1>2, <1>3, AppStays
<1> QED
  BY <1>2, <1>3, <1>4, <1>5, <1>6 DEF IInv, TypeOK, Shows

-----------------------------------------------------------------------------
(* The client                                                              *)

(* The client's own steps leave the server alone.                          *)
LEMMA ClientSide ==
    ASSUME IInv, UNCHANGED server, AppTyped', Shows'
    PROVE  IInv'
  BY ServerStays DEF IInv, TypeOK

LEMMA ActiveStays ==
    ASSUME Shows, log' = log, client'.active = client.active
    PROVE  /\ \A s \in streams : OfActive(s)'
           /\ \A c \in calls : Answered(c)'
  BY DEF Shows, OfActive, Answered, Told

(* A call that is sent; a submission or an answer only when there is none. *)
LEMMA SendKeeps ==
    ASSUME AppTyped, Shows, log' = log,
           NEW op \in {"create", "respond", "giveUp", "cancel", "refresh", "fetch"},
           NEW j \in Jobs \cup {NoJob}, Send(op, j),
           client'.active = client.active,
           client'.submitting \/ client'.submitting = client.submitting,
           op \in {"respond", "giveUp", "cancel"} => j \in Jobs,
           op \in {"create", "respond"} => ~client.submitting /\ client'.submitting,
           op = "respond" => j = client.active
    PROVE  /\ \A c \in calls' : CallTyped(c)
           /\ OneBusy'
           /\ \A c \in calls' : Answered(c)'
<1> PICK d : d = [op |-> op, job |-> j, state |-> "sent"]
  OBVIOUS
<1>1. calls' = calls \cup {d} /\ d.op = op /\ d.job = j /\ d.state = "sent"
  BY DEF Send
<1>2. d \in Calls
  BY DEF Calls
<1>3. CallTyped(d)
  BY <1>1, <1>2 DEF CallTyped
<1>4. \A c \in calls' : CallTyped(c)
  BY <1>1, <1>3, AppTypes
<1>5. \A c \in calls' : c = d \/ c \in calls
  BY <1>1
<1>6. Busy(d) => ~client.submitting /\ client'.submitting
  BY <1>1 DEF Busy
<1>7. \A c \in calls' : Busy(c) => client'.submitting
  BY <1>5, <1>6 DEF Shows, OneBusy
<1>8. \A b, c \in calls' : Busy(b) /\ Busy(c) => b = c
  BY <1>5, <1>6 DEF Shows, OneBusy
<1>9. Answered(d)'
  BY <1>1 DEF Answered
<1>10. \A c \in calls' : Answered(c)'
  BY <1>5, <1>9, ActiveStays
<1> QED
  BY <1>4, <1>7, <1>8, <1>10 DEF OneBusy, Busy

(* Nothing is sent.                                                        *)
LEMMA FewerCalls ==
    ASSUME AppTyped, Shows, log' = log, calls' \subseteq calls,
           client'.active = client.active,
           client'.submitting = client.submitting \/ \A c \in calls' : ~Busy(c)
    PROVE  /\ \A c \in calls' : CallTyped(c)
           /\ OneBusy'
           /\ \A c \in calls' : Answered(c)'
<1>1. \A c \in calls' : CallTyped(c)
  BY AppTypes
<1>2. \A c \in calls' : Busy(c) => client'.submitting
  BY DEF Shows, OneBusy
<1>3. \A b, c \in calls' : Busy(b) /\ Busy(c) => b = c
  BY DEF Shows, OneBusy
<1>4. \A c \in calls' : Answered(c)'
  BY ActiveStays
<1> QED
  BY <1>1, <1>2, <1>3, <1>4 DEF OneBusy, Busy

(* With the only submission or answer gone, nothing is under way.          *)
LEMMA NoneBusy ==
    ASSUME Shows, NEW c \in calls, Busy(c), calls' = calls \ {c}
    PROVE  \A d \in calls' : ~Busy(d)
  BY DEF Shows, OneBusy

LEMMA SubmitKeeps == ASSUME IInv, ClientAssumption, Submit PROVE IInv'
<1>1. AppTyped /\ Shows /\ UNCHANGED server /\ log' = log /\ streams' = streams
  BY DEF IInv, TypeOK, Submit, server
<1>2. client' = [client EXCEPT !.shown = "submitting", !.submitting = TRUE,
                               !.refreshed = NoJob]
  BY DEF Submit
<1>3. /\ client' \in Consoles
      /\ client'.active = client.active /\ client'.submitting = TRUE
      /\ client'.shown = "submitting"
  BY <1>1, <1>2 DEF AppTyped, ShownStates, Consoles
<1>4. /\ \A c \in calls' : CallTyped(c)
      /\ OneBusy' /\ \A c \in calls' : Answered(c)'
  BY <1>1, <1>3, SendKeeps DEF Submit
<1>5. \A s \in streams' : OfActive(s)'
  BY <1>1, <1>3, ActiveStays
<1>6. Truthful'
  BY <1>3 DEF Truthful, ShownTold
<1>7. AppTyped'
  BY <1>1, <1>3, <1>4 DEF AppTyped, CallTyped, Calls
<1> QED
  BY <1>1, <1>4, <1>5, <1>6, <1>7, ClientSide DEF Shows

LEMMA AnswerClarificationKeeps ==
    ASSUME IInv, ClientAssumption, AnswerClarification PROVE IInv'
<1>1. /\ AppTyped /\ Shows /\ UNCHANGED server /\ log' = log /\ streams' = streams
      /\ ~client.submitting
  BY DEF IInv, TypeOK, AnswerClarification, server
<1>2. client' = [client EXCEPT !.submitting = TRUE] /\ Send("respond", client.active)
      /\ client.active # NoJob
  BY DEF AnswerClarification
<1>3. /\ client' \in Consoles
      /\ client'.active = client.active /\ client'.submitting = TRUE
      /\ client'.shown = client.shown /\ client.active \in Jobs
      /\ client'.refreshed = client.refreshed
  BY <1>1, <1>2 DEF AppTyped, ShownStates, Consoles
<1>4. /\ \A c \in calls' : CallTyped(c)
      /\ OneBusy' /\ \A c \in calls' : Answered(c)'
  BY <1>1, <1>2, <1>3, SendKeeps
<1>5. \A s \in streams' : OfActive(s)'
  BY <1>1, <1>3, ActiveStays
<1>6. Truthful'
  BY <1>1, <1>3 DEF Truthful, Shows, Told
<1>7. AppTyped'
  BY <1>1, <1>3, <1>4 DEF AppTyped, CallTyped, Calls
<1> QED
  BY <1>1, <1>4, <1>5, <1>6, <1>7, ClientSide DEF Shows

LEMMA GiveUpKeeps == ASSUME IInv, ClientAssumption, GiveUpClarification PROVE IInv'
<1>1. /\ AppTyped /\ Shows /\ UNCHANGED server /\ log' = log /\ streams' = streams
      /\ client' = client
  BY DEF IInv, TypeOK, GiveUpClarification, server
<1>2. Send("giveUp", client.active) /\ client.active \in Jobs
  BY <1>1 DEF GiveUpClarification, AppTyped, Consoles
<1>3. /\ \A c \in calls' : CallTyped(c)
      /\ OneBusy' /\ \A c \in calls' : Answered(c)'
  BY <1>1, <1>2, SendKeeps
<1>4. \A s \in streams' : OfActive(s)'
  BY <1>1, ActiveStays
<1>5. Truthful'
  BY <1>1 DEF Truthful, Shows, Told
<1>6. AppTyped'
  BY <1>1, <1>3 DEF AppTyped, CallTyped, Calls
<1> QED
  BY <1>1, <1>3, <1>4, <1>5, <1>6, ClientSide DEF Shows

LEMMA CancelKeeps == ASSUME IInv, ClientAssumption, CancelAnalysis PROVE IInv'
<1>1. AppTyped /\ Shows /\ UNCHANGED server /\ log' = log /\ streams' = streams
  BY DEF IInv, TypeOK, CancelAnalysis, server
<1>2. /\ client' = [client EXCEPT !.shown = "cancelled"]
      /\ Send("cancel", client.active) /\ client.active \in Jobs
  BY <1>1 DEF CancelAnalysis, AppTyped, Consoles
<1>3. /\ client' \in Consoles
      /\ client'.active = client.active /\ client'.submitting = client.submitting
      /\ client'.shown = "cancelled"
  BY <1>1, <1>2 DEF AppTyped, ShownStates, Consoles
<1>4. /\ \A c \in calls' : CallTyped(c)
      /\ OneBusy' /\ \A c \in calls' : Answered(c)'
  BY <1>1, <1>2, <1>3, SendKeeps
<1>5. \A s \in streams' : OfActive(s)'
  BY <1>1, <1>3, ActiveStays
<1>6. Truthful'
  BY <1>3 DEF Truthful, ShownTold
<1>7. AppTyped'
  BY <1>1, <1>3, <1>4 DEF AppTyped, CallTyped, Calls
<1> QED
  BY <1>1, <1>4, <1>5, <1>6, <1>7, ClientSide DEF Shows

(* A reply that changes at most what is shown and that an answer is awaited. *)
LEMMA ReplyKeeps ==
    ASSUME IInv, UNCHANGED server, streams' = streams, NEW c \in calls,
           calls' = calls \ {c}, NEW x \in ShownStates, NEW y \in BOOLEAN,
           client' = [client EXCEPT !.shown = x, !.submitting = y],
           y = client.submitting \/ Busy(c),
           x \notin ShownTold \/ x = client.shown
               \/ (client.active \in Jobs /\ Told(client.active, x))
    PROVE  IInv'
<1>1. AppTyped /\ Shows /\ log' = log
  BY DEF IInv, TypeOK, server
<1>2. /\ client' \in Consoles
      /\ client'.active = client.active /\ client'.submitting = y /\ client'.shown = x
      /\ client'.refreshed = client.refreshed
  BY <1>1 DEF AppTyped, Consoles
<1>3. /\ \A d \in calls' : CallTyped(d)
      /\ OneBusy' /\ \A d \in calls' : Answered(d)'
  BY <1>1, <1>2, NoneBusy, FewerCalls
<1>4. \A s \in streams' : OfActive(s)'
  BY <1>1, <1>2, ActiveStays
<1>5. Truthful'
  BY <1>1, <1>2 DEF Truthful, Shows, Told
<1>6. AppTyped'
  BY <1>1, <1>2, <1>3 DEF AppTyped, CallTyped, Calls
<1> QED
  BY <1>3, <1>4, <1>5, <1>6, ClientSide DEF Shows

(* A submission that succeeds is followed by a stream of its own.          *)
LEMMA AcceptedKeeps ==
    ASSUME IInv, UNCHANGED server, NEW c \in calls, c.op = "create", c.state = "ok",
           calls' = calls \ {c}, Subscribe(c.job, client.last),
           client' = [client EXCEPT !.shown = "accepted", !.active = c.job,
                                    !.submitting = FALSE]
    PROVE  IInv'
<1>1. AppTyped /\ Shows /\ log' = log
  BY DEF IInv, TypeOK, server
<1>2. c.job \in Jobs
  BY <1>1 DEF AppTyped
<1>3. /\ client' \in Consoles
      /\ client'.active = c.job /\ client'.shown = "accepted" /\ client.last \in Nat
  BY <1>1, <1>2 DEF AppTyped, ShownStates, Consoles
<1>4. \A d \in calls' : ~Busy(d)
  BY <1>1, NoneBusy DEF Busy
<1>5. \A d \in calls' : CallTyped(d)
  BY <1>1, AppTypes
<1>6. OneBusy'
  BY <1>4 DEF OneBusy, Busy
<1>7. \A d \in calls' : Answered(d)'
  <2>1. \A d \in calls' : d.op # "respond"
    BY <1>4 DEF Busy
  <2> QED
    BY <1>1, <2>1 DEF Shows, Answered, Told
<1> PICK s : s = Stream(c.job, client.last)
  OBVIOUS
<1>8. /\ streams' = {s}
      /\ s = [job |-> c.job, after |-> client.last, at |-> "connecting", queue |-> <<>>]
  BY DEF Subscribe, Stream
<1>9. s \in Streams /\ s.job = c.job /\ s.queue = <<>>
  BY <1>2, <1>3, <1>8, EmptySeq DEF Streams
<1>10. OfActive(s)'
  BY <1>3, <1>9 DEF OfActive
<1>11. Truthful'
  BY <1>3 DEF Truthful, ShownTold
<1>12. AppTyped'
  BY <1>3, <1>5, <1>8, <1>9 DEF AppTyped, CallTyped, Calls, Streams
<1> QED
  BY <1>6, <1>7, <1>8, <1>10, <1>11, <1>12, ClientSide DEF Shows

(* A refresh that found its job completed: the job is told completed, and  *)
(* another call, for the result, takes the place of this one.              *)
LEMMA RefreshedKeeps ==
    ASSUME IInv, UNCHANGED server, NEW c \in calls, c.state = "ok", RefreshReplied(c)
    PROVE  IInv'
<1>1. AppTyped /\ Shows /\ log' = log /\ streams' = streams /\ c.op = "refresh"
  BY DEF IInv, TypeOK, server, RefreshReplied
<1>2. c.job \in Jobs /\ Told(c.job, "completed")
  BY <1>1 DEF Shows, Answered
<1> PICK d : d = [op |-> "fetch", job |-> c.job, state |-> "sent"]
  OBVIOUS
<1>3. client' = [client EXCEPT !.shown = "completed", !.refreshed = c.job]
      /\ calls' = (calls \ {c}) \cup {d}
  BY DEF RefreshReplied
<1>4. /\ client' \in Consoles
      /\ client'.active = client.active /\ client'.submitting = client.submitting
      /\ client'.shown = "completed" /\ client'.refreshed = c.job
  BY <1>1, <1>2, <1>3 DEF AppTyped, Consoles, ShownStates, ShownTold
<1>5. CallTyped(d) /\ ~Busy(d) /\ Answered(d)'
  BY <1>2 DEF CallTyped, Calls, Busy, Answered
<1>6. \A e \in calls' : e = d \/ e \in calls
  BY <1>3
<1>7. \A e \in calls' : CallTyped(e)
  BY <1>1, <1>5, <1>6, AppTypes
<1>8. OneBusy'
  <2>1. \A e \in calls' : Busy(e) => client'.submitting
    BY <1>1, <1>4, <1>5, <1>6 DEF Shows, OneBusy
  <2>2. \A e, f \in calls' : Busy(e) /\ Busy(f) => e = f
    BY <1>1, <1>5, <1>6 DEF Shows, OneBusy
  <2> QED
    BY <2>1, <2>2 DEF OneBusy, Busy
<1>9. /\ \A s \in streams' : OfActive(s)'
      /\ \A e \in calls' : Answered(e)'
  BY <1>1, <1>4, <1>5, <1>6, ActiveStays
<1>10. Truthful'
  BY <1>1, <1>2, <1>4 DEF Truthful, Told
<1>11. AppTyped'
  BY <1>1, <1>4, <1>7 DEF AppTyped, CallTyped, Calls
<1> QED
  BY <1>8, <1>9, <1>10, <1>11, ClientSide DEF Shows

LEMMA RepliedKeeps == ASSUME IInv, NEW c \in calls, Replied(c) PROVE IInv'
<1>1. AppTyped /\ Shows /\ UNCHANGED server /\ c.state # "sent"
  BY DEF IInv, TypeOK, Replied
<1>2. /\ client.shown \in ShownStates /\ client.submitting \in BOOLEAN
      /\ client = [client EXCEPT !.shown = client.shown, !.submitting = client.submitting]
      /\ \A x : [client EXCEPT !.shown = x] =
                [client EXCEPT !.shown = x, !.submitting = client.submitting]
  BY <1>1 DEF AppTyped, Consoles
<1>3. CASE CreateReplied(c)
  <2>1. CASE c.state = "ok"
    BY <1>1, <1>3, <2>1, AcceptedKeeps DEF CreateReplied
  <2>2. CASE c.state # "ok"
    BY <1>1, <1>3, <2>2, ReplyKeeps DEF CreateReplied, Busy, ShownStates, ShownTold
  <2> QED
    BY <2>1, <2>2
<1>4. CASE RespondReplied(c)
  <2>1. c.op = "respond" /\ calls' = calls \ {c} /\ streams' = streams
    BY <1>4 DEF RespondReplied
  <2>2. CASE c.state = "ok"
    <3>1. client' = [client EXCEPT !.shown = "working", !.submitting = FALSE]
      BY <1>1, <1>4, <2>2 DEF RespondReplied, AppTyped
    <3>2. client.active \in Jobs /\ Told(client.active, "working")
      BY <1>1, <2>1, <2>2 DEF Shows, Answered, AppTyped
    <3> QED
      BY <1>1, <2>1, <3>1, <3>2, ReplyKeeps DEF Busy, ShownStates, ShownTold
  <2>3. CASE c.state # "ok"
    <3>1. client' = [client EXCEPT !.shown = client.shown, !.submitting = FALSE]
      BY <1>1, <1>4, <2>3 DEF RespondReplied, AppTyped
    <3> QED
      BY <1>1, <1>2, <2>1, <3>1, ReplyKeeps DEF Busy
  <2> QED
    BY <2>2, <2>3
<1>5. CASE GaveUp(c)
  <2>1. CASE c.state = "ok"
    <3>1. client' = [client EXCEPT !.shown = "cancelled", !.submitting = client.submitting]
      BY <1>2, <1>5, <2>1 DEF GaveUp
    <3> QED
      BY <1>1, <1>2, <1>5, <3>1, ReplyKeeps DEF GaveUp, ShownStates, ShownTold
  <2>2. CASE c.state # "ok"
    <3>1. client' = [client EXCEPT !.shown = client.shown, !.submitting = client.submitting]
      BY <1>2, <1>5, <2>2 DEF GaveUp
    <3> QED
      BY <1>1, <1>2, <1>5, <3>1, ReplyKeeps DEF GaveUp
  <2> QED
    BY <2>1, <2>2
<1>6. CASE RefreshReplied(c)
  <2>1. c.state = "ok"
    BY <1>6 DEF RefreshReplied
  <2> QED
    BY <1>1, <1>6, <2>1, RefreshedKeeps
<1>7. CASE FetchReplied(c)
  <2>1. CASE c.state = "ok"
    <3>1. client' = [client EXCEPT !.shown = client.shown, !.submitting = client.submitting]
      BY <1>2, <1>7, <2>1 DEF FetchReplied
    <3> QED
      BY <1>1, <1>2, <1>7, <3>1, ReplyKeeps DEF FetchReplied
  <2>2. CASE c.state # "ok"
    <3>1. client' = [client EXCEPT !.shown = "failedTerminal",
                                   !.submitting = client.submitting]
      BY <1>2, <1>7, <2>2 DEF FetchReplied
    <3> QED
      BY <1>1, <1>2, <1>7, <3>1, ReplyKeeps DEF FetchReplied, ShownStates, ShownTold
  <2> QED
    BY <2>1, <2>2
<1> QED
  BY <1>3, <1>4, <1>5, <1>6, <1>7 DEF Replied

-----------------------------------------------------------------------------
(* The stream                                                              *)

(* The streams change, and nothing else.                                   *)
LEMMA StreamsOnly ==
    ASSUME IInv, UNCHANGED server, client' = client, calls' = calls,
           \A s \in streams' : s \in Streams /\ OfActive(s)
    PROVE  IInv'
<1>1. AppTyped /\ Shows /\ log' = log
  BY DEF IInv, TypeOK, server
<1>2. /\ \A c \in calls' : CallTyped(c)
      /\ OneBusy' /\ \A c \in calls' : Answered(c)'
  BY <1>1, FewerCalls
<1>3. \A s \in streams' : OfActive(s)'
  BY <1>1 DEF OfActive
<1>4. Truthful'
  BY <1>1 DEF Truthful, Shows, Told
<1>5. AppTyped'
  BY <1>1, <1>2 DEF AppTyped, CallTyped, Calls, Streams
<1> QED
  BY <1>2, <1>3, <1>4, <1>5, ClientSide DEF Shows

(* A sequence of events of the log l.                                      *)
EventsOf(q, l) ==
    q \in Seq(Events) /\ \A i \in DOMAIN q : \E k \in DOMAIN l : l[k] = q[i]

(* The end of a log is made of its events.                                 *)
LEMMA Suffix ==
    ASSUME NEW l \in Seq(Events), NEW m \in Nat \ {0},
           NEW q, q = SubSeq(l, m, Len(l))
    PROVE  EventsOf(q, l)
<1> PICK n : n = Len(l)
  OBVIOUS
<1>1. n \in Nat /\ DOMAIN l = 1..n /\ q = SubSeq(l, m, n)
  BY LenProperties
<1>2. \A i \in m..n : l[i] \in Events
  BY <1>1, ElementOfSeq
<1>3. m \in Int /\ n \in Int
  BY <1>1
<1>4. /\ SubSeq(l, m, n) \in Seq(Events)
      /\ Len(SubSeq(l, m, n)) = IF m <= n THEN n - m + 1 ELSE 0
      /\ \A i \in 1..(n - m + 1) : SubSeq(l, m, n)[i] = l[m + i - 1]
  BY <1>2, <1>3, SubSeqProperties
<1>5. /\ q \in Seq(Events)
      /\ Len(q) = IF m <= n THEN n - m + 1 ELSE 0
      /\ \A i \in 1..(n - m + 1) : q[i] = l[m + i - 1]
  BY <1>1, <1>4
<1>6. DOMAIN q = 1..Len(q)
  BY <1>5, LenProperties
<1>7. ASSUME NEW i \in DOMAIN q PROVE \E k \in DOMAIN l : l[k] = q[i]
  <2>1. i \in 1..(n - m + 1) /\ m + i - 1 \in 1..n
    BY <1>1, <1>5, <1>6
  <2> QED
    BY <1>1, <1>5, <2>1
<1> QED
  BY <1>5, <1>7 DEF EventsOf

LEMMA ReplayKeeps == ASSUME IInv, NEW s \in streams, Replay(s) PROVE IInv'
<1>1. AppTyped /\ ServerTyped /\ Shows /\ UNCHANGED server
  BY DEF IInv, TypeOK, Replay
<1>2. s \in Streams /\ s.job \in Jobs /\ s.after \in Nat /\ OfActive(s)
  BY <1>1 DEF AppTyped, Streams, Shows
<1> PICK q : q = SubSeq(log[s.job], s.after + 1, Len(log[s.job]))
  OBVIOUS
<1> PICK t : t = [s EXCEPT !.at = "open", !.queue = q]
  OBVIOUS
<1>3. log[s.job] \in Seq(Events)
  BY <1>1, <1>2 DEF ServerTyped
<1>4. /\ q \in Seq(Events)
      /\ \A i \in DOMAIN q : \E k \in DOMAIN log[s.job] : log[s.job][k] = q[i]
  <2> PICK l, m : l = log[s.job] /\ m = s.after + 1
    OBVIOUS
  <2>1. l \in Seq(Events) /\ m \in Nat \ {0} /\ q = SubSeq(l, m, Len(l))
    BY <1>2, <1>3
  <2>2. EventsOf(q, l)
    BY <2>1, Suffix, Zenon
  <2> QED
    BY <2>2 DEF EventsOf
<1>5. t \in Streams /\ t.job = s.job /\ t.queue = q
  BY <1>2, <1>4 DEF Streams
<1>6. OfActive(t)
  BY <1>2, <1>4, <1>5 DEF OfActive
<1>7. streams' = (streams \ {s}) \cup {t}
  BY DEF Replay
<1>8. \A r \in streams' : r \in Streams /\ OfActive(r)
  BY <1>1, <1>5, <1>6, <1>7 DEF AppTyped, Streams, Shows
<1> QED
  BY <1>8, StreamsOnly DEF Replay

LEMMA StreamEndsKeeps == ASSUME IInv, NEW s \in streams, StreamEnds(s) PROVE IInv'
<1>1. streams' \subseteq streams /\ UNCHANGED <<server, client, calls>>
  BY DEF StreamEnds
<1>2. \A r \in streams' : r \in Streams /\ OfActive(r)
  BY <1>1 DEF IInv, TypeOK, AppTyped, Streams, Shows
<1> QED
  BY <1>1, <1>2, StreamsOnly

LEMMA StreamBreaksKeeps == ASSUME IInv, NEW s \in streams, StreamBreaks(s) PROVE IInv'
<1>1. /\ AppTyped /\ Shows /\ UNCHANGED server /\ log' = log /\ calls' = calls
      /\ streams' \subseteq streams
  BY DEF IInv, TypeOK, StreamBreaks, server
<1>2. client' = [client EXCEPT !.shown = "reconnecting"]
  BY DEF StreamBreaks
<1>3. /\ client' \in Consoles
      /\ client'.active = client.active /\ client'.submitting = client.submitting
      /\ client'.shown = "reconnecting"
  BY <1>1, <1>2 DEF AppTyped, ShownStates, Consoles
<1>4. /\ \A c \in calls' : CallTyped(c)
      /\ OneBusy' /\ \A c \in calls' : Answered(c)'
  BY <1>1, <1>3, FewerCalls
<1>5. \A r \in streams' : OfActive(r)'
  BY <1>1, <1>3, ActiveStays
<1>6. Truthful'
  BY <1>3 DEF Truthful, ShownTold
<1>7. AppTyped'
  BY <1>1, <1>3, <1>4 DEF AppTyped, CallTyped, Calls
<1> QED
  BY <1>1, <1>4, <1>5, <1>6, <1>7, ClientSide DEF Shows

LEMMA ShownAfterTypes == \A k \in Kinds : ShownAfter(k) \in ShownStates
  BY DEF Kinds, ShownAfter, ShownStates, ShownTold

(* An event that is taken from the stream, applied or not.                 *)
LEMMA DeliverKeeps == ASSUME IInv, ClientAssumption, NEW s \in streams, Deliver(s)
                      PROVE  IInv'
<1>1. AppTyped /\ ServerTyped /\ Shows /\ UNCHANGED server /\ log' = log
  BY DEF IInv, TypeOK, Deliver, server
<1>2. /\ s \in Streams /\ s.job \in Jobs /\ s.queue \in Seq(Events)
      /\ s.queue # <<>> /\ OfActive(s)
  BY <1>1 DEF AppTyped, Streams, Shows, Deliver
<1> PICK q, e, t : q = s.queue /\ e = Head(q) /\ t = [s EXCEPT !.queue = Tail(q)]
  OBVIOUS
<1>3. /\ q \in Seq(Events) /\ q # <<>>
      /\ DOMAIN q = 1..Len(q) /\ Len(q) \in Nat \ {0}
      /\ Tail(q) \in Seq(Events) /\ Len(Tail(q)) = Len(q) - 1
      /\ DOMAIN Tail(q) = 1..Len(Tail(q))
      /\ \A i \in 1..Len(Tail(q)) : Tail(q)[i] = q[i + 1]
      /\ e \in Events /\ e = q[1]
  BY <1>2, HeadTailProperties, LenProperties, EmptySeq
<1>4. /\ \E k \in DOMAIN log[s.job] : log[s.job][k] = e
      /\ \A i \in DOMAIN Tail(q) : \E k \in DOMAIN log[s.job] :
             log[s.job][k] = Tail(q)[i]
  <2>1. \A i \in DOMAIN q : \E k \in DOMAIN log[s.job] : log[s.job][k] = q[i]
    BY <1>2 DEF OfActive
  <2>2. 1 \in DOMAIN q /\ \A i \in DOMAIN Tail(q) :
            i + 1 \in DOMAIN q /\ Tail(q)[i] = q[i + 1]
    BY <1>3
  <2> QED
    BY <1>3, <2>1, <2>2, SMTT(30)
<1>5. t \in Streams /\ t.job = s.job /\ t.queue = Tail(q)
  BY <1>2, <1>3 DEF Streams
<1>6. OfActive(t)
  BY <1>2, <1>4, <1>5 DEF OfActive
<1>7. streams' = (streams \ {s}) \cup {t}
  BY DEF Deliver
<1>8. \A r \in streams' : r \in Streams /\ OfActive(r)
  BY <1>1, <1>5, <1>6, <1>7 DEF AppTyped, Streams, Shows
<1>9. CASE UNCHANGED <<client, calls>>
  BY <1>1, <1>8, <1>9, StreamsOnly
<1>11. CASE Send("refresh", client.active) /\ UNCHANGED client
  <2>1. client.active = s.job /\ s.job \in Jobs
    BY <1>2 DEF OfActive
  <2>2. /\ \A c \in calls' : CallTyped(c)
        /\ OneBusy' /\ \A c \in calls' : Answered(c)'
    BY <1>1, <1>11, <2>1, SendKeeps
  <2>3. \A r \in streams' : OfActive(r)'
    BY <1>1, <1>8, <1>11 DEF OfActive
  <2>4. Truthful'
    BY <1>1, <1>11 DEF Truthful, Shows, Told
  <2>5. AppTyped'
    BY <1>1, <1>8, <1>11, <2>2 DEF AppTyped, CallTyped, Calls, Streams
  <2> QED
    BY <1>1, <2>2, <2>3, <2>4, <2>5, ClientSide DEF Shows
<1>10. CASE /\ client' = [client EXCEPT !.shown = ShownAfter(e.kind), !.last = e.number]
            /\ IF e.kind = "completed" THEN Send("fetch", NoJob) ELSE UNCHANGED calls
  <2>1. /\ client' \in Consoles
        /\ client'.active = client.active /\ client'.submitting = client.submitting
        /\ client'.shown = ShownAfter(e.kind)
    <3>1. e.kind \in Kinds /\ e.number \in Nat /\ client \in Consoles
      BY <1>1, <1>3 DEF AppTyped, Events
    <3> PICK x, n : x = ShownAfter(e.kind) /\ n = e.number
      OBVIOUS
    <3>2. x \in ShownStates /\ n \in Nat
      BY <3>1, ShownAfterTypes
    <3>3. client' = [client EXCEPT !.shown = x, !.last = n]
      BY <1>10
    <3> QED
      BY <3>1, <3>2, <3>3 DEF Consoles
  <2>2. /\ \A c \in calls' : CallTyped(c)
        /\ OneBusy' /\ \A c \in calls' : Answered(c)'
    <3>1. CASE Send("fetch", NoJob)
      BY <1>1, <2>1, <3>1, SendKeeps
    <3>2. CASE UNCHANGED calls
      BY <1>1, <2>1, <3>2, FewerCalls
    <3> QED
      BY <1>10, <3>1, <3>2
  <2>3. \A r \in streams' : OfActive(r)'
    BY <1>1, <1>8, <2>1 DEF OfActive
  <2>4. Truthful'
    <3>1. client.active = s.job
      BY <1>2 DEF OfActive
    <3>2. \E k \in DOMAIN log[s.job] : ShownAfter(log[s.job][k].kind) = ShownAfter(e.kind)
      BY <1>4
    <3>3. client'.active = s.job /\ s.job \in Jobs /\ log' = log
      BY <1>1, <1>2, <2>1, <3>1 DEF AppTyped, Streams
    <3>4. Told(s.job, ShownAfter(e.kind))'
      BY <3>2, <3>3 DEF Told
    <3> QED
      BY <2>1, <3>3, <3>4 DEF Truthful
  <2>5. AppTyped'
    BY <1>8, <2>1, <2>2 DEF AppTyped, CallTyped, Calls, Streams
  <2> QED
    BY <1>1, <2>2, <2>3, <2>4, <2>5, ClientSide DEF Shows
<1> QED
  BY <1>9, <1>10, <1>11 DEF Deliver, Apply

-----------------------------------------------------------------------------
(* The theorems                                                            *)

LEMMA InitHolds == Init => IInv
<1> SUFFICES ASSUME Init PROVE IInv
  OBVIOUS
<1>1. ServerTyped
  BY NoWriterTyped, EmptySeq DEF Init, ServerTyped, Statuses
<1>2. AppTyped
  BY DEF Init, AppTyped, ShownStates, Consoles
<1>3. ServerRight
  BY DEF Init, ServerRight, EventsNumbered, ReadNumbers, NoWriter, CompletionTold
<1>4. Shows
  BY DEF Init, Shows, OneBusy, Truthful, ShownTold
<1> QED
  BY <1>1, <1>2, <1>3, <1>4 DEF IInv, TypeOK

(* What the logs, the transactions, the app and its calls and streams are  *)
(* in every state.                                                         *)
THEOREM Invariance == Spec => []IInv
<1>1. IInv /\ [Next]_vars => IInv'
  <2> SUFFICES ASSUME IInv, [Next]_vars PROVE IInv'
    OBVIOUS
  <2>1. CASE UNCHANGED vars
    <3>1. UNCHANGED server /\ client' = client /\ calls' = calls /\ streams' = streams
      BY <2>1 DEF vars, app
    <3>2. \A s \in streams' : s \in Streams /\ OfActive(s)
      BY <3>1 DEF IInv, TypeOK, AppTyped, Streams, Shows
    <3> QED
      BY <3>1, <3>2, StreamsOnly
  <2> QED
    BY <2>1, ClientAssumption, WriterKeeps, ServeKeeps, RepliedKeeps, ReplayKeeps,
       DeliverKeeps, StreamBreaksKeeps, StreamEndsKeeps, SubmitKeeps,
       AnswerClarificationKeeps, GiveUpKeeps, CancelKeeps DEF Next, Ended
<1> QED
  BY InitHolds, <1>1, PTL DEF Spec

(* The events that emit_event commits are numbered by their places,        *)
(* whichever transactions overlap.                                         *)
THEOREM EventNumbers == Spec => []EventsNumbered
  BY Invariance, PTL DEF IInv, ServerRight

(* What AnalysisController shows is in the events of the active analysis,  *)
(* however late events and replies of an earlier one arrive, but for a     *)
(* completion that a refresh found of the analysis it asked about.         *)
THEOREM ShowsWhatIsTold == Spec => []ShownIsTold
<1>1. IInv => ShownIsTold
  <2>1. \A j \in Jobs : j # NoJob
    BY ClientAssumption DEF ClientAssumption
  <2> QED
    BY <2>1 DEF IInv, Shows, Truthful, ShownTold, ShownIsTold
<1> QED
  BY <1>1, Invariance, PTL

=============================================================================
