------------------------------- MODULE JobProofs -------------------------------
(***************************************************************************)
(* JobDelivery's guarantees, for any set of jobs of any kinds, any number  *)
(* of reports and processes, and any losses, crashes and failed writes.    *)
(*                                                                         *)
(* JobInv says of one job where it can be, and why it is not run again: a  *)
(* job that has started is in the journal, is terminal and on no list, or  *)
(* is the intent that the next process reserves.  The steps of the         *)
(* controller change only what it knows (ControllerKeeps); those of the    *)
(* agent and the host change only what they hold (Continues, LoopKeeps).   *)
(***************************************************************************)
EXTENDS JobDelivery, TLAPS
-----------------------------------------------------------------------------
(* The invariant *)

Journalled == {NoReceipt} \cup [status : Progress \cup Settled, tick : Nat, session : Nat]
Journals == [Jobs -> Journalled]

\* The variables of JobDelivery have these types; a receipt with a tick or a
\* session has a status.
JobsTypeOK ==
    /\ scenario \in Scenarios
    /\ status \in [Jobs -> Statuses]
    /\ result \in Journals /\ mem \in Journals /\ disk \in Journals /\ sent \in Journals
    /\ \A r \in net : r.tick \in Nat /\ r.receipts \in Journals
    /\ reply.open \in BOOLEAN /\ reply.acks \subseteq Jobs /\ reply.jobs \subseteq Jobs
    /\ tick \in Nat /\ session \in Nat
    /\ todo \subseteq Jobs /\ trials \subseteq Jobs /\ queue \subseteq Jobs
    /\ rec \in Journalled
    /\ intent.job \in Jobs \cup {NoJob} /\ (intent = NoIntent <=> intent.job = NoJob)
    /\ probation \in Jobs \cup {NoJob}
    /\ outcome \in [Jobs -> {"none", "confirmed", "rolledback"}]
    /\ effects \in [Jobs -> {0, 1, 2}]

\* Where the loop is says what it holds, and only the open request is awaited.
LoopInv ==
    /\ pc \in {"down", "idle", "report", "wait", "jobs", "call", "save"}
    /\ job \in Jobs <=> pc \in {"call", "save"}
    /\ pc \in {"call", "save"} => mem[job] = NoReceipt /\ job \notin todo
    /\ pc = "save" => rec # NoReceipt
    /\ pc = "call" => intent.job = job /\ job \in queue /\ Kind[job] \in Lifecycle
    /\ reply.open => pc = "wait"
    /\ ~reply.open => reply.jobs = {}
    /\ todo # {} => pc \in {"jobs", "call", "save"}
    /\ trials # {} => pc # "down"
    /\ \A r \in net : r.tick <= tick /\ (pc = "wait" /\ r.tick = tick => r.receipts = sent)

\* Which jobs can be where.
KindInv(j) ==
    /\ j \in trials => Kind[j] = "trial" /\ mem[j].status = "accepted" /\ effects[j] # 0
    /\ intent.job = j \/ j \in queue \cup late => Kind[j] \in Lifecycle

\* A job that no reply has carried is nowhere on the agent.
Nowhere(j) ==
    /\ effects[j] = 0
    /\ j \notin reply.jobs \cup todo \cup trials \cup queue
    /\ j # job /\ j # intent.job
    /\ mem[j] = NoReceipt /\ disk[j] = NoReceipt /\ sent[j] = NoReceipt
    /\ \A r \in net : r.receipts[j] = NoReceipt
PendingInv(j) == status[j] \in {"none", "queued", "cancelled"} => Nowhere(j)

\* An acknowledged result is terminal, and its job is not delivered again.
AckInv(j) ==
    /\ result[j].status \in Settled => status[j] \in Terminal
    /\ reply.open /\ j \in reply.acks /\ sent[j].status \in Settled =>
          status[j] \in Terminal /\ j \notin reply.jobs

Kept(j) == disk[j] # NoReceipt /\ (pc # "down" => mem[j] # NoReceipt)
Over(j) == status[j] \in Terminal /\ j \notin todo \cup reply.jobs

\* What the controller was told stays in the journal until it is terminal.
ReportedInv(j) ==
    status[j] \in Progress \/ (\E r \in net : r.receipts[j] # NoReceipt) =>
        Kept(j) \/ status[j] \in Terminal

\* A trial or a request to the service host, not given up, is in the journal,
\* is over, or is the intent that the next process reserves.
Started(j) ==
    Kind[j] \in Lifecycle \cup {"trial"} /\ j \notin late /\ (j \in queue \/ effects[j] # 0)
Reserved(j) == intent.job = j /\ (pc = "down" \/ (pc = "call" /\ job = j))
OnceInv(j) ==
    Started(j) =>
        /\ effects[j] # 2 /\ ~(j \in queue /\ effects[j] # 0)
        /\ Kept(j) \/ Over(j) \/ Reserved(j)

\* A receipt of success is true wherever it is.
Happened(j) ==
    /\ Kind[j] \in {"trial", "direct"} => effects[j] # 0
    /\ Kind[j] = "update" => j \in survived
Says(j, s) ==
    \/ status[j] = s \/ mem[j].status = s \/ disk[j].status = s
    \/ job = j /\ rec.status = s
    \/ \E r \in net : r.receipts[j].status = s
HonestInv(j) ==
    /\ Says(j, "succeeded") => Happened(j)
    /\ outcome[j] = "confirmed" => j \in survived

\* An update declared out of time is not requested any more.
DeclinedInv(j) ==
    Kind[j] = "update" /\ Says(j, "expired") /\ j \notin late \cup unsaved =>
        /\ effects[j] = 0 /\ j \notin queue
        /\ pc = "down" \/ mem[j] # NoReceipt \/ job = j \/ Over(j)

JobInv(j) ==
    /\ KindInv(j) /\ PendingInv(j) /\ AckInv(j) /\ ReportedInv(j) /\ OnceInv(j)
    /\ HonestInv(j) /\ DeclinedInv(j)

JobsInv == JobsTypeOK /\ LoopInv /\ \A j \in Jobs : JobInv(j)

-----------------------------------------------------------------------------
(* Receipts *)

\* A receipt is held exactly when it has a status.
LEMMA HeldHasStatus ==
  ASSUME NEW x \in Journalled
  PROVE  /\ x = NoReceipt <=> x.status = "none"
         /\ x # NoReceipt => x.status \in Progress \cup Settled
BY DEF Journalled, NoReceipt, Progress, Settled

\* What the agent writes is a receipt with the status given.
LEMMA ReceiptFacts ==
  ASSUME JobsTypeOK, NEW s \in Progress \cup Settled
  PROVE  Receipt(s) \in Journalled /\ Receipt(s) # NoReceipt /\ Receipt(s).status = s
BY DEF Receipt, JobsTypeOK, Journalled, NoReceipt, Progress, Settled

\* NoReceipt is one of the receipts, and has no status.
LEMMA NoReceiptFacts == NoReceipt \in Journalled /\ NoReceipt.status = "none"
BY DEF Journalled, NoReceipt

\* A journal with one receipt replaced.
LEMMA JournalEdit ==
  ASSUME NEW m \in Journals, NEW k \in Jobs, NEW x \in Journalled, NEW m2, m2 = [m EXCEPT ![k] = x]
  PROVE  m2 \in Journals /\ m2[k] = x /\ \A j \in Jobs : j # k => m2[j] = m[j]
BY DEF Journals

\* The counters are small numbers.
LEMMA Numerals == 0 # 1 /\ 0 # 2 /\ 1 # 2
OBVIOUS

\* One more effect.
LEMMA TwiceFacts ==
  ASSUME NEW n \in {0, 1, 2}
  PROVE  Twice(n) \in {1, 2} /\ Twice(n) # 0 /\ (n = 0 => Twice(n) = 1)
BY DEF Twice, Many

\* No intent names no job.
LEMMA IntentFacts ==
  NoIntent.job = NoJob /\ NoJob \notin Jobs
<1>1. NoJob \notin Jobs BY JobDeliveryConstants DEF NoJob
<1>2. QED BY <1>1 DEF NoIntent

\* The kinds of the jobs do not change.
LEMMA KindKept == scenario' = scenario => Kind' = Kind
BY DEF Kind

-----------------------------------------------------------------------------
(* The controller *)

Pending == {"none", "queued", "cancelled"}

\* What a transaction of the controller does to a job.
Moves(j) ==
    /\ status[j] \in Terminal => status'[j] = status[j]
    /\ status'[j] \in Pending => status[j] \in Pending
    /\ status'[j] \in Progress \cup {"succeeded"} =>
          status'[j] = status[j] \/ \E r \in net : r.receipts[j].status = status'[j]
    /\ Kind[j] = "update" /\ status'[j] = "expired" => Says(j, "expired") \/ status[j] = "queued"
    /\ result'[j].status \in Settled => status'[j] \in Terminal

\* What it answers.
Replies ==
    \/ reply' = reply
    \/ /\ pc = "wait" /\ reply'.open = TRUE /\ reply'.jobs \subseteq Jobs /\ reply'.acks \subseteq Jobs
       /\ \A j \in reply'.jobs : status'[j] = "delivered"
       /\ \A j \in reply'.acks : sent[j].status \in Settled => status'[j] \in Terminal

agent == <<scenario, session, tick, pc, mem, disk, sent, todo, job, rec, trials, intent, queue, probation, outcome,
           effects, survived, unsaved, late, faults>>

\* Such a transaction keeps the invariant.
LEMMA ControllerKeeps ==
  ASSUME JobsInv, UNCHANGED agent, net' \subseteq net, Replies,
         status' \in [Jobs -> Statuses], result' \in Journals, \A j \in Jobs : Moves(j)
  PROVE  JobsInv'
<1>0. JobsTypeOK /\ LoopInv BY DEF JobsInv
<1>1. Kind' = Kind BY KindKept DEF agent
<1>2. JobsTypeOK' BY Zenon, <1>0 DEF JobsTypeOK, Replies, agent
<1>3. LoopInv' BY <1>0, <1>1 DEF LoopInv, Replies, agent
<1>5. ASSUME NEW j \in Jobs PROVE JobInv(j)'
  <2>0. JobInv(j) /\ Moves(j) BY Zenon DEF JobsInv
  <2>1. KindInv(j)' BY Zenon, <1>1, <2>0 DEF JobInv, KindInv, agent
  <2>2. PendingInv(j)'
    <3>1. status'[j] \in Pending => Nowhere(j) BY Zenon, <2>0 DEF JobInv, PendingInv, Moves, Pending
    <3>2. status'[j] \in Pending => j \notin reply'.jobs BY Zenon, <3>1 DEF Nowhere, Replies, Pending
    <3>3. QED BY <3>1, <3>2 DEF PendingInv, Nowhere, agent, Pending
  <2>3. AckInv(j)' BY Zenon, <2>0 DEF JobInv, AckInv, Moves, Replies, agent, Terminal, Settled
  <2>4. ReportedInv(j)'
    <3>1. Kept(j) <=> Kept(j)' BY DEF Kept, agent
    <3>2. ASSUME NEW r \in net, r.receipts[j].status = status'[j], status'[j] \in Progress \cup {"succeeded"} PROVE r.receipts[j] # NoReceipt
      BY Zenon, <3>2, NoReceiptFacts DEF Progress
    <3>3. QED BY Zenon, <2>0, <3>1, <3>2 DEF JobInv, ReportedInv, Moves
  <2>5. Over(j) => Over(j)' BY Zenon, <2>0 DEF Over, Moves, Replies, agent, Terminal, Settled
  <2>6. OnceInv(j)' BY Zenon, <1>1, <2>0, <2>5 DEF JobInv, OnceInv, Started, Reserved, Kept, agent
  <2>7. HonestInv(j)'
    <3>1. Says(j, "succeeded")' => Says(j, "succeeded") BY Zenon, <2>0 DEF Moves, Says, agent
    <3>2. QED BY Zenon, <1>1, <2>0, <3>1 DEF JobInv, HonestInv, Happened, agent
  <2>8. DeclinedInv(j)'
    <3>1. CASE Says(j, "expired") BY <1>1, <2>0, <2>5, <3>1 DEF JobInv, DeclinedInv, agent
    <3>2. CASE ~Says(j, "expired") /\ Kind[j] = "update" /\ Says(j, "expired")'
      <4>1. status[j] = "queued" /\ status'[j] = "expired" BY <2>0, <3>2 DEF Says, Moves, agent
      <4>2. Nowhere(j) BY Zenon, <2>0, <4>1 DEF JobInv, PendingInv
      <4>3. Over(j)' BY <4>1, <4>2 DEF Over, Nowhere, Replies, agent, Terminal, Settled
      <4>4. QED BY Zenon, <1>1, <4>2, <4>3 DEF DeclinedInv, Nowhere, agent
    <3>3. QED BY Zenon, <1>1, <3>1, <3>2 DEF DeclinedInv
  <2>9. QED BY <2>1, <2>2, <2>3, <2>4, <2>6, <2>7, <2>8 DEF JobInv
<1>6. QED BY <1>2, <1>3, <1>5 DEF JobsInv

\* An order of the owner, a cancellation, a deadline and the expiry loop.
LEMMA OwnerKeeps ==
  ASSUME JobsInv, \/ \E j \in Jobs : Submit(j) \/ CancelPending(j) \/ Deadline(j)
                  \/ ExpireJobs
  PROVE  JobsInv'
<1>0. JobsTypeOK BY Zenon DEF JobsInv
<1>1. UNCHANGED <<agent, result, net, reply>>
  BY DEF Submit, CancelPending, Deadline, ExpireJobs, agent, loop, journal, work, host, history
<1>2. Replies BY Zenon, <1>1 DEF Replies
<1>3. ASSUME status' \in [Jobs -> Statuses],
             \A j \in Jobs : \/ status'[j] = status[j]
                             \/ status[j] \in Pending /\ status'[j] \in {"queued", "cancelled"} /\ status[j] # "cancelled"
                             \/ /\ status[j] \notin Terminal /\ status'[j] \in {"expired", "unknown"}
                                /\ Kind[j] = "update" /\ status'[j] = "expired" => status[j] = "queued"
      PROVE  JobsInv'
  <2>1. ASSUME NEW j \in Jobs PROVE Moves(j)
    <3>1. AckInv(j) BY DEF JobsInv, JobInv
    <3>2. status'[j] # status[j] => status[j] \notin Terminal BY <1>3 DEF Terminal, Settled, Pending
    <3>3. status'[j] \in Pending => status[j] \in Pending BY <1>3 DEF Pending
    <3>4. status'[j] \in Progress \cup {"succeeded"} => status'[j] = status[j] BY <1>3 DEF Progress
    <3>5. Kind[j] = "update" /\ status'[j] = "expired" => Says(j, "expired") \/ status[j] = "queued" BY Zenon, <1>3 DEF Says
    <3>6. QED BY <1>1, <3>1, <3>2, <3>3, <3>4, <3>5 DEF Moves, AckInv
  <2>2. QED BY Zenon, <1>0, <1>1, <1>2, <1>3, <2>1, ControllerKeeps DEF JobsTypeOK
<1>4. ASSUME NEW j \in Jobs, Submit(j) PROVE JobsInv'
  BY Zenon, <1>0, <1>3, <1>4 DEF Submit, JobsTypeOK, Statuses, Pending
<1>5. ASSUME NEW j \in Jobs, CancelPending(j) PROVE JobsInv'
  BY Zenon, <1>0, <1>3, <1>5 DEF CancelPending, JobsTypeOK, Statuses, Terminal, Pending
<1>6. ASSUME NEW j \in Jobs, Deadline(j) PROVE JobsInv'
  BY Zenon, <1>0, <1>3, <1>6 DEF Deadline, JobsTypeOK
<1>7. ASSUME ExpireJobs PROVE JobsInv'
  <2>1. status' = Expire(status) BY <1>7 DEF ExpireJobs
  <2>2. \A j \in Jobs : Expired(status, j) \in {"expired", "unknown"} BY Zenon DEF Expired
  <2>3. QED BY <1>0, <1>3, <2>1, <2>2 DEF Expire, Expired, JobsTypeOK, Statuses, Terminal, Settled, Progress
<1>8. QED BY <1>4, <1>5, <1>6, <1>7

\* What the receipts S of r make of a job: statuses a, results b.
AppliedOk(j, r, S, a, b) ==
    /\ a[j] \in Statuses /\ b[j] \in Journalled
    /\ status[j] \in Terminal => a[j] = status[j]
    /\ a[j] = status[j] \/ a[j] = r.receipts[j].status \/ a[j] = "rejected"
    /\ a[j] \in Pending => a[j] = status[j]
    /\ b[j].status \in Settled => a[j] \in Terminal
    /\ j \in S /\ r.receipts[j].status \in Settled /\ ~Conflict(j, r.receipts[j]) => a[j] \in Terminal

\* What ApplyReceipt does with the receipts of S.
LEMMA AppliedFacts ==
  ASSUME JobsInv, NEW r \in net, NEW S, S \subseteq Held(r.receipts), NEW E, NEW j \in Jobs,
         NEW a, a = Applied(r, S, E), NEW b, b = [k \in Jobs |-> IF k \in S THEN Bytes(k, r.receipts[k]) ELSE result[k]]
  PROVE  AppliedOk(j, r, S, a, b)
<1> USE DEF AppliedOk
<1>0. JobsTypeOK /\ AckInv(j) BY Zenon DEF JobsInv, JobInv
<1>1. r.receipts \in Journals BY <1>0 DEF JobsTypeOK
<1>2. r.receipts[j] \in Journalled /\ status[j] \in Statuses /\ result[j] \in Journalled BY Zenon, <1>0, <1>1 DEF Journals, JobsTypeOK
<1>3. CASE j \notin S
  <2>1. a[j] = status[j] /\ b[j] = result[j] BY Zenon, <1>3 DEF Applied
  <2>2. QED BY <1>0, <1>2, <1>3, <2>1 DEF AckInv
<1>4. CASE j \in S
  <2>1. PICK p : a[j] = Apply(j, r.receipts[j], p) BY <1>4 DEF Applied
  <2>2. b[j] = Bytes(j, r.receipts[j]) BY <1>4
  <2>3. r.receipts[j] # NoReceipt BY Zenon, <1>4 DEF Held
  <2>4. r.receipts[j].status \in Progress \cup Settled BY <1>2, <2>3, HeldHasStatus
  <2> DEFINE same == Repeated(j, r.receipts[j]) \/ Conflict(j, r.receipts[j]) \/ Older(j, r.receipts[j])
  <2>5. CASE same
    <3>1. a[j] = status[j] /\ b[j] = result[j] BY Zenon, <2>1, <2>2, <2>5 DEF Apply, Bytes
    <3>2. ASSUME r.receipts[j].status \in Settled, ~Conflict(j, r.receipts[j]) PROVE status[j] \in Terminal
      <4>1. ~Older(j, r.receipts[j]) BY <3>2 DEF Older, Rank, Settled
      <4>2. result[j] = r.receipts[j] BY Zenon, <2>5, <3>2, <4>1 DEF Repeated
      <4>3. QED BY Zenon, <1>0, <3>2, <4>2 DEF AckInv
    <3>3. QED BY Zenon, <1>0, <1>2, <3>1, <3>2 DEF AckInv
  <2>6. CASE ~same
    <3>1. a[j] \in {"rejected", r.receipts[j].status} /\ b[j] = r.receipts[j] BY Zenon, <2>1, <2>2, <2>6 DEF Apply, Bytes
    <3>2. status[j] \notin Terminal BY Zenon, <2>6 DEF Repeated, Conflict
    <3>3. QED BY Zenon, <1>2, <2>4, <3>1, <3>2 DEF Statuses, Terminal, Settled, Progress, Pending
  <2>7. QED BY Zenon, <2>5, <2>6
<1>5. QED BY Zenon, <1>3, <1>4

\* A report that only brings receipts.
LEMMA ReceiptsKeep ==
  ASSUME JobsInv, NEW r \in net, NEW S, S \subseteq Held(r.receipts), NEW E, Ingest(r, S, E),
         UNCHANGED <<agent, reply>>, status' = Applied(r, S, E)
  PROVE  JobsInv'
<1>0. JobsTypeOK BY Zenon DEF JobsInv
<1>1. result' = [k \in Jobs |-> IF k \in S THEN Bytes(k, r.receipts[k]) ELSE result[k]] /\ net' \subseteq net BY Zenon DEF Ingest
<1>2. ASSUME NEW j \in Jobs PROVE Moves(j) /\ status'[j] \in Statuses /\ result'[j] \in Journalled
  <2>1. /\ status'[j] \in Statuses /\ result'[j] \in Journalled
        /\ status[j] \in Terminal => status'[j] = status[j]
        /\ status'[j] = status[j] \/ status'[j] = r.receipts[j].status \/ status'[j] = "rejected"
        /\ status'[j] \in Pending => status'[j] = status[j]
        /\ result'[j].status \in Settled => status'[j] \in Terminal
    <3>1. AppliedOk(j, r, S, status', result') BY Zenon, <1>1, AppliedFacts
    <3>2. QED BY Zenon, <3>1 DEF AppliedOk
  <2>2. status'[j] = "expired" => Says(j, "expired") BY Zenon, <2>1 DEF Says
  <2>3. QED BY Zenon, <2>1, <2>2 DEF Moves, Progress
<1>3. status' \in [Jobs -> Statuses]
  <2>1. status' = [j \in Jobs |-> status'[j]] BY DEF Applied
  <2>2. QED BY <1>2, <2>1
<1>4. result' \in Journals BY <1>1, <1>2 DEF Journals
<1>5. QED BY <1>1, <1>2, <1>3, <1>4, ControllerKeeps DEF Replies

\* A report that is a command poll: expiry and claim follow the receipts.
LEMMA PollKeeps ==
  ASSUME JobsInv, NEW r \in net, NEW E, Ingest(r, Held(r.receipts), E), UNCHANGED agent,
         NEW expired, expired = Expire(Applied(r, Held(r.receipts), E)),
         NEW claimed, claimed = Claimable(expired),
         status' = [j \in Jobs |-> IF j \in claimed THEN "delivered" ELSE expired[j]],
         reply' = IF Awaited(r)
                  THEN [open |-> TRUE, acks |-> {j \in Held(r.receipts) : ~Conflict(j, r.receipts[j])}, jobs |-> claimed]
                  ELSE reply
  PROVE  JobsInv'
<1> DEFINE S == Held(r.receipts)
           a == Applied(r, S, E)
<1>0. JobsTypeOK /\ LoopInv BY DEF JobsInv
<1>1. result' = [k \in Jobs |-> IF k \in S THEN Bytes(k, r.receipts[k]) ELSE result[k]] /\ net' \subseteq net BY Zenon DEF Ingest
<1>2. ASSUME NEW j \in Jobs
      PROVE  /\ a[j] \in Statuses /\ result'[j] \in Journalled
             /\ status[j] \in Terminal => a[j] = status[j]
             /\ a[j] = status[j] \/ a[j] = r.receipts[j].status \/ a[j] = "rejected"
             /\ a[j] \in Pending => a[j] = status[j]
             /\ result'[j].status \in Settled => a[j] \in Terminal
             /\ j \in S /\ r.receipts[j].status \in Settled /\ ~Conflict(j, r.receipts[j]) => a[j] \in Terminal
  <2>1. S \subseteq S OBVIOUS
  <2>2. AppliedOk(j, r, S, a, result') BY Zenon, <1>1, <2>1, AppliedFacts
  <2>3. QED BY Zenon, <2>2 DEF AppliedOk
<1>3. ASSUME NEW j \in Jobs
      PROVE  \/ status'[j] = a[j] /\ (j \notin claimed \/ a[j] = "delivered")
             \/ a[j] \in {"queued", "delivered"} /\ status'[j] = "delivered"
             \/ /\ a[j] \in {"queued", "delivered"} \cup Progress /\ status'[j] \in {"expired", "unknown"} /\ j \notin claimed
                /\ Kind[j] = "update" /\ status'[j] = "expired" => a[j] = "queued"
  BY DEF Expire, Expired, Claimable
<1> HIDE DEF a
<1>4. ASSUME NEW j \in Jobs PROVE Moves(j)
  <2>1. status[j] \in Terminal => status'[j] = status[j] BY <1>2, <1>3 DEF Terminal, Settled, Progress
  <2>2. status'[j] \in Pending => status[j] \in Pending BY Zenon, <1>2, <1>3 DEF Pending
  <2>3. status'[j] \in Progress \cup {"succeeded"} =>
          status'[j] = status[j] \/ \E q \in net : q.receipts[j].status = status'[j]
    BY Zenon, <1>2, <1>3 DEF Progress
  <2>4. Kind[j] = "update" /\ status'[j] = "expired" => Says(j, "expired") \/ status[j] = "queued"
    <3>1. a[j] = "queued" => status[j] = "queued" BY Zenon, <1>2 DEF Pending
    <3>2. QED BY Zenon, <1>2, <1>3, <3>1 DEF Says
  <2>5. result'[j].status \in Settled => status'[j] \in Terminal BY Zenon, <1>2, <1>3 DEF Terminal, Settled, Progress
  <2>6. QED BY Zenon, <2>1, <2>2, <2>3, <2>4, <2>5 DEF Moves
<1>5. status' \in [Jobs -> Statuses]
  <2>1. \A j \in Jobs : status'[j] \in Statuses BY Zenon, <1>2, <1>3 DEF Statuses, Terminal, Settled
  <2>2. QED BY Zenon, <2>1
<1>6. result' \in Journals BY <1>1, <1>2 DEF Journals
<1>7. Replies
  <2>1. CASE ~Awaited(r) BY Zenon, <2>1 DEF Replies
  <2>2. CASE Awaited(r)
    <3>1. pc = "wait" /\ r.receipts = sent BY Zenon, <1>0, <2>2 DEF Awaited, LoopInv
    <3>2. claimed \subseteq Jobs /\ S \subseteq Jobs BY Zenon DEF Claimable, Held
    <3>3. \A j \in claimed : status'[j] = "delivered" BY Zenon, <3>2
    <3>4. ASSUME NEW j \in S, ~Conflict(j, r.receipts[j]), sent[j].status \in Settled PROVE status'[j] \in Terminal
      BY <1>2, <1>3, <3>1, <3>2, <3>4 DEF Terminal, Settled, Progress
    <3>5. QED BY <2>2, <3>1, <3>2, <3>3, <3>4 DEF Replies
  <2>3. QED BY Zenon, <2>1, <2>2
<1>8. QED BY <1>1, <1>4, <1>5, <1>6, <1>7, ControllerKeeps

\* A report, whole or cut short.
LEMMA HandleReportKeeps ==
  ASSUME JobsInv, NEW r \in net, NEW E, HandleReport(r, E) \/ \E S \in SUBSET Jobs : HandleReportCut(r, S, E)
  PROVE  JobsInv'
<1>1. UNCHANGED agent BY DEF HandleReport, HandleReportCut, Ingest, agent, loop, journal, work, host, history
<1>2. ASSUME HandleReport(r, E) PROVE JobsInv'
  <2>1. Ingest(r, Held(r.receipts), E) BY <1>2 DEF HandleReport
  <2>2. CASE status' = Applied(r, Held(r.receipts), E) /\ reply' = reply
    <3>1. Held(r.receipts) \subseteq Held(r.receipts) OBVIOUS
    <3>2. QED BY <1>1, <2>1, <2>2, <3>1, ReceiptsKeep
  <2>3. CASE ~(status' = Applied(r, Held(r.receipts), E) /\ reply' = reply) BY Zenon, <1>1, <1>2, <2>1, <2>3, PollKeeps DEF HandleReport
  <2>4. QED BY Zenon, <2>2, <2>3
<1>3. ASSUME NEW S \in SUBSET Jobs, HandleReportCut(r, S, E) PROVE JobsInv'
  BY <1>1, <1>3, ReceiptsKeep DEF HandleReportCut
<1>4. QED BY Zenon, <1>2, <1>3

-----------------------------------------------------------------------------
(* The agent's process and the service host *)

told == <<scenario, status, result, net>>

\* An empty journal holds nothing.
LEMMA EmptyFacts == Empty \in Journals /\ \A j \in Jobs : Empty[j] = NoReceipt
BY Zenon, NoReceiptFacts DEF Empty, Journals

\* The worker is gone, and the host may have acted on a request: what the
\* journal and the intent hold is enough.
LEMMA GoneKeeps ==
  ASSUME JobsInv, Gone, UNCHANGED <<told, session, tick, disk, intent, late, unsaved, survived, faults>>,
         queue' \subseteq queue, effects' \in [Jobs -> {0, 1, 2}],
         \A j \in Jobs : \/ effects'[j] = effects[j]
                         \/ j \in queue \ queue' /\ (effects[j] = 0 => effects'[j] = 1) /\ effects'[j] # 0,
         outcome' \in [Jobs -> {"none", "confirmed", "rolledback"}], probation' \in Jobs \cup {NoJob},
         \A j \in Jobs : outcome'[j] = "confirmed" => outcome[j] = "confirmed"
  PROVE  JobsInv'
<1>0. JobsTypeOK /\ LoopInv BY DEF JobsInv
<1>1. Kind' = Kind BY Zenon, KindKept DEF told
<1>2. JobsTypeOK' BY Zenon, <1>0, EmptyFacts, NoReceiptFacts DEF JobsTypeOK, Gone, told, NoReply, NoJob
<1>3. LoopInv' BY Zenon, <1>0, JobDeliveryConstants DEF LoopInv, Gone, told, NoReply, NoJob
<1>5. ASSUME NEW j \in Jobs PROVE JobInv(j)'
  <2>0. JobInv(j) /\ mem'[j] = NoReceipt /\ sent'[j] = NoReceipt /\ job' # j BY Zenon, EmptyFacts, JobDeliveryConstants DEF JobsInv, Gone, NoJob
  <2>1. KindInv(j)' BY <1>1, <2>0 DEF JobInv, KindInv, Gone, told
  <2>2. PendingInv(j)' BY Zenon, <2>0 DEF JobInv, PendingInv, Nowhere, Gone, told, NoReply
  <2>3. AckInv(j)' BY Zenon, <2>0 DEF JobInv, AckInv, Gone, told, NoReply
  <2>4. ReportedInv(j)' BY Zenon, <2>0 DEF JobInv, ReportedInv, Kept, Gone, told
  <2>5. Over(j) => Over(j)' BY Zenon DEF Over, Gone, told, NoReply
  <2>6. OnceInv(j)'
    <3>1. Started(j)' => Started(j) BY Zenon, <1>1 DEF Started, told
    <3>2. Reserved(j) => Reserved(j)' BY Zenon DEF Reserved, Gone
    <3>3. Kept(j) => Kept(j)' BY Zenon DEF Kept, Gone
    <3>4. Started(j) => effects'[j] # 2 /\ ~(j \in queue' /\ effects'[j] # 0)
      <4>1. Started(j) => effects[j] # 2 /\ ~(j \in queue /\ effects[j] # 0) BY Zenon, <2>0 DEF JobInv, OnceInv
      <4>2. effects[j] \in {0, 1, 2} /\ effects'[j] \in {0, 1, 2} BY Zenon, <1>0 DEF JobsTypeOK
      <4>3. QED BY <4>1, <4>2
    <3>5. QED BY Zenon, <2>0, <2>5, <3>1, <3>2, <3>3, <3>4 DEF JobInv, OnceInv
  <2>7. HonestInv(j)'
    <3>1. Says(j, "succeeded")' => Says(j, "succeeded") BY Zenon, <2>0, NoReceiptFacts DEF Says, told
    <3>2. effects[j] # 0 => effects'[j] # 0 OBVIOUS
    <3>3. QED BY Zenon, <1>1, <2>0, <3>1, <3>2 DEF JobInv, HonestInv, Happened
  <2>8. DeclinedInv(j)'
    <3>1. Says(j, "expired")' => Says(j, "expired") BY <2>0, NoReceiptFacts DEF Says, told
    <3>2. QED BY Zenon, <1>1, <2>0, <3>1 DEF JobInv, DeclinedInv, Gone
  <2>9. QED BY <2>1, <2>2, <2>3, <2>4, <2>6, <2>7, <2>8 DEF JobInv
<1>6. QED BY Zenon, <1>2, <1>3, <1>5 DEF JobsInv

\* The worker is killed, exits, or is stopped by the service host.
LEMMA EndsKeep ==
  ASSUME JobsInv, Crash \/ Exit \/ RollBack \/ \E j \in Jobs : Perform(j)
  PROVE  JobsInv'
<1>0. JobsTypeOK BY Zenon DEF JobsInv
<1>1. CASE Crash \/ Exit BY Zenon, <1>0, <1>1, GoneKeeps DEF Crash, Exit, JobsTypeOK, controller, host, history, told
<1>2. CASE RollBack
  <2>1. outcome' \in [Jobs -> {"none", "confirmed", "rolledback"}] /\ \A j \in Jobs : outcome'[j] = "confirmed" => outcome[j] = "confirmed"
    BY Zenon, <1>0, <1>2 DEF RollBack, JobsTypeOK
  <2>2. QED BY Zenon, <1>0, <1>2, <2>1, GoneKeeps DEF RollBack, JobsTypeOK, controller, history, told
<1>3. ASSUME NEW j \in Jobs, Perform(j) PROVE JobsInv'
  <2>1. /\ outcome' \in [Jobs -> {"none", "confirmed", "rolledback"}] /\ probation' \in Jobs \cup {NoJob}
        /\ \A k \in Jobs : outcome'[k] = "confirmed" => outcome[k] = "confirmed"
    <3>1. \/ probation' = j /\ outcome' = [k \in Jobs |-> "none"]
          \/ probation' = probation /\ outcome' = outcome
      BY Zenon, <1>3 DEF Perform
    <3>2. "none" # "confirmed" OBVIOUS
    <3>3. QED BY Zenon, <1>0, <3>1, <3>2 DEF JobsTypeOK
  <2>2. Twice(effects[j]) \in {1, 2} /\ (effects[j] = 0 => Twice(effects[j]) = 1) BY Zenon, <1>0, TwiceFacts DEF JobsTypeOK
  <2>3. /\ effects' \in [Jobs -> {0, 1, 2}] /\ effects'[j] = Twice(effects[j])
        /\ \A k \in Jobs : k # j => effects'[k] = effects[k]
    BY Zenon, <1>0, <1>3, <2>2 DEF Perform, JobsTypeOK
  <2>4. queue' = queue \ {j} /\ j \in queue BY <1>3 DEF Perform
  <2>5. QED BY <1>3, <2>1, <2>2, <2>3, <2>4, GoneKeeps DEF Perform, controller, told
<1>4. QED BY <1>1, <1>2, <1>3

\* The service host concludes an update, or the worker is told to stop.
LEMMA ConfirmKeeps ==
  ASSUME JobsInv, Confirm \/ Stop
  PROVE  JobsInv'
<1>0. JobsTypeOK /\ LoopInv BY Zenon DEF JobsInv
<1>1. UNCHANGED <<told, reply, session, tick, pc, mem, disk, sent, todo, job, rec, trials, intent, queue, effects, unsaved, late, faults>>
  BY Zenon DEF Confirm, Stop, told, controller, loop, journal, work, host, history
<1>2. Kind' = Kind BY Zenon, <1>1, KindKept DEF told
<1>3. /\ outcome' \in [Jobs -> {"none", "confirmed", "rolledback"}] /\ probation' \in Jobs \cup {NoJob}
      /\ survived \subseteq survived' /\ \A j \in Jobs : outcome'[j] = "confirmed" => outcome[j] = "confirmed" \/ j \in survived'
  BY <1>0, JobDeliveryConstants DEF Confirm, Stop, JobsTypeOK, NoJob, host, history
<1>4. JobsTypeOK' BY Zenon, <1>0, <1>1, <1>3 DEF JobsTypeOK, told
<1>5. LoopInv' BY <1>0, <1>1, <1>2 DEF LoopInv, told
<1>7. ASSUME NEW j \in Jobs PROVE JobInv(j)'
  <2>0. JobInv(j) BY Zenon DEF JobsInv
  <2>1. KindInv(j)' /\ PendingInv(j)' /\ AckInv(j)' BY Zenon, <1>1, <1>2, <2>0 DEF JobInv, KindInv, PendingInv, Nowhere, AckInv, told
  <2>2. ReportedInv(j)' /\ OnceInv(j)' BY <1>1, <1>2, <2>0 DEF JobInv, ReportedInv, OnceInv, Started, Reserved, Kept, Over, told
  <2>3. \A s : Says(j, s)' <=> Says(j, s) BY Zenon, <1>1 DEF Says, told
  <2>4. HonestInv(j)' BY Zenon, <1>1, <1>2, <1>3, <2>0, <2>3 DEF JobInv, HonestInv, Happened
  <2>5. DeclinedInv(j)' BY Zenon, <1>1, <1>2, <2>0, <2>3 DEF JobInv, DeclinedInv, Over, told
  <2>6. QED BY <2>1, <2>2, <2>4, <2>5 DEF JobInv
<1>8. QED BY <1>4, <1>5, <1>7 DEF JobsInv

\* loadJobs neither loses nor adds a receipt, and at most makes it a failure.
LEMMA LoadedFacts ==
  ASSUME JobsTypeOK
  PROVE  /\ Loaded \in Journals
         /\ \A j \in Jobs : /\ Loaded[j] = NoReceipt <=> disk[j] = NoReceipt
                            /\ Loaded[j].status = disk[j].status \/ Loaded[j].status = "failed"
<1> SUFFICES ASSUME NEW j \in Jobs
             PROVE  /\ Loaded[j] \in Journalled
                    /\ Loaded[j] = NoReceipt <=> disk[j] = NoReceipt
                    /\ Loaded[j].status = disk[j].status \/ Loaded[j].status = "failed"
  <2>1. Loaded = [j \in Jobs |-> Loaded[j]] BY DEF Loaded
  <2>2. QED BY <2>1 DEF Journals
<1>1. disk[j] \in Journalled BY DEF JobsTypeOK, Journals
<1>2. CASE Kind[j] = "trial" /\ disk[j].status = "accepted"
  <2>1. Loaded[j] = [disk[j] EXCEPT !.status = "failed"] BY <1>2 DEF Loaded
  <2>2. disk[j] \in [status : Progress \cup Settled, tick : Nat, session : Nat] BY <1>1, <1>2, NoReceiptFacts DEF Journalled
  <2>3. Loaded[j] \in [status : Progress \cup Settled, tick : Nat, session : Nat] /\ Loaded[j].status = "failed"
    BY <2>1, <2>2 DEF Settled
  <2>4. QED BY <1>2, <2>3, NoReceiptFacts DEF Journalled
<1>3. CASE ~(Kind[j] = "trial" /\ disk[j].status = "accepted") BY <1>1, <1>3 DEF Loaded
<1>4. QED BY <1>2, <1>3

\* Open: what the journal or the intent holds is in memory again before the
\* agent takes up a job.
LEMMA OpenKeeps ==
  ASSUME JobsInv, Open
  PROVE  JobsInv'
<1> DEFINE held == [status |-> "awaiting", tick |-> 0, session |-> 0]
           with == [Loaded EXCEPT ![intent.job] = held]
<1>0. JobsTypeOK /\ LoopInv BY Zenon DEF JobsInv
<1>1. UNCHANGED <<told, reply, tick, sent, todo, job, rec, trials, intent, queue, probation, outcome, effects, survived, unsaved, late>>
  BY DEF Open, told, controller, work, host, history
<1>2. Kind' = Kind BY <1>1, KindKept DEF told
<1>3. pc = "down" /\ todo = {} /\ trials = {} /\ ~reply.open /\ reply.jobs = {} /\ job \notin Jobs BY Zenon, <1>0 DEF Open, LoopInv
<1>4. /\ mem' \in Journals /\ disk' \in Journals /\ session' \in Nat
      /\ \A j \in Jobs : /\ disk[j] # NoReceipt => disk'[j] # NoReceipt
                         /\ disk'[j] # NoReceipt /\ disk[j] = NoReceipt => j = intent.job
                         /\ disk'[j].status \in {disk[j].status, "failed", "awaiting"}
                         /\ mem'[j].status \in {mem[j].status, disk[j].status, "failed", "awaiting"}
      /\ \/ pc' = "down" /\ mem' = mem
         \/ /\ pc' = "idle"
            /\ \A j \in Jobs : /\ disk'[j] # NoReceipt \/ intent.job = j <=> mem'[j] # NoReceipt
                               /\ intent.job = j => disk'[j] # NoReceipt
  <2>0. session' \in Nat
    <3>1. session \in Nat /\ session' = session + 1 BY Zenon, <1>0 DEF Open, JobsTypeOK
    <3>2. QED BY <3>1
  <2>1. CASE intent # NoIntent /\ disk[intent.job] = NoReceipt
    <3>1. intent.job \in Jobs BY <1>0, <2>1 DEF JobsTypeOK
    <3>2. held \in Journalled /\ held # NoReceipt /\ held.status = "awaiting" BY Zenon DEF Journalled, NoReceipt, Progress
    <3> HIDE DEF held
    <3>a. Loaded \in Journals BY <1>0, LoadedFacts
    <3>3. with \in Journals /\ with[intent.job] = held /\ \A j \in Jobs : j # intent.job => with[j] = Loaded[j]
      BY Zenon, <3>1, <3>2, <3>a DEF Journals
    <3> USE DEF held
    <3>4. /\ disk' \in {disk, with}
          /\ (pc' = "down" /\ mem' = mem) \/ (pc' = "idle" /\ mem' = with /\ disk' = with)
      BY Zenon, <1>3, <2>1 DEF Open, Saved, NotSaved
    <3> HIDE DEF with, held
    <3>5. disk' \in Journals /\ mem' \in Journals BY <1>0, <3>3, <3>4 DEF JobsTypeOK
    <3>6. \A j \in Jobs : (with[j] = NoReceipt <=> disk[j] = NoReceipt /\ j # intent.job)
                          /\ with[j].status \in {disk[j].status, "failed", "awaiting"}
      BY Zenon, <1>0, <3>2, <3>3, LoadedFacts
    <3>7. QED BY Zenon, <2>0, <2>1, <3>1, <3>4, <3>5, <3>6
  <2>2. CASE ~(intent # NoIntent /\ disk[intent.job] = NoReceipt)
    <3>1. mem' = Loaded /\ pc' = "idle" /\ disk' = disk BY <2>2 DEF Open
    <3>2. \A j \in Jobs : intent.job = j => disk[j] # NoReceipt BY Zenon, <1>0, <2>2, JobDeliveryConstants DEF JobsTypeOK, NoJob
    <3>3. QED BY Zenon, <1>0, <2>0, <3>1, <3>2, LoadedFacts DEF JobsTypeOK
  <2>3. QED BY Zenon, <2>1, <2>2
<1>5. JobsTypeOK' BY Zenon, <1>0, <1>1, <1>4 DEF JobsTypeOK, told
<1>6. LoopInv' BY <1>0, <1>1, <1>2, <1>3, <1>4 DEF LoopInv, told
<1>7. ASSUME NEW j \in Jobs PROVE JobInv(j)'
  <2>0. JobInv(j) BY Zenon DEF JobsInv
  <2>1. KindInv(j)' BY <1>1, <1>2, <1>3, <2>0 DEF JobInv, KindInv, told
  <2>2. PendingInv(j)'
    <3>1. Nowhere(j) => mem'[j] = NoReceipt /\ disk'[j] = NoReceipt BY Zenon, <1>4 DEF Nowhere
    <3>2. QED BY Zenon, <1>1, <2>0, <3>1 DEF JobInv, PendingInv, Nowhere, told
  <2>3. AckInv(j)' BY <1>1, <2>0 DEF JobInv, AckInv, told
  <2>4. Kept(j) => Kept(j)' BY Zenon, <1>3, <1>4 DEF Kept
  <2>5. ReportedInv(j)' BY Zenon, <1>1, <2>0, <2>4 DEF JobInv, ReportedInv, told
  <2>6. Over(j) => Over(j)' BY Zenon, <1>1 DEF Over, told
  <2>7. Reserved(j) => Reserved(j)' \/ Kept(j)' BY Zenon, <1>1, <1>3, <1>4 DEF Reserved, Kept
  <2>8. OnceInv(j)' BY Zenon, <1>1, <1>2, <2>0, <2>4, <2>6, <2>7 DEF JobInv, OnceInv, Started
  <2>9. ASSUME NEW s \in {"succeeded", "expired"} PROVE Says(j, s)' => Says(j, s)
    BY Zenon, <1>1, <1>4, <2>9 DEF Says, told
  <2>10. HonestInv(j)' BY Zenon, <1>1, <1>2, <2>0, <2>9 DEF JobInv, HonestInv, Happened
  <2>11. DeclinedInv(j)'
    <3>1. CASE pc' = "down" BY Zenon, <1>1, <1>2, <2>0, <2>9, <3>1 DEF JobInv, DeclinedInv
    <3>2. CASE pc' = "idle" /\ disk'[j] # NoReceipt
      <4>1. mem'[j] # NoReceipt BY Zenon, <1>4, <3>2
      <4>2. QED BY Zenon, <1>1, <1>2, <2>0, <2>9, <4>1 DEF JobInv, DeclinedInv
    <3>3. CASE pc' = "idle" /\ disk'[j] = NoReceipt /\ Says(j, "expired")'
      <4>1. disk[j] = NoReceipt /\ mem'[j] = NoReceipt /\ ~Kept(j) BY Zenon, <1>4, <3>3 DEF Kept
      <4>2. status[j] = "expired" \/ \E r \in net : r.receipts[j].status = "expired"
        BY Zenon, <1>1, <1>3, <3>3, <4>1, NoReceiptFacts DEF Says, told
      <4>3. status[j] \in Terminal BY Zenon, <2>0, <4>1, <4>2, NoReceiptFacts DEF JobInv, ReportedInv, Terminal, Settled
      <4>4. Over(j)' BY <1>1, <1>3, <4>3 DEF Over, told
      <4>5. QED BY Zenon, <1>1, <1>2, <2>0, <2>9, <4>4 DEF JobInv, DeclinedInv
    <3>4. QED BY Zenon, <1>4, <3>1, <3>2, <3>3 DEF DeclinedInv
  <2>12. QED BY <2>1, <2>2, <2>3, <2>5, <2>8, <2>10, <2>11 DEF JobInv
<1>8. QED BY <1>5, <1>6, <1>7 DEF JobsInv

-----------------------------------------------------------------------------
(* The agent's loop *)

\* What a step of the loop, while it is not waiting for the service host, has
\* to keep of a job.
Continues(j) ==
    /\ KindInv(j)' /\ AckInv(j)' /\ (Nowhere(j) => Nowhere(j)')
    /\ (Kept(j) => Kept(j)' \/ Over(j)') /\ (Over(j) => Over(j)')
    /\ (\E r \in net' : r.receipts[j] # NoReceipt) => Kept(j)' \/ \E r \in net : r.receipts[j] # NoReceipt
    /\ \/ effects'[j] = effects[j]
       \/ Kind[j] = "direct" /\ effects'[j] # 0
       \/ Kind[j] = "trial" /\ effects'[j] = 1 /\ Kept(j)'
    /\ Says(j, "succeeded")' => Says(j, "succeeded") \/ Happened(j)'
    /\ Says(j, "expired")' /\ Kind[j] = "update" /\ j \notin late \cup unsaved' =>
          /\ Says(j, "expired") \/ ~Started(j)
          /\ mem'[j] # NoReceipt \/ job' = j \/ Over(j)'

\* A step that keeps this keeps the invariant.
LEMMA LoopKeeps ==
  ASSUME JobsInv, JobsTypeOK', LoopInv', pc \notin {"down", "call"}, unsaved \subseteq unsaved',
         UNCHANGED <<scenario, status, result, queue, outcome, survived, late>>,
         \A j \in Jobs : Continues(j)
  PROVE  JobsInv'
<1>1. Kind' = Kind BY KindKept
<1>2. ASSUME NEW j \in Jobs PROVE JobInv(j)'
  <2>0. JobInv(j) /\ Continues(j) BY Zenon DEF JobsInv
  <2>1. KindInv(j)' /\ AckInv(j)' BY Zenon, <2>0 DEF Continues
  <2>2. PendingInv(j)' BY Zenon, <2>0 DEF JobInv, PendingInv, Continues
  <2>3. ReportedInv(j)' BY Zenon, <2>0 DEF JobInv, ReportedInv, Continues, Over
  <2>4. OnceInv(j)'
    <3>1. ~Reserved(j) BY Zenon DEF Reserved
    <3>2. CASE Kind[j] = "trial" /\ effects'[j] = 1 /\ Kept(j)'
      <4>1. j \notin queue' BY <1>1, <2>1, <3>2 DEF KindInv, Lifecycle
      <4>2. QED BY Zenon, <3>2, <4>1, Numerals DEF OnceInv
    <3>3. CASE Kind[j] = "direct" BY Zenon, <1>1, <3>3 DEF OnceInv, Started, Lifecycle
    <3>4. CASE effects'[j] = effects[j]
      <4>1. Started(j)' <=> Started(j) BY Zenon, <1>1, <3>4 DEF Started
      <4>2. QED BY <2>0, <3>1, <3>4, <4>1 DEF JobInv, OnceInv, Continues
    <3>5. QED BY <2>0, <3>2, <3>3, <3>4 DEF Continues
  <2>5. HonestInv(j)'
    <3>1. Happened(j) => Happened(j)' BY Zenon, <1>1, <2>0, Numerals DEF Happened, Continues
    <3>2. QED BY Zenon, <2>0, <3>1 DEF JobInv, HonestInv, Continues
  <2>6. DeclinedInv(j)'
    <3>1. ASSUME Kind[j] = "update", Says(j, "expired")', j \notin late \cup unsaved'
          PROVE  effects[j] = 0 /\ j \notin queue
      <4>1. CASE Says(j, "expired") BY Zenon, <2>0, <3>1, <4>1 DEF JobInv, DeclinedInv
      <4>2. CASE ~Started(j) BY Zenon, <3>1, <4>2 DEF Started, Lifecycle
      <4>3. QED BY Zenon, <2>0, <3>1, <4>1, <4>2 DEF Continues
    <3>2. Kind[j] = "update" => effects'[j] = effects[j] BY Zenon, <2>0 DEF Continues
    <3>3. QED BY Zenon, <1>1, <2>0, <3>1, <3>2 DEF DeclinedInv, Continues
  <2>7. QED BY <2>1, <2>2, <2>3, <2>4, <2>5, <2>6 DEF JobInv
<1>3. QED BY <1>2 DEF JobsInv

\* The request failed or timed out.
LEMMA GiveUpKeeps == JobsInv /\ GiveUp => JobsInv'
<1> SUFFICES ASSUME JobsInv, GiveUp PROVE JobsInv' OBVIOUS
<1>0. JobsTypeOK /\ LoopInv BY DEF JobsInv
<1>1. /\ UNCHANGED <<scenario, status, result, net, session, tick, mem, disk, todo, job, rec, trials, intent, queue, probation,
                     outcome, effects, survived, unsaved, late>>
      /\ pc = "wait" /\ pc' = "idle" /\ reply' = NoReply /\ sent' = Empty
  BY DEF GiveUp, controller, journal, host, history
<1>2. Kind' = Kind BY Zenon, <1>1, KindKept
<1>3. JobsTypeOK' BY <1>0, <1>1, EmptyFacts DEF JobsTypeOK, NoReply
<1>4. LoopInv' BY Zenon, <1>0, <1>1, <1>2 DEF LoopInv, NoReply
<1>5. ASSUME NEW j \in Jobs PROVE Continues(j)
  <2>0. JobInv(j) BY DEF JobsInv
  <2>1. KindInv(j)' /\ AckInv(j)' BY Zenon, <1>1, <1>2, <2>0 DEF JobInv, KindInv, AckInv, NoReply
  <2>2. Nowhere(j) => Nowhere(j)' BY Zenon, <1>1, EmptyFacts DEF Nowhere, NoReply
  <2>3. (Kept(j) => Kept(j)') /\ (Over(j) => Over(j)') BY <1>1 DEF Kept, Over, NoReply
  <2>4. \A s : Says(j, s)' <=> Says(j, s) BY Zenon, <1>1 DEF Says
  <2>5. Says(j, "expired") /\ Kind[j] = "update" /\ j \notin late \cup unsaved' => mem'[j] # NoReceipt \/ job' = j \/ Over(j)'
    BY <1>1, <2>0, <2>3 DEF JobInv, DeclinedInv
  <2>6. QED BY <1>1, <2>1, <2>2, <2>3, <2>4, <2>5 DEF Continues
<1>6. QED BY <1>1, <1>3, <1>4, <1>5, LoopKeeps

\* A job the agent does not take up, and the end of a tick.
LEMMA IgnoreKeeps == JobsInv /\ (Drain \/ \E j \in Jobs : Ignore(j)) => JobsInv'
<1> SUFFICES ASSUME JobsInv, Drain \/ \E j \in Jobs : Ignore(j) PROVE JobsInv' OBVIOUS
<1>0. JobsTypeOK /\ LoopInv BY Zenon DEF JobsInv
<1>1. /\ UNCHANGED <<scenario, status, result, net, reply, sent, session, tick, mem, disk, job, rec, trials, intent, queue, probation,
                     outcome, effects, survived, unsaved, late>>
      /\ pc = "jobs" /\ pc' \in {"jobs", "idle"} /\ todo' \subseteq todo /\ (pc' = "idle" => todo = {})
  BY DEF Drain, Ignore, Taken, controller, loop, journal, work, host, history
<1>2. Kind' = Kind BY Zenon, <1>1, KindKept
<1>3. JobsTypeOK' BY <1>0, <1>1 DEF JobsTypeOK
<1>4. LoopInv' BY Zenon, <1>0, <1>1, <1>2 DEF LoopInv
<1>5. ASSUME NEW j \in Jobs PROVE Continues(j)
  <2>0. JobInv(j) BY Zenon DEF JobsInv
  <2>1. KindInv(j)' /\ AckInv(j)' BY Zenon, <1>1, <1>2, <2>0 DEF JobInv, KindInv, AckInv
  <2>2. Nowhere(j) => Nowhere(j)' BY <1>1 DEF Nowhere
  <2>3. (Kept(j) => Kept(j)') /\ (Over(j) => Over(j)') BY Zenon, <1>1 DEF Kept, Over
  <2>4. \A s : Says(j, s)' <=> Says(j, s) BY Zenon, <1>1 DEF Says
  <2>5. Says(j, "expired") /\ Kind[j] = "update" /\ j \notin late \cup unsaved' => mem'[j] # NoReceipt \/ job' = j \/ Over(j)'
    BY Zenon, <1>1, <2>0, <2>3 DEF JobInv, DeclinedInv
  <2>6. QED BY <1>1, <2>1, <2>2, <2>3, <2>4, <2>5 DEF Continues
<1>6. QED BY <1>1, <1>3, <1>4, <1>5, LoopKeeps

\* A job that is about to be taken up has not started before, unless the host
\* acted after the call to it was given up.
LEMMA FreshNotStarted ==
  ASSUME JobsInv, NEW j \in Jobs, pc = "jobs", j \in todo, mem[j] = NoReceipt
  PROVE  ~Started(j) /\ ~Kept(j) /\ ~Over(j) /\ ~Nowhere(j)
BY DEF JobsInv, JobInv, OnceInv, Kept, Over, Reserved, Nowhere

\* The agent has an answer for a job, and nothing else has changed than what
\* the job did: a command that ran, or an intent that could not be kept.
LEMMA AnswerKeeps ==
  ASSUME JobsInv, NEW j \in Jobs, Taken(j), Fresh(j), NEW s \in Progress \cup Settled, Answer(j, s),
         UNCHANGED <<mem, queue, probation, outcome, survived, unsaved, late>>,
         disk' \in Journals, \A k \in Jobs : disk'[k] \in {disk[k], mem[k]} \/ (k = j /\ disk'[k].status = "accepted"),
         effects' \in [Jobs -> {0, 1, 2}], \A k \in Jobs : k # j => effects'[k] = effects[k],
         effects'[j] = effects[j] \/ (Kind[j] = "direct" /\ effects'[j] # 0),
         s = "succeeded" => Kind[j] = "direct" /\ effects'[j] # 0,
         intent' = intent \/ (Kind[j] \in Lifecycle /\ intent'.job = j /\ intent' # NoIntent)
  PROVE  JobsInv'
<1>0. JobsTypeOK /\ LoopInv BY DEF JobsInv
<1>1. /\ UNCHANGED <<scenario, status, result, net, reply, sent, session, tick, trials>>
      /\ pc = "jobs" /\ pc' = "save" /\ todo' = todo \ {j} /\ j \in todo /\ job' = j /\ rec' = Receipt(s) /\ mem[j] = NoReceipt
  BY DEF Taken, Fresh, Answer, controller
<1>2. Kind' = Kind BY <1>1, KindKept
<1>3. Receipt(s) \in Journalled /\ Receipt(s) # NoReceipt /\ Receipt(s).status = s BY Zenon, <1>0, ReceiptFacts
<1>4. JobsTypeOK'
  <2>1. intent'.job \in Jobs \cup {NoJob} /\ (intent' = NoIntent <=> intent'.job = NoJob)
    BY Zenon, <1>0, IntentFacts DEF JobsTypeOK
  <2>2. todo' \subseteq Jobs BY Zenon, <1>0, <1>1 DEF JobsTypeOK
  <2>3. QED BY Zenon, <1>0, <1>1, <1>3, <2>1, <2>2 DEF JobsTypeOK
<1>5. LoopInv' BY Zenon, <1>0, <1>1, <1>2, <1>3 DEF LoopInv
<1>6. ASSUME NEW k \in Jobs PROVE Continues(k)
  <2>0. JobInv(k) BY Zenon DEF JobsInv
  <2>1. KindInv(k)' /\ AckInv(k)'
    <3>1. k \in trials => effects'[k] # 0 BY Zenon, <2>0 DEF JobInv, KindInv
    <3>2. intent'.job = k => intent.job = k \/ Kind[k] \in Lifecycle BY Zenon, IntentFacts
    <3>3. QED BY Zenon, <1>1, <1>2, <2>0, <3>1, <3>2 DEF JobInv, KindInv, AckInv
  <2>2. CASE k = j
    <3>1. ~Started(k) /\ ~Kept(k) /\ ~Over(k) /\ ~Nowhere(k) BY Zenon, <1>1, <2>2, FreshNotStarted
    <3>2. Says(k, "succeeded")' => Says(k, "succeeded") \/ (Kind[j] = "direct" /\ effects'[j] # 0)
      BY <1>1, <1>3, <2>2 DEF Says
    <3>3. Kind[j] = "direct" /\ effects'[j] # 0 => Happened(k)' BY Zenon, <1>2, <2>2 DEF Happened
    <3>4. QED BY Zenon, <1>1, <2>1, <2>2, <3>1, <3>2, <3>3 DEF Continues
  <2>3. CASE k # j
    <3>1. disk'[k] \in {disk[k], mem[k]} /\ effects'[k] = effects[k] BY Zenon, <2>3
    <3>2. Nowhere(k) => Nowhere(k)' BY <1>1, <2>3, <3>1 DEF Nowhere
    <3>3. (Kept(k) => Kept(k)') /\ (Over(k) => Over(k)') BY Zenon, <1>1, <3>1 DEF Kept, Over
    <3>4. \A t : Says(k, t)' => Says(k, t) BY <1>1, <2>3, <3>1 DEF Says
    <3>5. job # k BY Zenon, <1>0, <1>1 DEF LoopInv
    <3>6. Says(k, "expired") /\ Kind[k] = "update" /\ k \notin late \cup unsaved' => mem'[k] # NoReceipt \/ job' = k \/ Over(k)'
      BY <1>1, <2>0, <3>3, <3>5 DEF JobInv, DeclinedInv
    <3>7. QED BY Zenon, <1>1, <2>1, <3>1, <3>2, <3>3, <3>4, <3>6 DEF Continues
  <2>4. QED BY Zenon, <2>2, <2>3
<1>7. QED BY <1>1, <1>4, <1>5, <1>6, LoopKeeps

\* Declined, collected later, or carried out at once.
LEMMA DeclineKeeps ==
  ASSUME JobsInv, NEW j \in Jobs, Decline(j) \/ Collect(j) \/ Execute(j)
  PROVE  JobsInv'
<1>0. JobsTypeOK BY Zenon DEF JobsInv
<1>1. /\ Taken(j) /\ Fresh(j) /\ UNCHANGED <<mem, disk, intent, queue, probation, outcome, survived, unsaved, late>>
      /\ disk' \in Journals
  BY Zenon, <1>0 DEF Decline, Collect, Execute, journal, host, history, JobsTypeOK
<1>2. ASSUME Decline(j) \/ Collect(j) PROVE JobsInv'
  <2>1. effects' = effects BY <1>2 DEF Decline, Collect, history
  <2>2. PICK s \in {"rejected", "expired", "failed", "accepted"} : Answer(j, s) BY <1>2 DEF Decline, Collect
  <2>3. s \in Progress \cup Settled /\ s # "succeeded" BY Zenon DEF Progress, Settled
  <2>4. QED BY <1>0, <1>1, <2>1, <2>2, <2>3, AnswerKeeps DEF JobsTypeOK
<1>3. ASSUME Execute(j) PROVE JobsInv'
  <2>1. effects \in [Jobs -> {0, 1, 2}] /\ Twice(effects[j]) \in {1, 2} /\ Twice(effects[j]) # 0
    BY Zenon, <1>0, TwiceFacts DEF JobsTypeOK
  <2>2. /\ effects' \in [Jobs -> {0, 1, 2}] /\ effects'[j] # 0 /\ Kind[j] = "direct"
        /\ \A k \in Jobs : k # j => effects'[k] = effects[k]
    BY Zenon, <1>3, <2>1 DEF Execute
  <2>3. PICK s \in {"succeeded", "failed"} : Answer(j, s) BY <1>3 DEF Execute
  <2>4. s \in Progress \cup Settled BY Zenon DEF Settled
  <2>5. QED BY Zenon, <1>1, <2>2, <2>3, <2>4, AnswerKeeps
<1>4. QED BY <1>2, <1>3

\* One receipt is replaced in the journal, and the file may or may not follow.
LEMMA RecordKeeps ==
  ASSUME JobsInv, NEW k \in Jobs, NEW x \in Journalled, x # NoReceipt, x.status # "expired",
         x.status = "succeeded" => Happened(k)', ~Nowhere(k),
         mem' = [mem EXCEPT ![k] = x], disk' \in {disk, mem'},
         UNCHANGED <<scenario, status, result, net, reply, sent, session, tick, job, rec, queue, probation, outcome,
                     survived, unsaved, late>>,
         pc \notin {"down", "call", "save"}, pc' = pc \/ (pc = "idle" /\ pc' = "report"),
         todo' \subseteq todo, intent' \in {intent, NoIntent},
         effects' \in [Jobs -> {0, 1, 2}], \A j \in Jobs : j # k => effects'[j] = effects[j],
         \/ effects' = effects /\ trials' = trials \ {k}
         \/ /\ effects'[k] = 1 /\ trials' = trials \cup {k} /\ Kind[k] = "trial"
            /\ x.status = "accepted" /\ disk' = mem'
  PROVE  JobsInv'
<1>0. JobsTypeOK /\ LoopInv BY Zenon DEF JobsInv
<1>1. /\ mem' \in Journals /\ disk' \in Journals /\ mem'[k] = x
      /\ \A j \in Jobs : j # k => mem'[j] = mem[j]
  BY Zenon, <1>0 DEF JobsTypeOK, Journals
<1>2. Kind' = Kind BY Zenon, KindKept
<1>3. JobsTypeOK'
  <2>1. intent'.job \in Jobs \cup {NoJob} /\ (intent' = NoIntent <=> intent'.job = NoJob)
    BY Zenon, <1>0, IntentFacts DEF JobsTypeOK
  <2>2. todo' \subseteq Jobs /\ trials' \subseteq Jobs BY Zenon, <1>0 DEF JobsTypeOK
  <2>3. QED BY Zenon, <1>0, <1>1, <2>1, <2>2 DEF JobsTypeOK
<1>4. LoopInv' BY Zenon, <1>0, <1>2 DEF LoopInv
<1>5. ASSUME NEW j \in Jobs PROVE Continues(j)
  <2>0. JobInv(j) /\ job # j BY <1>0 DEF JobsInv, LoopInv
  <2>1. KindInv(j)'
    <3>1. j \in trials' /\ j # k => j \in trials /\ mem'[j] = mem[j] /\ effects'[j] = effects[j] BY Zenon, <1>1
    <3>2. k \in trials' => Kind[k] = "trial" /\ mem'[k].status = "accepted" /\ effects'[k] # 0 BY Zenon, <1>1, Numerals
    <3>3. intent'.job = j => intent.job = j BY Zenon, IntentFacts
    <3>4. QED BY Zenon, <1>2, <2>0, <3>1, <3>2, <3>3 DEF JobInv, KindInv
  <2>2. AckInv(j)' BY Zenon, <2>0 DEF JobInv, AckInv
  <2>3. mem[j] # NoReceipt => mem'[j] # NoReceipt BY Zenon, <1>1
  <2>4. disk'[j] = disk[j] \/ disk'[j] = mem'[j] OBVIOUS
  <2>5. Kept(j) => Kept(j)' BY Zenon, <2>3, <2>4 DEF Kept
  <2>6. Over(j) => Over(j)' BY DEF Over
  <2>7. Nowhere(j) => Nowhere(j)'
    <3>1. j # k => mem'[j] = mem[j] /\ effects'[j] = effects[j] /\ (j \in trials' => j \in trials) BY Zenon, <1>1
    <3>2. intent'.job = j => intent.job = j BY Zenon, IntentFacts
    <3>3. QED BY <2>4, <3>1, <3>2 DEF Nowhere
  <2>8. \/ effects'[j] = effects[j]
        \/ Kind[j] = "trial" /\ effects'[j] = 1 /\ Kept(j)'
    <3>1. disk' = mem' => Kept(k)' BY Zenon, <1>1 DEF Kept
    <3>2. QED BY <3>1
  <2>9. \A s : Says(j, s)' => Says(j, s) \/ (j = k /\ s = x.status) BY Zenon, <1>1, <2>4 DEF Says
  <2>10. Says(j, "expired")' /\ Kind[j] = "update" /\ j \notin late \cup unsaved' =>
          Says(j, "expired") /\ (mem'[j] # NoReceipt \/ Over(j)')
    <3>1. Says(j, "expired")' /\ Kind[j] = "update" => Says(j, "expired") BY Zenon, <2>9
    <3>2. Says(j, "expired") /\ Kind[j] = "update" /\ j \notin late \cup unsaved => mem[j] # NoReceipt \/ Over(j)
      BY Zenon, <2>0 DEF JobInv, DeclinedInv
    <3>3. QED BY Zenon, <2>3, <2>6, <3>1, <3>2
  <2>11. QED BY Zenon, <2>1, <2>2, <2>5, <2>6, <2>7, <2>8, <2>9, <2>10 DEF Continues
<1>6. QED BY <1>3, <1>4, <1>5, LoopKeeps

\* The update or the restart has been concluded by the host.
LEMMA ReconcileKeeps == JobsInv /\ ReconcileIntents => JobsInv'
<1> SUFFICES ASSUME JobsInv, ReconcileIntents PROVE JobsInv' OBVIOUS
<1>0. JobsTypeOK BY DEF JobsInv
<1>1. PICK k \in Jobs : k = intent.job BY Zenon, <1>0 DEF ReconcileIntents, Completed, JobsTypeOK
<1>a. PICK x : x = Receipt(IF outcome[k] = "rolledback" THEN "rolledback" ELSE "succeeded") OBVIOUS
<1>2. /\ mem' = [mem EXCEPT ![k] = x] /\ disk' \in {disk, mem'} /\ intent' \in {intent, NoIntent}
      /\ pc = "idle" /\ pc' = "report"
      /\ UNCHANGED <<scenario, status, result, net, reply, sent, session, tick, todo, job, rec, trials, queue, probation, outcome,
                     effects, survived, unsaved, late>>
  BY <1>1, <1>a DEF ReconcileIntents, Saved, NotSaved, controller, work, host, history
<1>3. JobInv(k) BY DEF JobsInv
<1>4. Kind[k] \in Lifecycle /\ k \notin trials BY Zenon, <1>1, <1>3 DEF JobInv, KindInv, Lifecycle
<1>5. outcome[k] # "rolledback" => Happened(k)'
  <2>1. Kind' = Kind BY Zenon, <1>2, KindKept
  <2>2. Kind[k] = "update" /\ outcome[k] # "rolledback" => outcome[k] = "confirmed"
    BY <1>0, <1>1 DEF ReconcileIntents, Completed, JobsTypeOK
  <2>3. QED BY <1>2, <1>3, <1>4, <2>1, <2>2 DEF Happened, JobInv, HonestInv, Lifecycle
<1>6. /\ x \in Journalled /\ x # NoReceipt
      /\ x.status = IF outcome[k] = "rolledback" THEN "rolledback" ELSE "succeeded"
  BY <1>0, <1>a, ReceiptFacts DEF Settled
<1>7. ~Nowhere(k) BY <1>1 DEF Nowhere
<1>8. QED BY Zenon, <1>0, <1>2, <1>4, <1>5, <1>6, <1>7, RecordKeeps DEF JobsTypeOK

\* A trial is turned down, or ends.
LEMMA TrialEndKeeps ==
  ASSUME JobsInv, NEW j \in Jobs, RejectTrial(j) \/ FinishTrial(j)
  PROVE  JobsInv'
<1>0. JobsTypeOK /\ LoopInv /\ JobInv(j) BY DEF JobsInv
<1>1. CASE RejectTrial(j)
  <2>a. PICK x : x = Receipt("rejected") OBVIOUS
  <2>1. x \in Journalled /\ x # NoReceipt /\ x.status = "rejected" BY Zenon, <1>0, <2>a, ReceiptFacts DEF Settled
  <2>2. /\ mem' = [mem EXCEPT ![j] = x] /\ disk' \in {disk, mem'} /\ mem[j] = NoReceipt
        /\ pc = "jobs" /\ pc' = pc /\ j \in todo /\ todo' \subseteq todo
        /\ UNCHANGED <<scenario, status, result, net, reply, sent, session, tick, job, rec, trials, intent, queue, probation, outcome,
                       effects, survived, unsaved, late>>
    BY Zenon, <1>1, <2>a DEF RejectTrial, Taken, Fresh, Saved, NotSaved, controller, loop, host, history
  <2>3. j \notin trials BY Zenon, <1>0, <2>2, NoReceiptFacts DEF JobInv, KindInv
  <2>4. ~Nowhere(j) BY <2>2 DEF Nowhere
  <2>5. QED BY Zenon, <1>0, <2>1, <2>2, <2>3, <2>4, RecordKeeps DEF JobsTypeOK
<1>2. CASE FinishTrial(j)
  <2>a. PICK x : x = Receipt(IF stopping THEN "failed" ELSE "succeeded") OBVIOUS
  <2>1. x \in Journalled /\ x # NoReceipt /\ x.status \in {"failed", "succeeded"} BY Zenon, <1>0, <2>a, ReceiptFacts DEF Settled
  <2>2. /\ mem' = [mem EXCEPT ![j] = x] /\ disk' \in {disk, mem'} /\ trials' = trials \ {j} /\ j \in trials
        /\ pc \notin {"call", "save"} /\ pc' = pc
        /\ UNCHANGED <<scenario, status, result, net, reply, sent, session, tick, todo, job, rec, intent, queue, probation, outcome,
                       effects, survived, unsaved, late>>
    BY Zenon, <1>2, <2>a DEF FinishTrial, Saved, NotSaved, controller, loop, work, host, history
  <2>3. pc # "down" BY <1>0, <2>2 DEF LoopInv
  <2>4. ~Nowhere(j) BY Zenon, <2>2 DEF Nowhere
  <2>5. Happened(j)'
    <3>1. Kind' = Kind BY Zenon, <2>2, KindKept
    <3>2. Kind[j] = "trial" /\ effects[j] # 0 BY Zenon, <1>0, <2>2 DEF JobInv, KindInv
    <3>3. QED BY <2>2, <3>1, <3>2 DEF Happened
  <2>6. QED BY Zenon, <1>0, <2>1, <2>2, <2>3, <2>4, <2>5, RecordKeeps DEF JobsTypeOK
<1>3. QED BY <1>1, <1>2

\* A trial starts once it is in the journal, or is turned down.
LEMMA StartTrialKeeps ==
  ASSUME JobsInv, NEW j \in Jobs, StartTrial(j)
  PROVE  JobsInv'
<1>0. JobsTypeOK /\ JobInv(j) BY DEF JobsInv
<1>a. PICK x : x = Receipt("accepted") OBVIOUS
<1>1. x \in Journalled /\ x # NoReceipt /\ x.status = "accepted" BY Zenon, <1>0, <1>a, ReceiptFacts DEF Progress
<1>2. pc = "jobs" /\ j \in todo /\ todo' = todo \ {j} /\ mem[j] = NoReceipt /\ Taken(j) /\ Fresh(j) /\ Kind[j] = "trial"
  BY Zenon DEF StartTrial, Taken, Fresh
<1>3. ~Started(j) /\ ~Nowhere(j) BY Zenon, <1>2, FreshNotStarted
<1>4. effects[j] = 0 BY Zenon, <1>0, <1>2, <1>3 DEF JobInv, KindInv, Started, Lifecycle
<1>5. CASE trials' = trials \cup {j} /\ mem' = [mem EXCEPT ![j] = x] /\ Saved(mem') /\ effects' = [effects EXCEPT ![j] = Twice(@)]
              /\ UNCHANGED <<controller, net, reply, loop, cursor, sent, job, rec, spool, intent, host, survived, unsaved, late>>
  <2>1. effects' \in [Jobs -> {0, 1, 2}] /\ effects'[j] = 1 /\ \A k \in Jobs : k # j => effects'[k] = effects[k]
    <3>1. effects \in [Jobs -> {0, 1, 2}] /\ Twice(effects[j]) = 1 BY Zenon, <1>0, <1>4, TwiceFacts DEF JobsTypeOK
    <3>2. QED BY Zenon, <1>5, <3>1
  <2>2. /\ disk' = mem' /\ pc' = pc
        /\ UNCHANGED <<scenario, status, result, net, reply, sent, session, tick, job, rec, intent, queue, probation, outcome,
                       survived, unsaved, late>>
    BY <1>5 DEF Saved, controller, loop, host
  <2>3. QED BY Zenon, <1>1, <1>2, <1>3, <1>5, <2>1, <2>2, RecordKeeps
<1>6. CASE /\ NotSaved([mem EXCEPT ![j] = x]) /\ Answer(j, "rejected")
           /\ UNCHANGED <<mem, cursor, intent, host, history>>
  <2>1. disk' \in {disk, [mem EXCEPT ![j] = x]} BY <1>6 DEF NotSaved
  <2>2. disk' \in Journals /\ \A k \in Jobs : disk'[k] \in {disk[k], mem[k]} \/ (k = j /\ disk'[k].status = "accepted")
    <3>1. mem \in Journals /\ disk \in Journals BY Zenon, <1>0 DEF JobsTypeOK
    <3>2. QED BY Zenon, <1>1, <2>1, <3>1 DEF Journals
  <2>3. UNCHANGED <<mem, intent, queue, probation, outcome, survived, unsaved, late, effects>> BY <1>6 DEF host, history
  <2>4. "rejected" \in Progress \cup Settled BY DEF Settled
  <2>5. QED BY Zenon, <1>0, <1>2, <1>6, <2>2, <2>3, <2>4, AnswerKeeps DEF JobsTypeOK
<1>7. QED BY <1>5, <1>6, <1>a DEF StartTrial

\* A restart or an update is handed to the service host.
LEMMA RequestHostKeeps ==
  ASSUME JobsInv, NEW j \in Jobs, RequestHost(j)
  PROVE  JobsInv'
<1>0. JobsTypeOK /\ LoopInv /\ JobInv(j) BY DEF JobsInv
<1>1. pc = "jobs" /\ j \in todo /\ todo' = todo \ {j} /\ mem[j] = NoReceipt /\ Taken(j) /\ Fresh(j) /\ Kind[j] \in Lifecycle
  BY DEF RequestHost, Taken, Fresh
<1>2. ~Started(j) /\ ~Nowhere(j) /\ ~Over(j) BY Zenon, <1>1, FreshNotStarted
<1>3. CASE /\ intent' \in {intent, [job |-> j, session |-> session]} /\ Answer(j, "failed") /\ UNCHANGED <<journal, host, history>>
  <2>1. UNCHANGED <<mem, disk, queue, probation, outcome, survived, unsaved, late, effects>> BY <1>3 DEF journal, host, history
  <2>i. intent' = intent \/ (intent'.job = j /\ intent' # NoIntent)
    <3>1. \A i : i = [job |-> j, session |-> session] => i.job = j OBVIOUS
    <3>2. QED BY Zenon, <1>3, <3>1, IntentFacts
  <2>2. "failed" \in Progress \cup Settled BY DEF Settled
  <2>3. QED BY Zenon, <1>0, <1>1, <1>3, <2>1, <2>2, <2>i, AnswerKeeps DEF JobsTypeOK
<1>4. CASE /\ intent' = [job |-> j, session |-> session] /\ job' = j /\ rec' = NoReceipt /\ pc' = "call" /\ queue' = queue \cup {j}
           /\ UNCHANGED <<controller, net, reply, session, tick, stopping, journal, sent, trials, spool, probation, outcome, history, faults>>
  <2>1. UNCHANGED <<scenario, status, result, net, reply, session, tick, mem, disk, sent, trials, probation, outcome, effects,
                    survived, unsaved, late>>
    BY <1>4 DEF controller, journal, history
  <2>2. Kind' = Kind BY Zenon, <2>1, KindKept
  <2>3. JobsTypeOK' BY Zenon, <1>0, <1>1, <1>4, <2>1, NoReceiptFacts, JobDeliveryConstants DEF JobsTypeOK, NoIntent, NoJob
  <2>4. LoopInv' BY Zenon, <1>0, <1>1, <1>4, <2>1, <2>2 DEF LoopInv
  <2>5. job \notin Jobs BY Zenon, <1>0, <1>1 DEF LoopInv
  <2>6. ASSUME NEW k \in Jobs PROVE JobInv(k)'
    <3>0. JobInv(k) BY Zenon DEF JobsInv
    <3>1. KindInv(k)' BY Zenon, <1>1, <1>4, <2>1, <2>2, <3>0 DEF JobInv, KindInv
    <3>2. PendingInv(k)'
      <4>1. Nowhere(k) => k # j BY Zenon, <1>2
      <4>2. Nowhere(k) => Nowhere(k)' BY Zenon, <1>1, <1>4, <2>1, <4>1 DEF Nowhere
      <4>3. QED BY <2>1, <3>0, <4>2 DEF JobInv, PendingInv
    <3>3. AckInv(k)' BY Zenon, <2>1, <3>0 DEF JobInv, AckInv
    <3>4. (Kept(k) => Kept(k)') /\ (Over(k) => Over(k)') BY Zenon, <1>1, <1>4, <2>1 DEF Kept, Over
    <3>5. ReportedInv(k)' BY <2>1, <3>0, <3>4 DEF JobInv, ReportedInv
    <3>6. OnceInv(k)'
      <4>1. CASE k = j
        <5>1. Started(k)' => effects'[k] = 0 BY Zenon, <1>1, <1>2, <2>1, <2>2, <4>1 DEF Started
        <5>2. Reserved(k)' BY <1>4, <4>1 DEF Reserved
        <5>3. QED BY <5>1, <5>2 DEF OnceInv
      <4>2. CASE k # j
        <5>1. ~Reserved(k) BY <1>1 DEF Reserved
        <5>2. k \in queue' <=> k \in queue BY <1>4, <4>2
        <5>3. Started(k)' => Started(k) BY Zenon, <2>1, <2>2, <5>2 DEF Started
        <5>4. QED BY <2>1, <3>0, <3>4, <5>1, <5>2, <5>3 DEF JobInv, OnceInv
      <4>3. QED BY <4>1, <4>2
    <3>7. \A s : s # "none" /\ Says(k, s)' => Says(k, s)
      BY Zenon, <1>4, <2>1, NoReceiptFacts DEF Says
    <3>8. HonestInv(k)' BY Zenon, <2>1, <2>2, <3>0, <3>7 DEF JobInv, HonestInv, Happened
    <3>9. DeclinedInv(k)'
      <4>1. CASE k = j
        <5>1. Kind[k] = "update" /\ Says(k, "expired") => k \in late \cup unsaved
          BY <1>1, <1>2, <2>5, <3>0, <4>1 DEF JobInv, DeclinedInv
        <5>2. QED BY Zenon, <2>1, <2>2, <3>7, <5>1 DEF DeclinedInv
      <4>2. CASE k # j
        <5>1. k \in queue' <=> k \in queue BY <1>4, <4>2
        <5>2. QED BY Zenon, <1>1, <2>1, <2>2, <2>5, <3>0, <3>4, <3>7, <5>1 DEF JobInv, DeclinedInv
      <4>3. QED BY <4>1, <4>2
    <3>10. QED BY <3>1, <3>2, <3>3, <3>5, <3>6, <3>8, <3>9 DEF JobInv
  <2>7. QED BY Zenon, <2>3, <2>4, <2>6 DEF JobsInv
<1>5. QED BY <1>3, <1>4 DEF RequestHost

\* The host refuses, or its answer does not come in time.
LEMMA CallFailedKeeps == JobsInv /\ CallFailed => JobsInv'
<1> SUFFICES ASSUME JobsInv, CallFailed PROVE JobsInv' OBVIOUS
<1>0. JobsTypeOK /\ LoopInv BY DEF JobsInv
<1>1. /\ UNCHANGED <<scenario, status, result, net, reply, session, tick, mem, disk, sent, trials, todo, probation, outcome,
                     effects, survived, unsaved>>
      /\ pc = "call" /\ pc' = "save" /\ job' = job /\ rec' = Receipt("failed") /\ intent' = NoIntent
      /\ (queue' = queue \ {job} /\ late' = late) \/ (late' = late \cup {job} /\ queue' = queue)
  BY DEF CallFailed, Answer, controller, journal
<1>2. job \in Jobs /\ intent.job = job /\ job \in queue /\ Kind[job] \in Lifecycle BY Zenon, <1>0, <1>1 DEF LoopInv
<1>3. Kind' = Kind BY <1>1, KindKept
<1>4. Receipt("failed") \in Journalled /\ Receipt("failed") # NoReceipt /\ Receipt("failed").status = "failed"
  BY Zenon, <1>0, ReceiptFacts DEF Settled
<1>5. JobsTypeOK' BY Zenon, <1>0, <1>1, <1>4 DEF JobsTypeOK, NoIntent
<1>6. LoopInv' BY <1>0, <1>1, <1>3, <1>4 DEF LoopInv
<1>7. ASSUME NEW k \in Jobs PROVE JobInv(k)'
  <2>0. JobInv(k) /\ intent'.job # k BY Zenon, <1>1, JobDeliveryConstants DEF JobsInv, NoIntent, NoJob
  <2>1. KindInv(k)' BY Zenon, <1>1, <1>2, <1>3, <2>0 DEF JobInv, KindInv
  <2>2. PendingInv(k)'
    <3>1. Nowhere(k) => Nowhere(k)' BY Zenon, <1>1, <2>0 DEF Nowhere
    <3>2. QED BY Zenon, <1>1, <2>0, <3>1 DEF JobInv, PendingInv
  <2>3. AckInv(k)' BY Zenon, <1>1, <2>0 DEF JobInv, AckInv
  <2>4. (Kept(k) => Kept(k)') /\ (Over(k) => Over(k)') BY Zenon, <1>1 DEF Kept, Over
  <2>5. ReportedInv(k)' BY Zenon, <1>1, <2>0, <2>4 DEF JobInv, ReportedInv
  <2>6. OnceInv(k)'
    <3>1. Started(k)' => Started(k) BY <1>1, <1>3 DEF Started
    <3>2. k = job => ~Started(k)'
      <4>1. k = job /\ k \notin late => effects[k] = 0 BY Zenon, <1>2, <2>0 DEF JobInv, OnceInv, Started
      <4>2. QED BY Zenon, <1>1, <1>3, <4>1 DEF Started
    <3>3. k # job => ~Reserved(k) BY Zenon, <1>1 DEF Reserved
    <3>4. QED BY Zenon, <1>1, <2>0, <2>4, <3>1, <3>2, <3>3 DEF JobInv, OnceInv
  <2>7. \A s : s # "failed" /\ Says(k, s)' => Says(k, s) BY Zenon, <1>1, <1>4 DEF Says
  <2>8. HonestInv(k)' BY Zenon, <1>1, <1>3, <2>0, <2>7 DEF JobInv, HonestInv, Happened
  <2>9. DeclinedInv(k)' BY <1>1, <1>3, <2>0, <2>4, <2>7 DEF JobInv, DeclinedInv
  <2>10. QED BY Zenon, <2>1, <2>2, <2>3, <2>5, <2>6, <2>8, <2>9 DEF JobInv
<1>8. QED BY <1>5, <1>6, <1>7 DEF JobsInv

\* The answer is journalled, or is lost with the failed write.
LEMMA SaveJobKeeps == JobsInv /\ SaveJob => JobsInv'
<1> SUFFICES ASSUME JobsInv, SaveJob PROVE JobsInv' OBVIOUS
<1>0. JobsTypeOK /\ LoopInv BY DEF JobsInv
<1>1. /\ UNCHANGED <<scenario, status, result, net, reply, session, tick, sent, todo, trials, intent, queue, probation, outcome,
                     effects, survived, late>>
      /\ pc = "save" /\ pc' = "jobs" /\ job' = NoJob /\ rec' = NoReceipt
      /\ \/ mem' = [mem EXCEPT ![job] = rec] /\ disk' = mem' /\ unsaved' = unsaved
         \/ mem' = mem /\ disk' \in {disk, [mem EXCEPT ![job] = rec]} /\ unsaved' = unsaved \cup {job}
  BY Zenon DEF SaveJob, Saved, NotSaved, controller, host
<1>2. job \in Jobs /\ mem[job] = NoReceipt /\ rec # NoReceipt /\ NoJob \notin Jobs BY <1>0, <1>1, JobDeliveryConstants DEF LoopInv, NoJob
<1>3. Kind' = Kind BY <1>1, KindKept
<1>4. PICK m : m = [mem EXCEPT ![job] = rec] OBVIOUS
<1>5. m \in Journals /\ m[job] = rec /\ \A k \in Jobs : k # job => m[k] = mem[k]
  BY <1>0, <1>2, <1>4 DEF JobsTypeOK, Journals
<1>6. (mem' = m /\ disk' = m /\ unsaved' = unsaved) \/ (mem' = mem /\ disk' \in {disk, m} /\ unsaved' = unsaved \cup {job})
  BY <1>1, <1>4
<1>7. JobsTypeOK' BY Zenon, <1>0, <1>1, <1>5, <1>6, NoReceiptFacts DEF JobsTypeOK
<1>8. LoopInv' BY <1>0, <1>1, <1>2, <1>3 DEF LoopInv
<1>9. ASSUME NEW k \in Jobs PROVE Continues(k)
  <2>0. JobInv(k) BY Zenon DEF JobsInv
  <2>1. KindInv(k)'
    <3>1. k \in trials => k # job BY Zenon, <1>2, <2>0, NoReceiptFacts DEF JobInv, KindInv
    <3>2. QED BY <1>1, <1>3, <1>5, <1>6, <2>0, <3>1 DEF JobInv, KindInv
  <2>2. AckInv(k)' BY Zenon, <1>1, <2>0 DEF JobInv, AckInv
  <2>3. Nowhere(k) => Nowhere(k)' BY Zenon, <1>1, <1>2, <1>5, <1>6 DEF Nowhere
  <2>4. Kept(k) => Kept(k)' BY <1>1, <1>2, <1>5, <1>6 DEF Kept
  <2>5. Over(k) => Over(k)' BY Zenon, <1>1 DEF Over
  <2>6. \A s : Says(k, s)' => Says(k, s)
    <3>1. mem'[k] \in {mem[k], m[k]} /\ disk'[k] \in {disk[k], m[k]} BY <1>6
    <3>2. m[k] = mem[k] \/ (k = job /\ m[k] = rec) BY Zenon, <1>5
    <3>3. QED BY Zenon, <1>1, <1>2, <3>1, <3>2 DEF Says
  <2>7. Says(k, "expired") /\ Kind[k] = "update" /\ k \notin late \cup unsaved' => mem'[k] # NoReceipt \/ Over(k)'
    BY Zenon, <1>1, <1>2, <1>5, <1>6, <2>0, <2>5 DEF JobInv, DeclinedInv
  <2>8. QED BY <1>1, <2>1, <2>2, <2>3, <2>4, <2>5, <2>6, <2>7 DEF Continues
<1>10. QED BY <1>1, <1>6, <1>7, <1>8, <1>9, LoopKeeps

\* Acknowledged results leave the journal; their jobs are over.
LEMMA ApplyControlKeeps == JobsInv /\ ApplyControl => JobsInv'
<1> SUFFICES ASSUME JobsInv, ApplyControl PROVE JobsInv' OBVIOUS
<1>0. JobsTypeOK /\ LoopInv BY DEF JobsInv
<1>a. PICK R : R = {j \in reply.acks : mem[j] = sent[j] /\ mem[j].status \in Settled} OBVIOUS
<1>b. PICK kept : kept = [j \in Jobs |-> IF j \in R THEN NoReceipt ELSE mem[j]] OBVIOUS
<1>1. /\ UNCHANGED <<scenario, status, result, net, session, tick, job, rec, trials, intent, queue, probation, outcome,
                     effects, survived, unsaved, late>>
      /\ pc = "wait" /\ reply.open /\ pc' = "jobs" /\ reply' = NoReply /\ sent' = Empty /\ todo' = reply.jobs
      /\ (mem' = kept /\ disk' = kept) \/ (mem' = mem /\ disk' \in {disk, kept})
  BY <1>a, <1>b DEF ApplyControl, ApplyControlAs, Saved, NotSaved, controller, host, history
<1>2. Kind' = Kind BY Zenon, <1>1, KindKept
<1>3. kept \in Journals /\ \A j \in Jobs : kept[j] = IF j \in R THEN NoReceipt ELSE mem[j]
  BY Zenon, <1>0, <1>b, NoReceiptFacts DEF JobsTypeOK, Journals
<1>4. JobsTypeOK' BY <1>0, <1>1, <1>3, EmptyFacts DEF JobsTypeOK, NoReply
<1>5. LoopInv' BY Zenon, <1>0, <1>1, <1>2 DEF LoopInv, NoReply
<1>6. ASSUME NEW j \in Jobs PROVE Continues(j)
  <2>0. JobInv(j) BY DEF JobsInv
  <2>1. j \in R => mem[j].status \in Settled /\ Over(j)'
    <3>1. j \in R => j \in reply.acks /\ mem[j].status \in Settled /\ sent[j].status \in Settled BY Zenon, <1>a
    <3>2. j \in R => status[j] \in Terminal /\ j \notin reply.jobs BY Zenon, <1>1, <2>0, <3>1 DEF JobInv, AckInv
    <3>3. QED BY Zenon, <1>1, <3>1, <3>2 DEF Over, NoReply
  <2>2. KindInv(j)'
    <3>1. j \in trials => mem'[j] = mem[j] BY <1>1, <1>3, <2>0, <2>1 DEF JobInv, KindInv, Settled
    <3>2. QED BY Zenon, <1>1, <1>2, <2>0, <3>1 DEF JobInv, KindInv
  <2>3. AckInv(j)' BY Zenon, <1>1, <2>0 DEF JobInv, AckInv, NoReply
  <2>4. Nowhere(j) => Nowhere(j)' BY Zenon, <1>1, <1>3, EmptyFacts DEF Nowhere, NoReply
  <2>5. Kept(j) => Kept(j)' \/ Over(j)' BY <1>1, <1>3, <2>1 DEF Kept
  <2>6. Over(j) => Over(j)' BY Zenon, <1>1 DEF Over, NoReply
  <2>7. \A s : s # "none" /\ Says(j, s)' => Says(j, s) BY Zenon, <1>1, <1>3, NoReceiptFacts DEF Says
  <2>8. Says(j, "expired") /\ Kind[j] = "update" /\ j \notin late \cup unsaved' => mem'[j] # NoReceipt \/ job' = j \/ Over(j)'
    BY Zenon, <1>1, <1>3, <2>0, <2>1, <2>6 DEF JobInv, DeclinedInv
  <2>9. QED BY Zenon, <1>1, <2>2, <2>3, <2>4, <2>5, <2>6, <2>7, <2>8 DEF Continues
<1>7. QED BY <1>1, <1>4, <1>5, <1>6, LoopKeeps

\* What measurements do to the journal.
LEMMA MeasuredFacts ==
  ASSUME JobsTypeOK, NEW done \in SUBSET Collecting, NEW failed, NEW m, m = Measured(done, failed)
  PROVE  /\ m \in Journals
         /\ \A j \in Jobs : \/ m[j] = mem[j]
                            \/ /\ Kind[j] = "collect" /\ mem[j] # NoReceipt /\ m[j] # NoReceipt
                               /\ m[j].status \in {"failed", "succeeded"}
<1> SUFFICES ASSUME NEW j \in Jobs
             PROVE  /\ m[j] \in Journalled
                    /\ \/ m[j] = mem[j]
                       \/ /\ Kind[j] = "collect" /\ mem[j] # NoReceipt /\ m[j] # NoReceipt
                          /\ m[j].status \in {"failed", "succeeded"}
  <2>1. m = [j \in Jobs |-> m[j]] BY Zenon DEF Measured
  <2>2. QED BY <2>1 DEF Journals
<1>1. CASE j \notin done BY Zenon, <1>1 DEF Measured, JobsTypeOK, Journals
<1>2. CASE j \in done
  <2>1. Kind[j] = "collect" /\ mem[j] # NoReceipt BY Zenon, <1>2, NoReceiptFacts DEF Collecting
  <2>2. PICK s \in {"failed", "succeeded"} : m[j] = [status |-> s, tick |-> tick + 1, session |-> session] BY Zenon, <1>2 DEF Measured
  <2>a. tick \in Nat /\ session \in Nat BY Zenon DEF JobsTypeOK
  <2>3. m[j] \in Journalled /\ m[j] # NoReceipt /\ m[j].status = s
    <3>1. tick + 1 \in Nat /\ session \in Nat /\ s # "none" BY <2>a
    <3>2. s \in Progress \cup Settled BY DEF Settled
    <3>3. QED BY <2>2, <3>1, <3>2 DEF Journalled, NoReceipt
  <2>4. QED BY Zenon, <2>1, <2>3
<1>3. QED BY Zenon, <1>1, <1>2

\* A report leaves with receipts that are in the journal file.
LEMMA SendReportKeeps == JobsInv /\ SendReport => JobsInv'
<1> SUFFICES ASSUME JobsInv, SendReport PROVE JobsInv' OBVIOUS
<1>0. JobsTypeOK /\ LoopInv BY DEF JobsInv
<1>a. PICK done \in SUBSET Collecting : \E failed \in SUBSET done : \E save \in BOOLEAN : Report(Measured(done, failed), save)
  BY DEF SendReport
<1>f. PICK failed \in SUBSET done : \E save \in BOOLEAN : Report(Measured(done, failed), save) BY <1>a
<1>g. PICK save \in BOOLEAN : Report(Measured(done, failed), save) BY <1>f
<1>b. PICK m : m = Measured(done, failed) OBVIOUS
<1>c. /\ m \in Journals
      /\ \A j \in Jobs : \/ m[j] = mem[j]
                         \/ /\ Kind[j] = "collect" /\ mem[j] # NoReceipt /\ m[j] # NoReceipt
                            /\ m[j].status \in {"failed", "succeeded"}
  BY <1>0, <1>b, MeasuredFacts
<1>d. PICK b : b = Batch(Held(m), cursor) OBVIOUS
<1>e. PICK carried : carried = IF save THEN [j \in Jobs |-> IF j \in b THEN m[j] ELSE NoReceipt] ELSE Empty OBVIOUS
<1>1. /\ UNCHANGED <<scenario, status, result, reply, session, todo, job, rec, trials, intent, queue, probation, outcome,
                     effects, survived, unsaved, late>>
      /\ pc \in {"report", "idle"} /\ pc' = "wait" /\ tick' = tick + 1 /\ mem' = m /\ sent' = carried
      /\ (save /\ disk' = m) \/ (~save /\ disk' \in {disk, m})
      /\ net' = net \cup {[tick |-> tick + 1, session |-> session, receipts |-> carried]}
  BY <1>g, <1>b, <1>d, <1>e DEF Report, Saved, NotSaved, controller, host, history
<1>2. Kind' = Kind BY Zenon, <1>1, KindKept
<1>3. carried \in Journals /\ \A j \in Jobs : carried[j] = NoReceipt \/ (carried[j] = m[j] /\ disk' = m)
  <2>1. CASE save
    <3>1. carried = [j \in Jobs |-> IF j \in b THEN m[j] ELSE NoReceipt] /\ disk' = m BY <1>1, <1>e, <2>1
    <3>2. QED BY Zenon, <1>c, <3>1, NoReceiptFacts DEF Journals
  <2>2. CASE ~save BY Zenon, <1>e, <2>2, EmptyFacts
  <2>3. QED BY Zenon, <2>1, <2>2
<1>n. net' = net \cup {[tick |-> tick + 1, session |-> session, receipts |-> carried]} BY Zenon, <1>1
<1>h. \A r \in net' : r \in net \/ (r.tick = tick + 1 /\ r.receipts = carried) BY <1>n
<1>4. JobsTypeOK'
  <2>0. tick \in Nat BY Zenon, <1>0 DEF JobsTypeOK
  <2>1. tick \in Nat /\ tick + 1 \in Nat BY <2>0
  <2>2. QED BY Zenon, <1>0, <1>1, <1>3, <1>c, <1>h, <2>1 DEF JobsTypeOK
<1>5. LoopInv'
  <2>1. \A r \in net' : r.tick <= tick' /\ (r.tick = tick' => r.receipts = sent')
    <3>1. tick \in Nat /\ \A r \in net : r.tick \in Nat /\ r.tick <= tick BY Zenon, <1>0 DEF LoopInv, JobsTypeOK
    <3>2. tick' = tick + 1 /\ sent' = carried BY Zenon, <1>1
    <3>3. QED BY <1>h, <3>1, <3>2
  <2>2. todo = {} /\ job \notin Jobs /\ ~reply.open /\ reply.jobs = {} BY Zenon, <1>0, <1>1 DEF LoopInv
  <2>3. QED BY Zenon, <1>1, <2>1, <2>2 DEF LoopInv
<1>6. ASSUME NEW j \in Jobs PROVE Continues(j)
  <2>0. JobInv(j) /\ ~reply.open BY Zenon, <1>0, <1>1 DEF JobsInv, LoopInv
  <2>1. mem'[j] # NoReceipt <=> mem[j] # NoReceipt BY Zenon, <1>1, <1>c
  <2>2. KindInv(j)'
    <3>1. j \in trials => mem'[j] = mem[j] BY Zenon, <1>1, <1>c, <2>0 DEF JobInv, KindInv
    <3>2. QED BY Zenon, <1>1, <1>2, <2>0, <3>1 DEF JobInv, KindInv
  <2>3. AckInv(j)' BY <1>1, <2>0 DEF JobInv, AckInv
  <2>4. disk'[j] = disk[j] \/ disk'[j] = mem'[j] BY Zenon, <1>1
  <2>5. Nowhere(j) => Nowhere(j)' BY Zenon, <1>1, <1>3, <1>h, <2>1, <2>4 DEF Nowhere
  <2>6. Kept(j) => Kept(j)' BY Zenon, <1>1, <2>1, <2>4 DEF Kept
  <2>7. Over(j) => Over(j)' BY Zenon, <1>1 DEF Over
  <2>8. (\E r \in net' : r.receipts[j] # NoReceipt) => Kept(j)' \/ \E r \in net : r.receipts[j] # NoReceipt
    <3>1. carried[j] # NoReceipt => Kept(j)' BY Zenon, <1>1, <1>3 DEF Kept
    <3>2. QED BY Zenon, <1>h, <3>1
  <2>9. \A s : s # "none" /\ Says(j, s)' => Says(j, s) \/ (Kind[j] = "collect" /\ s \in {"failed", "succeeded"})
    <3>1. \A s : s # "none" /\ carried[j].status = s => mem'[j].status = s BY Zenon, <1>1, <1>3, NoReceiptFacts
    <3>2. mem'[j] = mem[j] \/ (Kind[j] = "collect" /\ mem'[j].status \in {"failed", "succeeded"}) BY <1>1, <1>c
    <3>3. QED BY Zenon, <1>1, <1>h, <2>4, <3>1, <3>2 DEF Says
  <2>10. Kind[j] = "collect" => Happened(j)' BY Zenon, <1>2 DEF Happened
  <2>11. Says(j, "expired") /\ Kind[j] = "update" /\ j \notin late \cup unsaved' => mem'[j] # NoReceipt \/ job' = j \/ Over(j)'
    BY <1>1, <2>0, <2>1, <2>7 DEF JobInv, DeclinedInv
  <2>12. QED BY Zenon, <1>1, <2>2, <2>3, <2>5, <2>6, <2>7, <2>8, <2>9, <2>10, <2>11 DEF Continues
<1>7. QED BY <1>1, <1>4, <1>5, <1>6, LoopKeeps

-----------------------------------------------------------------------------
(* The theorems *)

\* The first state.
LEMMA JobsInitial == Init => JobsInv
<1> SUFFICES ASSUME Init PROVE JobsInv OBVIOUS
<1>1. JobsTypeOK BY Zenon, EmptyFacts, NoReceiptFacts, JobDeliveryConstants DEF Init, JobsTypeOK, NoReply, NoIntent, NoJob, Statuses
<1>2. LoopInv BY JobDeliveryConstants DEF Init, LoopInv, NoReply, NoJob
<1>3. ASSUME NEW j \in Jobs PROVE JobInv(j)
  <2>1. /\ status[j] = "none" /\ result[j] = NoReceipt /\ mem[j] = NoReceipt /\ disk[j] = NoReceipt /\ sent[j] = NoReceipt
        /\ effects[j] = 0 /\ outcome[j] = "none" /\ net = {} /\ reply.jobs = {} /\ ~reply.open /\ todo = {} /\ trials = {}
        /\ queue = {} /\ late = {} /\ intent.job # j /\ job # j
    BY Zenon, EmptyFacts, JobDeliveryConstants DEF Init, NoReply, NoIntent, NoJob
  <2>2. KindInv(j) /\ PendingInv(j) /\ AckInv(j) BY Zenon, <2>1, NoReceiptFacts DEF KindInv, PendingInv, Nowhere, AckInv, Settled
  <2>3. ReportedInv(j) /\ OnceInv(j) BY Zenon, <2>1 DEF ReportedInv, OnceInv, Started, Progress
  <2>4. ~Says(j, "succeeded") /\ ~Says(j, "expired") BY Zenon, <2>1, NoReceiptFacts DEF Says
  <2>5. HonestInv(j) /\ DeclinedInv(j) BY <2>1, <2>4 DEF HonestInv, DeclinedInv
  <2>6. QED BY Zenon, <2>2, <2>3, <2>5 DEF JobInv
<1>4. QED BY <1>1, <1>2, <1>3 DEF JobsInv

\* Every step keeps the invariant.
LEMMA JobsStep == JobsInv /\ [Next]_vars => JobsInv'
<1> SUFFICES ASSUME JobsInv, [Next]_vars PROVE JobsInv' OBVIOUS
<1>1. CASE ControllerStep
  <2>1. CASE (\E j \in Jobs : Submit(j) \/ CancelPending(j) \/ Deadline(j)) \/ ExpireJobs BY Zenon, <2>1, OwnerKeeps
  <2>2. ASSUME NEW r \in net, NEW E \in SUBSET Directs, HandleReport(r, E) \/ \E S \in SUBSET Jobs : HandleReportCut(r, S, E)
        PROVE  JobsInv'
    BY Zenon, <2>2, HandleReportKeeps
  <2>3. QED BY <1>1, <2>1, <2>2 DEF ControllerStep
<1>2. CASE AgentStep
  <2>1. CASE ReconcileIntents BY <2>1, ReconcileKeeps
  <2>2. CASE SendReport BY <2>2, SendReportKeeps
  <2>3. CASE GiveUp BY <2>3, GiveUpKeeps
  <2>4. CASE ApplyControl BY <2>4, ApplyControlKeeps
  <2>5. CASE Drain \/ \E j \in Jobs : Ignore(j) BY <2>5, IgnoreKeeps
  <2>6. ASSUME NEW j \in Jobs, Decline(j) \/ Collect(j) \/ Execute(j) PROVE JobsInv' BY <2>6, DeclineKeeps
  <2>7. ASSUME NEW j \in Jobs, StartTrial(j) PROVE JobsInv' BY <2>7, StartTrialKeeps
  <2>8. ASSUME NEW j \in Jobs, RejectTrial(j) \/ FinishTrial(j) PROVE JobsInv' BY <2>8, TrialEndKeeps
  <2>9. ASSUME NEW j \in Jobs, RequestHost(j) PROVE JobsInv' BY <2>9, RequestHostKeeps
  <2>10. CASE CallFailed BY <2>10, CallFailedKeeps
  <2>11. CASE SaveJob BY <2>11, SaveJobKeeps
  <2>12. QED BY <1>2, <2>1, <2>2, <2>3, <2>4, <2>5, <2>6, <2>7, <2>8, <2>9, <2>10, <2>11 DEF AgentStep
<1>3. CASE ProcessStep
  <2>1. CASE Crash \/ Exit \/ RollBack \/ \E j \in Jobs : Perform(j) BY <2>1, EndsKeep
  <2>2. CASE Confirm \/ Stop BY <2>2, ConfirmKeeps
  <2>3. CASE Open BY Zenon, <2>3, OpenKeeps
  <2>4. QED BY <1>3, <2>1, <2>2, <2>3 DEF ProcessStep
<1>4. CASE UNCHANGED vars
  <2>1. UNCHANGED <<agent, status, result, net, reply>>
    BY Zenon, <1>4 DEF vars, controller, loop, journal, work, host, history, agent
  <2>2. \A j \in Jobs : Moves(j)
    <3>1. \A j \in Jobs : AckInv(j) BY DEF JobsInv, JobInv
    <3>2. QED BY <2>1, <3>1 DEF Moves, AckInv, Says
  <2>3. QED BY Zenon, <2>1, <2>2, ControllerKeeps DEF Replies, JobsInv, JobsTypeOK
<1>5. QED BY <1>1, <1>2, <1>3, <1>4 DEF Next

\* The invariant holds in every reachable state, for any set of jobs, any kinds
\* and any number of reports, processes and failed journal writes.
THEOREM JobsInvariant == Spec => []JobsInv
BY JobsInitial, JobsStep, PTL DEF Spec

\* A job cancelled before delivery is nowhere on the agent and never runs.
THEOREM JobsCancelledNeverRuns == Spec => []CancelledNeverRuns
<1>1. JobsInv => CancelledNeverRuns BY DEF JobsInv, JobInv, PendingInv, Nowhere, CancelledNeverRuns, Held
<1>2. QED BY <1>1, JobsInvariant, PTL

\* A trial takes effect at most once; a restart or an update too, unless the
\* service host acted after the call to it had been given up.
THEOREM JobsRepeatedOnlyWhenLate == Spec => []RepeatedOnlyWhenLate
<1>1. JobsInv => RepeatedOnlyWhenLate
  <2> SUFFICES ASSUME JobsInv, NEW j \in Jobs, Kind[j] \in Lifecycle \cup {"trial"}, effects[j] > 1
               PROVE  Kind[j] # "trial" /\ j \in late
    BY Zenon DEF RepeatedOnlyWhenLate
  <2>0. effects[j] \in {0, 1, 2} BY Zenon DEF JobsInv, JobsTypeOK
  <2>1. effects[j] = 2 BY <2>0
  <2>2. j \in late BY Zenon, <2>1, Numerals DEF JobsInv, JobInv, OnceInv, Started
  <2>3. QED BY Zenon, <2>2 DEF JobsInv, JobInv, KindInv, Lifecycle
<1>2. QED BY <1>1, JobsInvariant, PTL

\* No step changes a terminal status, whatever receipt arrives.
THEOREM JobsTerminalStays == Spec => TerminalStays
<1>1. JobsInv /\ [Next]_vars => [\A j \in Jobs : status[j] \in Terminal => status'[j] = status[j]]_status
  <2> SUFFICES ASSUME JobsInv, Next, NEW j \in Jobs, status[j] \in Terminal PROVE status'[j] = status[j] 
    BY DEF vars, controller
  <2>0. JobsTypeOK BY DEF JobsInv
  <2>1. CASE AgentStep \/ ProcessStep
    <3>1. AgentStep => status' = status
      BY Zenon DEF AgentStep, ReconcileIntents, SendReport, Report, GiveUp, ApplyControl, ApplyControlAs, Ignore, Decline, Collect,
         Execute, StartTrial, RejectTrial, FinishTrial, RequestHost, CallFailed, SaveJob, Drain, Answer, controller
    <3>2. ProcessStep => status' = status
      BY Zenon DEF ProcessStep, Crash, Stop, Exit, Open, Perform, Confirm, RollBack, controller
    <3>3. QED BY Zenon, <2>1, <3>1, <3>2
  <2>2. ASSUME NEW k \in Jobs, Submit(k) \/ CancelPending(k) \/ Deadline(k) PROVE status'[j] = status[j]
    BY Zenon, <2>0, <2>2 DEF Submit, CancelPending, Deadline, Terminal, Settled, JobsTypeOK
  <2>3. CASE ExpireJobs BY Zenon, <2>3 DEF ExpireJobs, Expire, Terminal, Settled, Progress
  <2>4. ASSUME NEW r \in net, NEW E, HandleReport(r, E) PROVE status'[j] = status[j]
    <3>1. PICK a : a = Applied(r, Held(r.receipts), E) OBVIOUS
    <3>2. a[j] = status[j]
      <4>1. Held(r.receipts) \subseteq Held(r.receipts) OBVIOUS
      <4>2. QED BY Zenon, <3>1, <4>1, AppliedFacts DEF AppliedOk
    <3>3. Expire(a)[j] = status[j] BY Zenon, <3>2 DEF Expire, Terminal, Settled, Progress
    <3>4. j \notin Claimable(Expire(a)) BY <3>3 DEF Claimable, Terminal, Settled
    <3>5. QED BY <2>4, <3>1, <3>2, <3>3, <3>4 DEF HandleReport
  <2>5. ASSUME NEW r \in net, NEW E, NEW S, HandleReportCut(r, S, E) PROVE status'[j] = status[j]
    <3>1. S \subseteq Held(r.receipts) /\ status' = Applied(r, S, E) BY Zenon, <2>5 DEF HandleReportCut
    <3>2. QED BY Zenon, <3>1, AppliedFacts DEF AppliedOk
  <2>6. QED BY <2>1, <2>2, <2>3, <2>4, <2>5 DEF Next, ControllerStep
<1>2. QED BY <1>1, JobsInvariant, PTL DEF Spec, TerminalStays

-----------------------------------------------------------------------------
(* Receipts tell the truth *)

\* A job shown as accepted or awaiting is in the agent's journal on disk.
THEOREM JobsAcceptedIsJournalled == Spec => []AcceptedIsJournalled
<1>1. JobsInv => AcceptedIsJournalled
  <2> SUFFICES ASSUME JobsInv, NEW j \in Jobs, status[j] \in Progress PROVE disk[j] # NoReceipt BY Zenon DEF AcceptedIsJournalled
  <2>1. status[j] \notin Terminal BY DEF Progress, Terminal, Settled
  <2>2. QED BY Zenon, <2>1 DEF JobsInv, JobInv, ReportedInv, Kept
<1>2. QED BY <1>1, JobsInvariant, PTL

\* A success the controller shows took effect: the trial or command ran, the
\* update survived its probation.
THEOREM JobsSuccessHappened == Spec => []SuccessHappened
<1>1. JobsInv => SuccessHappened
  <2> SUFFICES ASSUME JobsInv, NEW j \in Jobs, status[j] = "succeeded"
               PROVE  (Kind[j] \in {"trial", "direct"} => effects[j] > 0) /\ (Kind[j] = "update" => j \in survived)
    BY Zenon DEF SuccessHappened
  <2>1. Happened(j) BY Zenon DEF JobsInv, JobInv, HonestInv, Says
  <2>2. effects[j] \in {0, 1, 2} BY Zenon DEF JobsInv, JobsTypeOK
  <2>3. QED BY <2>1, <2>2 DEF Happened
<1>2. QED BY <1>1, JobsInvariant, PTL

\* An update shown as expired did not run, outside the two exceptions.
THEOREM JobsExpiredUpdateDidNotRun == Spec => []ExpiredUpdateDidNotRun
<1>1. JobsInv => ExpiredUpdateDidNotRun
  BY Zenon DEF ExpiredUpdateDidNotRun, JobsInv, JobInv, DeclinedInv, Says
<1>2. QED BY <1>1, JobsInvariant, PTL

================================================================================
