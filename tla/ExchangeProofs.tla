----------------------------- MODULE ExchangeProofs -----------------------------
(***************************************************************************)
(* What remains of the exchange: the journal of JobDelivery never outgrows *)
(* what the next process accepts.  RoomInv counts receipts: while no write *)
(* fails the file holds what memory holds, and a job whose receipt is not  *)
(* written yet has a place kept for it.                                    *)
(***************************************************************************)
EXTENDS JobProofs, FiniteSetTheorems

-----------------------------------------------------------------------------
(* Room in the journal *)

\* Without failed writes the file is what memory holds, up to the trials that
\* were running when the last process ended; an intent is in it as awaiting or
\* is still to be reserved, and then there is room for it.
RoomInv ==
    /\ faults \in Nat
    /\ faults = 0 =>
        /\ pc # "down" => \A j \in Jobs :
              mem[j] = disk[j] \/ (Kind[j] = "trial" /\ mem[j] # NoReceipt /\ disk[j] # NoReceipt)
        /\ Cardinality(Held(disk)) <= JournalLimit
        /\ pc \in {"call", "save"} \/ (pc = "down" /\ intent # NoIntent /\ disk[intent.job] = NoReceipt) =>
              Cardinality(Held(disk)) < JournalLimit
        /\ intent # NoIntent => \/ disk[intent.job].status = "awaiting"
                                \/ disk[intent.job] = NoReceipt /\ pc \in {"down", "call"}

\* The number of receipts in a journal, and what one more does to it.
LEMMA RoomFacts ==
  ASSUME NEW m, NEW m2
  PROVE  /\ Cardinality(Held(m)) \in Nat
         /\ Held(m2) \subseteq Held(m) => Cardinality(Held(m2)) <= Cardinality(Held(m))
         /\ \A k : Held(m2) \subseteq Held(m) \cup {k} => Cardinality(Held(m2)) <= Cardinality(Held(m)) + 1
<1>0. Held(m) \subseteq Jobs /\ Held(m2) \subseteq Jobs BY DEF Held
<1>1. IsFiniteSet(Held(m)) /\ IsFiniteSet(Held(m2)) BY <1>0, JobDeliveryConstants, FS_Subset
<1>2. Cardinality(Held(m)) \in Nat /\ Cardinality(Held(m2)) \in Nat BY <1>1, FS_CardinalityType
<1>4. Held(m2) \subseteq Held(m) => Cardinality(Held(m2)) <= Cardinality(Held(m)) BY <1>1, FS_Subset
<1>5. ASSUME NEW k, Held(m2) \subseteq Held(m) \cup {k} PROVE Cardinality(Held(m2)) <= Cardinality(Held(m)) + 1
  <2>1. IsFiniteSet(Held(m) \cup {k}) /\ Cardinality(Held(m) \cup {k}) \in {Cardinality(Held(m)), Cardinality(Held(m)) + 1}
    BY <1>1, <1>2, FS_AddElement
  <2>2. Cardinality(Held(m2)) <= Cardinality(Held(m) \cup {k}) BY <1>5, <2>1, FS_Subset
  <2>3. QED BY <1>2, <2>1, <2>2
<1>6. QED BY <1>2, <1>4, <1>5

\* The limit is a number, and does not change.
LEMMA LimitFacts ==
  ASSUME JobsTypeOK, scenario' = scenario
  PROVE  JournalLimit \in Nat /\ JournalLimit' = JournalLimit /\ Kind' = Kind
BY JobDeliveryConstants DEF JournalLimit, JobsTypeOK, Kind

\* While the worker runs and no write has failed, memory and file hold the same
\* jobs, and what they hold of the intent's job is the same receipt.
LEMMA RoomHeld ==
  ASSUME JobsInv, RoomInv, faults = 0, pc # "down"
  PROVE  /\ Held(mem) = Held(disk)
         /\ intent # NoIntent => intent.job \in Jobs /\ mem[intent.job] = disk[intent.job]
<1>1. \A j \in Jobs : mem[j] = disk[j] \/ (Kind[j] = "trial" /\ mem[j] # NoReceipt /\ disk[j] # NoReceipt)
  BY Zenon DEF RoomInv
<1>2. Held(mem) = Held(disk) BY Zenon, <1>1 DEF Held
<1>3. ASSUME intent # NoIntent PROVE intent.job \in Jobs /\ Kind[intent.job] \in Lifecycle
  BY Zenon, <1>3 DEF JobsInv, JobsTypeOK, JobInv, KindInv
<1>4. QED BY <1>1, <1>2, <1>3 DEF Lifecycle

\* Steps that leave the journal and the intent alone.
LEMMA RoomQuiet ==
  ASSUME JobsInv, RoomInv, scenario' = scenario, mem' = mem, disk' = disk, intent' = intent, faults' = faults,
         pc' = pc \/ (pc \in {"idle", "report", "wait", "jobs"} /\ pc' \in {"idle", "report", "wait", "jobs"})
  PROVE  RoomInv'
<1>1. Kind' = Kind /\ JournalLimit' = JournalLimit BY Zenon, LimitFacts DEF JobsInv
<1>2. QED BY <1>1 DEF RoomInv, Held

\* The worker is gone.
LEMMA RoomGone ==
  ASSUME JobsInv, RoomInv, scenario' = scenario, disk' = disk, intent' = intent, faults' = faults, pc' = "down"
  PROVE  RoomInv'
<1>1. Kind' = Kind /\ JournalLimit' = JournalLimit BY Zenon, LimitFacts DEF JobsInv
<1>2. QED BY <1>1, NoReceiptFacts DEF RoomInv, Held

\* A failed write ends the obligation.
LEMMA RoomFault ==
  ASSUME RoomInv, faults' = faults + 1
  PROVE  RoomInv'
BY DEF RoomInv

\* The whole journal is written.
LEMMA RoomWrite ==
  ASSUME JobsInv, RoomInv, scenario' = scenario, faults' = faults, disk' = mem', pc' \notin {"down", "call", "save"},
         faults = 0 => /\ Cardinality(Held(mem')) <= JournalLimit
                       /\ intent' # NoIntent => mem'[intent'.job].status = "awaiting"
  PROVE  RoomInv'
<1>1. Kind' = Kind /\ JournalLimit' = JournalLimit BY Zenon, LimitFacts DEF JobsInv
<1>2. Held(disk)' = Held(mem') BY DEF Held
<1>3. QED BY <1>1, <1>2 DEF RoomInv

\* A receipt is added or replaced, with room for it, and it is not the intent's.
LEMMA RoomRecord ==
  ASSUME JobsInv, RoomInv, NEW k \in Jobs, NEW x, scenario' = scenario, faults' = faults,
         mem' = [mem EXCEPT ![k] = x], disk' = mem', pc \notin {"down", "call"}, pc' \notin {"down", "call", "save"},
         faults = 0 => mem[k] # NoReceipt \/ Cardinality(Held(mem)) < JournalLimit \/ pc = "save",
         intent' = NoIntent \/ (intent' = intent /\ (mem[k] = NoReceipt \/ Kind[k] = "trial"))
  PROVE  RoomInv'
<1>0. JobsTypeOK /\ JournalLimit \in Nat BY Zenon, LimitFacts DEF JobsInv
<1>1. mem'[k] = x /\ \A j \in Jobs : j # k => mem'[j] = mem[j] BY Zenon, <1>0 DEF JobsTypeOK, Journals
<1>2. ASSUME faults = 0 PROVE Cardinality(Held(mem')) <= JournalLimit
  <2>1. Held(mem) = Held(disk) BY Zenon, <1>2, RoomHeld
  <2>2. Cardinality(Held(disk)) <= JournalLimit /\ (pc = "save" => Cardinality(Held(disk)) < JournalLimit)
    BY Zenon, <1>2 DEF RoomInv
  <2>3. Held(mem') \subseteq Held(mem) \cup {k} /\ (mem[k] # NoReceipt => Held(mem') \subseteq Held(mem)) BY Zenon, <1>1 DEF Held
  <2>4. /\ Cardinality(Held(mem)) \in Nat /\ Cardinality(Held(mem')) \in Nat
        /\ Cardinality(Held(mem')) <= Cardinality(Held(mem)) + 1
        /\ mem[k] # NoReceipt => Cardinality(Held(mem')) <= Cardinality(Held(mem))
    BY Zenon, <2>3, RoomFacts
  <2>5. QED BY <1>0, <1>2, <2>1, <2>2, <2>4
<1>3. ASSUME faults = 0, intent' # NoIntent PROVE mem'[intent'.job].status = "awaiting"
  <2>1. intent' = intent /\ intent.job \in Jobs /\ mem[intent.job] = disk[intent.job] BY Zenon, <1>3, RoomHeld
  <2>2. mem[intent.job].status = "awaiting" BY Zenon, <1>3, <2>1 DEF RoomInv
  <2>3. k # intent.job
    <3>1. Kind[intent.job] \in Lifecycle BY Zenon, <2>1 DEF JobsInv, JobInv, KindInv
    <3>2. mem[intent.job] # NoReceipt BY <2>2, NoReceiptFacts
    <3>3. QED BY Zenon, <1>3, <2>1, <3>1, <3>2 DEF Lifecycle
  <2>4. QED BY Zenon, <1>1, <2>1, <2>2, <2>3
<1>4. QED BY Zenon, <1>2, <1>3, RoomWrite

\* A job is taken up: there is room for its receipt.
LEMMA RoomTake ==
  ASSUME JobsInv, RoomInv, NEW j \in Jobs, Fresh(j), scenario' = scenario, mem' = mem, disk' = disk, faults' = faults,
         pc = "jobs", \/ pc' = "save" /\ intent' = intent
                      \/ pc' = "call" /\ intent'.job = j
  PROVE  RoomInv'
<1>1. Kind' = Kind /\ JournalLimit' = JournalLimit BY Zenon, LimitFacts DEF JobsInv
<1>2. mem[j] = NoReceipt /\ Cardinality(Held(mem)) < JournalLimit BY Zenon DEF Fresh
<1>3. faults = 0 => Cardinality(Held(disk)) < JournalLimit BY Zenon, <1>2, RoomHeld
<1>4. faults = 0 => disk[j] = NoReceipt BY Zenon, <1>2 DEF RoomInv
<1>5. QED BY <1>1, <1>3, <1>4 DEF RoomInv, Held

\* Opening the journal, and reserving the intent's job.
LEMMA RoomOpen == JobsInv /\ RoomInv /\ Open => RoomInv'
<1> SUFFICES ASSUME JobsInv, RoomInv, Open PROVE RoomInv' OBVIOUS
<1>0. JobsTypeOK /\ scenario' = scenario /\ intent' = intent /\ pc = "down" BY Zenon DEF JobsInv, Open, controller
<1>1. Kind' = Kind /\ JournalLimit' = JournalLimit /\ JournalLimit \in Nat BY Zenon, <1>0, LimitFacts
<1>2. CASE intent # NoIntent /\ disk[intent.job] = NoReceipt
  <2> DEFINE m == [Loaded EXCEPT ![intent.job] = [status |-> "awaiting", tick |-> 0, session |-> 0]]
  <2>1. m = [Loaded EXCEPT ![intent.job] = [status |-> "awaiting", tick |-> 0, session |-> 0]] OBVIOUS
  <2> HIDE DEF m
  <2>2. (disk' = mem' /\ mem' = m /\ pc' = "idle" /\ faults' = faults) \/ faults' = faults + 1
    BY Zenon, <1>2, <2>1 DEF Open, Saved, NotSaved
  <2>3. intent.job \in Jobs BY Zenon, <1>0, <1>2 DEF JobsTypeOK
  <2>4. Loaded \in Journals BY Zenon, <1>0, LoadedFacts
  <2>5. m[intent.job].status = "awaiting" /\ \A j \in Jobs : j # intent.job => m[j] = Loaded[j]
    BY <2>1, <2>3, <2>4 DEF Journals
  <2>6. Held(m) \subseteq Held(disk) \cup {intent.job} BY Zenon, <1>0, <2>5, LoadedFacts DEF Held
  <2>7. faults = 0 => Cardinality(Held(disk)) < JournalLimit BY Zenon, <1>0, <1>2 DEF RoomInv
  <2>8. Cardinality(Held(m)) \in Nat /\ Cardinality(Held(disk)) \in Nat /\ Cardinality(Held(m)) <= Cardinality(Held(disk)) + 1
    BY Zenon, <2>6, RoomFacts
  <2>9. faults = 0 => Cardinality(Held(m)) <= JournalLimit BY <1>1, <2>7, <2>8
  <2>10. CASE disk' = mem' /\ mem' = m /\ pc' = "idle" /\ faults' = faults BY <1>0, <2>5, <2>9, <2>10, RoomWrite
  <2>11. QED BY Zenon, <2>2, <2>10, RoomFault
<1>3. CASE ~(intent # NoIntent /\ disk[intent.job] = NoReceipt)
  <2>1. mem' = Loaded /\ pc' = "idle" /\ disk' = disk /\ faults' = faults BY Zenon, <1>3 DEF Open
  <2>2. \A j \in Jobs : mem'[j] = disk'[j] \/ (Kind[j] = "trial" /\ mem'[j] # NoReceipt /\ disk'[j] # NoReceipt)
    <3>1. \A j \in Jobs : Kind[j] = "trial" /\ disk[j].status = "accepted" => disk[j] # NoReceipt BY NoReceiptFacts
    <3>2. \A j \in Jobs : Loaded[j] = disk[j] \/ (Kind[j] = "trial" /\ disk[j].status = "accepted") BY Zenon DEF Loaded
    <3>3. QED BY Zenon, <1>0, <2>1, <3>1, <3>2, LoadedFacts
  <2>3. QED BY <1>0, <1>1, <1>3, <2>1, <2>2 DEF RoomInv, Held
<1>4. QED BY <1>2, <1>3

\* What the agent does with the journal and the intent while it works.
LEMMA RoomAgent == JobsInv /\ RoomInv /\ AgentStep => RoomInv'
<1> SUFFICES ASSUME JobsInv, RoomInv, AgentStep PROVE RoomInv' OBVIOUS
<1>0. JobsTypeOK /\ LoopInv BY Zenon DEF JobsInv
<1>1. CASE ReconcileIntents
  <2>1. PICK k \in Jobs : k = intent.job BY Zenon, <1>0, <1>1 DEF ReconcileIntents, Completed, JobsTypeOK
  <2>2. PICK x : mem' = [mem EXCEPT ![k] = x] BY Zenon, <1>1, <2>1 DEF ReconcileIntents
  <2>3. /\ scenario' = scenario /\ pc = "idle" /\ pc' = "report" /\ intent # NoIntent
        /\ (disk' = mem' /\ faults' = faults /\ intent' = NoIntent) \/ faults' = faults + 1
    BY Zenon, <1>1 DEF ReconcileIntents, Completed, Saved, NotSaved, controller
  <2>4. faults = 0 => mem[k] # NoReceipt
    <3>1. faults = 0 => mem[k].status = "awaiting" BY <2>1, <2>3, RoomHeld DEF RoomInv
    <3>2. QED BY <3>1, NoReceiptFacts
  <2>p. pc \notin {"down", "call"} /\ pc' \notin {"down", "call", "save"} BY <2>3
  <2>5. CASE disk' = mem' /\ faults' = faults /\ intent' = NoIntent BY Zenon, <2>2, <2>3, <2>4, <2>5, <2>p, RoomRecord
  <2>6. QED BY Zenon, <2>3, <2>5, RoomFault
<1>2. CASE SendReport
  <2>1. PICK done \in SUBSET Collecting : \E failed \in SUBSET done : \E save \in BOOLEAN : Report(Measured(done, failed), save)
    BY Zenon, <1>2 DEF SendReport
  <2>2. PICK failed \in SUBSET done : \E save \in BOOLEAN : Report(Measured(done, failed), save) BY Zenon, <2>1
  <2>3. PICK save \in BOOLEAN : Report(Measured(done, failed), save) BY Zenon, <2>2
  <2>4. /\ mem' = Measured(done, failed) /\ scenario' = scenario /\ intent' = intent /\ pc \in {"report", "idle"} /\ pc' = "wait"
        /\ (disk' = mem' /\ faults' = faults) \/ faults' = faults + 1
    BY Zenon, <2>3 DEF Report, Saved, NotSaved, controller
  <2>5. \A j \in Jobs : \/ mem'[j] = mem[j]
                        \/ Kind[j] = "collect" /\ mem[j] # NoReceipt /\ mem'[j] # NoReceipt
    BY Zenon, <1>0, <2>4, MeasuredFacts
  <2>6. Held(mem') = Held(mem) BY Zenon, <2>5 DEF Held
  <2>7. faults = 0 => Cardinality(Held(mem')) <= JournalLimit BY <2>4, <2>6, RoomHeld DEF RoomInv
  <2>8. ASSUME faults = 0, intent' # NoIntent PROVE mem'[intent'.job].status = "awaiting"
    <3>1. intent.job \in Jobs /\ mem[intent.job] = disk[intent.job] BY <2>4, <2>8, RoomHeld
    <3>2. Kind[intent.job] # "collect" BY Zenon, <3>1 DEF JobsInv, JobInv, KindInv, Lifecycle
    <3>3. disk[intent.job].status = "awaiting" BY <2>4, <2>8 DEF RoomInv
    <3>4. QED BY Zenon, <2>4, <2>5, <3>1, <3>2, <3>3
  <2>9. CASE disk' = mem' /\ faults' = faults BY <2>4, <2>7, <2>8, <2>9, RoomWrite
  <2>10. QED BY Zenon, <2>4, <2>9, RoomFault
<1>3. CASE GiveUp \/ Drain \/ \E j \in Jobs : Ignore(j)
  <2>1. /\ scenario' = scenario /\ mem' = mem /\ disk' = disk /\ intent' = intent /\ faults' = faults
        /\ pc' = pc \/ (pc \in {"wait", "jobs"} /\ pc' = "idle")
    BY Zenon, <1>3 DEF GiveUp, Drain, Ignore, controller, loop, journal
  <2>2. QED BY <2>1, RoomQuiet
<1>4. CASE ApplyControl
  <2> DEFINE removed == {j \in reply.acks : mem[j] = sent[j] /\ mem[j].status \in Settled}
  <2>1. ApplyControlAs(removed) /\ \A j \in removed : mem[j].status \in Settled BY Zenon, <1>4 DEF ApplyControl
  <2> HIDE DEF removed
  <2>2. /\ scenario' = scenario /\ intent' = intent /\ pc = "wait" /\ pc' = "jobs"
        /\ \/ mem' = [j \in Jobs |-> IF j \in removed THEN NoReceipt ELSE mem[j]] /\ disk' = mem' /\ faults' = faults
           \/ faults' = faults + 1
    BY Zenon, <2>1 DEF ApplyControlAs, Saved, NotSaved, controller
  <2>3. CASE mem' = [j \in Jobs |-> IF j \in removed THEN NoReceipt ELSE mem[j]] /\ disk' = mem' /\ faults' = faults
    <3>1. \A j \in Jobs : mem'[j] = NoReceipt \/ mem'[j] = mem[j] BY Zenon, <2>3
    <3>2. Held(mem') \subseteq Held(mem) BY Zenon, <3>1 DEF Held
    <3>3. Cardinality(Held(mem')) <= Cardinality(Held(mem)) /\ Cardinality(Held(mem)) \in Nat /\ Cardinality(Held(mem')) \in Nat
      BY Zenon, <3>2, RoomFacts
    <3>4. JournalLimit \in Nat BY Zenon, <1>0, <2>2, LimitFacts
    <3>5. faults = 0 => Cardinality(Held(mem)) <= JournalLimit BY <2>2, RoomHeld DEF RoomInv
    <3>6. ASSUME faults = 0, intent' # NoIntent PROVE mem'[intent'.job].status = "awaiting"
      <4>1. intent.job \in Jobs /\ mem[intent.job] = disk[intent.job] BY <2>2, <3>6, RoomHeld
      <4>2. disk[intent.job].status = "awaiting" BY <2>2, <3>6 DEF RoomInv
      <4>3. intent.job \notin removed BY <2>1, <4>1, <4>2 DEF Settled
      <4>4. QED BY Zenon, <2>2, <2>3, <4>1, <4>2, <4>3
    <3>7. faults = 0 => Cardinality(Held(mem')) <= JournalLimit BY <3>3, <3>4, <3>5
    <3>8. QED BY <2>2, <2>3, <3>6, <3>7, RoomWrite
  <2>4. QED BY Zenon, <2>2, <2>3, RoomFault
<1>5. ASSUME NEW j \in Jobs, Decline(j) \/ Collect(j) \/ Execute(j) \/ StartTrial(j) \/ RejectTrial(j) \/ RequestHost(j) PROVE RoomInv'
  <2>1. /\ Fresh(j) /\ scenario' = scenario /\ pc = "jobs"
        /\ \/ mem' = mem /\ disk' = disk /\ faults' = faults /\ pc' = "save" /\ intent' = intent
           \/ mem' = mem /\ disk' = disk /\ faults' = faults /\ pc' = "call" /\ intent' = [job |-> j, session |-> session]
           \/ /\ \E x : mem' = [mem EXCEPT ![j] = x]
              /\ disk' = mem' /\ faults' = faults /\ pc' = pc /\ intent' = intent
           \/ faults' = faults + 1
    BY Zenon, <1>5 DEF Decline, Collect, Execute, StartTrial, RejectTrial, RequestHost, Taken, Answer, Saved, NotSaved, controller,
       loop, journal
  <2>2. CASE mem' = mem /\ disk' = disk /\ faults' = faults /\ pc' = "save" /\ intent' = intent
    BY Zenon, <2>1, <2>2, RoomTake
  <2>3. CASE mem' = mem /\ disk' = disk /\ faults' = faults /\ pc' = "call" /\ intent' = [job |-> j, session |-> session]
    <3>1. intent'.job = j BY <2>3
    <3>2. QED BY Zenon, <2>1, <2>3, <3>1, RoomTake
  <2>4. CASE /\ \E x : mem' = [mem EXCEPT ![j] = x]
             /\ disk' = mem' /\ faults' = faults /\ pc' = pc /\ intent' = intent
    <3>1. PICK x : mem' = [mem EXCEPT ![j] = x] BY Zenon, <2>4
    <3>2. mem[j] = NoReceipt /\ Cardinality(Held(mem)) < JournalLimit BY Zenon, <2>1 DEF Fresh
    <3>3. pc \notin {"down", "call"} /\ pc' \notin {"down", "call", "save"} BY <2>1, <2>4
    <3>4. QED BY Zenon, <2>1, <2>4, <3>1, <3>2, <3>3, RoomRecord
  <2>5. QED BY Zenon, <2>1, <2>2, <2>3, <2>4, RoomFault
<1>6. ASSUME NEW j \in Jobs, FinishTrial(j) PROVE RoomInv'
  <2>1. /\ scenario' = scenario /\ pc \notin {"call", "save"} /\ pc' = pc /\ intent' = intent /\ j \in trials
        /\ \E x : mem' = [mem EXCEPT ![j] = x]
        /\ (disk' = mem' /\ faults' = faults) \/ faults' = faults + 1
    BY Zenon, <1>6 DEF FinishTrial, Saved, NotSaved, controller, loop
  <2>2. pc # "down" /\ Kind[j] = "trial" /\ mem[j] # NoReceipt
    <3>1. pc # "down" BY Zenon, <1>0, <2>1 DEF LoopInv
    <3>2. Kind[j] = "trial" /\ mem[j].status = "accepted" BY Zenon, <2>1 DEF JobsInv, JobInv, KindInv
    <3>3. QED BY <3>1, <3>2, NoReceiptFacts
  <2>3. CASE disk' = mem' /\ faults' = faults
    <3>1. PICK x : mem' = [mem EXCEPT ![j] = x] BY Zenon, <2>1
    <3>2. pc \notin {"down", "call"} /\ pc' \notin {"down", "call", "save"} BY <1>0, <2>1, <2>2 DEF LoopInv
    <3>3. QED BY Zenon, <2>1, <2>2, <2>3, <3>1, <3>2, RoomRecord
  <2>4. QED BY Zenon, <2>1, <2>3, RoomFault
<1>7. CASE CallFailed
  <2>1. /\ scenario' = scenario /\ mem' = mem /\ disk' = disk /\ faults' = faults
        /\ pc = "call" /\ pc' = "save" /\ intent' = NoIntent
    BY Zenon, <1>7 DEF CallFailed, Answer, controller, journal
  <2>2. Kind' = Kind /\ JournalLimit' = JournalLimit BY Zenon, <1>0, <2>1, LimitFacts
  <2>3. QED BY <2>1, <2>2 DEF RoomInv, Held
<1>8. CASE SaveJob
  <2>1. /\ scenario' = scenario /\ pc = "save" /\ pc' = "jobs" /\ intent' = intent
        /\ (mem' = [mem EXCEPT ![job] = rec] /\ disk' = mem' /\ faults' = faults) \/ faults' = faults + 1
    BY Zenon, <1>8 DEF SaveJob, Saved, NotSaved, controller
  <2>2. job \in Jobs /\ mem[job] = NoReceipt BY Zenon, <1>0, <2>1 DEF LoopInv
  <2>3. CASE mem' = [mem EXCEPT ![job] = rec] /\ disk' = mem' /\ faults' = faults
    <3>1. pc \notin {"down", "call"} /\ pc' \notin {"down", "call", "save"} BY <2>1
    <3>2. QED BY Zenon, <2>1, <2>2, <2>3, <3>1, RoomRecord
  <2>4. QED BY Zenon, <2>1, <2>3, RoomFault
<1>9. QED BY Zenon, <1>1, <1>2, <1>3, <1>4, <1>5, <1>6, <1>7, <1>8 DEF AgentStep

\* Every step keeps the room.
LEMMA RoomStep == JobsInv /\ RoomInv /\ [Next]_vars => RoomInv'
<1> SUFFICES ASSUME JobsInv, RoomInv, [Next]_vars PROVE RoomInv' OBVIOUS
<1>1. CASE ControllerStep \/ Stop \/ Confirm \/ UNCHANGED vars
  <2>1. scenario' = scenario /\ mem' = mem /\ disk' = disk /\ intent' = intent /\ faults' = faults /\ pc' = pc
    BY Zenon, <1>1 DEF ControllerStep, Submit, CancelPending, Deadline, ExpireJobs, HandleReport, HandleReportCut, Ingest, Stop, Confirm,
       vars, agent, controller, loop, journal
  <2>2. QED BY Zenon, <2>1, RoomQuiet
<1>2. CASE AgentStep BY Zenon, <1>2, RoomAgent
<1>3. CASE Crash \/ Exit \/ RollBack \/ \E j \in Jobs : Perform(j)
  <2>1. scenario' = scenario /\ disk' = disk /\ intent' = intent /\ faults' = faults /\ pc' = "down"
    BY Zenon, <1>3 DEF Crash, Exit, RollBack, Perform, Gone, controller
  <2>2. QED BY Zenon, <2>1, RoomGone
<1>4. CASE Open BY Zenon, <1>4, RoomOpen
<1>5. QED BY Zenon, <1>1, <1>2, <1>3, <1>4 DEF Next, ProcessStep

\* Nothing is held at first.
LEMMA RoomInitial == Init => RoomInv
<1> SUFFICES ASSUME Init PROVE RoomInv OBVIOUS
<1>1. mem = Empty /\ disk = Empty /\ intent = NoIntent /\ faults = 0 /\ pc = "idle" BY Zenon DEF Init
<1>2. Held(disk) = {} BY Zenon, <1>1, EmptyFacts DEF Held
<1>3. JobsInv BY JobsInitial
<1>4. JournalLimit \in Nat BY <1>3, JobDeliveryConstants DEF JournalLimit, JobsInv, JobsTypeOK
<1>5. QED BY <1>1, <1>2, <1>4, FS_EmptySet DEF RoomInv

\* Without failed writes the next process can open the journal.
THEOREM JobsJournalOpens == Spec => []JournalOpens
<1>1. RoomInv => JournalOpens BY Zenon DEF RoomInv, JournalOpens
<1>2. QED BY <1>1, JobsInvariant, RoomInitial, RoomStep, PTL DEF Spec

\* What the agent journals and reports is true (handleJob, ApplyReceipt).
THEOREM JobsReceiptsHonest == Spec => []ReceiptsHonest
<1>1. AcceptedIsJournalled /\ SuccessHappened /\ ExpiredUpdateDidNotRun /\ JournalOpens => ReceiptsHonest BY Zenon DEF ReceiptsHonest
<1>2. QED BY <1>1, JobsAcceptedIsJournalled, JobsSuccessHappened, JobsExpiredUpdateDidNotRun, JobsJournalOpens, PTL

================================================================================
