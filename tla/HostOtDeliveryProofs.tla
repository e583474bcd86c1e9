------------------------- MODULE HostOtDeliveryProofs -------------------------
(***************************************************************************)
(* Proofs about HostOtDelivery, for any episodes, threads, batches, spools  *)
(* and faults: what the sender leaves behind is done and documented, its    *)
(* heartbeats are honest, and the delivery implements InOrderDelivery.      *)
(***************************************************************************)
EXTENDS HostOtDelivery, FiniteSetTheorems, TLAPS

-----------------------------------------------------------------------------
\* The invariant.

\* What a thread at one of these places has done for its record.
Stored   == {"stored", "checked", "ingested", "read", "filed", "raised", "done"}
Checked  == Stored \ {"stored"}
Ingested == Checked \ {"checked"}
Deciding == {"read", "filed"}
Filed    == {"filed", "raised", "done"}
Raised   == {"raised", "done"}

\* A shutdown whose episode shows its latest evidence.
Urgent(i) == spool[i].shutdown /\ Episode(i) \notin overtaken

\* A thread works for a record that the sender has reached, and has done for it what its
\* place tells.
WorkDone(t) ==
    LET w == thread[t] IN
    w.at # "free" =>
        /\ w.record <= Len(spool) /\ w.record <= cursor + 1
        /\ w.record = Beat => w.at \in {"new", "stored", "raised", "done", "refused"}
        /\ w.record # Beat =>
              /\ w.at \in Stored => w.record \in objects
              /\ w.at \in Checked => IsEvent(w.record)
              /\ w.at \in Ingested => w.record \in applied
              /\ w.at \in Deciding => /\ w.priority # "none"
                                      /\ Urgent(w.record) => w.priority = "p1"
              /\ w.at \in Filed => priority[Episode(w.record)] # "none"
              /\ w.at \in Raised => (Urgent(w.record) => priority[Episode(w.record)] = "p1")

\* The values of an episode accumulate, so a shutdown stays one.
Accumulated ==
    \A i, j \in 1 .. Len(spool) :
        (i < j /\ IsEvent(i) /\ IsEvent(j) /\ Episode(i) = Episode(j) /\ spool[i].shutdown)
            => spool[j].shutdown

\* The signal of an episode holds one of its own events, and unless overtaken the last.
Evident ==
    /\ \A i \in applied : IsEvent(i) /\ i \in objects
    /\ \A e \in Episodes : evidence[e] # None =>
          evidence[e] \in applied /\ Episode(evidence[e]) = e
    /\ \A i \in applied : Episode(i) \notin overtaken => evidence[Episode(i)] >= i

\* The sender waits for one thread: for the heartbeat, or for the record after its cursor.
Waits ==
    /\ sender = "waiting" <=> awaited # NoThread
    /\ awaited # NoThread =>
          /\ thread[awaited].at # "free"
          /\ thread[awaited].record # Beat => /\ thread[awaited].record = cursor + 1
                                              /\ cursor < batch

\* Within a run, no record was ever tried beyond the batch.
Attempts ==
    /\ tried <= cursor + 1
    /\ sender \in {"sending", "waiting"} => tried <= batch \/ tried <= cursor

IInv == /\ TypeOK /\ DeliverySafe /\ HeartbeatHonest
        /\ Accumulated /\ Evident /\ Waits /\ Attempts
        /\ \A t \in Threads : WorkDone(t)

-----------------------------------------------------------------------------
\* Types.

Workings == [at : {"free", "new", "stored", "checked", "ingested", "read", "filed", "raised",
                "done", "refused"},
          record : 0 .. MaxRecords, priority : {"none", "p1", "p2"}]

LEMMA FreeTypes == Free \in Workings
<1>1. 0 \in 0 .. MaxRecords
  BY DeliveryAssumption
<1> QED BY <1>1 DEF Free, Workings

LEMMA TypeUnfolds ==
    ASSUME TypeOK
    PROVE  /\ thread \in [Threads -> Workings] /\ spool \in Seq(Records)
           /\ Len(spool) \in Nat /\ Len(spool) <= MaxRecords
           /\ cursor \in 0 .. Len(spool) /\ batch \in 0 .. Len(spool)
           /\ faults \in 0 .. MaxFaults
<1>1. Workings = [at : {"free", "new", "stored", "checked", "ingested", "read", "filed",
                        "raised", "done", "refused"},
                  record : 0 .. MaxRecords, priority : {"none", "p1", "p2"}]
  BY DEF Workings
<1>2. spool \in Seq(Records) /\ thread \in [Threads -> Workings]
  BY <1>1, Zenon DEF TypeOK
<1>3. Len(spool) \in Nat
  BY <1>2
<1> QED BY <1>2, <1>3 DEF TypeOK

LEMMA TypeInit == Init => TypeOK
<1> SUFFICES ASSUME Init PROVE TypeOK
  OBVIOUS
<1>1. spool \in Seq(Records) /\ Len(spool) = 0
  BY DEF Init
<1>2. thread \in [Threads -> Workings]
  BY FreeTypes DEF Init
<1> QED BY <1>1, <1>2, DeliveryAssumption DEF Init, TypeOK, None, Workings

\* A thread that goes on, answers or is given up keeps its type.
LEMMA ThreadTypes ==
    ASSUME TypeOK, NEW t \in Threads, NEW place \in {"new", "stored", "checked", "ingested",
           "read", "filed", "raised", "done", "refused"},
           \/ Goes(t, place) \/ Answers(t, place) \/ thread' = Abandoned
           \/ thread' = [thread EXCEPT ![t] = Free]
    PROVE  thread' \in [Threads -> Workings]
<1>1. Free \in Workings /\ thread \in [Threads -> Workings]
  BY FreeTypes, TypeUnfolds
<1>2. CASE Goes(t, place)
  BY <1>1, <1>2 DEF Goes, Workings
<1>3. CASE Answers(t, place)
  BY <1>1, <1>3 DEF Answers, Workings
<1>4. CASE thread' = Abandoned
  BY <1>1, <1>4 DEF Abandoned
<1>5. CASE thread' = [thread EXCEPT ![t] = Free]
  BY <1>1, <1>5
<1> QED BY <1>2, <1>3, <1>4, <1>5

LEMMA TypeStep ==
    ASSUME IInv, [Next]_vars
    PROVE  TypeOK'
<1> USE DEF IInv
<1> SUFFICES ASSUME TypeOK, thread \in [Threads -> Workings], spool \in Seq(Records),
                    cursor \in 0 .. Len(spool), faults \in 0 .. MaxFaults,
                    MaxFaults \in Nat, Len(spool) \in Nat, MaxRecords \in Nat,
                    Len(spool) <= MaxRecords
             PROVE  TypeOK'
  BY DeliveryAssumption, TypeUnfolds
<1>1. ASSUME NEW r \in Records, SpoolAppend(r) PROVE TypeOK'
  <2>1. spool' \in Seq(Records) /\ Len(spool') = Len(spool) + 1
    BY <1>1 DEF SpoolAppend
  <2> QED BY <1>1, <2>1 DEF SpoolAppend, TypeOK, store
<1>2. CASE ReadPending
  <2>1. BatchEnd \in 0 .. Len(spool)
    BY DeliveryAssumption DEF BatchEnd, Smaller, TypeOK
  <2> QED BY <1>2, <2>1 DEF ReadPending, TypeOK, store
<1>3. ASSUME NEW t \in Threads, Post(t) PROVE TypeOK'
  BY <1>3 DEF Post, Request, TypeOK, store, Workings
<1>4. ASSUME NEW t \in Threads, PostHeartbeat(t) PROVE TypeOK'
  BY <1>4 DEF PostHeartbeat, Request, TypeOK, store, Workings, Beat
<1>5. CASE RunEnds
  BY <1>5 DEF RunEnds, TypeOK, store
<1>6. ASSUME NEW t \in Threads, Accepted(t) PROVE TypeOK'
  <2>1. thread' \in [Threads -> Workings]
    BY <1>6, ThreadTypes DEF Accepted
  <2>2. thread[t].record # Beat => thread[t].record = cursor + 1 /\ cursor < batch
    BY <1>6, DeliveryAssumption DEF Waits, Accepted, NoThread
  <2> QED BY <1>6, <2>1, <2>2 DEF Accepted, Save, TypeOK, store, Workings
<1>7. ASSUME NEW t \in Threads, Refused(t) PROVE TypeOK'
  <2>1. thread' \in [Threads -> Workings]
    BY <1>7, ThreadTypes DEF Refused
  <2> QED BY <1>7, <2>1 DEF Refused, NotSaved, TypeOK, store, Workings
<1>8. CASE GiveUp
  <2>1. thread' \in [Threads -> Workings]
    BY <1>8 DEF GiveUp, Abandoned, Free, Workings
  <2> QED BY <1>8, <2>1 DEF GiveUp, TypeOK, store, Workings
<1>9. CASE SenderDies
  <2>1. thread' \in [Threads -> Workings]
    BY <1>9 DEF SenderDies, Abandoned, Free, Workings
  <2> QED BY <1>9, <2>1 DEF SenderDies, TypeOK, store, Workings
<1>10. CASE SenderStarts
  BY <1>10 DEF SenderStarts, TypeOK, store
<1>11. ASSUME NEW t \in Threads, StoreBody(t) PROVE TypeOK'
  <2>1. thread' \in [Threads -> Workings]
    BY <1>11, ThreadTypes DEF StoreBody
  <2>2. thread[t].record \in 0 .. Len(spool)
    BY <1>11 DEF StoreBody, WorkDone, Workings
  <2>3. objects' \subseteq 1 .. Len(spool)
    <3>1. objects \subseteq 1 .. Len(spool)
      BY DEF TypeOK
    <3>2. thread[t].record # Beat => thread[t].record \in 1 .. Len(spool)
      BY <2>2 DEF Beat
    <3> QED BY <1>11, <3>1, <3>2 DEF StoreBody, Stores
  <2> QED BY <1>11, <2>1, <2>3 DEF StoreBody, TypeOK, store, plc, Workings
<1>12. ASSUME NEW t \in Threads, CheckRevision(t) PROVE TypeOK'
  <2>1. thread' \in [Threads -> Workings]
    BY <1>12, ThreadTypes DEF CheckRevision
  <2> QED BY <1>12, <2>1 DEF CheckRevision, TypeOK, store, plc, Workings
<1>13. ASSUME NEW t \in Threads, Ingest(t) PROVE TypeOK'
  <2>1. thread' \in [Threads -> Workings]
    BY <1>13, ThreadTypes DEF Ingest
  <2>2. thread[t].record \in 1 .. Len(spool)
    BY <1>13 DEF Ingest, WorkDone, IsEvent, Beat, Checked, Stored
  <2>3. spool[thread[t].record] \in Records
    BY <2>2
  <2>4. Episode(thread[t].record) \in Episodes
    BY <2>3 DEF Episode, Records
  <2>5. /\ evidence' \in [Episodes -> 0 .. Len(spool)] /\ count' \in [Episodes -> Nat]
        /\ applied' \subseteq 1 .. Len(spool) /\ overtaken' \subseteq Episodes
    <3>1. /\ applied \subseteq 1 .. Len(spool) /\ overtaken \subseteq Episodes
          /\ evidence \in [Episodes -> 0 .. Len(spool)] /\ count \in [Episodes -> Nat]
      BY DEF TypeOK
    <3>2. thread[t].record \in 0 .. Len(spool)
      BY <2>2
    <3>3. /\ applied' = applied \cup {thread[t].record}
          /\ overtaken' \subseteq overtaken \cup {Episode(thread[t].record)}
          /\ evidence' = [evidence EXCEPT ![Episode(thread[t].record)] = thread[t].record]
          /\ count' = [count EXCEPT ![Episode(thread[t].record)]
                          = IF IsNew(thread[t].record) THEN @ + 1 ELSE @]
      BY <1>13 DEF Ingest
    <3>4. evidence' \in [Episodes -> 0 .. Len(spool)]
      BY <3>1, <3>2, <3>3
    <3>5. \A n \in Nat : (IF IsNew(thread[t].record) THEN n + 1 ELSE n) \in Nat
      OBVIOUS
    <3>6. count' \in [Episodes -> Nat]
      BY <3>1, <3>3, <3>5
    <3> QED BY <2>2, <2>4, <3>1, <3>3, <3>4, <3>6
  <2> QED BY <1>13, <2>1, <2>5 DEF Ingest, TypeOK, plc, Workings
<1>14. ASSUME NEW t \in Threads, ReadSignal(t) PROVE TypeOK'
  BY <1>14 DEF ReadSignal, Desired, TypeOK, plc, store, Workings
<1>15. ASSUME NEW t \in Threads, FileTicket(t) PROVE TypeOK'
  <2>1. thread' \in [Threads -> Workings]
    BY <1>15, ThreadTypes DEF FileTicket
  <2> QED BY <1>15, <2>1 DEF FileTicket, TypeOK, plc, Workings
<1>16. ASSUME NEW t \in Threads, RaisePriority(t) PROVE TypeOK'
  <2>1. thread' \in [Threads -> Workings]
    BY <1>16, ThreadTypes DEF RaisePriority
  <2> QED BY <1>16, <2>1 DEF RaisePriority, Raises, TypeOK, plc, Workings
<1>17. ASSUME NEW t \in Threads, StoreStatus(t) PROVE TypeOK'
  <2>1. thread' \in [Threads -> Workings]
    BY <1>17, ThreadTypes DEF StoreStatus
  <2> QED BY <1>17, <2>1 DEF StoreStatus, TypeOK, plc, store, Workings
<1>18. ASSUME NEW t \in Threads, Fails(t) PROVE TypeOK'
  <2>1. thread' \in [Threads -> Workings]
    BY <1>18, ThreadTypes DEF Fails
  <2> QED BY <1>18, <2>1 DEF Fails, TypeOK, plc, store, Workings
<1>19. CASE ServerDies
  BY <1>19 DEF ServerDies, TypeOK, store, Free, Workings
<1>20. CASE UNCHANGED vars
  BY <1>20 DEF vars, TypeOK, plc, store
<1> QED
  BY <1>1, <1>2, <1>3, <1>4, <1>5, <1>6, <1>7, <1>8, <1>9, <1>10, <1>11, <1>12, <1>13, <1>14,
     <1>15, <1>16, <1>17, <1>18, <1>19, <1>20 DEF Next, Sends, Works

-----------------------------------------------------------------------------
\* What only grows.

Grows ==
    /\ Len(spool) <= Len(spool') /\ \A i \in 1 .. Len(spool) : spool'[i] = spool[i]
    /\ cursor <= cursor'
    /\ objects \subseteq objects' /\ applied \subseteq applied'
    /\ overtaken \subseteq overtaken'
    /\ \A e \in Episodes : /\ priority[e] # "none" => priority'[e] # "none"
                           /\ priority[e] = "p1" => priority'[e] = "p1"

LEMMA StepGrows ==
    ASSUME IInv, [Next]_vars
    PROVE  Grows
<1> USE DEF IInv, Grows
<1> SUFFICES ASSUME spool \in Seq(Records), Len(spool) \in Nat, cursor \in 0 .. Len(spool),
                    priority \in [Episodes -> {"none", "p1", "p2"}],
                    thread \in [Threads -> Workings]
             PROVE  Grows
  BY TypeUnfolds DEF TypeOK
<1>1. ASSUME NEW r \in Records, SpoolAppend(r) PROVE Grows
  BY <1>1 DEF SpoolAppend, store
<1>2. CASE ReadPending \/ RunEnds \/ GiveUp \/ SenderDies \/ SenderStarts \/ ServerDies
  BY <1>2 DEF ReadPending, RunEnds, GiveUp, SenderDies, SenderStarts, ServerDies, store
<1>3. ASSUME NEW t \in Threads, Post(t) \/ PostHeartbeat(t) \/ Refused(t) PROVE Grows
  BY <1>3 DEF Post, PostHeartbeat, Refused, NotSaved, store
<1>4. ASSUME NEW t \in Threads, Accepted(t) PROVE Grows
  <2>1. thread[t].record # Beat => thread[t].record = cursor + 1
    BY <1>4, DeliveryAssumption DEF Waits, Accepted, NoThread
  <2> QED BY <1>4, <2>1 DEF Accepted, Save, store
<1>5. ASSUME NEW t \in Threads,
             StoreBody(t) \/ CheckRevision(t) \/ ReadSignal(t) \/ StoreStatus(t) \/ Fails(t)
      PROVE Grows
  BY <1>5 DEF StoreBody, Stores, CheckRevision, ReadSignal, StoreStatus, Fails, store, plc
<1>6. ASSUME NEW t \in Threads, Ingest(t) PROVE Grows
  BY <1>6 DEF Ingest, plc
<1>7. ASSUME NEW t \in Threads, FileTicket(t) PROVE Grows
  BY <1>7 DEF FileTicket, plc
<1>8. ASSUME NEW t \in Threads, RaisePriority(t) PROVE Grows
  BY <1>8 DEF RaisePriority, Raises, plc
<1>9. CASE UNCHANGED vars
  BY <1>9 DEF vars, plc, store
<1> QED
  BY <1>1, <1>2, <1>3, <1>4, <1>5, <1>6, <1>7, <1>8, <1>9 DEF Next, Sends, Works

\* Each record is of an episode.
LEMMA EpisodeTypes ==
    ASSUME TypeOK, NEW i \in 1 .. Len(spool)
    PROVE  Episode(i) \in Episodes
<1>1. spool[i] \in Records
  BY TypeUnfolds
<1> QED BY <1>1 DEF Episode, Records

\* What a spool that has only grown still says.
LEMMA Same ==
    ASSUME TypeOK, TypeOK', Grows, NEW i \in 1 .. Len(spool)
    PROVE  /\ i \in 1 .. Len(spool') /\ spool'[i] = spool[i]
           /\ Episode(i)' = Episode(i) /\ IsEvent(i)' = IsEvent(i)
           /\ Episode(i) \in Episodes /\ spool[i].shutdown \in BOOLEAN
           /\ Urgent(i)' => Urgent(i)
<1>1. Len(spool) \in Nat /\ Len(spool') \in Nat /\ spool \in Seq(Records)
  BY DEF TypeOK
<1>2. i \in 1 .. Len(spool') /\ spool'[i] = spool[i]
  BY <1>1 DEF Grows
<1>3. spool[i] \in Records
  BY <1>1
<1> QED BY <1>2, <1>3 DEF Episode, IsEvent, Urgent, Records, Grows

-----------------------------------------------------------------------------
\* The threads.

\* A thread that does nothing, is refused or is free has still done what its place tells.
LEMMA WorkStays ==
    ASSUME TypeOK, TypeOK', Grows, NEW t \in Threads, WorkDone(t),
           \/ thread'[t] = thread[t] \/ thread'[t] = Free
           \/ thread[t].at # "free" /\ thread'[t] = [thread[t] EXCEPT !.at = "refused"]
    PROVE  WorkDone(t)'
<1>1. thread[t] \in Workings /\ Len(spool) \in Nat /\ cursor \in Nat
      /\ Len(spool') \in Nat /\ cursor' \in Nat /\ MaxRecords \in Nat
  BY TypeUnfolds, DeliveryAssumption DEF TypeOK
<1>2. CASE thread'[t] = Free
  BY <1>2 DEF WorkDone, Free
<1>3. CASE thread[t].at # "free" /\ thread'[t] = [thread[t] EXCEPT !.at = "refused"]
  BY <1>1, <1>3 DEF WorkDone, Grows, Workings, Stored, Checked, Ingested, Deciding, Filed,
     Raised, Beat
<1>4. CASE thread'[t] = thread[t]
  <2>1. CASE thread[t].at = "free"
    BY <1>4, <2>1 DEF WorkDone
  <2>2. CASE thread[t].at # "free" /\ thread[t].record = Beat
    BY <1>1, <1>4, <2>2 DEF WorkDone, Grows, Workings, Beat
  <2>3. CASE thread[t].at # "free" /\ thread[t].record # Beat
    <3>1. thread[t].record \in 1 .. Len(spool)
      BY <1>1, <2>3 DEF WorkDone, Workings, Beat
    <3> DEFINE i == thread[t].record
    <3>2. /\ spool'[i] = spool[i] /\ Episode(i) \in Episodes
          /\ (spool'[i].episode = spool[i].episode)
          /\ IsEvent(i) => i \in 1 .. Len(spool') /\ spool'[i].kind = "event"
          /\ (spool'[i].shutdown /\ spool'[i].episode \notin overtaken') => Urgent(i)
      BY <3>1, <1>1, Same DEF Grows, Urgent, Episode, IsEvent
    <3>3. /\ i <= Len(spool') /\ i <= cursor' + 1
      BY <1>1, <2>3, <3>1 DEF WorkDone, Grows
    <3> QED BY <1>4, <2>3, <3>2, <3>3 DEF WorkDone, Grows, Urgent, Episode, IsEvent
  <2> QED BY <2>1, <2>2, <2>3
<1> QED BY <1>2, <1>3, <1>4

\* The threads that a step leaves alone.
LEMMA OthersStay ==
    ASSUME IInv, TypeOK', Grows, NEW t \in Threads, NEW w,
           thread' = [thread EXCEPT ![t] = w], NEW u \in Threads \ {t}
    PROVE  WorkDone(u)'
<1>1. thread'[u] = thread[u]
  BY TypeUnfolds DEF IInv
<1> QED BY <1>1, WorkStays DEF IInv

LEMMA WorkStep ==
    ASSUME IInv, TypeOK', Grows, [Next]_vars
    PROVE  \A t \in Threads : WorkDone(t)'
<1> USE DEF Beat
<1> DEFINE Done == \A u \in Threads : WorkDone(u)'
<1>0. /\ thread \in [Threads -> Workings] /\ Len(spool) \in Nat /\ cursor \in Nat
      /\ batch \in 0 .. Len(spool) /\ \A t \in Threads : WorkDone(t)
  BY TypeUnfolds DEF IInv, TypeOK
<1>1. ASSUME thread' = thread PROVE Done
  BY <1>1, WorkStays DEF IInv
<1>2. ASSUME \A u \in Threads : thread'[u] = thread[u] \/ thread'[u] = Free PROVE Done
  BY <1>2, WorkStays DEF IInv
<1>3. ASSUME NEW t \in Threads, Answers(t, "refused"), thread[t].at # "free" PROVE Done
  <2>1. ASSUME NEW u \in Threads PROVE WorkDone(u)'
    BY <1>0, <1>3, <2>1, WorkStays DEF Answers, IInv
  <2> QED BY <2>1
<1>4. ASSUME NEW t \in Threads, Post(t) PROVE Done
  <2>1. thread'[t].record = cursor + 1 /\ thread'[t].at = "new" /\ cursor' = cursor
        /\ spool' = spool /\ cursor < batch
    BY <1>0, <1>4 DEF Post, Request
  <2>2. WorkDone(t)'
    BY <1>0, <2>1 DEF WorkDone, Stored, Checked, Ingested, Deciding, Filed, Raised
  <2> QED BY <1>4, <2>2, OthersStay DEF Post, Request
<1>5. ASSUME NEW t \in Threads, PostHeartbeat(t) PROVE Done
  <2>1. thread'[t].record = Beat /\ thread'[t].at = "new" /\ cursor' = cursor /\ spool' = spool
    BY <1>0, <1>5 DEF PostHeartbeat, Request
  <2>2. WorkDone(t)'
    BY <1>0, <2>1 DEF WorkDone
  <2> QED BY <1>5, <2>2, OthersStay DEF PostHeartbeat, Request
<1>6. ASSUME NEW t \in Threads, StoreBody(t) PROVE Done
  <2>1. WorkDone(t)'
    BY <1>0, <1>6 DEF StoreBody, Goes, Stores, plc, WorkDone, Stored, Checked, Ingested, Deciding,
       Filed, Raised, Workings
  <2> QED BY <1>6, <2>1, OthersStay DEF StoreBody, Goes
<1>7. ASSUME NEW t \in Threads, CheckRevision(t) PROVE Done
  <2>1. CASE Answers(t, "refused")
    BY <1>3, <1>7, <2>1 DEF CheckRevision
  <2>2. CASE Goes(t, "raised") /\ thread[t].record = Beat
    <3>1. WorkDone(t)'
      BY <1>0, <1>7, <2>2 DEF CheckRevision, Goes, plc, WorkDone, Workings
    <3> QED BY <2>2, <3>1, OthersStay DEF Goes
  <2>3. CASE Goes(t, "checked") /\ thread[t].record # Beat /\ Acceptable(thread[t].record)
    <3>1. IsEvent(thread[t].record)
      BY <2>3 DEF Acceptable
    <3>2. WorkDone(t)'
      BY <1>0, <1>7, <2>3, <3>1 DEF CheckRevision, Goes, plc, store, WorkDone, Workings, IsEvent,
         Stored, Checked, Ingested, Deciding, Filed, Raised
    <3> QED BY <2>3, <3>2, OthersStay DEF Goes
  <2> QED BY <1>7, <2>1, <2>2, <2>3 DEF CheckRevision
<1>8. ASSUME NEW t \in Threads, Ingest(t) PROVE Done
  <2>1. WorkDone(t)'
    BY <1>0, <1>8 DEF Ingest, Goes, plc, WorkDone, Workings, IsEvent,
       Stored, Checked, Ingested, Deciding, Filed, Raised
  <2> QED BY <1>8, <2>1, OthersStay DEF Ingest, Goes
<1>9. ASSUME NEW t \in Threads, ReadSignal(t) PROVE Done
  <2> DEFINE i == thread[t].record
             e == Episode(i)
  <2>1. /\ i # Beat /\ IsEvent(i) /\ i \in applied
    BY <1>0, <1>9 DEF ReadSignal, WorkDone, Stored, Checked, Ingested
  <2>2. Urgent(i) => Desired(e) = "p1"
    <3> SUFFICES ASSUME Urgent(i) PROVE spool[evidence[e]].shutdown
      BY DEF Desired
    <3>1. evidence[e] >= i /\ i \in 1 .. Len(spool)
      BY <2>1 DEF Urgent, IInv, Evident, IsEvent
    <3>2. e \in Episodes /\ evidence[e] \in 0 .. Len(spool)
      <4>1. e \in Episodes
        BY <2>1, EpisodeTypes DEF IsEvent, IInv
      <4> QED BY <4>1 DEF IInv, TypeOK
    <3>3. evidence[e] # None /\ IsEvent(evidence[e]) /\ Episode(evidence[e]) = e
      BY <3>1, <3>2 DEF None, IInv, Evident
    <3> QED BY <2>1, <3>1, <3>2, <3>3, <1>0 DEF Urgent, IInv, Accumulated
  <2>3. Desired(e) \in {"p1", "p2"}
    BY DEF Desired
  <2>4. thread'[t] = [thread[t] EXCEPT !.at = "read", !.priority = Desired(e)]
    BY <1>0, <1>9 DEF ReadSignal
  <2>5. WorkDone(t)'
    BY <1>0, <1>9, <2>1, <2>2, <2>3, <2>4 DEF ReadSignal, plc, store, WorkDone, Workings, IsEvent,
       Episode, Urgent, Stored, Checked, Ingested, Deciding, Filed, Raised
  <2>6. \A u \in Threads \ {t} : thread'[u] = thread[u]
    BY <1>0, <1>9 DEF ReadSignal
  <2> QED BY <2>5, <2>6, WorkStays DEF IInv
<1>10. ASSUME NEW t \in Threads, FileTicket(t) PROVE Done
  <2>1. thread[t].record # Beat /\ thread[t].record \in 1 .. Len(spool)
    BY <1>0, <1>10 DEF FileTicket, WorkDone, Stored, Checked, IsEvent
  <2>2. Episode(thread[t].record) \in Episodes
    BY <2>1, EpisodeTypes DEF IInv
  <2>3. priority \in [Episodes -> {"none", "p1", "p2"}]
    BY DEF IInv, TypeOK
  <2>4. WorkDone(t)'
    BY <1>0, <1>10, <2>1, <2>2, <2>3 DEF FileTicket, Goes, plc, WorkDone, Workings, IsEvent,
       Episode, Urgent, Stored, Checked, Ingested, Deciding, Filed, Raised
  <2> QED BY <1>10, <2>4, OthersStay DEF FileTicket, Goes
<1>11. ASSUME NEW t \in Threads, RaisePriority(t) PROVE Done
  <2>1. thread[t].record # Beat /\ thread[t].record \in 1 .. Len(spool)
    BY <1>0, <1>11 DEF RaisePriority, WorkDone, Stored, Checked, IsEvent
  <2>2. Episode(thread[t].record) \in Episodes
    BY <2>1, EpisodeTypes DEF IInv
  <2>3. priority \in [Episodes -> {"none", "p1", "p2"}]
    BY DEF IInv, TypeOK
  <2>4. WorkDone(t)'
    BY <1>0, <1>11, <2>1, <2>2, <2>3 DEF RaisePriority, Raises, Goes, plc, WorkDone, Workings,
       IsEvent, Episode, Urgent, Stored, Checked, Ingested, Deciding, Filed, Raised
  <2> QED BY <1>11, <2>4, OthersStay DEF RaisePriority, Goes
<1>12. ASSUME NEW t \in Threads, StoreStatus(t) PROVE Done
  <2>1. CASE awaited # t
    <3>1. \A u \in Threads : thread'[u] = thread[u] \/ thread'[u] = Free
      BY <1>0, <1>12, <2>1 DEF StoreStatus, Answers
    <3> QED BY <3>1, <1>2
  <2>2. CASE awaited = t
    <3>1. thread' = [thread EXCEPT ![t] = [@ EXCEPT !.at = "done"]]
      BY <1>12, <2>2 DEF StoreStatus, Answers
    <3>2. WorkDone(t)'
      BY <1>0, <1>12, <3>1 DEF StoreStatus, plc, store, WorkDone, Workings,
         IsEvent, Episode, Urgent, Stored, Checked, Ingested, Deciding, Filed, Raised
    <3> QED BY <3>1, <3>2, OthersStay
  <2> QED BY <2>1, <2>2
<1>13. ASSUME NEW t \in Threads, Fails(t) PROVE Done
  BY <1>13, <1>3 DEF Fails
<1>14. ASSUME NEW t \in Threads, Accepted(t) \/ Refused(t) PROVE Done
  <2>1. \A u \in Threads : thread'[u] = thread[u] \/ thread'[u] = Free
    BY <1>0, <1>14 DEF Accepted, Refused
  <2> QED BY <2>1, <1>2
<1>15. CASE GiveUp \/ SenderDies \/ ServerDies
  <2>1. \A u \in Threads : thread'[u] = thread[u] \/ thread'[u] = Free
    BY <1>0, <1>15 DEF GiveUp, SenderDies, ServerDies, Abandoned
  <2> QED BY <2>1, <1>2
<1>16. CASE ReadPending \/ RunEnds \/ SenderStarts \/ UNCHANGED vars
            \/ \E r \in Records : SpoolAppend(r)
  BY <1>16, <1>1 DEF ReadPending, RunEnds, SenderStarts, SpoolAppend, vars
<1> QED
  BY <1>4, <1>5, <1>6, <1>7, <1>8, <1>9, <1>10, <1>11, <1>12, <1>13, <1>14, <1>15, <1>16
     DEF Next, Sends, Works

-----------------------------------------------------------------------------
\* The evidence.

LEMMA AccumulatedStep ==
    ASSUME IInv, TypeOK', Grows, [Next]_vars
    PROVE  Accumulated'
<1>1. CASE spool' = spool
  BY <1>1 DEF IInv, Accumulated, IsEvent, Episode
<1>2. ASSUME NEW r \in Records, SpoolAppend(r) PROVE Accumulated'
  <2>1. /\ spool \in Seq(Records) /\ Len(spool) \in Nat
        /\ spool' = Append(spool, r) /\ Len(spool') = Len(spool) + 1
        /\ spool'[Len(spool) + 1] = r /\ \A i \in 1 .. Len(spool) : spool'[i] = spool[i]
    BY <1>2, TypeUnfolds DEF SpoolAppend, IInv
  <2> SUFFICES ASSUME NEW i \in 1 .. Len(spool'), NEW j \in 1 .. Len(spool'), i < j,
                      IsEvent(i)', IsEvent(j)', Episode(i)' = Episode(j)', spool'[i].shutdown
               PROVE  spool'[j].shutdown
    BY DEF Accumulated
  <2>2. i \in 1 .. Len(spool)
    BY <2>1
  <2>3. CASE j \in 1 .. Len(spool)
    BY <2>1, <2>2, <2>3 DEF IInv, Accumulated, IsEvent, Episode
  <2>4. CASE j = Len(spool) + 1
    BY <1>2, <2>1, <2>2, <2>4 DEF SpoolAppend, Accumulates, IsEvent, Episode
  <2> QED BY <2>1, <2>3, <2>4
<1>3. spool' = spool \/ \E r \in Records : SpoolAppend(r)
  BY DEF Next, Sends, Works, vars, plc, store, ReadPending, RunEnds, Post, Accepted, Refused,
     GiveUp, SenderDies, SenderStarts, PostHeartbeat, StoreBody, CheckRevision, Ingest,
     ReadSignal, FileTicket, RaisePriority, StoreStatus, Fails, ServerDies
<1> QED BY <1>1, <1>2, <1>3

LEMMA EvidentStep ==
    ASSUME IInv, TypeOK', Grows, [Next]_vars
    PROVE  Evident'
<1>0. /\ Len(spool) \in Nat /\ Len(spool') \in Nat /\ applied \subseteq 1 .. Len(spool)
      /\ evidence \in [Episodes -> 0 .. Len(spool)]
  BY TypeUnfolds DEF IInv, TypeOK
<1>1. \A i \in 1 .. Len(spool) : /\ Episode(i)' = Episode(i) /\ IsEvent(i)' = IsEvent(i)
                                 /\ Episode(i) \in Episodes
  BY Same DEF IInv
<1>2. CASE UNCHANGED <<evidence, applied, overtaken>>
  <2>1. \A i \in applied' : IsEvent(i)' /\ i \in objects'
    BY <1>0, <1>1, <1>2 DEF IInv, Evident, Grows
  <2>2. ASSUME NEW e \in Episodes, evidence'[e] # None
        PROVE  evidence'[e] \in applied' /\ spool'[evidence'[e]].episode = e
    <3>1. evidence'[e] \in applied' /\ Episode(evidence[e]) = e /\ evidence'[e] = evidence[e]
      BY <1>2, <2>2 DEF IInv, Evident
    <3>2. spool'[evidence[e]] = spool[evidence[e]]
      BY <1>0, <1>2, <3>1 DEF Grows
    <3> QED BY <3>1, <3>2 DEF Episode
  <2>3. \A i \in applied' : Episode(i)' \notin overtaken' => evidence'[Episode(i)'] >= i
    BY <1>0, <1>1, <1>2 DEF IInv, Evident
  <2> QED BY <2>1, <2>2, <2>3 DEF Evident, Episode
<1>3. ASSUME NEW t \in Threads, Ingest(t) PROVE Evident'
  <2> DEFINE i == thread[t].record
             e == Episode(i)
  <2>1. /\ IsEvent(i) /\ i \in objects /\ i \in 1 .. Len(spool) /\ e \in Episodes
    BY <1>1, <1>3 DEF Ingest, IInv, WorkDone, Checked, Stored, IsEvent, Beat
  <2>2. /\ spool' = spool /\ objects' = objects /\ applied' = applied \cup {i}
        /\ evidence' = [evidence EXCEPT ![e] = i]
        /\ overtaken' = IF evidence[e] <= i THEN overtaken ELSE overtaken \cup {e}
    BY <1>3 DEF Ingest, plc
  <2>3. \A j \in applied' : IsEvent(j)' /\ j \in objects'
    BY <2>1, <2>2 DEF IInv, Evident, IsEvent
  <2>4. \A f \in Episodes : evidence'[f] # None =>
            evidence'[f] \in applied' /\ spool'[evidence'[f]].episode = f
    BY <1>0, <2>1, <2>2 DEF IInv, Evident, Episode
  <2>5. ASSUME NEW j \in applied', Episode(j)' \notin overtaken'
        PROVE  evidence'[Episode(j)'] >= j
    <3>1. j \in 1 .. Len(spool) /\ Episode(j)' = Episode(j) /\ Episode(j) \in Episodes
      BY <1>0, <1>1, <2>1, <2>2
    <3>2. CASE Episode(j) # e
      BY <1>0, <2>2, <2>5, <3>1, <3>2 DEF IInv, Evident
    <3>3. CASE Episode(j) = e
      <4>1. evidence[e] <= i /\ overtaken' = overtaken
        BY <2>2, <2>5, <3>1, <3>3
      <4>2. j = i \/ evidence[e] >= j
        BY <2>2, <2>5, <3>1, <3>3, <4>1 DEF IInv, Evident
      <4> QED BY <1>0, <2>1, <2>2, <3>1, <3>3, <4>1, <4>2
    <3> QED BY <3>2, <3>3
  <2> QED BY <2>3, <2>4, <2>5 DEF Evident, Episode
<1>4. UNCHANGED <<evidence, applied, overtaken>> \/ \E t \in Threads : Ingest(t)
  BY DEF Next, Sends, Works, vars, plc, store, ReadPending, RunEnds, Post, Accepted, Refused,
     GiveUp, SenderDies, SenderStarts, PostHeartbeat, StoreBody, CheckRevision, SpoolAppend,
     ReadSignal, FileTicket, RaisePriority, StoreStatus, Fails, ServerDies
<1> QED BY <1>2, <1>3, <1>4
-----------------------------------------------------------------------------
\* The sender.

\* The steps by what they do to the sender and its thread.
LEMMA SenderSteps ==
    ASSUME IInv, [Next]_vars
    PROVE  \/ UNCHANGED <<sender, awaited, thread, cursor, batch, tried>>
           \/ ReadPending \/ RunEnds \/ SenderStarts \/ GiveUp \/ SenderDies \/ ServerDies
           \/ \E t \in Threads : Post(t) \/ PostHeartbeat(t) \/ Accepted(t) \/ Refused(t)
           \/ /\ UNCHANGED <<sender, awaited, cursor, batch, tried>>
              /\ awaited # NoThread => /\ thread'[awaited].record = thread[awaited].record
                                       /\ thread'[awaited].at # "free"
<1>0. thread \in [Threads -> Workings] /\ awaited \in Threads \cup {NoThread}
  BY TypeUnfolds DEF IInv, TypeOK
<1>1. ASSUME NEW t \in Threads, Works(t) \/ Fails(t)
      PROVE  /\ UNCHANGED <<sender, awaited, cursor, batch, tried>>
             /\ awaited # NoThread => /\ thread'[awaited].record = thread[awaited].record
                                      /\ thread'[awaited].at # "free"
  <2>1. UNCHANGED <<sender, awaited, cursor, batch, tried>>
    BY <1>1 DEF Works, Fails, plc, StoreBody, CheckRevision, Ingest, ReadSignal, FileTicket,
       RaisePriority, StoreStatus
  <2>2. \/ \E at \in {"stored", "checked", "ingested", "filed", "raised"} : Goes(t, at)
        \/ \E at \in {"done", "refused"} : Answers(t, at)
        \/ ReadSignal(t)
    BY <1>1 DEF Works, Fails, StoreBody, CheckRevision, Ingest, FileTicket, RaisePriority,
       StoreStatus
  <2>3. ASSUME awaited # NoThread
        PROVE  /\ thread'[awaited].record = thread[awaited].record
               /\ thread'[awaited].at # "free"
    <3>1. awaited \in Threads /\ thread[awaited].at # "free"
      BY <1>0, <2>3 DEF IInv, Waits
    <3>2. CASE \E at \in {"stored", "checked", "ingested", "filed", "raised"} : Goes(t, at)
      BY <1>0, <3>1, <3>2 DEF Goes, Workings
    <3>3. CASE \E at \in {"done", "refused"} : Answers(t, at)
      BY <1>0, <3>1, <3>3 DEF Answers, Workings
    <3>4. CASE ReadSignal(t)
      BY <1>0, <3>1, <3>4 DEF ReadSignal, Workings
    <3> QED BY <2>2, <3>2, <3>3, <3>4
  <2> QED BY <2>1, <2>3
<1>2. ASSUME NEW r \in Records, SpoolAppend(r)
      PROVE  UNCHANGED <<sender, awaited, thread, cursor, batch, tried>>
  BY <1>2 DEF SpoolAppend
<1>3. CASE UNCHANGED vars
  BY <1>3 DEF vars, plc
<1> QED BY <1>1, <1>2, <1>3 DEF Next, Sends

LEMMA WaitsStep ==
    ASSUME IInv, [Next]_vars
    PROVE  Waits'
<1>0. thread \in [Threads -> Workings] /\ awaited \in Threads \cup {NoThread} /\ Waits
  BY TypeUnfolds DEF IInv, TypeOK
<1>1. CASE UNCHANGED <<sender, awaited, thread, cursor, batch, tried>>
  BY <1>0, <1>1 DEF Waits
<1>2. CASE ReadPending \/ RunEnds \/ SenderStarts
  BY <1>0, <1>2 DEF ReadPending, RunEnds, SenderStarts, Waits
<1>3. CASE GiveUp \/ SenderDies \/ ServerDies
  BY <1>0, <1>3 DEF GiveUp, SenderDies, ServerDies, Waits
<1>4. ASSUME NEW t \in Threads, Post(t) \/ PostHeartbeat(t) PROVE Waits'
  <2>1. sender' = "waiting" /\ awaited' = t /\ t # NoThread
    BY <1>4, DeliveryAssumption DEF Post, PostHeartbeat, Request, NoThread
  <2>2. thread'[t].at # "free"
    BY <1>0, <1>4 DEF Post, PostHeartbeat, Request
  <2>3. thread'[t].record # Beat => /\ thread'[t].record = cursor' + 1 /\ cursor' < batch'
    BY <1>0, <1>4 DEF Post, PostHeartbeat, Request
  <2> QED BY <2>1, <2>2, <2>3 DEF Waits
<1>5. ASSUME NEW t \in Threads, Accepted(t) \/ Refused(t) PROVE Waits'
  BY <1>5 DEF Accepted, Refused, Waits
<1>6. CASE /\ UNCHANGED <<sender, awaited, cursor, batch, tried>>
           /\ awaited # NoThread => /\ thread'[awaited].record = thread[awaited].record
                                    /\ thread'[awaited].at # "free"
  BY <1>0, <1>6 DEF Waits
<1> QED BY <1>1, <1>2, <1>3, <1>4, <1>5, <1>6, SenderSteps

LEMMA AttemptsStep ==
    ASSUME IInv, Grows, [Next]_vars
    PROVE  Attempts'
<1>0. /\ Len(spool) \in Nat /\ cursor \in 0 .. Len(spool) /\ batch \in 0 .. Len(spool)
      /\ tried \in 0 .. Len(spool) /\ BatchLimit \in Nat \ {0} /\ Attempts
  BY TypeUnfolds, DeliveryAssumption DEF IInv, TypeOK
<1>1. CASE UNCHANGED <<sender, cursor, batch, tried>>
  BY <1>1, <1>0 DEF Attempts
<1>2. CASE ReadPending
  <2>1. batch' = BatchEnd /\ tried' = tried /\ cursor' = cursor
    BY <1>2 DEF ReadPending
  <2>2. tried <= BatchEnd \/ tried <= cursor
    BY <1>0 DEF Attempts, BatchEnd, Smaller
  <2> QED BY <1>0, <2>1, <2>2 DEF Attempts
<1>3. CASE RunEnds \/ SenderStarts \/ GiveUp \/ SenderDies \/ ServerDies
  BY <1>0, <1>3 DEF RunEnds, SenderStarts, GiveUp, SenderDies, ServerDies, Attempts
<1>4. ASSUME NEW t \in Threads, Post(t) PROVE Attempts'
  BY <1>0, <1>4 DEF Post, Request, Attempts
<1>5. ASSUME NEW t \in Threads, PostHeartbeat(t) PROVE Attempts'
  BY <1>0, <1>5 DEF PostHeartbeat, Request, Attempts
<1>6. ASSUME NEW t \in Threads, Accepted(t) PROVE Attempts'
  <2>1. cursor' = cursor \/ cursor' = cursor + 1
    BY <1>6, DeliveryAssumption DEF Accepted, Save, IInv, Waits, NoThread
  <2>2. tried' = tried /\ batch' = batch /\ sender = "waiting"
    BY <1>6, DeliveryAssumption DEF Accepted, IInv, Waits, NoThread
  <2> QED BY <1>0, <2>1, <2>2 DEF Attempts
<1>7. ASSUME NEW t \in Threads, Refused(t) PROVE Attempts'
  BY <1>0, <1>7 DEF Refused, NotSaved, Attempts
<1> QED BY <1>1, <1>2, <1>3, <1>4, <1>5, <1>6, <1>7, SenderSteps

LEMMA HeartbeatStep ==
    ASSUME IInv, [Next]_vars
    PROVE  HeartbeatHonest'
<1>0. /\ thread \in [Threads -> Workings] /\ awaited \in Threads \cup {NoThread}
      /\ NoThread \notin Threads /\ HeartbeatHonest
      /\ cursor \in Nat /\ batch \in Nat /\ tried \in Nat
  BY TypeUnfolds, DeliveryAssumption DEF IInv, TypeOK, NoThread
<1>1. CASE UNCHANGED <<awaited, thread, cursor, tried>>
  BY <1>0, <1>1 DEF HeartbeatHonest
<1>2. CASE ReadPending \/ RunEnds \/ SenderStarts
  BY <1>0, <1>2 DEF ReadPending, RunEnds, SenderStarts, HeartbeatHonest
<1>3. CASE GiveUp \/ SenderDies \/ ServerDies
  BY <1>0, <1>3 DEF GiveUp, SenderDies, ServerDies, HeartbeatHonest
<1>4. ASSUME NEW t \in Threads, Post(t) PROVE HeartbeatHonest'
  BY <1>0, <1>4 DEF Post, Request, HeartbeatHonest, Beat
<1>5. ASSUME NEW t \in Threads, PostHeartbeat(t) PROVE HeartbeatHonest'
  <2>1. tried <= cursor
    BY <1>0, <1>5 DEF PostHeartbeat, BatchDone, Request, IInv, Attempts
  <2> QED BY <1>5, <2>1 DEF PostHeartbeat, HeartbeatHonest
<1>6. ASSUME NEW t \in Threads, Accepted(t) \/ Refused(t) PROVE HeartbeatHonest'
  BY <1>0, <1>6 DEF Accepted, Refused, HeartbeatHonest
<1>7. CASE /\ UNCHANGED <<sender, awaited, cursor, batch, tried>>
           /\ awaited # NoThread => /\ thread'[awaited].record = thread[awaited].record
                                    /\ thread'[awaited].at # "free"
  BY <1>0, <1>7 DEF HeartbeatHonest
<1> QED BY <1>1, <1>2, <1>3, <1>4, <1>5, <1>6, <1>7, SenderSteps

-----------------------------------------------------------------------------
\* What is delivered.

\* The cursor moves only over the record a thread has been through with.
LEMMA CursorMoves ==
    ASSUME IInv, [Next]_vars
    PROVE  cursor' = cursor \/ \E t \in Threads : /\ Accepted(t) /\ thread[t].record # Beat
                                                  /\ thread[t].record = cursor + 1
                                                  /\ cursor' = cursor + 1
<1>1. ASSUME NEW t \in Threads, Accepted(t), cursor' # cursor
      PROVE  /\ thread[t].record # Beat /\ thread[t].record = cursor + 1
             /\ cursor' = cursor + 1
  BY <1>1, DeliveryAssumption DEF Accepted, Save, IInv, Waits, NoThread
<1>2. cursor' = cursor \/ \E t \in Threads : Accepted(t)
  BY DEF Next, Sends, Works, vars, plc, store, ReadPending, RunEnds, Post, Refused, NotSaved,
     GiveUp, SenderDies, SenderStarts, PostHeartbeat, StoreBody, CheckRevision, SpoolAppend,
     Ingest, ReadSignal, FileTicket, RaisePriority, StoreStatus, Fails, ServerDies
<1> QED BY <1>1, <1>2

LEMMA SafeStep ==
    ASSUME IInv, TypeOK', Grows, Evident', [Next]_vars
    PROVE  DeliverySafe'
<1>0. Len(spool) \in Nat /\ cursor \in 0 .. Len(spool) /\ cursor' \in Nat
  BY TypeUnfolds DEF IInv, TypeOK
<1>1. ObjectsKept'
  <2>1. \A e \in Episodes : evidence'[e] # None => evidence'[e] \in objects'
    BY DEF Evident
  <2>2. applied' \subseteq objects'
    BY DEF Evident
  <2>3. status' \ {Beat} \subseteq objects'
    <3>1. ASSUME NEW t \in Threads, StoreStatus(t) PROVE status' \ {Beat} \subseteq objects'
      BY <3>1 DEF StoreStatus, IInv, WorkDone, Stored, Grows
    <3>2. status' = status \/ \E t \in Threads : StoreStatus(t)
      BY DEF Next, Sends, Works, vars, plc, store, ReadPending, RunEnds, Post, Accepted, Refused,
         GiveUp, SenderDies, SenderStarts, PostHeartbeat, StoreBody, CheckRevision, SpoolAppend,
         Ingest, ReadSignal, FileTicket, RaisePriority, Fails, ServerDies
    <3> QED BY <3>1, <3>2 DEF IInv, DeliverySafe, ObjectsKept, Grows
  <2> QED BY <2>1, <2>2, <2>3 DEF ObjectsKept
<1>2. AckedDone'
  <2> DEFINE Did(i) == /\ IsEvent(i)' /\ i \in applied' /\ priority'[spool'[i].episode] # "none"
                       /\ spool'[i].shutdown /\ spool'[i].episode \notin overtaken'
                             => priority'[spool'[i].episode] = "p1"
  <2>1. ASSUME NEW i \in 1 .. cursor PROVE Did(i)
    <3>1. i \in 1 .. Len(spool)
      BY <1>0
    <3>2. /\ IsEvent(i) /\ i \in applied /\ priority[Episode(i)] # "none"
          /\ Urgent(i) => priority[Episode(i)] = "p1"
      BY DEF IInv, DeliverySafe, AckedDone, Urgent
    <3> QED BY <3>1, <3>2, Same DEF IInv, Grows, Urgent, Episode
  <2>2. ASSUME NEW t \in Threads, NEW i \in Nat, Accepted(t), thread[t].record # Beat,
               thread[t].record = i
        PROVE  Did(i)
    <3>1. /\ IsEvent(i) /\ i \in applied /\ priority[Episode(i)] # "none"
          /\ Urgent(i) => priority[Episode(i)] = "p1"
      BY <2>2 DEF Accepted, IInv, WorkDone, Stored, Checked, Ingested, Filed, Raised
    <3>2. i \in 1 .. Len(spool)
      BY <3>1 DEF IsEvent
    <3>3. spool'[i] = spool[i] /\ (IsEvent(i)' = IsEvent(i)) /\ Episode(i) \in Episodes
      BY <3>2, Same DEF IInv
    <3>4. i \in applied' /\ priority'[Episode(i)] # "none"
      BY <3>1, <3>3 DEF Grows
    <3>5. (spool[i].shutdown /\ Episode(i) \notin overtaken') => priority'[Episode(i)] = "p1"
      BY <3>1, <3>3 DEF Grows, Urgent
    <3> QED BY <3>1, <3>3, <3>4, <3>5 DEF Episode
  <2> HIDE DEF Did
  <2>3. ASSUME NEW i \in 1 .. cursor' PROVE Did(i)
    <3>1. CASE i \in 1 .. cursor
      BY <2>1, <3>1
    <3>2. CASE i = cursor + 1 /\ cursor' # cursor
      <4>1. PICK t \in Threads : /\ Accepted(t) /\ thread[t].record # Beat
                                  /\ thread[t].record = cursor + 1
        BY <3>2, CursorMoves
      <4> QED BY <1>0, <2>2, <3>2, <4>1
    <3>3. cursor' = cursor \/ cursor' = cursor + 1
      BY CursorMoves
    <3> QED BY <1>0, <3>1, <3>2, <3>3
  <2>4. ASSUME NEW i \in 1 .. cursor', spool'[i].episode \notin overtaken'
        PROVE  evidence'[spool'[i].episode] >= i
    BY <2>3, <2>4 DEF Evident, Episode, Did
  <2>5. \A i \in 1 .. cursor' : Did(i)
    BY <2>3
  <2> QED BY <2>4, <2>5 DEF AckedDone, Episode, Did
<1> QED BY <1>1, <1>2 DEF DeliverySafe

LEMMA InvInit == Init => IInv
<1> SUFFICES ASSUME Init PROVE IInv
  OBVIOUS
<1>1. TypeOK
  BY TypeInit
<1>2. /\ cursor = 0 /\ applied = {} /\ status = {} /\ tried = 0 /\ sender = "idle"
      /\ awaited = NoThread /\ NoThread \notin Threads /\ Len(spool) = 0
      /\ \A e \in Episodes : evidence[e] = None
      /\ \A t \in Threads : thread[t].at = "free"
  BY DeliveryAssumption DEF Init, Free, NoThread
<1> QED BY <1>1, <1>2 DEF IInv, DeliverySafe, ObjectsKept, AckedDone, HeartbeatHonest,
           Accumulated, Evident, Waits, Attempts, WorkDone

LEMMA InvStep ==
    ASSUME IInv, [Next]_vars
    PROVE  IInv'
<1>1. TypeOK' /\ Grows
  BY TypeStep, StepGrows
<1>2. Evident' /\ Accumulated' /\ \A t \in Threads : WorkDone(t)'
  BY <1>1, EvidentStep, AccumulatedStep, WorkStep
<1> QED BY <1>1, <1>2, SafeStep, HeartbeatStep, WaitsStep, AttemptsStep DEF IInv

THEOREM DeliveryInvariant == Spec => []IInv
<1> QED BY InvInit, InvStep, PTL DEF Spec

-----------------------------------------------------------------------------
\* What holds of the delivery.

\* Over timeouts, repeated requests, deaths of either side and threads that nobody waits for,
\* a record behind the sender's cursor is an ingested event with its ticket and document, the
\* variables have their types, and no evidence is without its document (post_event and
\* SenderCursor.save of sender.py, accept of host_ot_ingress.py).
THEOREM DeliveredSafely == Spec => []DeliverySafe
<1> QED BY DeliveryInvariant, PTL DEF IInv

\* A heartbeat is under way only when every record ever tried is acknowledged
\* (send_heartbeat_if_due of sender.py).
THEOREM HonestHeartbeats == Spec => []HeartbeatHonest
<1> QED BY DeliveryInvariant, PTL DEF IInv

\* The sender and the receiver together implement the in-order delivery of a log.
THEOREM InOrderRefinement == Spec => ImplementsInOrder
<1>1. Init => InOrder!Init
  BY DEF Init, InOrder!Init
<1>2. IInv /\ [Next]_vars => [InOrder!Next]_(InOrder!vars)
  <2> SUFFICES ASSUME IInv, [Next]_vars
               PROVE  InOrder!Next \/ UNCHANGED InOrder!vars
    OBVIOUS
  <2>1. ASSUME NEW r \in Records, SpoolAppend(r) PROVE InOrder!Next
    <3>1. InOrder!Extend(r)
      BY <2>1 DEF SpoolAppend, store, InOrder!Extend
    <3> QED BY <3>1 DEF InOrder!Next
  <2>2. ASSUME NEW t \in Threads, Accepted(t) PROVE InOrder!Next \/ UNCHANGED InOrder!vars
    <3>1. spool' = spool /\ applied' = applied
      BY <2>2 DEF Accepted, store
    <3>2. CASE thread[t].record = Beat
      BY <2>2, <3>1, <3>2 DEF Accepted, InOrder!vars
    <3>3. CASE thread[t].record # Beat
      <4>1. thread[t].record = cursor + 1 /\ cursor' = cursor + 1
        BY <2>2, <3>3, DeliveryAssumption DEF Accepted, Save, IInv, Waits, NoThread
      <4>2. thread[t].record \in applied
        BY <2>2, <3>3 DEF Accepted, IInv, WorkDone, Stored, Checked, Ingested
      <4> QED BY <3>1, <4>1, <4>2 DEF InOrder!Acknowledge, InOrder!Next
    <3> QED BY <3>2, <3>3
  <2>3. ASSUME NEW t \in Threads, Ingest(t) PROVE InOrder!Next
    <3> DEFINE i == thread[t].record
    <3>1. i # Beat /\ i \in 1 .. Len(spool) /\ i <= cursor + 1
      BY <2>3 DEF Ingest, IInv, WorkDone, Stored, Checked, IsEvent, Beat
    <3>2. InOrder!Apply(i)
      BY <2>3, <3>1 DEF Ingest, plc, InOrder!Apply
    <3> QED BY <3>1, <3>2 DEF InOrder!Next
  <2>4. \/ UNCHANGED <<spool, cursor, applied>>
        \/ \E r \in Records : SpoolAppend(r)
        \/ \E t \in Threads : Accepted(t) \/ Ingest(t)
    BY DEF Next, Sends, Works, vars, plc, store, ReadPending, RunEnds, Post, Refused, NotSaved,
       GiveUp, SenderDies, SenderStarts, PostHeartbeat, StoreBody, CheckRevision,
       ReadSignal, FileTicket, RaisePriority, StoreStatus, Fails, ServerDies
  <2> QED BY <2>1, <2>2, <2>3, <2>4 DEF InOrder!vars
<1> QED BY DeliveryInvariant, <1>1, <1>2, PTL DEF Spec, ImplementsInOrder, InOrder!Spec
-----------------------------------------------------------------------------
\* The observations.

Documents(e) == {i \in applied : Episode(i) = e}

LEMMA CountsStep ==
    ASSUME IInv, CountsDistinct, [Next]_vars
    PROVE  CountsDistinct'
<1>0. /\ Len(spool) \in Nat /\ applied \subseteq 1 .. Len(spool)
      /\ evidence \in [Episodes -> 0 .. Len(spool)] /\ count \in [Episodes -> Nat]
      /\ Grows /\ TypeOK'
  BY TypeUnfolds, TypeStep, StepGrows DEF IInv, TypeOK
<1>1. \A i \in applied : Episode(i) \in Episodes /\ spool'[i].episode = Episode(i)
  <2> SUFFICES ASSUME NEW i \in applied
               PROVE  Episode(i) \in Episodes /\ spool'[i].episode = Episode(i)
    OBVIOUS
  <2> QED BY <1>0, Same DEF IInv, Episode
<1>2. CASE UNCHANGED <<applied, count, overtaken>>
  <2>1. \A e \in Episodes : {i \in applied' : spool'[i].episode = e} = Documents(e)
    BY <1>1, <1>2 DEF Documents
  <2> QED BY <1>2, <2>1 DEF CountsDistinct, Documents, Episode
<1>3. ASSUME NEW t \in Threads, Ingest(t) PROVE CountsDistinct'
  <2>1. PICK i \in 1 .. Len(spool) : i = thread[t].record
    BY <1>3 DEF Ingest, IInv, WorkDone, Stored, Checked, IsEvent, Beat
  <2>2. PICK d \in Episodes : d = Episode(i)
    BY EpisodeTypes DEF IInv
  <2>3. /\ spool' = spool /\ applied' = applied \cup {i}
        /\ overtaken' = IF evidence[d] <= i THEN overtaken ELSE overtaken \cup {d}
        /\ count' = [count EXCEPT ![d] = IF evidence[d] # i THEN @ + 1 ELSE @]
    BY <1>3, <2>1, <2>2 DEF Ingest, plc, IsNew
  <2>4. ASSUME NEW e \in Episodes \ overtaken' PROVE count'[e] = Cardinality(Documents(e)')
    <3>1. count[e] = Cardinality(Documents(e)) /\ e \notin overtaken
      BY <2>3, <2>4 DEF CountsDistinct, Documents
    <3>2. CASE e # d
      <4>1. Documents(e)' = Documents(e)
        BY <2>2, <2>3, <3>2 DEF Documents, Episode
      <4> QED BY <1>0, <2>3, <3>1, <3>2, <4>1
    <3>3. CASE e = d
      <4>1. Documents(e)' = Documents(e) \cup {i} /\ evidence[d] <= i
        BY <2>2, <2>3, <2>4, <3>1, <3>3 DEF Documents, Episode
      <4>2. CASE evidence[d] = i
        <5>1. i \in Documents(e)
          BY <1>0, <2>2, <3>3, <4>2 DEF IInv, Evident, Documents, None
        <5>2. Documents(e)' = Documents(e)
          BY <4>1, <5>1
        <5> QED BY <1>0, <2>3, <3>1, <3>3, <4>2, <5>2
      <4>3. CASE evidence[d] # i
        <5>1. i \notin Documents(e)
          BY <1>0, <2>2, <3>1, <3>3, <4>1, <4>3 DEF IInv, Evident, Documents
        <5>2. IsFiniteSet(Documents(e))
          <6>1. PICK n \in Nat : n = Len(spool)
            BY <1>0
          <6>2. IsFiniteSet(1 .. n)
            BY FS_Interval
          <6>3. Documents(e) \subseteq 1 .. n
            BY <1>0, <6>1 DEF Documents
          <6> QED BY <6>2, <6>3, FS_Subset
        <5>3. Cardinality(Documents(e) \cup {i}) = Cardinality(Documents(e)) + 1
          BY <5>1, <5>2, FS_AddElement
        <5> QED BY <1>0, <2>3, <3>1, <3>3, <4>1, <4>3, <5>3
      <4> QED BY <4>2, <4>3
    <3> QED BY <3>2, <3>3
  <2> QED BY <2>4 DEF CountsDistinct, Documents
<1>4. UNCHANGED <<applied, count, overtaken>> \/ \E t \in Threads : Ingest(t)
  BY DEF Next, Sends, Works, vars, plc, store, ReadPending, RunEnds, Post, Accepted, Refused,
     GiveUp, SenderDies, SenderStarts, PostHeartbeat, StoreBody, CheckRevision, SpoolAppend,
     ReadSignal, FileTicket, RaisePriority, StoreStatus, Fails, ServerDies
<1> QED BY <1>2, <1>3, <1>4

\* However often a record is sent again, its signal counts it once, unless an older revision
\* has replaced a newer one in between (_upsert_signal of ticket_store.py).
THEOREM RetriesNotCounted == Spec => []CountsDistinct
<1>1. Init => CountsDistinct
  <2> SUFFICES ASSUME Init PROVE CountsDistinct
    OBVIOUS
  <2>1. \A e \in Episodes : count[e] = 0 /\ {i \in applied : Episode(i) = e} = {}
    BY DEF Init
  <2> QED BY <2>1, FS_EmptySet DEF CountsDistinct
<1> QED BY DeliveryInvariant, <1>1, CountsStep, PTL DEF Spec
=============================================================================
