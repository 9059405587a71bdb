-------------------------- MODULE NotificationsProofs --------------------------
(***************************************************************************)
(* Theorems about Notifications, for every value of its constants.         *)
(***************************************************************************)
EXTENDS Notifications, TLAPS

\* What a sender has locked is not marked yet, nor is it locked by another.
LocksStand ==
    \A s \in Senders : send[s].pc = "locked" =>
        /\ \A n \in send[s].batch : sentAt[n] = NULL
        /\ \A t \in Senders \ {s} :
              send[t].pc = "locked" => send[s].batch \cap send[t].batch = {}

\* What a sender has claimed is marked, not returned, and in no other's hands.
ClaimsStand ==
    \A s \in Senders : send[s].pc = "claimed" =>
        /\ \A n \in send[s].batch : sentAt[n] # NULL /\ returned[n] = 0
        /\ \A t \in Senders \ {s} :
              send[t].pc = "claimed" => send[s].batch \cap send[t].batch = {}

IInv == TypeOK /\ LocksStand /\ ClaimsStand /\ DispatchedAtMostOnce

-------------------------------------------------------------------------------
(* The inductive invariant *)

\* The empty table satisfies the invariant.
LEMMA InitIInv == Init => IInv
  <1>. SUFFICES ASSUME Init PROVE IInv
    OBVIOUS
  <1>1. TypeOK
    BY NoticeAssumption DEF Init, TypeOK, IdleSend, Sending
  <1>2. LocksStand /\ ClaimsStand /\ DispatchedAtMostOnce
    BY DEF Init, LocksStand, ClaimsStand, DispatchedAtMostOnce, IdleSend
  <1>. QED
    BY <1>1, <1>2 DEF IInv

\* A step that leaves a sender with neither locks nor claims, and the tables as
\* they are, keeps the invariant.
LEMMA SenderIInv ==
    ASSUME IInv, NEW s \in Senders, NEW r \in Sending,
           r.pc \notin {"locked", "claimed"},
           send' = [send EXCEPT ![s] = r],
           UNCHANGED <<clock, scheduled, sentAt, returned>>
    PROVE  IInv'
  <1>1. TypeOK'
    BY DEF IInv, TypeOK
  <1>2. \A t \in Senders : send'[t] = IF t = s THEN r ELSE send[t]
    BY DEF IInv, TypeOK
  <1>3. LocksStand'
    BY <1>2 DEF IInv, LocksStand
  <1>4. ClaimsStand'
    BY <1>2 DEF IInv, ClaimsStand
  <1>5. DispatchedAtMostOnce'
    BY DEF IInv, DispatchedAtMostOnce
  <1>. QED
    BY <1>1, <1>3, <1>4, <1>5 DEF IInv

\* Waking up, BEGIN and stopping touch no notice.
LEMMA MoveIInv ==
    ASSUME IInv, NEW s \in Senders, Wake(s) \/ SendBegin(s) \/ Stop(s)
    PROVE  IInv'
  <1>1. send[s] \in Sending /\ clock \in Nat
    BY DEF IInv, TypeOK
  <1>2. CASE Wake(s)
    <2>. DEFINE r == [send[s] EXCEPT !.pc = "drain"]
    <2>1. r \in Sending /\ r.pc \notin {"locked", "claimed"}
      BY <1>1 DEF Sending
    <2>2. send' = [send EXCEPT ![s] = r]
      BY <1>1, <1>2 DEF Wake, IInv, TypeOK
    <2>. QED
      BY <1>2, <2>1, <2>2, SenderIInv DEF Wake
  <1>3. CASE SendBegin(s)
    <2>. DEFINE r == [send[s] EXCEPT !.pc = "begun", !.now = clock]
    <2>1. r \in Sending /\ r.pc \notin {"locked", "claimed"}
      BY <1>1 DEF Sending
    <2>2. send' = [send EXCEPT ![s] = r]
      BY <1>1, <1>3 DEF SendBegin, IInv, TypeOK
    <2>. QED
      BY <1>3, <2>1, <2>2, SenderIInv DEF SendBegin
  <1>4. CASE Stop(s)
    <2>1. IdleSend \in Sending /\ IdleSend.pc \notin {"locked", "claimed"}
      BY DEF IdleSend, Sending
    <2>. QED
      BY <1>4, <2>1, SenderIInv DEF Stop
  <1>. QED
    BY <1>2, <1>3, <1>4

\* SKIP LOCKED: the batch is disjoint from what others have locked, and due rows
\* are not marked.
LEMMA ClaimIInv ==
    ASSUME IInv, NEW s \in Senders, SendClaim(s)
    PROVE  IInv'
  <1>1. PICK batch \in SUBSET {n \in Notice : Due(n, send[s].now) /\ ~RowLocked(n)} :
            send' = [send EXCEPT ![s].pc = "locked", ![s].batch = batch]
    BY DEF SendClaim
  <1>2. /\ At(s, "begun") /\ UNCHANGED <<clock, scheduled, sentAt, returned>>
        /\ send[s] \in Sending
    BY DEF SendClaim, IInv, TypeOK
  <1>. DEFINE r == [send[s] EXCEPT !.pc = "locked", !.batch = batch]
  <1>3. r \in Sending /\ r.pc = "locked" /\ r.batch = batch
    BY <1>2 DEF Sending
  <1>4. send' = [send EXCEPT ![s] = r]
    BY <1>1, <1>2 DEF IInv, TypeOK
  <1>5. TypeOK'
    BY <1>2, <1>3, <1>4 DEF IInv, TypeOK
  <1>6. \A t \in Senders : send'[t] = IF t = s THEN r ELSE send[t]
    BY <1>4 DEF IInv, TypeOK
  <1>7. \A n \in batch : sentAt[n] = NULL /\ ~RowLocked(n)
    BY DEF Due
  <1>8. LocksStand'
    BY <1>2, <1>3, <1>6, <1>7 DEF IInv, LocksStand, RowLocked, At
  <1>9. ClaimsStand'
    BY <1>2, <1>3, <1>6 DEF IInv, ClaimsStand
  <1>10. DispatchedAtMostOnce'
    BY <1>2 DEF IInv, DispatchedAtMostOnce
  <1>. QED
    BY <1>5, <1>8, <1>9, <1>10 DEF IInv

\* The rows were not marked, so nobody else has claimed or returned them, and
\* nobody else has them locked.
LEMMA CommitIInv ==
    ASSUME IInv, NEW s \in Senders, SendCommit(s)
    PROVE  IInv'
  <1>1. /\ send[s].pc = "locked" /\ UNCHANGED <<clock, scheduled, returned>>
        /\ send[s] \in Sending
    BY DEF SendCommit, IInv, TypeOK, At
  <1>. DEFINE r == [send[s] EXCEPT !.pc = "claimed"]
  <1>2. r \in Sending /\ r.pc = "claimed" /\ r.batch = send[s].batch
    BY <1>1 DEF Sending
  <1>3. send' = [send EXCEPT ![s] = r]
    BY <1>1 DEF SendCommit, IInv, TypeOK
  <1>4. \A t \in Senders : send'[t] = IF t = s THEN r ELSE send[t]
    BY <1>3 DEF IInv, TypeOK
  <1>5. \A n \in Notice :
            sentAt'[n] = IF n \in send[s].batch THEN send[s].now ELSE sentAt[n]
    BY DEF SendCommit
  <1>6. send[s].now \in Nat /\ send[s].now # NULL /\ send[s].batch \subseteq Notice
    BY <1>1, NoticeAssumption DEF Sending
  <1>7. TypeOK'
    BY <1>1, <1>2, <1>3, <1>6 DEF SendCommit, IInv, TypeOK
  <1>8. \A t \in Senders : send[t].batch \subseteq Notice
    BY DEF IInv, TypeOK, Sending
  <1>9. LocksStand'
    <2>. SUFFICES ASSUME NEW t \in Senders, send'[t].pc = "locked"
                  PROVE  /\ \A n \in send'[t].batch : sentAt'[n] = NULL
                         /\ \A v \in Senders \ {t} : send'[v].pc = "locked" =>
                               send'[t].batch \cap send'[v].batch = {}
      BY DEF LocksStand
    <2>1. t # s /\ send'[t] = send[t]
      BY <1>2, <1>4
    <2>2. send[s].batch \cap send[t].batch = {}
      BY <1>1, <2>1 DEF IInv, LocksStand
    <2>3. \A n \in send'[t].batch : sentAt'[n] = NULL
      BY <1>5, <1>8, <2>1, <2>2 DEF IInv, LocksStand
    <2>. QED
      BY <1>2, <1>4, <2>1, <2>3 DEF IInv, LocksStand
  <1>10. ClaimsStand'
    <2>1. \A n \in send[s].batch : returned[n] = 0
      BY <1>1, <1>6 DEF IInv, LocksStand, DispatchedAtMostOnce, TypeOK
    <2>2. \A n \in send[s].batch : sentAt[n] = NULL
      BY <1>1 DEF IInv, LocksStand
    <2>3. \A t \in Senders \ {s} : send[t].pc = "claimed" =>
              send[s].batch \cap send[t].batch = {}
      BY <2>2 DEF IInv, ClaimsStand
    <2>4. ASSUME NEW t \in Senders, send'[t].pc = "claimed"
          PROVE  \A n \in send'[t].batch : sentAt'[n] # NULL /\ returned'[n] = 0
      <3>1. CASE t = s
        BY <1>1, <1>2, <1>4, <1>5, <1>6, <2>1, <3>1
      <3>2. CASE t # s
        BY <1>1, <1>4, <1>5, <1>6, <1>8, <2>4, <3>2 DEF IInv, ClaimsStand
      <3>. QED
        BY <3>1, <3>2
    <2>5. ASSUME NEW t \in Senders, NEW v \in Senders \ {t},
                 send'[t].pc = "claimed", send'[v].pc = "claimed"
          PROVE  send'[t].batch \cap send'[v].batch = {}
      <3>1. CASE t = s \/ v = s
        BY <1>2, <1>4, <2>3, <2>5, <3>1
      <3>2. CASE t # s /\ v # s
        BY <1>4, <2>5, <3>2 DEF IInv, ClaimsStand
      <3>. QED
        BY <3>1, <3>2
    <2>. QED
      BY <2>4, <2>5 DEF ClaimsStand
  <1>11. DispatchedAtMostOnce'
    BY <1>1, <1>5, <1>6 DEF IInv, DispatchedAtMostOnce
  <1>. QED
    BY <1>7, <1>9, <1>10, <1>11 DEF IInv

\* The batch was marked and not returned, and only this sender has it.
LEMMA ReturnIInv ==
    ASSUME IInv, NEW s \in Senders, SendReturn(s)
    PROVE  IInv'
  <1>. DEFINE r == IF Cardinality(send[s].batch) = BatchLimit
                   THEN [IdleSend EXCEPT !.pc = "drain"] ELSE IdleSend
  <1>1. /\ send[s].pc = "claimed" /\ UNCHANGED <<clock, scheduled, sentAt>>
        /\ send[s] \in Sending /\ send' = [send EXCEPT ![s] = r]
    BY DEF SendReturn, IInv, TypeOK, At
  <1>2. r \in Sending /\ r.pc \notin {"locked", "claimed"}
    BY DEF IdleSend, Sending
  <1>3. \A t \in Senders : send'[t] = IF t = s THEN r ELSE send[t]
    BY <1>1 DEF IInv, TypeOK
  <1>4. \A n \in Notice : returned'[n] = IF n \in send[s].batch
                                         THEN returned[n] + 1 ELSE returned[n]
    BY DEF SendReturn
  <1>5. \A t \in Senders : send[t].batch \subseteq Notice
    BY DEF IInv, TypeOK, Sending
  <1>6. TypeOK'
    <2>1. returned' \in [Notice -> Nat]
      BY DEF SendReturn, IInv, TypeOK
    <2>2. send' \in [Senders -> Sending]
      BY <1>1, <1>2 DEF IInv, TypeOK
    <2>. QED
      BY <1>1, <2>1, <2>2 DEF IInv, TypeOK
  <1>7. LocksStand'
    BY <1>1, <1>2, <1>3 DEF IInv, LocksStand
  <1>8. ClaimsStand'
    <2>. SUFFICES ASSUME NEW t \in Senders, send'[t].pc = "claimed"
                  PROVE  /\ \A n \in send'[t].batch : sentAt'[n] # NULL /\ returned'[n] = 0
                         /\ \A v \in Senders \ {t} : send'[v].pc = "claimed" =>
                               send'[t].batch \cap send'[v].batch = {}
      BY DEF ClaimsStand
    <2>1. t # s /\ send'[t] = send[t]
      BY <1>2, <1>3
    <2>2. send[s].batch \cap send[t].batch = {}
      BY <1>1, <2>1 DEF IInv, ClaimsStand
    <2>3. \A n \in send'[t].batch : sentAt'[n] # NULL /\ returned'[n] = 0
      BY <1>1, <1>4, <1>5, <2>1, <2>2 DEF IInv, ClaimsStand
    <2>. QED
      BY <1>2, <1>3, <2>1, <2>3 DEF IInv, ClaimsStand
  <1>9. DispatchedAtMostOnce'
    <2>. SUFFICES ASSUME NEW n \in Notice
                  PROVE  returned'[n] <= 1 /\ (returned'[n] > 0 => sentAt[n] # NULL)
      BY <1>1 DEF DispatchedAtMostOnce
    <2>1. CASE n \in send[s].batch
      BY <1>1, <1>4, <2>1 DEF IInv, ClaimsStand
    <2>2. CASE n \notin send[s].batch
      BY <1>4, <2>2 DEF IInv, DispatchedAtMostOnce
    <2>. QED
      BY <2>1, <2>2
  <1>. QED
    BY <1>6, <1>7, <1>8, <1>9 DEF IInv

\* New notices and the clock are nobody's locks or claims.
LEMMA EnvironmentIInv ==
    ASSUME IInv, Tick \/ (\E notice \in Notice : ScheduleNotification(notice))
    PROVE  IInv'
  <1>1. clock' \in Nat /\ scheduled' \subseteq Notice
    BY DEF Tick, ScheduleNotification, IInv, TypeOK
  <1>2. UNCHANGED <<sentAt, send, returned>>
    BY DEF Tick, ScheduleNotification
  <1>. QED
    BY <1>1, <1>2 DEF IInv, TypeOK, LocksStand, ClaimsStand, DispatchedAtMostOnce

LEMMA NextIInv == IInv /\ [Next]_vars => IInv'
  <1>. SUFFICES ASSUME IInv, [Next]_vars PROVE IInv'
    OBVIOUS
  <1>1. CASE UNCHANGED vars
    BY <1>1 DEF vars, IInv, TypeOK, LocksStand, ClaimsStand, DispatchedAtMostOnce
  <1>2. CASE Tick \/ (\E notice \in Notice : ScheduleNotification(notice))
    BY <1>2, EnvironmentIInv
  <1>3. ASSUME NEW s \in Senders, SendStep(s) \/ Stop(s) PROVE IInv'
    BY <1>3, MoveIInv, ClaimIInv, CommitIInv, ReturnIInv DEF SendStep
  <1>. QED
    BY <1>1, <1>2, <1>3 DEF Next

\* The invariant holds in every reachable state.
THEOREM Invariance == Spec => []IInv
  BY InitIInv, NextIInv, PTL DEF Spec

-------------------------------------------------------------------------------
(* Results *)

\* The table and the senders' records keep their types.
THEOREM TypeCorrectness == Spec => []TypeOK
  <1>1. IInv => TypeOK
    BY DEF IInv
  <1>. QED
    BY <1>1, Invariance, PTL

\* Whatever the senders, their batches and their failures, no notice is
\* dispatched twice, and none before it is marked sent.  (ClaimDueNotifications.)
THEOREM NoticesAreDispatchedAtMostOnce == Spec => []DispatchedAtMostOnce
  <1>1. IInv => DispatchedAtMostOnce
    BY DEF IInv
  <1>. QED
    BY <1>1, Invariance, PTL

-------------------------------------------------------------------------------
(* The outbox *)

\* Only rows of the table are marked, and what a sender has locked is in the
\* table and due at the start of its transaction, which is past.
TableStands ==
    /\ \A n \in Notice : sentAt[n] # NULL => n \in scheduled
    /\ \A s \in Senders :
          /\ send[s].pc \in {"begun", "locked"} => send[s].now <= clock
          /\ send[s].pc = "locked" =>
                \A n \in send[s].batch : n \in scheduled /\ n.at <= send[s].now

LEMMA InitTableStands == Init => TableStands
  BY DEF Init, TableStands, IdleSend

LEMMA NextTableStands ==
    ASSUME IInv, TableStands, [Next]_vars
    PROVE  TableStands'
  <1>1. /\ clock \in Nat /\ \A s \in Senders : send[s] \in Sending
        /\ \A n \in Notice : n.at \in Nat
        /\ \A s \in Senders : send[s].batch \subseteq Notice /\ send[s].now \in Nat
    BY NoticeAssumption DEF IInv, TypeOK, Notice, Sending
  <1>2. CASE UNCHANGED vars
    BY <1>2 DEF vars, TableStands
  <1>3. CASE Tick \/ (\E notice \in Notice : ScheduleNotification(notice))
    <2>1. /\ UNCHANGED <<sentAt, send>> /\ scheduled \subseteq scheduled'
          /\ clock' \in Nat /\ clock <= clock'
      BY <1>1, <1>3 DEF Tick, ScheduleNotification
    <2>. QED
      BY <1>1, <2>1 DEF TableStands
  <1>4. ASSUME NEW s \in Senders, Wake(s) \/ SendReturn(s) \/ Stop(s)
        PROVE  TableStands'
    <2>1. /\ UNCHANGED <<clock, scheduled, sentAt>>
          /\ \A t \in Senders \ {s} : send'[t] = send[t]
          /\ send'[s].pc \in {"idle", "drain"}
      BY <1>4 DEF Wake, SendReturn, Stop, IdleSend, IInv, TypeOK, Sending
    <2>. QED
      BY <2>1 DEF TableStands
  <1>5. ASSUME NEW s \in Senders, SendBegin(s) PROVE TableStands'
    <2>1. /\ UNCHANGED <<clock, scheduled, sentAt>>
          /\ \A t \in Senders \ {s} : send'[t] = send[t]
          /\ send'[s].pc = "begun" /\ send'[s].now = clock
      BY <1>5 DEF SendBegin, IInv, TypeOK, Sending
    <2>. QED
      BY <1>1, <2>1 DEF TableStands
  <1>6. ASSUME NEW s \in Senders, SendClaim(s) PROVE TableStands'
    <2>1. PICK batch \in SUBSET {n \in Notice : Due(n, send[s].now) /\ ~RowLocked(n)} :
              send' = [send EXCEPT ![s].pc = "locked", ![s].batch = batch]
      BY <1>6 DEF SendClaim
    <2>2. /\ UNCHANGED <<clock, scheduled, sentAt>> /\ send[s].pc = "begun"
          /\ \A t \in Senders \ {s} : send'[t] = send[t]
          /\ send'[s].pc = "locked" /\ send'[s].now = send[s].now
          /\ send'[s].batch = batch
      BY <1>6, <2>1 DEF SendClaim, At, IInv, TypeOK, Sending
    <2>. QED
      BY <2>2 DEF TableStands, Due
  <1>7. ASSUME NEW s \in Senders, SendCommit(s) PROVE TableStands'
    <2>1. /\ UNCHANGED <<clock, scheduled>> /\ send[s].pc = "locked"
          /\ \A t \in Senders \ {s} : send'[t] = send[t]
          /\ send'[s].pc = "claimed"
          /\ \A n \in Notice : sentAt'[n] = IF n \in send[s].batch
                                            THEN send[s].now ELSE sentAt[n]
      BY <1>7 DEF SendCommit, At, IInv, TypeOK, Sending
    <2>. QED
      BY <2>1 DEF TableStands
  <1>. QED
    BY <1>2, <1>3, <1>4, <1>5, <1>6, <1>7 DEF Next, SendStep

\* The three stages of a notice in the outbox.
Waits == {n \in scheduled : sentAt[n] = NULL}
Taken == {n \in Notice : sentAt[n] # NULL /\ returned[n] = 0}
Handed == {n \in Notice : sentAt[n] # NULL /\ returned[n] = 1}

LEMMA CommitTakes ==
    ASSUME IInv, TableStands, NEW s \in Senders, SendCommit(s)
    PROVE  \E batch \in SUBSET Waits : Outbox!Take(batch)
  <1>0. PICK batch : batch = send[s].batch
    OBVIOUS
  <1>1. /\ send[s].pc = "locked" /\ UNCHANGED <<clock, scheduled, returned>>
        /\ batch \subseteq Notice /\ send[s].now \in Nat /\ send[s].now # NULL
    BY <1>0, NoticeAssumption DEF SendCommit, At, IInv, TypeOK, Sending
  <1>2. \A n \in Notice : sentAt'[n] = IF n \in batch THEN send[s].now ELSE sentAt[n]
    BY <1>0 DEF SendCommit
  <1>3. /\ \A n \in batch : /\ n \in scheduled /\ n.at <= send[s].now
                            /\ sentAt[n] = NULL /\ returned[n] = 0
        /\ send[s].now <= clock
    BY <1>0, <1>1 DEF TableStands, IInv, LocksStand, DispatchedAtMostOnce, TypeOK
  <1>4. \A n \in batch : n.at <= clock
    <2>1. clock \in Nat /\ \A n \in Notice : n.at \in Nat
      BY NoticeAssumption DEF Notice, IInv, TypeOK
    <2>. QED
      BY <1>1, <1>3, <2>1
  <1>5. scheduled \subseteq Notice
    BY DEF IInv, TypeOK
  <1>6. /\ Waits' = Waits \ batch
        /\ Taken' = Taken \cup batch
        /\ Handed' = Handed
    BY <1>1, <1>2, <1>3, <1>5 DEF Waits, Taken, Handed
  <1>7. batch \in SUBSET Waits
    BY <1>3 DEF Waits
  <1>8. Outbox!Take(batch)
    BY <1>1, <1>4, <1>6 DEF Outbox!Take, Waits, Taken, Handed
  <1>. QED
    BY <1>7, <1>8

LEMMA ReturnHandsOver ==
    ASSUME IInv, NEW s \in Senders, SendReturn(s)
    PROVE  \E batch \in SUBSET Taken : Outbox!HandOver(batch)
  <1>0. PICK batch : batch = send[s].batch
    OBVIOUS
  <1>1. /\ send[s].pc = "claimed" /\ UNCHANGED <<clock, scheduled, sentAt>>
        /\ batch \subseteq Notice
    BY <1>0 DEF SendReturn, At, IInv, TypeOK, Sending
  <1>2. \A n \in Notice : returned'[n] = IF n \in batch THEN returned[n] + 1
                                                        ELSE returned[n]
    BY <1>0 DEF SendReturn
  <1>3. \A n \in batch : sentAt[n] # NULL /\ returned[n] = 0
    BY <1>0, <1>1 DEF IInv, ClaimsStand
  <1>4. /\ Waits' = Waits
        /\ Taken' = Taken \ batch
        /\ Handed' = Handed \cup batch
    BY <1>1, <1>2, <1>3 DEF Waits, Taken, Handed
  <1>5. Outbox!HandOver(batch)
    BY <1>1, <1>4 DEF Outbox!HandOver, Waits, Taken, Handed
  <1>6. batch \in SUBSET Taken
    BY <1>1, <1>3 DEF Taken
  <1>. QED
    BY <1>5, <1>6

LEMMA ScheduleAnnounces ==
    ASSUME IInv, TableStands, NEW notice \in Notice, ScheduleNotification(notice)
    PROVE  \/ Outbox!Announce(notice)
           \/ UNCHANGED <<clock, scheduled, sentAt, returned>>
  <1>1. UNCHANGED <<clock, sentAt, returned>>
    BY DEF ScheduleNotification
  <1>2. CASE \E n \in scheduled : Conflicts(n, notice)
    BY <1>1, <1>2 DEF ScheduleNotification
  <1>3. CASE ~ \E n \in scheduled : Conflicts(n, notice)
    <2>1. scheduled' = scheduled \cup {notice}
      BY <1>3 DEF ScheduleNotification
    <2>2. Waits \cup Taken \cup Handed \subseteq scheduled
      BY DEF TableStands, Waits, Taken, Handed
    <2>3. \A m \in Waits \cup Taken \cup Handed :
             m.user = notice.user => m.at \div OneDay # notice.at \div OneDay
      BY <1>3, <2>2 DEF Conflicts
    <2>4. notice \notin scheduled
      BY <1>3 DEF Conflicts
    <2>5. sentAt[notice] = NULL
      BY <2>4 DEF TableStands
    <2>6. /\ Waits' = Waits \cup {notice}
          /\ Taken' = Taken /\ Handed' = Handed
      BY <1>1, <2>1, <2>5 DEF Waits, Taken, Handed
    <2>. QED
      BY <1>1, <2>3, <2>6 DEF Outbox!Announce, Waits, Taken, Handed
  <1>. QED
    BY <1>2, <1>3

\* The table with its senders implements the outbox: a notice is taken in one
\* instant, when it is due, and handed over at most once.
THEOREM Refinement == Spec => ImplementsOutbox
  <1>1. Init => Outbox!Init
    BY DEF Init, Outbox!Init
  <1>2. IInv /\ TableStands /\ [Next]_vars => [Outbox!Next]_(Outbox!vars)
    <2>. SUFFICES ASSUME IInv, TableStands, [Next]_vars
                  PROVE  Outbox!Next \/ UNCHANGED <<clock, Waits, Taken, Handed>>
      BY DEF Outbox!vars, Waits, Taken, Handed
    <2>1. CASE UNCHANGED <<clock, scheduled, sentAt, returned>>
      BY <2>1 DEF Waits, Taken, Handed
    <2>2. CASE Tick
      BY <2>2 DEF Tick, Outbox!Next, Outbox!Tick
    <2>3. ASSUME NEW notice \in Notice, ScheduleNotification(notice)
          PROVE  Outbox!Next \/ UNCHANGED <<clock, Waits, Taken, Handed>>
      BY <2>1, <2>3, ScheduleAnnounces DEF Outbox!Next, Outbox!Notice, Notice
    <2>4. ASSUME NEW s \in Senders, SendCommit(s) PROVE Outbox!Next
      BY <2>4, CommitTakes DEF Outbox!Next, Waits
    <2>5. ASSUME NEW s \in Senders, SendReturn(s) PROVE Outbox!Next
      BY <2>5, ReturnHandsOver DEF Outbox!Next, Taken
    <2>6. ASSUME NEW s \in Senders,
                 Wake(s) \/ SendBegin(s) \/ SendClaim(s) \/ Stop(s)
          PROVE  UNCHANGED <<clock, scheduled, sentAt, returned>>
      BY <2>6 DEF Wake, SendBegin, SendClaim, Stop
    <2>7. CASE UNCHANGED vars
      BY <2>1, <2>7 DEF vars
    <2>. QED
      BY <2>1, <2>2, <2>3, <2>4, <2>5, <2>6, <2>7 DEF Next, SendStep
  <1>3. IInv /\ TableStands /\ [Next]_vars => (IInv /\ TableStands)'
    BY NextIInv, NextTableStands
  <1>. QED
    BY <1>1, <1>2, <1>3, InitIInv, InitTableStands, PTL
       DEF Spec, ImplementsOutbox, Outbox!Spec
===============================================================================
