---------------------------- MODULE EpochProofs ----------------------------
(***************************************************************************)
(* Proofs about Epoch, for any number of workers and any set of objects.   *)
(*                                                                         *)
(* EpochInv is the common part: an operation in progress announced the     *)
(* current epoch or the one before it (SlotInv), because the slots a scan  *)
(* has passed stay at least at the epoch the scan started with (ScanInv).  *)
(* ReclaimInv adds how far behind the epoch of a list the readers of the   *)
(* objects in it can be, and StampInv which samples of the time stamp a    *)
(* snapshot is younger than.                                               *)
(***************************************************************************)
EXTENDS Epoch, TLAPS

\* The worker ids are the indices of the slots that update_epoch scans.
LEMMA ThreadsFacts ==
  /\ 0 \in Threads
  /\ \A u \in Threads : u \in Nat /\ u < NumWorkers
  /\ \A i \in Nat : i < NumWorkers => i \in Threads
BY WorkersAssumption DEF Threads

\* Every step of epoch.h keeps the types of its fields and locals.
LEMMA TypeStep == ASSUME TypeOK, [Next]_vars PROVE TypeOK'
<1> USE DEF TypeOK, PCs, InOpPCs, AnnouncePCs, UpdatePCs, RetirePCs,
       ObjStates, NoEpoch, NoStamp, Nobody, Goto, slotVars, localVars,
       objVars, refVars, stampVars
<1>1. ASSUME Tick PROVE TypeOK'
  BY <1>1 DEF Tick
<1>2. ASSUME Clear PROVE TypeOK'
  BY <1>2 DEF Clear, ClearList
<1>3. ASSUME NEW t \in Threads, AnnounceLoad(t) PROVE TypeOK'
  BY <1>3 DEF AnnounceLoad
<1>4. ASSUME NEW t \in Threads, AnnounceExchange(t) PROVE TypeOK'
  BY <1>4 DEF AnnounceExchange
<1>5. ASSUME NEW t \in Threads, AnnounceRecheck(t) PROVE TypeOK'
  BY <1>5 DEF AnnounceRecheck
<1>6. ASSUME NEW t \in Threads, Unannounce(t) PROVE TypeOK'
  BY <1>6 DEF Unannounce
<1>7. ASSUME NEW t \in Threads, WithSnapshot(t) PROVE TypeOK'
  BY <1>7 DEF WithSnapshot
<1>8. ASSUME NEW t \in Threads, ClearOld(t) PROVE TypeOK'
  BY <1>8 DEF ClearOld, ClearList
<1>9. ASSUME NEW t \in Threads, Rotate(t) PROVE TypeOK'
  BY <1>9 DEF Rotate
<1>10. ASSUME NEW t \in Threads, Heuristic(t) PROVE TypeOK'
  BY <1>10 DEF Heuristic
<1>11. ASSUME NEW t \in Threads, Push(t) PROVE TypeOK'
  BY <1>11 DEF Push
<1>12. ASSUME NEW t \in Threads, UpdateLoad(t) PROVE TypeOK'
  BY <1>12 DEF UpdateLoad
<1>13. ASSUME NEW t \in Threads, Scan(t) PROVE TypeOK'
  BY <1>13 DEF Scan, NextSlot
<1>14. ASSUME NEW t \in Threads, Scan2(t) PROVE TypeOK'
  BY <1>14 DEF Scan2, NextSlot, EndUpdate
<1>15. ASSUME NEW t \in Threads, BeforeHook(t) PROVE TypeOK'
  BY <1>15 DEF BeforeHook
<1>16. ASSUME NEW t \in Threads, CasEpoch(t) PROVE TypeOK'
  BY <1>16 DEF CasEpoch, EndUpdate
<1>17. ASSUME NEW t \in Threads, AfterHook(t) PROVE TypeOK'
  BY <1>17 DEF AfterHook, EndUpdate
<1>18. ASSUME NEW t \in Threads, NEW o \in Objects, NewObj(t, o)
      PROVE  TypeOK'
  BY <1>18 DEF NewObj
<1>19. ASSUME NEW t \in Threads, NEW o \in Objects, Destruct(t, o)
      PROVE  TypeOK'
  BY <1>19 DEF Destruct
<1>20. ASSUME NEW t \in Threads, NEW o \in Objects, Publish(t, o)
      PROVE  TypeOK'
  BY <1>20 DEF Publish
<1>21. ASSUME NEW t \in Threads, NEW o \in Objects, Read(t, o)
      PROVE  TypeOK'
  BY <1>21 DEF Read
<1>22. ASSUME NEW t \in Threads, NEW o \in Objects, Unlink(t, o)
      PROVE  TypeOK'
  BY <1>22 DEF Unlink
<1>23. ASSUME NEW t \in Threads, NEW o \in Objects, Retire(t, o)
      PROVE  TypeOK'
  BY <1>23 DEF Retire, RotateDue
<1>24. ASSUME NEW t \in Threads, NEW w \in Threads, NEW o \in Objects,
             Expose(w, t, o)
      PROVE  TypeOK'
  BY <1>24 DEF Expose
<1>25. ASSUME UNCHANGED vars PROVE TypeOK'
  BY <1>25 DEF vars
<1> QED
  BY <1>1, <1>2, <1>3, <1>4, <1>5, <1>6, <1>7, <1>8, <1>9, <1>10, <1>11,
     <1>12, <1>13, <1>14, <1>15, <1>16, <1>17, <1>18, <1>19, <1>20, <1>21,
     <1>22, <1>23, <1>24, <1>25 DEF Next, Announce, Client, AdvanceEpoch,
     UpdateEpoch

\* An announced operation stays within one epoch of current_epoch.
LEMMA SlotStep == ASSUME EpochInv, [Next]_vars PROVE SlotInv'
<1> USE DEF EpochInv, TypeOK, SlotInv, ScanInv, InOp, PCs, InOpPCs,
       AnnouncePCs, UpdatePCs, RetirePCs, NoEpoch, Goto, slotVars,
       localVars, objVars, refVars, stampVars
<1>1. ASSUME Tick PROVE SlotInv'
  BY <1>1 DEF Tick
<1>2. ASSUME Clear PROVE SlotInv'
  BY <1>2 DEF Clear, ClearList
<1>3. ASSUME NEW t \in Threads, AnnounceLoad(t) PROVE SlotInv'
  BY <1>3 DEF AnnounceLoad
<1>4. ASSUME NEW t \in Threads, AnnounceExchange(t) PROVE SlotInv'
  BY <1>4 DEF AnnounceExchange
<1>5. ASSUME NEW t \in Threads, AnnounceRecheck(t) PROVE SlotInv'
  BY <1>5 DEF AnnounceRecheck
<1>6. ASSUME NEW t \in Threads, Unannounce(t) PROVE SlotInv'
  BY <1>6 DEF Unannounce
<1>7. ASSUME NEW t \in Threads, WithSnapshot(t) PROVE SlotInv'
  BY <1>7 DEF WithSnapshot
<1>8. ASSUME NEW t \in Threads, ClearOld(t) PROVE SlotInv'
  BY <1>8 DEF ClearOld, ClearList
<1>9. ASSUME NEW t \in Threads, Rotate(t) PROVE SlotInv'
  BY <1>9 DEF Rotate
<1>10. ASSUME NEW t \in Threads, Heuristic(t) PROVE SlotInv'
  BY <1>10 DEF Heuristic
<1>11. ASSUME NEW t \in Threads, Push(t) PROVE SlotInv'
  BY <1>11 DEF Push
<1>12. ASSUME NEW t \in Threads, UpdateLoad(t) PROVE SlotInv'
  BY <1>12 DEF UpdateLoad
<1>13. ASSUME NEW t \in Threads, Scan(t) PROVE SlotInv'
  BY <1>13 DEF Scan, NextSlot
<1>14. ASSUME NEW t \in Threads, Scan2(t) PROVE SlotInv'
  BY <1>14 DEF Scan2, NextSlot, EndUpdate
<1>15. ASSUME NEW t \in Threads, BeforeHook(t) PROVE SlotInv'
  BY <1>15 DEF BeforeHook
<1>16. ASSUME NEW t \in Threads, CasEpoch(t) PROVE SlotInv'
  BY <1>16 DEF CasEpoch, EndUpdate
<1>17. ASSUME NEW t \in Threads, AfterHook(t) PROVE SlotInv'
  BY <1>17 DEF AfterHook, EndUpdate
<1>18. ASSUME NEW t \in Threads, NEW o \in Objects, NewObj(t, o)
      PROVE  SlotInv'
  BY <1>18 DEF NewObj
<1>19. ASSUME NEW t \in Threads, NEW o \in Objects, Destruct(t, o)
      PROVE  SlotInv'
  BY <1>19 DEF Destruct
<1>20. ASSUME NEW t \in Threads, NEW o \in Objects, Publish(t, o)
      PROVE  SlotInv'
  BY <1>20 DEF Publish
<1>21. ASSUME NEW t \in Threads, NEW o \in Objects, Read(t, o)
      PROVE  SlotInv'
  BY <1>21 DEF Read
<1>22. ASSUME NEW t \in Threads, NEW o \in Objects, Unlink(t, o)
      PROVE  SlotInv'
  BY <1>22 DEF Unlink
<1>23. ASSUME NEW t \in Threads, NEW o \in Objects, Retire(t, o)
      PROVE  SlotInv'
  BY <1>23 DEF Retire, RotateDue
<1>24. ASSUME NEW t \in Threads, NEW w \in Threads, NEW o \in Objects,
             Expose(w, t, o)
      PROVE  SlotInv'
  BY <1>24 DEF Expose
<1>25. ASSUME UNCHANGED vars PROVE SlotInv'
  BY <1>25 DEF vars
<1> QED
  BY <1>1, <1>2, <1>3, <1>4, <1>5, <1>6, <1>7, <1>8, <1>9, <1>10, <1>11,
     <1>12, <1>13, <1>14, <1>15, <1>16, <1>17, <1>18, <1>19, <1>20, <1>21,
     <1>22, <1>23, <1>24, <1>25 DEF Next, Announce, Client, AdvanceEpoch,
     UpdateEpoch

\* A slot that update_epoch has found empty or recent enough joins the ones
\* it has passed; after the last slot that is every operation.
LEMMA PassSlot ==
  ASSUME EpochInv, NEW t \in Threads, pc[t] \in {"scan", "scan2"},
         InOp(idx[t]) => e[t] <= last[idx[t]]
  PROVE  /\ \A u \in Threads : u < idx[t] + 1 /\ InOp(u) => e[t] <= last[u]
         /\ idx[t] + 1 < NumWorkers \/ idx[t] + 1 = NumWorkers
         /\ idx[t] + 1 = NumWorkers =>
              \A u \in Threads : InOp(u) => e[t] <= last[u]
<1>1. idx[t] \in Nat /\ idx[t] < NumWorkers /\ NumWorkers \in Nat
  BY WorkersAssumption DEF EpochInv, TypeOK, ScanInv
<1>2. ASSUME NEW u \in Threads, u < idx[t] + 1 PROVE u < idx[t] \/ u = idx[t]
  BY <1>1, <1>2, ThreadsFacts
<1>3. ASSUME NEW u \in Threads, u < idx[t] + 1, InOp(u) PROVE e[t] <= last[u]
  BY <1>2, <1>3 DEF EpochInv, ScanInv
<1> QED BY <1>1, <1>3, ThreadsFacts

\* When the increment of the epoch succeeds, every operation in progress has
\* announced exactly the old epoch, and no other thread is in its after hook.
LEMMA IncrementAlone ==
  ASSUME EpochInv, NEW t \in Threads, CasEpoch(t), current_epoch = e[t]
  PROVE  /\ \A u \in Threads : InOp(u) => last[u] = current_epoch
         /\ \A u \in Threads : pc[u] # "after"
<1>1. \A u \in Threads : InOp(u) => last[u] = current_epoch
  BY DEF EpochInv, TypeOK, SlotInv, ScanInv, CasEpoch, NoEpoch
<1>2. \A u \in Threads : pc[u] # "after"
  BY <1>1 DEF EpochInv, TypeOK, ScanInv, InOp, InOpPCs, UpdatePCs
<1> QED BY <1>1, <1>2

\* What a scan has established of the slots it passed stays true while
\* other threads announce, end their operations and move the epoch.
LEMMA ScanStep == ASSUME EpochInv, [Next]_vars PROVE ScanInv'
<1> USE WorkersAssumption DEF EpochInv, TypeOK, SlotInv, ScanInv, InOp,
       InOpPCs, UpdatePCs, RetirePCs, NoEpoch, Goto, slotVars, localVars,
       objVars, refVars, stampVars
<1>1. ASSUME Tick PROVE ScanInv'
  BY <1>1 DEF Tick
<1>2. ASSUME Clear PROVE ScanInv'
  BY <1>2 DEF Clear, ClearList
<1>3. ASSUME NEW t \in Threads, AnnounceLoad(t) PROVE ScanInv'
  BY <1>3 DEF AnnounceLoad
<1>4. ASSUME NEW t \in Threads, AnnounceExchange(t) PROVE ScanInv'
  BY <1>4 DEF AnnounceExchange
<1>5. ASSUME NEW t \in Threads, AnnounceRecheck(t) PROVE ScanInv'
  BY <1>5 DEF AnnounceRecheck
<1>6. ASSUME NEW t \in Threads, Unannounce(t) PROVE ScanInv'
  BY <1>6 DEF Unannounce
<1>7. ASSUME NEW t \in Threads, WithSnapshot(t) PROVE ScanInv'
  BY <1>7 DEF WithSnapshot
<1>8. ASSUME NEW t \in Threads, ClearOld(t) PROVE ScanInv'
  BY <1>8 DEF ClearOld, ClearList
<1>9. ASSUME NEW t \in Threads, Rotate(t) PROVE ScanInv'
  BY <1>9 DEF Rotate
<1>10. ASSUME NEW t \in Threads, Heuristic(t) PROVE ScanInv'
  BY <1>10 DEF Heuristic
<1>11. ASSUME NEW t \in Threads, Push(t) PROVE ScanInv'
  BY <1>11 DEF Push
<1>12. ASSUME NEW t \in Threads, UpdateLoad(t) PROVE ScanInv'
  BY <1>12, ThreadsFacts DEF UpdateLoad
<1>13. ASSUME NEW t \in Threads, Scan(t) PROVE ScanInv'
  <2>1. CASE last[idx[t]] = NoEpoch
    <3>1. ~InOp(idx[t])
      BY <1>13, <2>1, ThreadsFacts DEF Scan
    <3> QED BY <1>13, <2>1, <3>1, PassSlot DEF Scan, NextSlot
  <2>2. CASE last[idx[t]] # NoEpoch
    BY <1>13, <2>2 DEF Scan
  <2> QED BY <2>1, <2>2
<1>14. ASSUME NEW t \in Threads, Scan2(t) PROVE ScanInv'
  <2>1. idx[t] \in Threads
    BY <1>14, ThreadsFacts DEF Scan2
  <2>2. CASE last[idx[t]] < e[t]
    BY <1>14, <2>2 DEF Scan2, EndUpdate
  <2>3. CASE ~(last[idx[t]] < e[t])
    <3>1. InOp(idx[t]) => e[t] <= last[idx[t]]
      BY <2>1, <2>3
    <3> QED BY <1>14, <2>3, <3>1, PassSlot DEF Scan2, NextSlot
  <2> QED BY <2>2, <2>3
<1>15. ASSUME NEW t \in Threads, BeforeHook(t) PROVE ScanInv'
  BY <1>15 DEF BeforeHook
<1>16. ASSUME NEW t \in Threads, CasEpoch(t) PROVE ScanInv'
  <2>1. CASE current_epoch = e[t]
    BY <1>16, <2>1, IncrementAlone DEF CasEpoch
  <2>2. CASE current_epoch # e[t]
    BY <1>16, <2>2 DEF CasEpoch, EndUpdate
  <2> QED BY <2>1, <2>2
<1>17. ASSUME NEW t \in Threads, AfterHook(t) PROVE ScanInv'
  BY <1>17 DEF AfterHook, EndUpdate
<1>18. ASSUME NEW t \in Threads, NEW o \in Objects, NewObj(t, o)
      PROVE  ScanInv'
  BY <1>18 DEF NewObj
<1>19. ASSUME NEW t \in Threads, NEW o \in Objects, Destruct(t, o)
      PROVE  ScanInv'
  BY <1>19 DEF Destruct
<1>20. ASSUME NEW t \in Threads, NEW o \in Objects, Publish(t, o)
      PROVE  ScanInv'
  BY <1>20 DEF Publish
<1>21. ASSUME NEW t \in Threads, NEW o \in Objects, Read(t, o)
      PROVE  ScanInv'
  BY <1>21 DEF Read
<1>22. ASSUME NEW t \in Threads, NEW o \in Objects, Unlink(t, o)
      PROVE  ScanInv'
  BY <1>22 DEF Unlink
<1>23. ASSUME NEW t \in Threads, NEW o \in Objects, Retire(t, o)
      PROVE  ScanInv'
  BY <1>23 DEF Retire, RotateDue
<1>24. ASSUME NEW t \in Threads, NEW w \in Threads, NEW o \in Objects,
             Expose(w, t, o)
      PROVE  ScanInv'
  BY <1>24 DEF Expose
<1>25. ASSUME UNCHANGED vars PROVE ScanInv'
  BY <1>25 DEF vars
<1> QED
  BY <1>1, <1>2, <1>3, <1>4, <1>5, <1>6, <1>7, <1>8, <1>9, <1>10, <1>11,
     <1>12, <1>13, <1>14, <1>15, <1>16, <1>17, <1>18, <1>19, <1>20, <1>21,
     <1>22, <1>23, <1>24, <1>25 DEF Next, Announce, Client, AdvanceEpoch,
     UpdateEpoch

\* No thread enters the after hook while another is in it.
LEMMA HooksStep == ASSUME EpochInv, [Next]_vars PROVE HooksSerialised'
<1> USE DEF EpochInv, TypeOK, HooksSerialised, Goto, slotVars, localVars,
       objVars, refVars, stampVars
<1>1. ASSUME Tick PROVE HooksSerialised'
  BY <1>1 DEF Tick
<1>2. ASSUME Clear PROVE HooksSerialised'
  BY <1>2 DEF Clear, ClearList
<1>3. ASSUME NEW t \in Threads, AnnounceLoad(t) PROVE HooksSerialised'
  BY <1>3 DEF AnnounceLoad
<1>4. ASSUME NEW t \in Threads, AnnounceExchange(t) PROVE HooksSerialised'
  BY <1>4 DEF AnnounceExchange
<1>5. ASSUME NEW t \in Threads, AnnounceRecheck(t) PROVE HooksSerialised'
  BY <1>5 DEF AnnounceRecheck
<1>6. ASSUME NEW t \in Threads, Unannounce(t) PROVE HooksSerialised'
  BY <1>6 DEF Unannounce
<1>7. ASSUME NEW t \in Threads, WithSnapshot(t) PROVE HooksSerialised'
  BY <1>7 DEF WithSnapshot
<1>8. ASSUME NEW t \in Threads, ClearOld(t) PROVE HooksSerialised'
  BY <1>8 DEF ClearOld, ClearList
<1>9. ASSUME NEW t \in Threads, Rotate(t) PROVE HooksSerialised'
  BY <1>9 DEF Rotate
<1>10. ASSUME NEW t \in Threads, Heuristic(t) PROVE HooksSerialised'
  BY <1>10 DEF Heuristic
<1>11. ASSUME NEW t \in Threads, Push(t) PROVE HooksSerialised'
  BY <1>11 DEF Push
<1>12. ASSUME NEW t \in Threads, UpdateLoad(t) PROVE HooksSerialised'
  BY <1>12 DEF UpdateLoad
<1>13. ASSUME NEW t \in Threads, Scan(t) PROVE HooksSerialised'
  BY <1>13 DEF Scan, NextSlot
<1>14. ASSUME NEW t \in Threads, Scan2(t) PROVE HooksSerialised'
  BY <1>14 DEF Scan2, NextSlot, EndUpdate
<1>15. ASSUME NEW t \in Threads, BeforeHook(t) PROVE HooksSerialised'
  BY <1>15 DEF BeforeHook
<1>16. ASSUME NEW t \in Threads, CasEpoch(t) PROVE HooksSerialised'
  <2>1. CASE current_epoch = e[t]
    BY <1>16, <2>1, IncrementAlone DEF CasEpoch
  <2>2. CASE current_epoch # e[t]
    BY <1>16, <2>2 DEF CasEpoch, EndUpdate
  <2> QED BY <2>1, <2>2
<1>17. ASSUME NEW t \in Threads, AfterHook(t) PROVE HooksSerialised'
  BY <1>17 DEF AfterHook, EndUpdate
<1>18. ASSUME NEW t \in Threads, NEW o \in Objects, NewObj(t, o)
      PROVE  HooksSerialised'
  BY <1>18 DEF NewObj
<1>19. ASSUME NEW t \in Threads, NEW o \in Objects, Destruct(t, o)
      PROVE  HooksSerialised'
  BY <1>19 DEF Destruct
<1>20. ASSUME NEW t \in Threads, NEW o \in Objects, Publish(t, o)
      PROVE  HooksSerialised'
  BY <1>20 DEF Publish
<1>21. ASSUME NEW t \in Threads, NEW o \in Objects, Read(t, o)
      PROVE  HooksSerialised'
  BY <1>21 DEF Read
<1>22. ASSUME NEW t \in Threads, NEW o \in Objects, Unlink(t, o)
      PROVE  HooksSerialised'
  BY <1>22 DEF Unlink
<1>23. ASSUME NEW t \in Threads, NEW o \in Objects, Retire(t, o)
      PROVE  HooksSerialised'
  BY <1>23 DEF Retire, RotateDue
<1>24. ASSUME NEW t \in Threads, NEW w \in Threads, NEW o \in Objects,
             Expose(w, t, o)
      PROVE  HooksSerialised'
  BY <1>24 DEF Expose
<1>25. ASSUME UNCHANGED vars PROVE HooksSerialised'
  BY <1>25 DEF vars
<1> QED
  BY <1>1, <1>2, <1>3, <1>4, <1>5, <1>6, <1>7, <1>8, <1>9, <1>10, <1>11,
     <1>12, <1>13, <1>14, <1>15, <1>16, <1>17, <1>18, <1>19, <1>20, <1>21,
     <1>22, <1>23, <1>24, <1>25 DEF Next, Announce, Client, AdvanceEpoch,
     UpdateEpoch

\* A list is rotated only when the epoch is two ahead of the last rotation.
LEMMA RotateStep == ASSUME ReclaimInv, [Next]_vars PROVE RotateInv'
<1> USE DEF ReclaimInv, EpochInv, TypeOK, RotateInv, Goto, slotVars,
       localVars, objVars, refVars, stampVars
<1>1. ASSUME Tick PROVE RotateInv'
  BY <1>1 DEF Tick
<1>2. ASSUME Clear PROVE RotateInv'
  BY <1>2 DEF Clear, ClearList
<1>3. ASSUME NEW t \in Threads, AnnounceLoad(t) PROVE RotateInv'
  BY <1>3 DEF AnnounceLoad
<1>4. ASSUME NEW t \in Threads, AnnounceExchange(t) PROVE RotateInv'
  BY <1>4 DEF AnnounceExchange
<1>5. ASSUME NEW t \in Threads, AnnounceRecheck(t) PROVE RotateInv'
  BY <1>5 DEF AnnounceRecheck
<1>6. ASSUME NEW t \in Threads, Unannounce(t) PROVE RotateInv'
  BY <1>6 DEF Unannounce
<1>7. ASSUME NEW t \in Threads, WithSnapshot(t) PROVE RotateInv'
  BY <1>7 DEF WithSnapshot
<1>8. ASSUME NEW t \in Threads, ClearOld(t) PROVE RotateInv'
  BY <1>8 DEF ClearOld, ClearList
<1>9. ASSUME NEW t \in Threads, Rotate(t) PROVE RotateInv'
  BY <1>9 DEF Rotate
<1>10. ASSUME NEW t \in Threads, Heuristic(t) PROVE RotateInv'
  BY <1>10 DEF Heuristic
<1>11. ASSUME NEW t \in Threads, Push(t) PROVE RotateInv'
  BY <1>11 DEF Push
<1>12. ASSUME NEW t \in Threads, UpdateLoad(t) PROVE RotateInv'
  BY <1>12 DEF UpdateLoad
<1>13. ASSUME NEW t \in Threads, Scan(t) PROVE RotateInv'
  BY <1>13 DEF Scan, NextSlot
<1>14. ASSUME NEW t \in Threads, Scan2(t) PROVE RotateInv'
  BY <1>14 DEF Scan2, NextSlot, EndUpdate
<1>15. ASSUME NEW t \in Threads, BeforeHook(t) PROVE RotateInv'
  BY <1>15 DEF BeforeHook
<1>16. ASSUME NEW t \in Threads, CasEpoch(t) PROVE RotateInv'
  BY <1>16 DEF CasEpoch, EndUpdate
<1>17. ASSUME NEW t \in Threads, AfterHook(t) PROVE RotateInv'
  BY <1>17 DEF AfterHook, EndUpdate
<1>18. ASSUME NEW t \in Threads, NEW o \in Objects, NewObj(t, o)
      PROVE  RotateInv'
  BY <1>18 DEF NewObj
<1>19. ASSUME NEW t \in Threads, NEW o \in Objects, Destruct(t, o)
      PROVE  RotateInv'
  BY <1>19 DEF Destruct
<1>20. ASSUME NEW t \in Threads, NEW o \in Objects, Publish(t, o)
      PROVE  RotateInv'
  BY <1>20 DEF Publish
<1>21. ASSUME NEW t \in Threads, NEW o \in Objects, Read(t, o)
      PROVE  RotateInv'
  BY <1>21 DEF Read
<1>22. ASSUME NEW t \in Threads, NEW o \in Objects, Unlink(t, o)
      PROVE  RotateInv'
  BY <1>22 DEF Unlink
<1>23. ASSUME NEW t \in Threads, NEW o \in Objects, Retire(t, o)
      PROVE  RotateInv'
  BY <1>23 DEF Retire, RotateDue
<1>24. ASSUME NEW t \in Threads, NEW w \in Threads, NEW o \in Objects,
             Expose(w, t, o)
      PROVE  RotateInv'
  BY <1>24 DEF Expose
<1>25. ASSUME UNCHANGED vars PROVE RotateInv'
  BY <1>25 DEF vars
<1> QED
  BY <1>1, <1>2, <1>3, <1>4, <1>5, <1>6, <1>7, <1>8, <1>9, <1>10, <1>11,
     <1>12, <1>13, <1>14, <1>15, <1>16, <1>17, <1>18, <1>19, <1>20, <1>21,
     <1>22, <1>23, <1>24, <1>25 DEF Next, Announce, Client, AdvanceEpoch,
     UpdateEpoch

\* The readers of a retired object stay within the bounds of its list, so
\* that nobody can reach an object that clear_list frees.
LEMMA ObjStep == ASSUME ReclaimInv, [Next]_vars PROVE ObjInv'
<1> USE DEF ReclaimInv, EpochInv, TypeOK, SlotInv, RotateInv, ObjInv,
       HeldUpTo, Holds, InOp, PCs, InOpPCs, AnnouncePCs, UpdatePCs,
       RetirePCs, NoEpoch, Nobody, Goto, slotVars, localVars, objVars,
       refVars, stampVars
<1>1. ASSUME Tick PROVE ObjInv'
  BY <1>1 DEF Tick
<1>2. ASSUME Clear PROVE ObjInv'
  BY <1>2 DEF Clear, ClearList
<1>3. ASSUME NEW t \in Threads, AnnounceLoad(t) PROVE ObjInv'
  BY <1>3 DEF AnnounceLoad
<1>4. ASSUME NEW t \in Threads, AnnounceExchange(t) PROVE ObjInv'
  BY <1>4 DEF AnnounceExchange
<1>5. ASSUME NEW t \in Threads, AnnounceRecheck(t) PROVE ObjInv'
  BY <1>5 DEF AnnounceRecheck
<1>6. ASSUME NEW t \in Threads, Unannounce(t) PROVE ObjInv'
  BY <1>6 DEF Unannounce
<1>7. ASSUME NEW t \in Threads, WithSnapshot(t) PROVE ObjInv'
  BY <1>7 DEF WithSnapshot
<1>8. ASSUME NEW t \in Threads, ClearOld(t) PROVE ObjInv'
  BY <1>8 DEF ClearOld, ClearList
<1>9. ASSUME NEW t \in Threads, Rotate(t) PROVE ObjInv'
  BY <1>9 DEF Rotate
<1>10. ASSUME NEW t \in Threads, Heuristic(t) PROVE ObjInv'
  BY <1>10 DEF Heuristic
<1>11. ASSUME NEW t \in Threads, Push(t) PROVE ObjInv'
  BY <1>11 DEF Push
<1>12. ASSUME NEW t \in Threads, UpdateLoad(t) PROVE ObjInv'
  BY <1>12 DEF UpdateLoad
<1>13. ASSUME NEW t \in Threads, Scan(t) PROVE ObjInv'
  BY <1>13 DEF Scan, NextSlot
<1>14. ASSUME NEW t \in Threads, Scan2(t) PROVE ObjInv'
  BY <1>14 DEF Scan2, NextSlot, EndUpdate
<1>15. ASSUME NEW t \in Threads, BeforeHook(t) PROVE ObjInv'
  BY <1>15 DEF BeforeHook
<1>16. ASSUME NEW t \in Threads, CasEpoch(t) PROVE ObjInv'
  BY <1>16 DEF CasEpoch, EndUpdate
<1>17. ASSUME NEW t \in Threads, AfterHook(t) PROVE ObjInv'
  BY <1>17 DEF AfterHook, EndUpdate
<1>18. ASSUME NEW t \in Threads, NEW o \in Objects, NewObj(t, o)
      PROVE  ObjInv'
  BY <1>18 DEF NewObj
<1>19. ASSUME NEW t \in Threads, NEW o \in Objects, Destruct(t, o)
      PROVE  ObjInv'
  BY <1>19 DEF Destruct
<1>20. ASSUME NEW t \in Threads, NEW o \in Objects, Publish(t, o)
      PROVE  ObjInv'
  BY <1>20 DEF Publish
<1>21. ASSUME NEW t \in Threads, NEW o \in Objects, Read(t, o)
      PROVE  ObjInv'
  BY <1>21 DEF Read
<1>22. ASSUME NEW t \in Threads, NEW o \in Objects, Unlink(t, o)
      PROVE  ObjInv'
  BY <1>22 DEF Unlink
<1>23. ASSUME NEW t \in Threads, NEW o \in Objects, Retire(t, o)
      PROVE  ObjInv'
  BY <1>23 DEF Retire, RotateDue
<1>24. ASSUME NEW t \in Threads, NEW w \in Threads, NEW o \in Objects,
             Expose(w, t, o)
      PROVE  ObjInv'
  BY <1>24 DEF Expose
<1>25. ASSUME UNCHANGED vars PROVE ObjInv'
  BY <1>25 DEF vars
<1> QED
  BY <1>1, <1>2, <1>3, <1>4, <1>5, <1>6, <1>7, <1>8, <1>9, <1>10, <1>11,
     <1>12, <1>13, <1>14, <1>15, <1>16, <1>17, <1>18, <1>19, <1>20, <1>21,
     <1>22, <1>23, <1>24, <1>25 DEF Next, Announce, Client, AdvanceEpoch,
     UpdateEpoch

\* Each sample of the stamp is at least the sample of the increment before.
LEMMA SampleStep == ASSUME StampInv, [Next]_vars PROVE SampleInv'
<1> USE DEF StampInv, EpochInv, TypeOK, ScanInv, SampleInv, HooksSerialised,
       InOp, InOpPCs, UpdatePCs, NoEpoch, Goto, slotVars, localVars,
       objVars, refVars, stampVars
<1>1. ASSUME Tick PROVE SampleInv'
  BY <1>1 DEF Tick
<1>2. ASSUME Clear PROVE SampleInv'
  BY <1>2 DEF Clear, ClearList
<1>3. ASSUME NEW t \in Threads, AnnounceLoad(t) PROVE SampleInv'
  BY <1>3 DEF AnnounceLoad
<1>4. ASSUME NEW t \in Threads, AnnounceExchange(t) PROVE SampleInv'
  BY <1>4 DEF AnnounceExchange
<1>5. ASSUME NEW t \in Threads, AnnounceRecheck(t) PROVE SampleInv'
  BY <1>5 DEF AnnounceRecheck
<1>6. ASSUME NEW t \in Threads, Unannounce(t) PROVE SampleInv'
  BY <1>6 DEF Unannounce
<1>7. ASSUME NEW t \in Threads, WithSnapshot(t) PROVE SampleInv'
  BY <1>7 DEF WithSnapshot
<1>8. ASSUME NEW t \in Threads, ClearOld(t) PROVE SampleInv'
  BY <1>8 DEF ClearOld, ClearList
<1>9. ASSUME NEW t \in Threads, Rotate(t) PROVE SampleInv'
  BY <1>9 DEF Rotate
<1>10. ASSUME NEW t \in Threads, Heuristic(t) PROVE SampleInv'
  BY <1>10 DEF Heuristic
<1>11. ASSUME NEW t \in Threads, Push(t) PROVE SampleInv'
  BY <1>11 DEF Push
<1>12. ASSUME NEW t \in Threads, UpdateLoad(t) PROVE SampleInv'
  BY <1>12 DEF UpdateLoad
<1>13. ASSUME NEW t \in Threads, Scan(t) PROVE SampleInv'
  BY <1>13 DEF Scan, NextSlot
<1>14. ASSUME NEW t \in Threads, Scan2(t) PROVE SampleInv'
  BY <1>14 DEF Scan2, NextSlot, EndUpdate
<1>15. ASSUME NEW t \in Threads, BeforeHook(t) PROVE SampleInv'
  BY <1>15 DEF BeforeHook
<1>16. ASSUME NEW t \in Threads, CasEpoch(t) PROVE SampleInv'
  BY <1>16 DEF CasEpoch, EndUpdate
<1>17. ASSUME NEW t \in Threads, AfterHook(t) PROVE SampleInv'
  <2>1. \A u \in Threads : pc[u] = "cas" => e[u] # current_epoch
    BY <1>17 DEF AfterHook
  <2>2. \A u \in Threads : pc'[u] # "after"
    BY <1>17 DEF AfterHook, EndUpdate
  <2> QED BY <1>17, <2>1, <2>2 DEF AfterHook, EndUpdate
<1>18. ASSUME NEW t \in Threads, NEW o \in Objects, NewObj(t, o)
      PROVE  SampleInv'
  BY <1>18 DEF NewObj
<1>19. ASSUME NEW t \in Threads, NEW o \in Objects, Destruct(t, o)
      PROVE  SampleInv'
  BY <1>19 DEF Destruct
<1>20. ASSUME NEW t \in Threads, NEW o \in Objects, Publish(t, o)
      PROVE  SampleInv'
  BY <1>20 DEF Publish
<1>21. ASSUME NEW t \in Threads, NEW o \in Objects, Read(t, o)
      PROVE  SampleInv'
  BY <1>21 DEF Read
<1>22. ASSUME NEW t \in Threads, NEW o \in Objects, Unlink(t, o)
      PROVE  SampleInv'
  BY <1>22 DEF Unlink
<1>23. ASSUME NEW t \in Threads, NEW o \in Objects, Retire(t, o)
      PROVE  SampleInv'
  BY <1>23 DEF Retire, RotateDue
<1>24. ASSUME NEW t \in Threads, NEW w \in Threads, NEW o \in Objects,
             Expose(w, t, o)
      PROVE  SampleInv'
  BY <1>24 DEF Expose
<1>25. ASSUME UNCHANGED vars PROVE SampleInv'
  BY <1>25 DEF vars
<1> QED
  BY <1>1, <1>2, <1>3, <1>4, <1>5, <1>6, <1>7, <1>8, <1>9, <1>10, <1>11,
     <1>12, <1>13, <1>14, <1>15, <1>16, <1>17, <1>18, <1>19, <1>20, <1>21,
     <1>22, <1>23, <1>24, <1>25 DEF Next, Announce, Client, AdvanceEpoch,
     UpdateEpoch

\* A snapshot is younger than the samples that done_stamp and prev_stamp
\* hold, and than the one an after hook is about to store.
LEMMA SnapshotStep == ASSUME StampInv, [Next]_vars PROVE SnapshotInv'
<1> USE DEF StampInv, EpochInv, TypeOK, SlotInv, ScanInv, SampleInv,
       SnapshotInv, HooksSerialised, InOp, PCs, InOpPCs, AnnouncePCs,
       UpdatePCs, RetirePCs, NoEpoch, NoStamp, Goto, slotVars, localVars,
       objVars, refVars, stampVars
<1>1. ASSUME Tick PROVE SnapshotInv'
  BY <1>1 DEF Tick
<1>2. ASSUME Clear PROVE SnapshotInv'
  BY <1>2 DEF Clear, ClearList
<1>3. ASSUME NEW t \in Threads, AnnounceLoad(t) PROVE SnapshotInv'
  BY <1>3 DEF AnnounceLoad
<1>4. ASSUME NEW t \in Threads, AnnounceExchange(t) PROVE SnapshotInv'
  BY <1>4 DEF AnnounceExchange
<1>5. ASSUME NEW t \in Threads, AnnounceRecheck(t) PROVE SnapshotInv'
  BY <1>5 DEF AnnounceRecheck
<1>6. ASSUME NEW t \in Threads, Unannounce(t) PROVE SnapshotInv'
  BY <1>6 DEF Unannounce
<1>7. ASSUME NEW t \in Threads, WithSnapshot(t) PROVE SnapshotInv'
  BY <1>7 DEF WithSnapshot
<1>8. ASSUME NEW t \in Threads, ClearOld(t) PROVE SnapshotInv'
  BY <1>8 DEF ClearOld, ClearList
<1>9. ASSUME NEW t \in Threads, Rotate(t) PROVE SnapshotInv'
  BY <1>9 DEF Rotate
<1>10. ASSUME NEW t \in Threads, Heuristic(t) PROVE SnapshotInv'
  BY <1>10 DEF Heuristic
<1>11. ASSUME NEW t \in Threads, Push(t) PROVE SnapshotInv'
  BY <1>11 DEF Push
<1>12. ASSUME NEW t \in Threads, UpdateLoad(t) PROVE SnapshotInv'
  BY <1>12 DEF UpdateLoad
<1>13. ASSUME NEW t \in Threads, Scan(t) PROVE SnapshotInv'
  BY <1>13 DEF Scan, NextSlot
<1>14. ASSUME NEW t \in Threads, Scan2(t) PROVE SnapshotInv'
  BY <1>14 DEF Scan2, NextSlot, EndUpdate
<1>15. ASSUME NEW t \in Threads, BeforeHook(t) PROVE SnapshotInv'
  BY <1>15 DEF BeforeHook
<1>16. ASSUME NEW t \in Threads, CasEpoch(t) PROVE SnapshotInv'
  BY <1>16 DEF CasEpoch, EndUpdate
<1>17. ASSUME NEW t \in Threads, AfterHook(t) PROVE SnapshotInv'
  BY <1>17 DEF AfterHook, EndUpdate
<1>18. ASSUME NEW t \in Threads, NEW o \in Objects, NewObj(t, o)
      PROVE  SnapshotInv'
  BY <1>18 DEF NewObj
<1>19. ASSUME NEW t \in Threads, NEW o \in Objects, Destruct(t, o)
      PROVE  SnapshotInv'
  BY <1>19 DEF Destruct
<1>20. ASSUME NEW t \in Threads, NEW o \in Objects, Publish(t, o)
      PROVE  SnapshotInv'
  BY <1>20 DEF Publish
<1>21. ASSUME NEW t \in Threads, NEW o \in Objects, Read(t, o)
      PROVE  SnapshotInv'
  BY <1>21 DEF Read
<1>22. ASSUME NEW t \in Threads, NEW o \in Objects, Unlink(t, o)
      PROVE  SnapshotInv'
  BY <1>22 DEF Unlink
<1>23. ASSUME NEW t \in Threads, NEW o \in Objects, Retire(t, o)
      PROVE  SnapshotInv'
  BY <1>23 DEF Retire, RotateDue
<1>24. ASSUME NEW t \in Threads, NEW w \in Threads, NEW o \in Objects,
             Expose(w, t, o)
      PROVE  SnapshotInv'
  BY <1>24 DEF Expose
<1>25. ASSUME UNCHANGED vars PROVE SnapshotInv'
  BY <1>25 DEF vars
<1> QED
  BY <1>1, <1>2, <1>3, <1>4, <1>5, <1>6, <1>7, <1>8, <1>9, <1>10, <1>11,
     <1>12, <1>13, <1>14, <1>15, <1>16, <1>17, <1>18, <1>19, <1>20, <1>21,
     <1>22, <1>23, <1>24, <1>25 DEF Next, Announce, Client, AdvanceEpoch,
     UpdateEpoch

-----------------------------------------------------------------------------
\* The fields of epoch.h and the hooks' stamps always have their types.
THEOREM TypeCorrect == Spec => []TypeOK
<1>1. Init => TypeOK
  BY DEF Init, TypeOK, PCs, AnnouncePCs, ObjStates, NoEpoch, NoStamp, Nobody
<1>2. TypeOK /\ [Next]_vars => TypeOK'
  BY TypeStep
<1> QED BY <1>1, <1>2, PTL DEF Spec

\* The facts about slots and scans that every other proof uses.
LEMMA EpochInvariant == Spec => []EpochInv
<1>1. Init => EpochInv
  BY DEF Init, EpochInv, TypeOK, SlotInv, ScanInv, HooksSerialised, InOp, PCs,
     InOpPCs, AnnouncePCs, UpdatePCs, RetirePCs, ObjStates, NoEpoch, NoStamp,
     Nobody
<1>2. EpochInv /\ [Next]_vars => EpochInv'
  BY TypeStep, SlotStep, ScanStep, HooksStep DEF EpochInv
<1> QED BY <1>1, <1>2, PTL DEF Spec

\* The after hooks of update_epoch never run concurrently: an incrementer is
\* inside with_epoch, and its own announcement blocks the next increment.
THEOREM HooksExclusive == Spec => []HooksSerialised
<1>1. EpochInv => HooksSerialised
  BY DEF EpochInv
<1> QED BY <1>1, EpochInvariant, PTL

\* clear_list never frees an object that an operation can still reach.
THEOREM Reclamation == Spec => []NoUseAfterFree
<1>1. Init => RotateInv /\ ObjInv
  BY DEF Init, RotateInv, ObjInv, Holds
<1>2. ReclaimInv /\ [Next]_vars => RotateInv' /\ ObjInv'
  BY RotateStep, ObjStep
<1>3. ReclaimInv => NoUseAfterFree
  BY DEF ReclaimInv, ObjInv, NoUseAfterFree
<1>4. EpochInv /\ RotateInv /\ ObjInv <=> ReclaimInv
  BY DEF ReclaimInv
<1> QED BY <1>1, <1>2, <1>3, <1>4, EpochInvariant, PTL DEF Spec

\* The stamp invariant holds in every state.
LEMMA StampInvariant == Spec => []StampInv
<1>1. Init => SampleInv /\ SnapshotInv
  BY DEF Init, SampleInv, SnapshotInv
<1>2. StampInv /\ [Next]_vars => SampleInv' /\ SnapshotInv'
  BY SampleStep, SnapshotStep
<1>3. EpochInv /\ SampleInv /\ SnapshotInv <=> StampInv
  BY DEF StampInv
<1> QED BY <1>1, <1>2, <1>3, EpochInvariant, PTL DEF Spec

\* done_stamp is at most the stamp of every running snapshot, which is what
\* makes the test in versioned_ptr::shortcut sound.
THEOREM SnapshotsProtected == Spec => []DoneStampSafe
<1>1. StampInv => DoneStampSafe
  BY DEF StampInv, SnapshotInv, DoneStampSafe
<1> QED BY <1>1, StampInvariant, PTL

\* done_stamp and current_epoch only grow.
THEOREM DoneMonotone == Spec => DoneStampMonotone
<1> USE DEF StampInv, EpochInv, TypeOK, SampleInv
<1>1. ASSUME StampInv, [Next]_vars
      PROVE  done_stamp <= done_stamp' /\ current_epoch <= current_epoch'
  <2>1. CASE Clear
    BY <1>1, <2>1 DEF Clear
  <2>2. CASE \E t \in Threads : AfterHook(t)
    BY <1>1, <2>2 DEF AfterHook, slotVars
  <2>3. CASE \E t \in Threads : CasEpoch(t)
    BY <1>1, <2>3 DEF CasEpoch
  <2> DEFINE Still == UNCHANGED <<done_stamp, current_epoch>>
  <2>4. ASSUME Tick \/ UNCHANGED vars PROVE Still
    BY <2>4 DEF Tick, vars, slotVars, stampVars
  <2>5. ASSUME NEW t \in Threads, Announce(t) \/ Unannounce(t) PROVE Still
    BY <2>5 DEF Announce, AnnounceLoad, AnnounceExchange, AnnounceRecheck,
       Unannounce, slotVars, stampVars
  <2>6. ASSUME NEW t \in Threads, Client(t) PROVE Still
    BY <2>6 DEF Client, WithSnapshot, NewObj, Destruct, Publish, Read, Unlink,
       Retire, Expose, slotVars, stampVars
  <2>7. ASSUME NEW t \in Threads, AdvanceEpoch(t) PROVE Still
    BY <2>7 DEF AdvanceEpoch, ClearOld, Rotate, Heuristic, Push, slotVars,
       stampVars
  <2>8. ASSUME NEW t \in Threads,
               UpdateLoad(t) \/ Scan(t) \/ Scan2(t) \/ BeforeHook(t)
        PROVE  Still
    BY <2>8 DEF UpdateLoad, Scan, Scan2, BeforeHook, slotVars, stampVars
  <2>9. CASE Still
    BY <1>1, <2>9
  <2> HIDE DEF Still
  <2> QED
    BY <1>1, <2>1, <2>2, <2>3, <2>4, <2>5, <2>6, <2>7, <2>8, <2>9
    DEF Next, UpdateEpoch
<1>2. StampInv /\ [Next]_vars =>
        [done_stamp <= done_stamp' /\ current_epoch <= current_epoch']_vars
  BY <1>1
<1> QED BY <1>2, StampInvariant, PTL DEF Spec, DoneStampMonotone
=============================================================================
