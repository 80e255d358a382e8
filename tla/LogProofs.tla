----------------------------- MODULE LogProofs -----------------------------
(***************************************************************************)
(* What TLC finds of Log, for any number of threads, any capacity of the   *)
(* deque and any number of lines and days: the types, that push_back never *)
(* blocks under mtx_, that no line is lost, and that the deque is used by  *)
(* the rules of BlockDeque.                                                *)
(***************************************************************************)
EXTENDS Log, FiniteSetTheorems, FunctionTheorems, SequenceTheorems, TLAPS

(* Where a writer stands while it holds mtx_.                              *)
Holding == {"open", "count", "push", "puts"}

LogTypes ==
  /\ pc \in [Writers -> Control]
  /\ written \in [Writers -> Nat]
  /\ deq_ \in Seq(Writers \X Nat)

MutexHeld ==
  /\ mtx_ \in Writers \cup {Nobody}
  /\ \A w \in Writers : mtx_ = w <=> pc[w] \in Holding

(* PushNeverBlocks is not inductive: that nobody else is between full()    *)
(* and push_back follows from who holds mtx_.                              *)
LogInv == LogTypes /\ MutexHeld /\ PushNeverBlocks

-----------------------------------------------------------------------------
(* A step that neither takes nor gives back mtx_, nor comes to push_back,  *)
(* and adds nothing to the deque.                                          *)
LEMMA StepWithoutLock ==
  ASSUME LogInv, NEW w \in Writers, NEW s \in Control \ {"push"},
         pc' = [pc EXCEPT ![w] = s], s \in Holding <=> pc[w] \in Holding,
         UNCHANGED <<mtx_, deq_>>, written' \in [Writers -> Nat]
  PROVE  LogInv'
<1>1. /\ pc \in [Writers -> Control] /\ pc'[w] = s
      /\ \A v \in Writers \ {w} : pc'[v] = pc[v]
  BY DEF LogInv, LogTypes
<1>2. LogTypes'
  BY DEF LogInv, LogTypes
<1>3. MutexHeld'
  BY <1>1 DEF LogInv, MutexHeld
<1>4. PushNeverBlocks'
  BY <1>1 DEF LogInv, PushNeverBlocks
<1>. QED
  BY <1>2, <1>3, <1>4 DEF LogInv

LEMMA LockingStep ==
  ASSUME LogInv, NEW w \in Writers, Lock(w), NEW s \in Holding \ {"push"},
         pc' = [pc EXCEPT ![w] = s], UNCHANGED <<deq_, written>>
  PROVE  LogInv'
<1>1. /\ pc \in [Writers -> Control] /\ pc'[w] = s
      /\ \A v \in Writers \ {w} : pc'[v] = pc[v]
  BY DEF LogInv, LogTypes
<1>2. LogTypes'
  BY DEF LogInv, LogTypes, Holding, Control
<1>3. mtx_' = w /\ \A v \in Writers : pc[v] \notin Holding
  BY LogAssumption DEF Lock, LogInv, MutexHeld
<1>4. MutexHeld'
  BY <1>1, <1>3 DEF MutexHeld
<1>5. PushNeverBlocks'
  BY <1>1 DEF LogInv, PushNeverBlocks
<1>. QED
  BY <1>2, <1>4, <1>5 DEF LogInv

LEMMA UnlockingStep ==
  ASSUME LogInv, NEW w \in Writers, Unlock(w), NEW s \in Control \ Holding,
         pc' = [pc EXCEPT ![w] = s],
         deq_' \in Seq(Writers \X Nat), UNCHANGED written
  PROVE  LogInv'
<1>1. /\ pc \in [Writers -> Control] /\ pc'[w] = s
      /\ \A v \in Writers \ {w} : pc'[v] = pc[v]
  BY DEF LogInv, LogTypes
<1>2. LogTypes'
  BY DEF LogInv, LogTypes
<1>3. mtx_ = w /\ mtx_' = Nobody
  BY DEF Unlock
<1>4. \A v \in Writers : pc'[v] \notin Holding
  BY <1>1, <1>3 DEF LogInv, MutexHeld
<1>5. MutexHeld'
  BY <1>3, <1>4, LogAssumption DEF MutexHeld
<1>6. PushNeverBlocks'
  BY <1>4 DEF PushNeverBlocks, Holding
<1>. QED
  BY <1>2, <1>5, <1>6 DEF LogInv

LEMMA WriterKeepsInv ==
  ASSUME LogInv, NEW w \in Writers, Now(w) \/ InWrite(w) PROVE LogInv'
<1>0. written \in [Writers -> Nat] /\ deq_ \in Seq(Writers \X Nat)
  BY DEF LogInv, LogTypes
<1>1. CASE Now(w)
  <2>1. /\ pc[w] = "idle" /\ pc' = [pc EXCEPT ![w] = "time"] /\ UNCHANGED <<mtx_, deq_>>
        /\ written' = [written EXCEPT ![w] = @ + 1]
    BY <1>1 DEF Now, Step, shared
  <2>2. written' \in [Writers -> Nat]
    BY <1>0, <2>1
  <2>3. "time" \in Control \ {"push"} /\ ("time" \in Holding <=> pc[w] \in Holding)
    BY <2>1 DEF Control, Holding
  <2>. QED
    BY <2>1, <2>2, <2>3, StepWithoutLock
<1>2. ASSUME NEW from \in {"time", "copy", "day", "lines", "rotate", "again", "new day", "zero",
                           "same day", "flush"},
             NEW to \in Control \ ({"push"} \cup Holding),
             Step(w, from, to), UNCHANGED <<mtx_, deq_, written>>
      PROVE  LogInv'
  <2>1. pc[w] \notin Holding /\ pc' = [pc EXCEPT ![w] = to] /\ written' = written
    BY <1>2 DEF Step, Holding
  <2>. QED
    BY <1>0, <1>2, <2>1, StepWithoutLock
<1>3. CASE LocalTime(w)
  <2>1. Step(w, "time", "copy") /\ UNCHANGED <<mtx_, deq_, written>>
    BY <1>3 DEF LocalTime, shared
  <2>. QED
    BY <1>2, <2>1 DEF Control, Holding
<1>4. CASE CopyTime(w)
  <2>1. Step(w, "copy", "day") /\ UNCHANGED <<mtx_, deq_, written>>
    BY <1>4 DEF CopyTime, shared
  <2>. QED
    BY <1>2, <2>1 DEF Control, Holding
<1>5. CASE TestDay(w)
  <2>1. PICK to \in {"rotate", "lines"} : Step(w, "day", to) /\ UNCHANGED <<mtx_, deq_, written>>
    BY <1>5 DEF TestDay, shared
  <2>. QED
    BY <1>2, <2>1 DEF Control, Holding
<1>6. CASE TestLines(w)
  <2>1. PICK to \in {"rotate", "lock"} : Step(w, "lines", to) /\ UNCHANGED <<mtx_, deq_, written>>
    BY <1>6 DEF TestLines, shared
  <2>. QED
    BY <1>2, <2>1 DEF Control, Holding
<1>7. CASE LockUnlock(w)
  <2>1. Step(w, "rotate", "again") /\ UNCHANGED <<mtx_, deq_, written>>
    BY <1>7 DEF LockUnlock, shared
  <2>. QED
    BY <1>2, <2>1 DEF Control, Holding
<1>8. CASE TestDayAgain(w)
  <2>1. PICK to \in {"new day", "same day"} :
          Step(w, "again", to) /\ UNCHANGED <<mtx_, deq_, written>>
    BY <1>8 DEF TestDayAgain, shared
  <2>. QED
    BY <1>2, <2>1 DEF Control, Holding
<1>9. CASE ZeroLines(w)
  <2>1. Step(w, "zero", "reopen") /\ UNCHANGED <<mtx_, deq_, written>>
    BY <1>9 DEF ZeroLines
  <2>. QED
    BY <1>2, <2>1 DEF Control, Holding
<1>10. CASE Flush(w)
  <2>1. Step(w, "flush", "idle") /\ UNCHANGED <<mtx_, deq_, written>>
    BY <1>10 DEF Flush, shared
  <2>. QED
    BY <1>2, <2>1 DEF Control, Holding
<1>11. CASE Reopen(w)
  <2>1. Lock(w) /\ pc' = [pc EXCEPT ![w] = "open"] /\ UNCHANGED <<deq_, written>>
    BY <1>11 DEF Reopen, Step
  <2>2. "open" \in Holding \ {"push"}
    BY DEF Holding
  <2>. QED
    BY <2>1, <2>2, LockingStep
<1>12. CASE LoadCount(w)
  <2>1. Lock(w) /\ pc' = [pc EXCEPT ![w] = "count"] /\ UNCHANGED <<deq_, written>>
    BY <1>12 DEF LoadCount, Step
  <2>2. "count" \in Holding \ {"push"}
    BY DEF Holding
  <2>. QED
    BY <2>1, <2>2, LockingStep
<1>13. CASE Open(w)
  <2>1. Unlock(w) /\ pc' = [pc EXCEPT ![w] = "lock"] /\ UNCHANGED <<deq_, written>>
    BY <1>13 DEF Open, Step
  <2>2. "lock" \in Control \ Holding
    BY DEF Control, Holding
  <2>. QED
    BY <1>0, <2>1, <2>2, UnlockingStep
<1>14. CASE PushBack(w)
  <2>1. /\ Unlock(w) /\ pc' = [pc EXCEPT ![w] = "flush"]
        /\ deq_' = Append(deq_, <<w, written[w]>>) /\ UNCHANGED written
    BY <1>14 DEF PushBack, Step
  <2>2. "flush" \in Control \ Holding
    BY DEF Control, Holding
  <2>3. <<w, written[w]>> \in Writers \X Nat
    BY <1>0
  <2>4. deq_' \in Seq(Writers \X Nat)
    BY <1>0, <2>1, <2>3
  <2>. QED
    BY <2>1, <2>2, <2>4, UnlockingStep
<1>15. CASE WriteDirectly(w)
  <2>1. Unlock(w) /\ pc' = [pc EXCEPT ![w] = "flush"] /\ UNCHANGED <<deq_, written>>
    BY <1>15 DEF WriteDirectly, Step
  <2>2. "flush" \in Control \ Holding
    BY DEF Control, Holding
  <2>. QED
    BY <1>0, <2>1, <2>2, UnlockingStep
<1>16. CASE StoreCount(w)
  <2>1. /\ pc[w] = "count" /\ UNCHANGED <<mtx_, deq_, written>>
        /\ pc' = [pc EXCEPT ![w] = IF Full THEN "puts" ELSE "push"]
    BY <1>16 DEF StoreCount, Step
  <2>2. CASE Full
    <3>1. "puts" \in Control \ {"push"} /\ ("puts" \in Holding <=> pc[w] \in Holding)
      BY <2>1 DEF Control, Holding
    <3>. QED
      BY <1>0, <2>1, <2>2, <3>1, StepWithoutLock
  <2>3. CASE ~ Full
    <3>1. /\ pc \in [Writers -> Control] /\ pc'[w] = "push"
          /\ \A v \in Writers \ {w} : pc'[v] = pc[v]
      BY <2>1, <2>3 DEF LogInv, LogTypes
    <3>2. LogTypes'
      BY <1>0, <2>1, <2>3, <3>1 DEF LogTypes, Control
    <3>3. MutexHeld'
      BY <2>1, <3>1 DEF LogInv, MutexHeld, Holding
    <3>4. Len(deq_') < Capacity
      <4>1. Len(deq_) \in Nat /\ Capacity \in Nat
        BY <1>0, LogAssumption
      <4>. QED
        BY <2>1, <2>3, <4>1 DEF Full
    <3>5. PushNeverBlocks'
      BY <3>4 DEF PushNeverBlocks
    <3>. QED
      BY <3>2, <3>3, <3>5 DEF LogInv
  <2>. QED
    BY <2>2, <2>3
<1>17. CASE NameNewDay(w)
  <2>1. Step(w, "new day", "zero") /\ UNCHANGED <<mtx_, deq_, written>>
    BY <1>17 DEF NameNewDay
  <2>. QED
    BY <1>2, <2>1 DEF Control, Holding
<1>18. CASE NameSplit(w)
  <2>1. Step(w, "same day", "reopen") /\ UNCHANGED <<mtx_, deq_, written>>
    BY <1>18 DEF NameSplit, shared
  <2>. QED
    BY <1>2, <2>1 DEF Control, Holding
<1>. QED
  BY <1>1, <1>3, <1>4, <1>5, <1>6, <1>7, <1>8, <1>9, <1>10, <1>11, <1>12, <1>13, <1>14,
     <1>15, <1>16, <1>17, <1>18 DEF InWrite

(* The flusher only takes lines out of the deque.                          *)
LEMMA FlusherKeepsInv == ASSUME LogInv, FlushLogThread PROVE LogInv'
<1>1. UNCHANGED <<pc, written, mtx_>>
  BY DEF FlushLogThread, Pop, PopWaits, AsyncWrite_, locals, shared
<1>2. deq_ \in Seq(Writers \X Nat)
  BY DEF LogInv, LogTypes
<1>3. deq_' \in Seq(Writers \X Nat) /\ Len(deq_') <= Len(deq_)
  <2>1. CASE deq_ # <<>> /\ deq_' = Tail(deq_)
    BY <1>2, <2>1
  <2>2. CASE deq_' = deq_
    BY <1>2, <2>2
  <2>. QED
    BY <2>1, <2>2 DEF FlushLogThread, Pop, PopWaits, AsyncWrite_, shared
<1>4. LogTypes' /\ MutexHeld'
  BY <1>1, <1>3 DEF LogInv, LogTypes, MutexHeld
<1>5. PushNeverBlocks'
  <2>1. Len(deq_) \in Nat /\ Len(deq_') \in Nat /\ Capacity \in Nat
    BY <1>2, <1>3, LogAssumption
  <2>. QED
    BY <1>1, <1>3, <2>1 DEF LogInv, PushNeverBlocks
<1>. QED
  BY <1>4, <1>5 DEF LogInv

LEMMA LogInvStep == ASSUME LogInv, [Next]_vars PROVE LogInv'
<1>1. CASE UNCHANGED vars \/ Midnight
  <2>1. UNCHANGED <<pc, written, mtx_, deq_>>
    BY <1>1 DEF vars, Midnight, shared, locals
  <2>. QED
    BY <2>1 DEF LogInv, LogTypes, MutexHeld, PushNeverBlocks
<1>. QED
  BY <1>1, WriterKeepsInv, FlusherKeepsInv DEF Next

-----------------------------------------------------------------------------
(* The other types.  That a numbered file has a number the model knows     *)
(* follows from the lines that have been begun: lineCount_ and the writers *)
(* that have still to count theirs are together no more than those.        *)
Pending == {w \in Writers : pc[w] \notin {"idle", "push", "puts", "flush"}}

Days ==
  /\ clock \in 1 .. LastDay
  /\ sysTime \in 1 .. LastDay
  /\ toDay_ \in 1 .. LastDay
  /\ day \in [Writers -> 1 .. LastDay]

Counts ==
  /\ lineCount_ \in Nat
  /\ count \in [Writers -> Nat]
  /\ written \in [Writers -> Nat]
  /\ begun \in 0 .. MaxWrites
  /\ lineCount_ + Cardinality(Pending) <= begun
  /\ \A w \in Writers :
       /\ count[w] + Cardinality(Pending) <= begun
       /\ written[w] <= begun
       /\ pc[w] # "idle" => written[w] >= 1

OpenFile ==
  /\ fp_ \in Files \cup {Nobody}
  /\ newFile \in [Writers -> Files]
  /\ fp_ = Nobody => mtx_ # Nobody /\ pc[mtx_] = "open"

Queues ==
  /\ deq_ \in Seq(Lines)
  /\ flusher \in {"pop", "wait", "woken", "write"}
  /\ str \in Seq(Lines) /\ Len(str) = (IF flusher = "write" THEN 1 ELSE 0)
  /\ files \in [Files -> Seq(Lines)]

LEMMA PendingFinite == IsFiniteSet(Pending) /\ Cardinality(Pending) \in Nat
<1>1. Pending \in SUBSET Writers
  BY DEF Pending
<1>. QED
  BY <1>1, LogAssumption, FS_Subset, FS_CardinalityType

(* Midnight and the steps that set a day.                                  *)
LEMMA DaysStep == ASSUME Days, [Next]_vars PROVE Days'
<1>1. CASE Midnight
  <2>1. clock' \in 1 .. LastDay /\ UNCHANGED <<sysTime, toDay_, day>>
    BY <1>1, LogAssumption DEF Midnight, Days, shared, locals
  <2>. QED
    BY <2>1 DEF Days
<1>2. ASSUME NEW w \in Writers, Now(w) PROVE Days'
  BY <1>2 DEF Now, Days, shared
<1>3. ASSUME NEW w \in Writers, LocalTime(w) PROVE Days'
  BY <1>3 DEF LocalTime, Days, shared
<1>4. ASSUME NEW w \in Writers, CopyTime(w) PROVE Days'
  BY <1>4 DEF CopyTime, Days, shared
<1>5. ASSUME NEW w \in Writers, NameNewDay(w) PROVE Days'
  BY <1>5 DEF NameNewDay, Days
<1>6. ASSUME NEW w \in Writers, LoadCount(w) PROVE Days'
  <2>1. 1 \in 1 .. LastDay
    BY LogAssumption
  <2>. QED
    BY <1>6, <2>1 DEF LoadCount, Days
<1>7. ASSUME NEW w \in Writers,
             \/ TestDay(w) \/ TestLines(w) \/ LockUnlock(w) \/ TestDayAgain(w) \/ ZeroLines(w)
             \/ NameSplit(w) \/ Reopen(w) \/ Open(w) \/ StoreCount(w) \/ PushBack(w)
             \/ WriteDirectly(w) \/ Flush(w)
      PROVE  Days'
  <2>1. UNCHANGED <<clock, sysTime, toDay_, day>>
    BY <1>7 DEF TestDay, TestLines, LockUnlock, TestDayAgain, ZeroLines, NameSplit, Reopen, Open,
                StoreCount, PushBack, WriteDirectly, Flush, shared
  <2>. QED
    BY <2>1 DEF Days
<1>8. CASE FlushLogThread \/ UNCHANGED vars
  <2>1. UNCHANGED <<clock, sysTime, toDay_, day>>
    BY <1>8 DEF FlushLogThread, Pop, PopWaits, AsyncWrite_, shared, locals, vars
  <2>. QED
    BY <2>1 DEF Days
<1>. QED
  BY <1>1, <1>2, <1>3, <1>4, <1>5, <1>6, <1>7, <1>8 DEF Next, InWrite

-----------------------------------------------------------------------------
(* A step in which w goes on from one line to the same line, still to be   *)
(* counted before and after, or counted before and after.                  *)
LEMMA SameCounts ==
  ASSUME LogInv, Counts, NEW w \in Writers, NEW s \in Control,
         pc' = [pc EXCEPT ![w] = s],
         pc[w] # "idle",
         pc[w] \in {"push", "puts", "flush"} <=> s \in {"idle", "push", "puts", "flush"},
         UNCHANGED <<lineCount_, count, written, begun>>
  PROVE  Counts'
<1>1. pc \in [Writers -> Control]
  BY DEF LogInv, LogTypes
<1>2. Pending' = Pending
  BY <1>1 DEF Pending
<1>3. \A v \in Writers : pc'[v] # "idle" => written[v] >= 1
  BY <1>1 DEF Counts
<1>. QED
  BY <1>2, <1>3 DEF Counts

LEMMA CountsStep == ASSUME LogInv, Counts, [Next]_vars PROVE Counts'
<1>0. pc \in [Writers -> Control]
  BY DEF LogInv, LogTypes
<1>1. CASE FlushLogThread \/ Midnight \/ UNCHANGED vars
  <2>1. UNCHANGED <<lineCount_, count, written, begun, pc>>
    BY <1>1 DEF FlushLogThread, Pop, PopWaits, AsyncWrite_, Midnight, shared, locals, vars
  <2>. QED
    BY <2>1 DEF Counts, Pending
<1>2. ASSUME NEW w \in Writers, Now(w) PROVE Counts'
  <2>1. /\ pc[w] = "idle" /\ pc' = [pc EXCEPT ![w] = "time"]
        /\ begun < MaxWrites /\ begun' = begun + 1
        /\ written' = [written EXCEPT ![w] = @ + 1]
        /\ UNCHANGED <<lineCount_, count>>
    BY <1>2 DEF Now, Step, shared
  <2>2. Pending' = Pending \cup {w} /\ w \notin Pending
    BY <1>0, <2>1 DEF Pending
  <2>3. Cardinality(Pending') = Cardinality(Pending) + 1
    BY <2>2, PendingFinite, FS_AddElement
  <2>4. \A v \in Writers : pc'[v] # "idle" => v = w \/ pc[v] # "idle"
    BY <1>0, <2>1
  <2>5. begun' \in 0 .. MaxWrites /\ written' \in [Writers -> Nat]
    BY <2>1, LogAssumption DEF Counts
  <2>6. \A v \in Writers :
          /\ count[v] + Cardinality(Pending') <= begun'
          /\ written'[v] <= begun'
          /\ pc'[v] # "idle" => written'[v] >= 1
    BY <2>1, <2>3, <2>4, PendingFinite DEF Counts
  <2>7. lineCount_ + Cardinality(Pending') <= begun'
    BY <2>1, <2>3, PendingFinite DEF Counts
  <2>. QED
    BY <2>1, <2>5, <2>6, <2>7 DEF Counts
<1>3. ASSUME NEW w \in Writers,
             NEW from \in Control \ {"idle"}, NEW to \in Control,
             from \in {"push", "puts", "flush"} <=> to \in {"idle", "push", "puts", "flush"},
             Step(w, from, to), UNCHANGED <<lineCount_, count, written, begun>>
      PROVE  Counts'
  <2>1. pc[w] = from /\ pc' = [pc EXCEPT ![w] = to]
    BY <1>3 DEF Step
  <2>. QED
    BY <1>3, <2>1, SameCounts
<1>4. ASSUME NEW w \in Writers,
             LocalTime(w) \/ CopyTime(w) \/ TestDay(w) \/ TestLines(w) \/ LockUnlock(w)
      PROVE  Counts'
  <2>1. UNCHANGED <<lineCount_, count, written, begun>>
    BY <1>4 DEF LocalTime, CopyTime, TestDay, TestLines, LockUnlock, shared
  <2>2. \/ Step(w, "time", "copy") \/ Step(w, "copy", "day") \/ Step(w, "day", "rotate")
        \/ Step(w, "day", "lines") \/ Step(w, "lines", "rotate") \/ Step(w, "lines", "lock")
        \/ Step(w, "rotate", "again")
    BY <1>4 DEF LocalTime, CopyTime, TestDay, TestLines, LockUnlock
  <2>. QED
    BY <1>3, <2>1, <2>2 DEF Control
<1>5. ASSUME NEW w \in Writers,
             \/ TestDayAgain(w) \/ NameNewDay(w) \/ NameSplit(w) \/ Reopen(w) \/ Open(w)
             \/ PushBack(w) \/ WriteDirectly(w) \/ Flush(w)
      PROVE  Counts'
  <2>1. UNCHANGED <<lineCount_, count, written, begun>>
    BY <1>5 DEF TestDayAgain, NameNewDay, NameSplit, Reopen, Open, PushBack, WriteDirectly, Flush,
                shared
  <2>2. \/ Step(w, "again", "new day") \/ Step(w, "again", "same day")
        \/ Step(w, "new day", "zero") \/ Step(w, "same day", "reopen") \/ Step(w, "reopen", "open")
        \/ Step(w, "open", "lock") \/ Step(w, "push", "flush") \/ Step(w, "puts", "flush")
        \/ Step(w, "flush", "idle")
    BY <1>5 DEF TestDayAgain, NameNewDay, NameSplit, Reopen, Open, PushBack, WriteDirectly, Flush
  <2>. QED
    BY <1>3, <2>1, <2>2 DEF Control
<1>6. ASSUME NEW w \in Writers, ZeroLines(w) PROVE Counts'
  <2>1. /\ pc[w] = "zero" /\ pc' = [pc EXCEPT ![w] = "reopen"]
        /\ lineCount_' = 0 /\ UNCHANGED <<count, written, begun>>
    BY <1>6 DEF ZeroLines, Step
  <2>2. Pending' = Pending
    BY <1>0, <2>1 DEF Pending
  <2>3. \A v \in Writers : pc'[v] # "idle" => pc[v] # "idle"
    BY <1>0, <2>1
  <2>. QED
    BY <2>1, <2>2, <2>3, PendingFinite DEF Counts
<1>7. ASSUME NEW w \in Writers, LoadCount(w) PROVE Counts'
  <2>1. /\ pc[w] = "lock" /\ pc' = [pc EXCEPT ![w] = "count"]
        /\ count' = [count EXCEPT ![w] = lineCount_] /\ UNCHANGED <<lineCount_, written, begun>>
    BY <1>7 DEF LoadCount, Step
  <2>2. Pending' = Pending
    BY <1>0, <2>1 DEF Pending
  <2>3. \A v \in Writers : pc'[v] # "idle" => pc[v] # "idle"
    BY <1>0, <2>1
  <2>. QED
    BY <2>1, <2>2, <2>3, PendingFinite DEF Counts
<1>8. ASSUME NEW w \in Writers, StoreCount(w) PROVE Counts'
  <2>1. PICK to \in {"push", "puts"} :
          /\ pc[w] = "count" /\ pc' = [pc EXCEPT ![w] = to]
          /\ lineCount_' = count[w] + 1
          /\ count' = [count EXCEPT ![w] = 0] /\ UNCHANGED <<written, begun>>
    BY <1>8 DEF StoreCount, Step
  <2>2. Pending' = Pending \ {w} /\ w \in Pending
    BY <1>0, <2>1 DEF Pending
  <2>3. Cardinality(Pending') = Cardinality(Pending) - 1
    BY <2>2, PendingFinite, FS_RemoveElement
  <2>4. \A v \in Writers : pc'[v] # "idle" => pc[v] # "idle"
    BY <1>0, <2>1
  <2>5. lineCount_' \in Nat /\ count' \in [Writers -> Nat]
    BY <2>1 DEF Counts
  <2>6. \A v \in Writers :
          /\ count'[v] + Cardinality(Pending') <= begun'
          /\ written'[v] <= begun'
          /\ pc'[v] # "idle" => written'[v] >= 1
    BY <2>1, <2>3, <2>4, PendingFinite DEF Counts
  <2>7. lineCount_' + Cardinality(Pending') <= begun'
    BY <2>1, <2>3, PendingFinite DEF Counts
  <2>. QED
    BY <2>1, <2>5, <2>6, <2>7 DEF Counts
<1>. QED
  BY <1>1, <1>2, <1>4, <1>5, <1>6, <1>7, <1>8 DEF Next, InWrite

-----------------------------------------------------------------------------
LEMMA DivBound == ASSUME NEW m \in Nat, NEW n \in Nat \ {0} PROVE m \div n \in 0 .. m
  OBVIOUS

LEMMA OpenFileStep ==
  ASSUME LogInv, Days, Counts, OpenFile, [Next]_vars PROVE OpenFile'
<1>0. pc \in [Writers -> Control] /\ MutexHeld
  BY DEF LogInv, LogTypes
<1>1. CASE FlushLogThread \/ Midnight \/ UNCHANGED vars
  <2>1. UNCHANGED <<fp_, newFile, mtx_, pc>>
    BY <1>1 DEF FlushLogThread, Pop, PopWaits, AsyncWrite_, Midnight, shared, locals, vars
  <2>. QED
    BY <2>1 DEF OpenFile
(* Only who holds mtx_ stands at "open", and that writer does not move.    *)
<1>2. ASSUME NEW w \in Writers, NEW from \in Control \ {"open"}, NEW to \in Control,
             Step(w, from, to), mtx_ = Nobody \/ mtx_ = w \/ mtx_' = mtx_,
             UNCHANGED <<fp_>>, newFile' \in [Writers -> Files]
      PROVE  OpenFile'
  <2>1. pc[w] = from /\ pc' = [pc EXCEPT ![w] = to]
    BY <1>2 DEF Step
  <2>2. ASSUME fp_ = Nobody PROVE mtx_' # Nobody /\ pc'[mtx_'] = "open"
    <3>1. mtx_ # Nobody /\ pc[mtx_] = "open"
      BY <2>2 DEF OpenFile
    <3>2. mtx_ # w /\ mtx_' = mtx_
      BY <1>2, <2>1, <3>1
    <3>3. mtx_ \in Writers
      BY <1>0, <3>1 DEF MutexHeld
    <3>. QED
      BY <1>0, <2>1, <3>1, <3>2, <3>3
  <2>. QED
    BY <1>2, <2>2 DEF OpenFile
<1>3. ASSUME NEW w \in Writers,
             \/ Now(w) \/ LocalTime(w) \/ CopyTime(w) \/ TestDay(w) \/ TestLines(w)
             \/ LockUnlock(w) \/ TestDayAgain(w) \/ ZeroLines(w) \/ Flush(w) \/ StoreCount(w)
      PROVE  OpenFile'
  <2>1. UNCHANGED <<fp_, newFile, mtx_>>
    BY <1>3 DEF Now, LocalTime, CopyTime, TestDay, TestLines, LockUnlock, TestDayAgain,
                ZeroLines, Flush, StoreCount, shared
  <2>2. \E from \in Control \ {"open"}, to \in Control : Step(w, from, to)
    BY <1>3 DEF Now, LocalTime, CopyTime, TestDay, TestLines, LockUnlock, TestDayAgain,
                ZeroLines, Flush, StoreCount, Control
  <2>. QED
    BY <1>2, <2>1, <2>2 DEF OpenFile
<1>4. ASSUME NEW w \in Writers, LoadCount(w) \/ PushBack(w) \/ WriteDirectly(w)
      PROVE  OpenFile'
  <2>1. UNCHANGED <<fp_, newFile>> /\ (mtx_ = Nobody \/ mtx_ = w)
    BY <1>4 DEF LoadCount, PushBack, WriteDirectly, Lock, Unlock
  <2>2. \E from \in Control \ {"open"}, to \in Control : Step(w, from, to)
    BY <1>4 DEF LoadCount, PushBack, WriteDirectly, Control
  <2>. QED
    BY <1>2, <2>1, <2>2 DEF OpenFile
<1>5. ASSUME NEW w \in Writers, NameNewDay(w) \/ NameSplit(w) PROVE OpenFile'
  <2>1. UNCHANGED <<fp_, mtx_>>
    BY <1>5 DEF NameNewDay, NameSplit, shared
  <2>2. \E from \in Control \ {"open"}, to \in Control : Step(w, from, to)
    BY <1>5 DEF NameNewDay, NameSplit, Control
  <2>3. lineCount_ \div MAX_LINES \in 0 .. MaxWrites
    <3>1. lineCount_ \in Nat /\ lineCount_ <= MaxWrites
      BY PendingFinite, LogAssumption DEF Counts
    <3>2. MAX_LINES \in Nat \ {0} /\ MaxWrites \in Nat
      BY LogAssumption
    <3>3. lineCount_ \div MAX_LINES \in 0 .. lineCount_
      BY <3>1, <3>2, DivBound
    <3>. QED
      BY <3>1, <3>2, <3>3
  <2>4. {Plain, lineCount_ \div MAX_LINES} \subseteq Parts
    BY <2>3, LogAssumption DEF Plain, Parts
  <2>5. PICK part \in Parts : newFile' = [newFile EXCEPT ![w] = <<day[w], part>>]
    BY <1>5, <2>4 DEF NameNewDay, NameSplit
  <2>6. newFile' \in [Writers -> Files]
    BY <2>5 DEF Files, OpenFile, Days
  <2>. QED
    BY <1>2, <2>1, <2>2, <2>6
<1>6. ASSUME NEW w \in Writers, Reopen(w) PROVE OpenFile'
  <2>1. /\ pc' = [pc EXCEPT ![w] = "open"] /\ mtx_' = w
        /\ fp_' = Nobody /\ newFile' = newFile
    BY <1>6 DEF Reopen, Step, Lock
  <2>2. w # Nobody
    BY LogAssumption
  <2>. QED
    BY <1>0, <2>1, <2>2 DEF OpenFile
<1>7. ASSUME NEW w \in Writers, Open(w) PROVE OpenFile'
  <2>1. /\ fp_' = newFile[w] /\ newFile' = [newFile EXCEPT ![w] = <<1, Plain>>]
    BY <1>7 DEF Open
  <2>2. <<1, Plain>> \in Files
    BY LogAssumption DEF Files, Parts, Plain
  <2>3. newFile[w] \in Files /\ newFile[w] # Nobody
    BY LogAssumption DEF OpenFile
  <2>. QED
    BY <2>1, <2>2, <2>3 DEF OpenFile
<1>. QED
  BY <1>1, <1>3, <1>4, <1>5, <1>6, <1>7 DEF Next, InWrite

(* fp_ is an open file for the thread that writes to it.                   *)
LEMMA FileToWriteTo ==
  ASSUME LogInv, OpenFile,
         mtx_ = Nobody \/ \E w \in Writers : mtx_ = w /\ pc[w] # "open"
  PROVE  fp_ \in Files
  BY DEF OpenFile

LEMMA LineOfWriter ==
  ASSUME Counts, NEW w \in Writers, pc[w] # "idle" PROVE <<w, written[w]>> \in Lines
<1>1. written[w] \in Nat /\ written[w] >= 1 /\ written[w] <= MaxWrites
  BY LogAssumption DEF Counts
<1>. QED
  BY <1>1, LogAssumption DEF Lines

LEMMA QueuesStep ==
  ASSUME LogInv, Counts, OpenFile, Queues, [Next]_vars PROVE Queues'
<1>1. CASE Midnight \/ UNCHANGED vars
  <2>1. UNCHANGED <<deq_, flusher, str, files>>
    BY <1>1 DEF Midnight, shared, vars
  <2>. QED
    BY <2>1 DEF Queues
<1>2. ASSUME NEW w \in Writers,
             \/ Now(w) \/ LocalTime(w) \/ CopyTime(w) \/ TestDay(w) \/ TestLines(w)
             \/ LockUnlock(w) \/ TestDayAgain(w) \/ NameNewDay(w) \/ ZeroLines(w)
             \/ NameSplit(w) \/ Open(w) \/ LoadCount(w) \/ StoreCount(w)
      PROVE  Queues'
  <2>1. UNCHANGED <<deq_, flusher, str, files>>
    BY <1>2 DEF Now, LocalTime, CopyTime, TestDay, TestLines, LockUnlock, TestDayAgain, NameNewDay,
                ZeroLines, NameSplit, Open, LoadCount, StoreCount, shared
  <2>. QED
    BY <2>1 DEF Queues
<1>3. ASSUME NEW w \in Writers, Reopen(w) \/ Flush(w) PROVE Queues'
  <2>1. UNCHANGED <<deq_, str, files>> /\ NotifyConsumer
    BY <1>3 DEF Reopen, Flush, shared
  <2>. QED
    BY <2>1 DEF Queues, NotifyConsumer
<1>4. ASSUME NEW w \in Writers, PushBack(w) PROVE Queues'
  <2>1. /\ deq_' = Append(deq_, <<w, written[w]>>) /\ UNCHANGED <<str, files>>
        /\ NotifyConsumer /\ pc[w] = "push"
    BY <1>4 DEF PushBack, Step
  <2>2. <<w, written[w]>> \in Lines
    BY <2>1, LineOfWriter
  <2>3. deq_' \in Seq(Lines)
    BY <2>1, <2>2 DEF Queues
  <2>. QED
    BY <2>1, <2>3 DEF Queues, NotifyConsumer
<1>5. ASSUME NEW w \in Writers, WriteDirectly(w) PROVE Queues'
  <2>1. /\ UNCHANGED <<deq_, str, flusher>> /\ Fputs(<<w, written[w]>>)
        /\ mtx_ = w /\ pc[w] = "puts"
    BY <1>5 DEF WriteDirectly, Step, Unlock
  <2>2. fp_ \in Files /\ <<w, written[w]>> \in Lines
    BY <2>1, FileToWriteTo, LineOfWriter
  <2>3. files' \in [Files -> Seq(Lines)]
    BY <2>1, <2>2 DEF Queues, Fputs
  <2>. QED
    BY <2>1, <2>3 DEF Queues
<1>6. CASE Pop
  <2>1. Head(deq_) \in Lines /\ Tail(deq_) \in Seq(Lines)
    BY <1>6 DEF Pop, Queues
  <2>2. <<Head(deq_)>> \in Seq(Lines) /\ Len(<<Head(deq_)>>) = 1
    BY <2>1
  <2>. QED
    BY <1>6, <2>1, <2>2 DEF Pop, Queues
<1>7. CASE PopWaits
  BY <1>7 DEF PopWaits, Queues, shared
<1>8. CASE AsyncWrite_
  <2>1. /\ UNCHANGED deq_ /\ Fputs(Head(str)) /\ str' = <<>> /\ flusher' = "pop"
        /\ mtx_ = Nobody /\ flusher = "write"
    BY <1>8 DEF AsyncWrite_, shared
  <2>2. fp_ \in Files
    BY <2>1, FileToWriteTo
  <2>3. Head(str) \in Lines
    <3>1. str \in Seq(Lines) /\ Len(str) = 1
      BY <2>1 DEF Queues
    <3>2. str # <<>>
      BY <3>1, EmptySeq
    <3>. QED
      BY <3>1, <3>2
  <2>4. files' \in [Files -> Seq(Lines)]
    BY <2>1, <2>2, <2>3 DEF Queues, Fputs
  <2>5. <<>> \in Seq(Lines) /\ Len(<<>>) = 0
    BY EmptySeq
  <2>. QED
    BY <2>1, <2>4, <2>5 DEF Queues
<1>. QED
  BY <1>1, <1>2, <1>3, <1>4, <1>5, <1>6, <1>7, <1>8 DEF Next, InWrite, FlushLogThread

-----------------------------------------------------------------------------
TypeInv == LogInv /\ Days /\ Counts /\ OpenFile /\ Queues

LEMMA InitTypeInv == Init => TypeInv
<1> SUFFICES ASSUME Init PROVE TypeInv
  OBVIOUS
<1>1. LogInv
  <2>1. LogTypes
    BY DEF Init, LogTypes, Control
  <2>2. MutexHeld /\ PushNeverBlocks
    BY LogAssumption DEF Init, MutexHeld, Holding, PushNeverBlocks
  <2>. QED
    BY <2>1, <2>2 DEF LogInv
<1>2. Days
  BY LogAssumption DEF Init, Days
<1>3. Counts
  <2>1. Pending = {}
    BY DEF Init, Pending
  <2>2. Cardinality(Pending) = 0
    BY <2>1, FS_EmptySet
  <2>. QED
    BY <2>2, LogAssumption DEF Init, Counts
<1>4. OpenFile
  <2>1. <<1, Plain>> \in Files /\ <<1, Plain>> # Nobody
    BY LogAssumption DEF Files, Parts, Plain
  <2>. QED
    BY <2>1 DEF Init, OpenFile
<1>5. Queues
  <2>1. <<>> \in Seq(Lines) /\ Len(<<>>) = 0
    BY EmptySeq
  <2>. QED
    BY <2>1 DEF Init, Queues
<1>. QED
  BY <1>1, <1>2, <1>3, <1>4, <1>5 DEF TypeInv

LEMMA TypeInvHolds == Spec => []TypeInv
<1>1. TypeInv /\ [Next]_vars => TypeInv'
  <2> SUFFICES ASSUME TypeInv, [Next]_vars PROVE TypeInv'
    OBVIOUS
  <2>1. LogInv'
    BY LogInvStep DEF TypeInv
  <2>. QED
    BY <2>1, DaysStep, CountsStep, OpenFileStep, QueuesStep DEF TypeInv
<1>. QED
  BY <1>1, InitTypeInv, PTL DEF Spec

(* No writer waits in push_back, with mtx_ held, for a flusher that needs  *)
(* mtx_ itself, although full() and push_back are two critical sections of *)
(* the deque (log.cc:138 and 166-167).                                     *)
THEOREM PushBackNeverBlocks == Spec => []PushNeverBlocks
<1>1. TypeInv => PushNeverBlocks
  BY DEF TypeInv, LogInv
<1>. QED
  BY <1>1, TypeInvHolds, PTL

(* The types of Log, that mtx_ is held whenever fp_ is not open, and that  *)
(* the number of a file's part never exceeds that of the lines written     *)
(* (log.cc:112-135 and 138-173).                                           *)
THEOREM FileOpenUnlessRotating == Spec => []TypeOK
<1>1. TypeInv => TypeOK
  <2> SUFFICES ASSUME TypeInv PROVE TypeOK
    OBVIOUS
  <2>1. written \in [Writers -> 0 .. MaxWrites]
    <3>1. \A w \in Writers : written[w] \in 0 .. MaxWrites
      BY LogAssumption DEF TypeInv, Counts
    <3>. QED
      BY <3>1 DEF TypeInv, Counts
  <2>2. lineCount_ \in Nat /\ count \in [Writers -> Nat] /\ begun \in 0 .. MaxWrites
    BY DEF TypeInv, Counts
  <2>3. /\ pc \in [Writers -> Control]
        /\ mtx_ \in Writers \cup {Nobody}
        /\ \A w \in Writers : mtx_ = w <=> pc[w] \in {"open", "count", "push", "puts"}
    BY DEF TypeInv, LogInv, LogTypes, MutexHeld, Holding
  <2>. QED
    BY <2>1, <2>2, <2>3 DEF TypeOK, TypeInv, Days, OpenFile, Queues
<1>. QED
  BY <1>1, TypeInvHolds, PTL

-----------------------------------------------------------------------------
(* Where a line is, when a line is added at the end, or taken off the head *)
(* of a sequence.                                                          *)
LEMMA PositionsFinite ==
  ASSUME NEW S, NEW s \in Seq(S), NEW x
  PROVE  /\ Positions(s, x) \subseteq 1 .. Len(s)
         /\ IsFiniteSet(Positions(s, x)) /\ Cardinality(Positions(s, x)) \in Nat
<1>1. Len(s) \in Nat /\ Positions(s, x) \in SUBSET (1 .. Len(s))
  BY LenProperties DEF Positions
<1>2. IsFiniteSet(1 .. Len(s))
  BY <1>1, FS_Interval
<1>. QED
  BY <1>1, <1>2, FS_Subset, FS_CardinalityType

LEMMA AppendPositions ==
  ASSUME NEW S, NEW s \in Seq(S), NEW y \in S, NEW x
  PROVE  /\ Positions(Append(s, y), x) = Positions(s, x) \cup (IF x = y THEN {Len(s) + 1} ELSE {})
         /\ Cardinality(Positions(Append(s, y), x)) =
              Cardinality(Positions(s, x)) + (IF x = y THEN 1 ELSE 0)
<1>1. /\ Len(s) \in Nat /\ DOMAIN s = 1 .. Len(s) /\ DOMAIN Append(s, y) = 1 .. (Len(s) + 1)
      /\ \A i \in 1 .. Len(s) : Append(s, y)[i] = s[i]
      /\ Append(s, y)[Len(s) + 1] = y
  OBVIOUS
<1>2. Positions(Append(s, y), x) = Positions(s, x) \cup (IF x = y THEN {Len(s) + 1} ELSE {})
  BY <1>1 DEF Positions
<1>3. Len(s) + 1 \notin Positions(s, x)
  BY <1>1 DEF Positions
<1>4. IsFiniteSet(Positions(s, x)) /\ Cardinality(Positions(s, x)) \in Nat
  BY PositionsFinite
<1>5. CASE x = y
  <2>1. Positions(Append(s, y), x) = Positions(s, x) \cup {Len(s) + 1}
    BY <1>2, <1>5
  <2>2. Cardinality(Positions(s, x) \cup {Len(s) + 1}) = Cardinality(Positions(s, x)) + 1
    BY <1>3, <1>4, FS_AddElement
  <2>. QED
    BY <1>2, <1>5, <2>1, <2>2
<1>6. CASE x # y
  <2>1. Positions(Append(s, y), x) = Positions(s, x)
    BY <1>2, <1>6
  <2>. QED
    BY <1>2, <1>4, <1>6, <2>1
<1>. QED
  BY <1>5, <1>6

LEMMA TailPositions ==
  ASSUME NEW S, NEW s \in Seq(S), s # <<>>, NEW x
  PROVE  Cardinality(Positions(Tail(s), x)) =
           Cardinality(Positions(s, x)) - (IF x = Head(s) THEN 1 ELSE 0)
<1>1. /\ Len(s) \in Nat \ {0} /\ DOMAIN s = 1 .. Len(s) /\ DOMAIN Tail(s) = 1 .. (Len(s) - 1)
      /\ \A i \in 1 .. (Len(s) - 1) : Tail(s)[i] = s[i + 1]
      /\ Head(s) = s[1]
  BY EmptySeq
<1>2. IsFiniteSet(Positions(s, x)) /\ Cardinality(Positions(s, x)) \in Nat
  BY PositionsFinite
<1>3. Tail(s) \in Seq(S)
  BY EmptySeq
<1>4. IsFiniteSet(Positions(Tail(s), x))
  BY <1>3, PositionsFinite
<1> DEFINE shift == [i \in Positions(Tail(s), x) |-> i + 1]
           rest == Positions(s, x) \ {1}
<1>5. shift \in Bijection(Positions(Tail(s), x), rest)
  <2>1. \A i \in Positions(Tail(s), x) : i \in 1 .. (Len(s) - 1) /\ i + 1 \in rest
    BY <1>1 DEF Positions
  <2>2. \A j \in rest : j - 1 \in Positions(Tail(s), x) /\ (j - 1) + 1 = j
    BY <1>1 DEF Positions
  <2>3. shift \in [Positions(Tail(s), x) -> rest]
    BY <2>1
  <2>4. \A i, j \in Positions(Tail(s), x) : shift[i] = shift[j] => i = j
    BY <2>1
  <2>5. \A j \in rest : shift[j - 1] = j
    BY <2>2
  <2>. QED
    BY <2>2, <2>3, <2>4, <2>5, Fun_IsBij
<1>6. Cardinality(rest) = Cardinality(Positions(Tail(s), x))
  <2>1. ExistsBijection(Positions(Tail(s), x), rest)
    BY <1>5, Fun_ExistsBij
  <2>. QED
    BY <1>4, <2>1, FS_Bijection
<1>7. 1 \in Positions(s, x) <=> x = Head(s)
  BY <1>1 DEF Positions
<1>8. Cardinality(rest) = Cardinality(Positions(s, x)) - (IF x = Head(s) THEN 1 ELSE 0)
  <2>1. Cardinality(rest) = IF 1 \in Positions(s, x) THEN Cardinality(Positions(s, x)) - 1
                                                    ELSE Cardinality(Positions(s, x))
    BY <1>2, FS_RemoveElement
  <2>. QED
    BY <1>2, <1>7, <2>1
<1>. QED
  BY <1>6, <1>8

LEMMA EmptyPositions == ASSUME NEW x PROVE Cardinality(Positions(<<>>, x)) = 0
<1>1. Positions(<<>>, x) = {}
  BY DEF Positions
<1>. QED
  BY <1>1, FS_EmptySet

LEMMA OnlyPosition ==
  ASSUME NEW y, NEW x PROVE Cardinality(Positions(<<y>>, x)) = IF x = y THEN 1 ELSE 0
<1>1. Positions(<<y>>, x) = IF x = y THEN {1} ELSE {}
  BY DEF Positions
<1>. QED
  BY <1>1, FS_EmptySet, FS_Singleton

(* fputs adds one place of a line to those it has in files.                *)
LEMMA FputsInFiles ==
  ASSUME Queues, fp_ \in Files, NEW y \in Lines, Fputs(y),
         NEW x \in Lines, IsFiniteSet(InFiles(x))
  PROVE  /\ IsFiniteSet(InFiles(x)')
         /\ Cardinality(InFiles(x)') = Cardinality(InFiles(x)) + (IF x = y THEN 1 ELSE 0)
<1>1. /\ files \in [Files -> Seq(Lines)]
      /\ files' = [files EXCEPT ![fp_] = Append(files[fp_], y)]
  BY DEF Queues, Fputs
<1> DEFINE new == <<fp_, Len(files[fp_]) + 1>>
           Is(z, F) == \E f \in Files : \E i \in Positions(F[f], x) : z = <<f, i>>
<1>2. files[fp_] \in Seq(Lines)
  BY <1>1
<1>3. /\ \A f \in Files \ {fp_} : files'[f] = files[f]
      /\ Positions(files'[fp_], x) =
           Positions(files[fp_], x) \cup (IF x = y THEN {Len(files[fp_]) + 1} ELSE {})
  <2>1. files'[fp_] = Append(files[fp_], y)
    BY <1>1
  <2>. QED
    BY <1>1, <1>2, <2>1, AppendPositions
<1>4. \A z : z \in InFiles(x) <=> Is(z, files)
  BY DEF InFiles
<1>5. \A z : z \in InFiles(x)' <=> Is(z, files')
  BY DEF InFiles
<1>6. Len(files[fp_]) + 1 \notin Positions(files[fp_], x)
  BY <1>2, PositionsFinite, LenProperties
<1>7. new \notin InFiles(x)
  BY <1>4, <1>6
<1>8. CASE x = y
  <2>1. \A z : Is(z, files') <=> Is(z, files) \/ z = new
    BY <1>3, <1>8
  <2>2. InFiles(x)' = InFiles(x) \cup {new}
    BY <1>4, <1>5, <2>1
  <2>. QED
    BY <1>7, <1>8, <2>2, FS_AddElement
<1>9. CASE x # y
  <2>1. \A f \in Files : Positions(files'[f], x) = Positions(files[f], x)
    BY <1>3, <1>9
  <2>2. InFiles(x)' = InFiles(x)
    BY <2>1 DEF InFiles
  <2>3. Cardinality(InFiles(x)) \in Nat
    BY FS_CardinalityType
  <2>. QED
    BY <1>9, <2>2, <2>3
<1>. QED
  BY <1>8, <1>9

-----------------------------------------------------------------------------
(* That the places of a line in files are finitely many goes along with    *)
(* NoLineLost: every step adds one at most.                                *)
LinesInv == NoLineLost /\ \A line \in Lines : IsFiniteSet(InFiles(line))

LEMMA CopiesAreNumbers ==
  ASSUME Queues, LinesInv, NEW x \in Lines
  PROVE  /\ Cardinality(Positions(deq_, x)) \in Nat
         /\ Cardinality(Positions(str, x)) \in Nat
         /\ Cardinality(InFiles(x)) \in Nat
  BY PositionsFinite, FS_CardinalityType DEF Queues, LinesInv

(* No line moves, and none is passed on.                                   *)
LEMMA NoLineMoves ==
  ASSUME LinesInv, UNCHANGED <<deq_, str, files>>, \A w \in Writers : Passed(w)' = Passed(w)
  PROVE  LinesInv'
<1>1. \A x \in Lines : InFiles(x)' = InFiles(x) /\ Copies(x)' = Copies(x)
  BY DEF InFiles, Copies
<1>2. \A x \in Lines : x[1] \in Writers
  BY DEF Lines
<1>. QED
  BY <1>1, <1>2 DEF LinesInv, NoLineLost

(* Lines move between the deque, the flusher and the files.                *)
LEMMA LinesMove ==
  ASSUME LinesInv, UNCHANGED <<pc, written>>,
         \A x \in Lines : Copies(x)' = Copies(x) /\ IsFiniteSet(InFiles(x)')
  PROVE  LinesInv'
<1>1. \A w : Passed(w)' = Passed(w)
  BY DEF Passed
<1>. QED
  BY <1>1 DEF LinesInv, NoLineLost

(* w comes to "flush" and has left one copy of its line.                   *)
LEMMA LineHandedOver ==
  ASSUME LogInv, Counts, LinesInv, NEW w \in Writers, pc[w] \in {"push", "puts"},
         pc' = [pc EXCEPT ![w] = "flush"], UNCHANGED written,
         \A x \in Lines :
           /\ Copies(x)' = Copies(x) + (IF x = <<w, written[w]>> THEN 1 ELSE 0)
           /\ IsFiniteSet(InFiles(x)')
  PROVE  LinesInv'
<1>1. pc \in [Writers -> Control] /\ written \in [Writers -> Nat]
  BY DEF LogInv, LogTypes
<1>2. /\ Passed(w) = written[w] - 1 /\ Passed(w)' = written[w]
      /\ \A v \in Writers \ {w} : Passed(v)' = Passed(v)
  BY <1>1 DEF Passed
<1>3. ASSUME NEW x \in Lines
      PROVE  Copies(x)' = IF x[2] <= Passed(x[1])' THEN 1 ELSE 0
  <2>1. /\ x[1] \in Writers /\ x[2] \in Nat /\ x = <<x[1], x[2]>>
    BY LogAssumption DEF Lines
  <2>2. Copies(x) = IF x[2] <= Passed(x[1]) THEN 1 ELSE 0
    BY DEF LinesInv, NoLineLost
  <2>3. Copies(x)' = Copies(x) + (IF x = <<w, written[w]>> THEN 1 ELSE 0)
    OBVIOUS
  <2>4. CASE x[1] = w
    <3>1. x = <<w, written[w]>> <=> x[2] = written[w]
      BY <2>1, <2>4
    <3>2. written[w] \in Nat
      BY <1>1
    <3>. QED
      BY <1>2, <2>1, <2>2, <2>3, <2>4, <3>1, <3>2
  <2>5. CASE x[1] # w
    <3>1. x # <<w, written[w]>>
      BY <2>5
    <3>2. Passed(x[1])' = Passed(x[1])
      BY <1>2, <2>1, <2>5
    <3>. QED
      BY <2>2, <2>3, <3>1, <3>2
  <2>. QED
    BY <2>4, <2>5
<1>. QED
  BY <1>3 DEF LinesInv, NoLineLost

LEMMA LinesStep ==
  ASSUME TypeInv, LinesInv, [Next]_vars PROVE LinesInv'
<1>0. /\ LogInv /\ Counts /\ OpenFile /\ Queues
      /\ pc \in [Writers -> Control] /\ written \in [Writers -> Nat]
  BY DEF TypeInv, LogInv, LogTypes
<1>1. CASE Midnight \/ PopWaits \/ UNCHANGED vars
  <2>1. UNCHANGED <<deq_, str, files, pc, written>>
    BY <1>1 DEF Midnight, PopWaits, shared, locals, vars
  <2>2. \A w \in Writers : Passed(w)' = Passed(w)
    BY <2>1 DEF Passed
  <2>. QED
    BY <2>1, <2>2, NoLineMoves
<1>2. ASSUME NEW w \in Writers, Now(w) PROVE LinesInv'
  <2>1. /\ UNCHANGED <<deq_, str, files>>
        /\ pc[w] = "idle" /\ pc' = [pc EXCEPT ![w] = "time"]
        /\ written' = [written EXCEPT ![w] = @ + 1]
    BY <1>2 DEF Now, Step, shared
  <2>2. Passed(w)' = Passed(w) /\ \A v \in Writers \ {w} : Passed(v)' = Passed(v)
    BY <1>0, <2>1 DEF Passed
  <2>. QED
    BY <2>1, <2>2, NoLineMoves
<1>3. ASSUME NEW w \in Writers, InWrite(w), ~ PushBack(w), ~ WriteDirectly(w)
      PROVE  LinesInv'
  <2>1. UNCHANGED <<deq_, str, files, written>>
    BY <1>3 DEF InWrite, LocalTime, CopyTime, TestDay, TestLines, LockUnlock, TestDayAgain,
                NameNewDay, ZeroLines, NameSplit, Reopen, Open, LoadCount, StoreCount, Flush, shared
  <2>2. \/ Step(w, "flush", "idle")
        \/ \E from \in Control \ {"idle", "flush"}, to \in Control \ {"idle", "flush"} :
             Step(w, from, to)
    <3>1. CASE LocalTime(w) \/ CopyTime(w) \/ TestDay(w) \/ TestLines(w) \/ LockUnlock(w)
      BY <3>1 DEF LocalTime, CopyTime, TestDay, TestLines, LockUnlock, Control
    <3>2. CASE TestDayAgain(w) \/ NameNewDay(w) \/ ZeroLines(w) \/ NameSplit(w)
      BY <3>2 DEF TestDayAgain, NameNewDay, ZeroLines, NameSplit, Control
    <3>3. CASE Reopen(w) \/ Open(w) \/ LoadCount(w) \/ StoreCount(w) \/ Flush(w)
      BY <3>3 DEF Reopen, Open, LoadCount, StoreCount, Flush, Control
    <3>. QED
      BY <1>3, <3>1, <3>2, <3>3 DEF InWrite
  <2>3. /\ pc[w] \in {"idle", "flush"} <=> pc'[w] \in {"idle", "flush"}
        /\ \A v \in Writers \ {w} : pc'[v] = pc[v]
    BY <1>0, <2>2 DEF Step
  <2>4. \A v \in Writers : Passed(v)' = Passed(v)
    BY <2>1, <2>3 DEF Passed
  <2>. QED
    BY <2>1, <2>4, NoLineMoves
<1>4. ASSUME NEW w \in Writers, PushBack(w) PROVE LinesInv'
  <2>1. /\ pc[w] = "push" /\ pc' = [pc EXCEPT ![w] = "flush"]
        /\ deq_' = Append(deq_, <<w, written[w]>>) /\ UNCHANGED <<str, files, written>>
    BY <1>4 DEF PushBack, Step
  <2>2. <<w, written[w]>> \in Lines
    BY <1>0, <2>1, LineOfWriter
  <2>3. ASSUME NEW x \in Lines
        PROVE  /\ Copies(x)' = Copies(x) + (IF x = <<w, written[w]>> THEN 1 ELSE 0)
               /\ IsFiniteSet(InFiles(x)')
    <3>1. Cardinality(Positions(deq_', x)) =
            Cardinality(Positions(deq_, x)) + (IF x = <<w, written[w]>> THEN 1 ELSE 0)
      <4>1. deq_ \in Seq(Lines)
        BY <1>0 DEF Queues
      <4>2. Cardinality(Positions(Append(deq_, <<w, written[w]>>), x)) =
              Cardinality(Positions(deq_, x)) + (IF x = <<w, written[w]>> THEN 1 ELSE 0)
        BY <2>2, <4>1, AppendPositions
      <4>. QED
        BY <2>1, <4>2
    <3>2. InFiles(x)' = InFiles(x) /\ Positions(str', x) = Positions(str, x)
      BY <2>1 DEF InFiles
    <3>. QED
      BY <1>0, <3>1, <3>2, CopiesAreNumbers DEF Copies, LinesInv
  <2>. QED
    BY <1>0, <2>1, <2>3, LineHandedOver
<1>5. ASSUME NEW w \in Writers, WriteDirectly(w) PROVE LinesInv'
  <2>1. /\ pc[w] = "puts" /\ pc' = [pc EXCEPT ![w] = "flush"] /\ mtx_ = w
        /\ Fputs(<<w, written[w]>>) /\ UNCHANGED <<deq_, str, written>>
    BY <1>5 DEF WriteDirectly, Step, Unlock
  <2>2. <<w, written[w]>> \in Lines /\ fp_ \in Files
    BY <1>0, <2>1, LineOfWriter, FileToWriteTo
  <2>3. ASSUME NEW x \in Lines
        PROVE  /\ Copies(x)' = Copies(x) + (IF x = <<w, written[w]>> THEN 1 ELSE 0)
               /\ IsFiniteSet(InFiles(x)')
    <3>1. /\ IsFiniteSet(InFiles(x)')
          /\ Cardinality(InFiles(x)') =
               Cardinality(InFiles(x)) + (IF x = <<w, written[w]>> THEN 1 ELSE 0)
      BY <1>0, <2>1, <2>2, FputsInFiles DEF LinesInv
    <3>. QED
      BY <1>0, <2>1, <3>1, CopiesAreNumbers DEF Copies
  <2>. QED
    BY <1>0, <2>1, <2>3, LineHandedOver
<1>6. CASE Pop
  <2>1. /\ deq_ # <<>> /\ flusher # "write" /\ str' = <<Head(deq_)>> /\ deq_' = Tail(deq_)
        /\ UNCHANGED <<files, pc, written>>
    BY <1>6 DEF Pop, locals
  <2>2. str = <<>>
    BY <1>0, <2>1, EmptySeq DEF Queues
  <2>3. ASSUME NEW x \in Lines PROVE Copies(x)' = Copies(x) /\ IsFiniteSet(InFiles(x)')
    <3>1. InFiles(x)' = InFiles(x)
      BY <2>1 DEF InFiles
    <3>2. Cardinality(Positions(deq_', x)) =
            Cardinality(Positions(deq_, x)) - (IF x = Head(deq_) THEN 1 ELSE 0)
      BY <1>0, <2>1, TailPositions DEF Queues
    <3>3. Cardinality(Positions(str, x)) = 0
      BY <2>2, EmptyPositions
    <3>4. Cardinality(Positions(str', x)) = IF x = Head(deq_) THEN 1 ELSE 0
      BY <2>1, OnlyPosition
    <3>. QED
      BY <1>0, <3>1, <3>2, <3>3, <3>4, CopiesAreNumbers DEF Copies, LinesInv
  <2>. QED
    BY <2>1, <2>3, LinesMove
<1>7. CASE AsyncWrite_
  <2>1. /\ flusher = "write" /\ mtx_ = Nobody /\ Fputs(Head(str)) /\ str' = <<>>
        /\ UNCHANGED <<deq_, pc, written>>
    BY <1>7 DEF AsyncWrite_, shared, locals
  <2>2. str \in Seq(Lines) /\ Len(str) = 1
    BY <1>0, <2>1 DEF Queues
  <2>3. str = <<Head(str)>> /\ Head(str) \in Lines
    BY <2>2, EmptySeq
  <2>4. fp_ \in Files
    BY <1>0, <2>1, FileToWriteTo
  <2>5. ASSUME NEW x \in Lines PROVE Copies(x)' = Copies(x) /\ IsFiniteSet(InFiles(x)')
    <3>1. /\ IsFiniteSet(InFiles(x)')
          /\ Cardinality(InFiles(x)') =
               Cardinality(InFiles(x)) + (IF x = Head(str) THEN 1 ELSE 0)
      BY <1>0, <2>1, <2>3, <2>4, FputsInFiles DEF LinesInv
    <3>2. Cardinality(Positions(str, x)) = IF x = Head(str) THEN 1 ELSE 0
      BY <2>3, OnlyPosition
    <3>3. Cardinality(Positions(str', x)) = 0
      BY <2>1, EmptyPositions
    <3>. QED
      BY <1>0, <2>1, <3>1, <3>2, <3>3, CopiesAreNumbers DEF Copies
  <2>. QED
    BY <2>1, <2>5, LinesMove
<1>. QED
  BY <1>1, <1>2, <1>3, <1>4, <1>5, <1>6, <1>7 DEF Next, FlushLogThread

(* Of a line that write() has returned from there is one copy, in the      *)
(* deque, with the flusher or in a file, however the deque fills up and    *)
(* files are closed and opened meanwhile, also by several writers that     *)
(* find the same new day or the same full file, and act on tests that no   *)
(* longer hold (log.cc:107-173 and 203-208).                               *)
THEOREM LinesAreKept == Spec => []NoLineLost
<1>1. Init => LinesInv
  <2> SUFFICES ASSUME Init PROVE LinesInv
    OBVIOUS
  <2>1. ASSUME NEW x \in Lines
        PROVE  InFiles(x) = {} /\ Copies(x) = 0 /\ ~ (x[2] <= Passed(x[1]))
    <3>1. \A f \in Files : Positions(files[f], x) = {}
      BY DEF Init, Positions
    <3>2. InFiles(x) = {}
      BY <3>1 DEF InFiles
    <3>3. Copies(x) = 0
      BY <3>2, EmptyPositions, FS_EmptySet DEF Init, Copies
    <3>4. x[1] \in Writers /\ x[2] \in 1 .. MaxWrites
      BY DEF Lines
    <3>5. Passed(x[1]) = 0
      BY <3>4 DEF Init, Passed
    <3>. QED
      BY <3>2, <3>3, <3>4, <3>5, LogAssumption
  <2>. QED
    BY <2>1, FS_EmptySet DEF LinesInv, NoLineLost
<1>2. TypeInv /\ LinesInv /\ [Next]_vars => LinesInv'
  BY LinesStep
<1>3. LinesInv => NoLineLost
  BY DEF LinesInv
<1>. QED
  BY <1>1, <1>2, <1>3, TypeInvHolds, PTL DEF Spec

-----------------------------------------------------------------------------
(* The use of the deque: what the refinement mapping of Log makes of the   *)
(* lines, and of the places where the threads stand.                       *)
Items(s) == [i \in DOMAIN s |-> s[i][1]]
At(p, f) ==
  [t \in Writers \cup {Flusher} |->
     IF t # Flusher THEN IF p[t] = "push" THEN "enter" ELSE "out"
     ELSE CASE f = "write" -> "out"
            [] f = "pop" -> "enter"
            [] OTHER -> f]
Called == [t \in Writers \cup {Flusher} |-> IF t = Flusher THEN "pop" ELSE "push_back"]

LEMMA AtTypes ==
  ASSUME NEW p \in [Writers -> Control], NEW f
  PROVE  /\ At(p, f) \in [Writers \cup {Flusher} -> {"enter", "out", f}]
         /\ At(p, f)[Flusher] = CASE f = "write" -> "out" [] f = "pop" -> "enter" [] OTHER -> f
         /\ \A w \in Writers : At(p, f)[w] = IF p[w] = "push" THEN "enter" ELSE "out"
  BY LogAssumption DEF At

LEMMA Stutters ==
  ASSUME UNCHANGED <<deq_, flusher>>,
         \A w \in Writers : pc[w] = "push" <=> pc'[w] = "push"
  PROVE  UNCHANGED Deque!vars
<1>1. At(pc, flusher)' = At(pc, flusher)
  BY DEF At
<1>2. Items(deq_)' = Items(deq_)
  BY DEF Items
<1>. QED
  BY <1>1, <1>2 DEF Deque!vars, Items, At

(* notify_one on condConsumer_, on which only the flusher can wait.        *)
LEMMA NotifiesFlusher ==
  ASSUME pc \in [Writers -> Control], pc' \in [Writers -> Control],
         flusher \in {"pop", "wait", "woken", "write"}, NotifyConsumer
  PROVE  Deque!NotifyOne(Deque!condConsumer_, At(pc', flusher))
<1>1. Deque!condConsumer_ = IF flusher = "wait" THEN {Flusher} ELSE {}
  <2>1. Deque!condConsumer_ = {c \in {Flusher} : At(pc, flusher)[c] = "wait"}
    BY DEF Deque!condConsumer_, At
  <2>2. At(pc, flusher)[Flusher] = "wait" <=> flusher = "wait"
    BY AtTypes
  <2>. QED
    BY <2>1, <2>2
<1>2. CASE flusher = "wait"
  <2>1. At(pc', flusher') = [At(pc', flusher) EXCEPT ![Flusher] = "woken"]
    BY <1>2, LogAssumption DEF At, NotifyConsumer
  <2>. QED
    BY <1>1, <1>2, <2>1 DEF Deque!NotifyOne, At
<1>3. CASE flusher # "wait"
  <2>1. flusher' = flusher
    BY <1>3 DEF NotifyConsumer
  <2>. QED
    BY <1>1, <1>3, <2>1 DEF Deque!NotifyOne, At
<1>. QED
  BY <1>2, <1>3

(* push_back on a deque with room, *)
LEMMA PushesToDeque == ASSUME TypeInv, NEW w \in Writers, PushBack(w) PROVE Deque!Push(w)
<1>1. /\ pc \in [Writers -> Control] /\ deq_ \in Seq(Lines)
      /\ flusher \in {"pop", "wait", "woken", "write"}
  BY DEF TypeInv, LogInv, LogTypes, Queues
<1>2. /\ pc[w] = "push" /\ pc' = [pc EXCEPT ![w] = "flush"] /\ NotifyConsumer
      /\ Len(deq_) < Capacity /\ deq_' = Append(deq_, <<w, written[w]>>)
  BY DEF PushBack, Step
<1>3. pc' \in [Writers -> Control]
  BY <1>1, <1>2 DEF Control
<1>4. Deque!NotifyOne(Deque!condConsumer_, At(pc', flusher))
  BY <1>1, <1>2, <1>3, NotifiesFlusher
<1>5. At(pc', flusher) = [At(pc, flusher) EXCEPT ![w] = "out"]
  BY <1>1, <1>2, LogAssumption DEF At
<1>6. Deque!Leave(w) = [At(pc, flusher) EXCEPT ![w] = "out"]
  BY DEF Deque!Leave, At
<1>7. Deque!NotifyOne(Deque!condConsumer_, Deque!Leave(w))
  BY <1>4, <1>5, <1>6 DEF Deque!NotifyOne
<1>8. Items(deq_') = Append(Items(deq_), w)
  <2>1. /\ Len(deq_) \in Nat /\ DOMAIN deq_ = 1 .. Len(deq_)
        /\ \A i \in 1 .. Len(deq_) : deq_[i][1] \in Writers
    BY <1>1, LenProperties DEF Lines
  <2>2. Items(deq_) \in Seq(Writers) /\ Len(Items(deq_)) = Len(deq_)
    BY <2>1 DEF Items
  <2>3. /\ Items(deq_') \in Seq(Writers) /\ Len(Items(deq_')) = Len(deq_) + 1
        /\ \A i \in 1 .. Len(deq_) : Items(deq_')[i] = Items(deq_)[i]
        /\ Items(deq_')[Len(deq_) + 1] = w
    BY <1>1, <1>2, <2>1 DEF Items
  <2>4. Append(Items(deq_), w) \in Seq(Writers) /\ Len(Append(Items(deq_), w)) = Len(deq_) + 1
    BY <2>2
  <2>5. \A i \in 1 .. (Len(deq_) + 1) : Append(Items(deq_), w)[i] = Items(deq_')[i]
    BY <2>1, <2>2, <2>3
  <2>. QED
    BY <2>3, <2>4, <2>5, SeqEqual
<1>9. ~ Deque!Full
  <2>1. Len(Items(deq_)) = Len(deq_)
    BY <1>1, LenProperties DEF Items
  <2>2. Len(deq_) \in Nat /\ Capacity \in Nat
    BY <1>1, LogAssumption
  <2>. QED
    BY <1>2, <2>1, <2>2 DEF Deque!Full, Items
<1>10. Deque!Awake(w)
  <2>1. At(pc, flusher)[w] = "enter"
    BY <1>1, <1>2, AtTypes
  <2>. QED
    BY <2>1 DEF Deque!Awake, At
<1>. QED
  BY <1>7, <1>8, <1>9, <1>10, LogAssumption DEF Deque!Push, Items

(* and both pops of the flusher.                                           *)
LEMMA PopsFromDeque ==
  ASSUME TypeInv, Pop \/ PopWaits PROVE Deque!Pop(Flusher)
<1>1. /\ pc \in [Writers -> Control] /\ deq_ \in Seq(Lines)
      /\ flusher \in {"pop", "wait", "woken", "write"}
  BY DEF TypeInv, LogInv, LogTypes, Queues
<1>2. flusher \in {"pop", "woken"} /\ UNCHANGED pc
  BY DEF Pop, PopWaits, locals
<1>3. Deque!Awake(Flusher)
  <2>1. At(pc, flusher)[Flusher] \in {"enter", "woken"}
    BY <1>1, <1>2, AtTypes
  <2>. QED
    BY <2>1 DEF Deque!Awake, At
<1>4. Items(deq_) = <<>> <=> deq_ = <<>>
  BY <1>1, LenProperties DEF Items
<1>5. CASE Pop
  <2>1. deq_ # <<>> /\ deq_' = Tail(deq_) /\ flusher' = "write"
    BY <1>5 DEF Pop
  <2>2. Items(deq_') = Tail(Items(deq_))
    <3>1. /\ Len(deq_) \in Nat \ {0} /\ DOMAIN deq_ = 1 .. Len(deq_)
          /\ \A i \in 1 .. Len(deq_) : deq_[i][1] \in Writers
      BY <1>1, <2>1, LenProperties, EmptySeq DEF Lines
    <3>2. Items(deq_) \in Seq(Writers) /\ Len(Items(deq_)) = Len(deq_)
      BY <3>1 DEF Items
    <3>3. /\ Items(deq_') \in Seq(Writers) /\ Len(Items(deq_')) = Len(deq_) - 1
          /\ \A i \in 1 .. (Len(deq_) - 1) : Items(deq_')[i] = Items(deq_)[i + 1]
      BY <1>1, <2>1, <3>1 DEF Items
    <3>4. /\ Tail(Items(deq_)) \in Seq(Writers) /\ Len(Tail(Items(deq_))) = Len(deq_) - 1
          /\ \A i \in 1 .. (Len(deq_) - 1) : Tail(Items(deq_))[i] = Items(deq_)[i + 1]
      BY <3>1, <3>2, EmptySeq
    <3>. QED
      BY <3>3, <3>4, SeqEqual
  <2>3. At(pc', flusher') = [At(pc, flusher) EXCEPT ![Flusher] = "out"]
    BY <1>2, <2>1 DEF At
  <2>4. Deque!condProducer_ = {}
    <3>1. \A w \in Writers : At(pc, flusher)[w] # "wait"
      BY <1>1, AtTypes
    <3>. QED
      BY <3>1 DEF Deque!condProducer_, At
  <2>5. Deque!NotifyOne(Deque!condProducer_, Deque!Leave(Flusher))
    BY <2>3, <2>4 DEF Deque!NotifyOne, Deque!Leave, At
  <2>. QED
    BY <1>3, <1>4, <2>1, <2>2, <2>5 DEF Deque!Pop, Items
<1>6. CASE PopWaits
  <2>1. deq_ = <<>> /\ flusher' = "wait" /\ UNCHANGED deq_
    BY <1>6 DEF PopWaits, shared
  <2>2. At(pc', flusher') = [At(pc, flusher) EXCEPT ![Flusher] = "wait"]
    BY <1>2, <2>1 DEF At
  <2>3. Deque!Waits(Flusher)
    BY <2>1, <2>2 DEF Deque!Waits, At
  <2>. QED
    BY <1>3, <1>4, <2>1, <2>3 DEF Deque!Pop, Items
<1>. QED
  BY <1>5, <1>6

(* A thread comes to its next call, which is the same as its last.         *)
LEMMA CallsDeque ==
  ASSUME NEW t \in Writers \cup {Flusher}, At(pc, flusher)[t] = "out",
         At(pc', flusher') = [At(pc, flusher) EXCEPT ![t] = "enter"], UNCHANGED deq_
  PROVE  Deque!Call(t)
<1>1. Called = [Called EXCEPT ![t] = IF t \in Writers THEN "push_back" ELSE "pop"]
  BY LogAssumption DEF Called
<1>2. Called \in {[Called EXCEPT ![t] = op] : op \in IF t \in Writers THEN Deque!Pushes
                                                                       ELSE Deque!Pops}
  BY <1>1 DEF Deque!Pushes, Deque!Pops
<1>. QED
  BY <1>2 DEF Deque!Call, At, Called

LEMMA WriterUsesDeque ==
  ASSUME TypeInv, NEW w \in Writers, Now(w) \/ InWrite(w)
  PROVE  Deque!Next \/ UNCHANGED Deque!vars
<1>0. /\ pc \in [Writers -> Control] /\ flusher \in {"pop", "wait", "woken", "write"}
  BY DEF TypeInv, LogInv, LogTypes, Queues
<1>1. CASE PushBack(w)
  BY <1>1, PushesToDeque DEF Deque!Next
<1>2. CASE Reopen(w) \/ Flush(w)
  <2>1. /\ NotifyConsumer /\ UNCHANGED deq_
        /\ Step(w, "reopen", "open") \/ Step(w, "flush", "idle")
    BY <1>2 DEF Reopen, Flush, shared
  <2>2. pc' \in [Writers -> Control] /\ \A v \in Writers : pc[v] = "push" <=> pc'[v] = "push"
    BY <1>0, <2>1 DEF Step, Control
  <2>3. Deque!NotifyOne(Deque!condConsumer_, At(pc', flusher))
    BY <1>0, <2>1, <2>2, NotifiesFlusher
  <2>4. At(pc', flusher) = At(pc, flusher)
    BY <2>2 DEF At
  <2>5. Deque!flush
    BY <2>1, <2>3, <2>4 DEF Deque!flush, Deque!NotifyOne, At
  <2>. QED
    BY <2>5 DEF Deque!Next
<1>3. CASE StoreCount(w) /\ ~ Full
  <2>1. /\ pc[w] = "count" /\ pc' = [pc EXCEPT ![w] = "push"] /\ UNCHANGED <<deq_, flusher>>
    BY <1>3 DEF StoreCount, Step
  <2>2. At(pc, flusher)[w] = "out"
    BY <1>0, <2>1, AtTypes
  <2>3. At(pc', flusher') = [At(pc, flusher) EXCEPT ![w] = "enter"]
    BY <1>0, <2>1, LogAssumption DEF At
  <2>4. Deque!Call(w)
    BY <2>1, <2>2, <2>3, CallsDeque
  <2>. QED
    BY <2>4 DEF Deque!Next, Deque!Threads
<1>4. CASE /\ Now(w) \/ InWrite(w)
           /\ ~ PushBack(w) /\ ~ Reopen(w) /\ ~ Flush(w) /\ ~ (StoreCount(w) /\ ~ Full)
  <2>1. UNCHANGED <<deq_, flusher>>
    BY <1>4 DEF Now, InWrite, LocalTime, CopyTime, TestDay, TestLines, LockUnlock,
                TestDayAgain, NameNewDay, ZeroLines, NameSplit, Open, LoadCount, StoreCount, WriteDirectly, shared
  <2>2. \E from \in Control \ {"push"}, to \in Control \ {"push"} : Step(w, from, to)
    BY <1>4 DEF Now, InWrite, LocalTime, CopyTime, TestDay, TestLines, LockUnlock,
                TestDayAgain, NameNewDay, ZeroLines, NameSplit, Open, LoadCount, StoreCount, WriteDirectly, Control
  <2>3. \A v \in Writers : pc[v] = "push" <=> pc'[v] = "push"
    BY <1>0, <2>2 DEF Step
  <2>. QED
    BY <2>1, <2>3, Stutters
<1>. QED
  BY <1>1, <1>2, <1>3, <1>4

LEMMA FlusherUsesDeque ==
  ASSUME TypeInv, FlushLogThread PROVE Deque!Next
<1>1. CASE Pop \/ PopWaits
  <2>1. Deque!Pop(Flusher)
    BY <1>1, PopsFromDeque
  <2>. QED
    BY <2>1 DEF Deque!Next
<1>2. CASE AsyncWrite_
  <2>1. flusher = "write" /\ flusher' = "pop" /\ UNCHANGED <<deq_, pc>>
    BY <1>2 DEF AsyncWrite_, shared, locals
  <2>2. /\ At(pc, flusher)[Flusher] = "out"
        /\ At(pc', flusher') = [At(pc, flusher) EXCEPT ![Flusher] = "enter"]
    BY <2>1 DEF At
  <2>3. Deque!Call(Flusher)
    BY <2>1, <2>2, CallsDeque
  <2>. QED
    BY <2>3 DEF Deque!Next, Deque!Threads
<1>. QED
  BY <1>1, <1>2 DEF FlushLogThread

(* Every step of the log is one that BlockDeque allows its threads, or     *)
(* does not concern the deque: no call of it is made in a way BlockDeque   *)
(* says nothing of (log.cc:131, 166-167 and 206).                          *)
THEOREM DequeUsedByTheRules == Spec => UsesBlockDeque
<1>1. TypeInv /\ [Next]_vars => [Deque!Next]_(Deque!vars)
  <2> SUFFICES ASSUME TypeInv, [Next]_vars PROVE Deque!Next \/ UNCHANGED Deque!vars
    OBVIOUS
  <2>1. CASE Midnight \/ UNCHANGED vars
    <3>1. UNCHANGED <<deq_, flusher, pc>>
      BY <2>1 DEF Midnight, shared, locals, vars
    <3>. QED
      BY <3>1, Stutters
  <2>. QED
    BY <2>1, WriterUsesDeque, FlusherUsesDeque DEF Next
<1>. QED
  BY <1>1, TypeInvHolds, PTL DEF Spec, UsesBlockDeque
=============================================================================
