-------------------------------- MODULE Log --------------------------------
(***************************************************************************)
(* The asynchronous log (log.cc, log.h): the threads of the server write   *)
(* lines, a thread of its own (FlushLogThread) takes them from the deque   *)
(* and puts them into the file; a new file is opened on a new day and      *)
(* after MAX_LINES lines.  The deque is used by the rules of BlockDeque.   *)
(*                                                                         *)
(* mtx_ is Log's mutex.  That of the deque is held for one call of the     *)
(* deque only, which makes such a call one step; toDay_ and lineCount_ are *)
(* read and written without any lock, so each access is a step (the two    *)
(* reads in the condition of log.cc:108 are one load in the build).        *)
(* The n-th line of writer w is <<w, n>>.                                  *)
(***************************************************************************)
EXTENDS Integers, Sequences, FiniteSets

CONSTANTS
  Writers,     (* the threads that use the LOG_ macros                      *)
  Flusher,     (* FlushLogThread                                            *)
  Nobody,      (* no thread, no file                                        *)
  MAX_LINES,
  Capacity,    (* capacity_ of the deque                                    *)
  LastDay,     (* bound of the model: days that pass                        *)
  MaxWrites    (* bound of the model: lines written in all                  *)

Lines == Writers \X (1 .. MaxWrites)

(* path_/day.log is part -1 of the day, path_/day-k.log its part k. *)
Plain == -1
Parts == Plain .. MaxWrites
Files == (1 .. LastDay) \X Parts

ASSUME LogAssumption ==
  /\ IsFiniteSet(Writers)
  /\ Nobody \notin Writers \cup Files
  /\ Flusher \notin Writers
  /\ MAX_LINES \in Nat \ {0}
  /\ Capacity \in Nat \ {0}
  /\ LastDay \in Nat \ {0}
  /\ MaxWrites \in Nat

VARIABLES
  clock,        (* the day it is                                            *)
  sysTime,      (* the day in the struct tm all calls of localtime return   *)
  toDay_,
  lineCount_,
  fp_,          (* the file it stands for, or Nobody between fclose and     *)
                (* fopen                                                    *)
  mtx_,         (* the writer that holds it, or Nobody                      *)
  deq_,         (* the deque                                                *)
  pc,           (* where each writer stands in LOG_BASE                     *)
  day,          (* per writer: the day of tSec, then t.tm_mday              *)
  newFile,      (* per writer: the name of the file to open                 *)
  count,        (* per writer: lineCount_ as ++ has loaded it               *)
  written,      (* per writer: lines begun                                  *)
  begun,        (* lines begun in all, for the bound                        *)
  flusher,      (* FlushLogThread: at pop, waiting in it, woken from the    *)
                (* wait, or with a line                                     *)
  str,          (* the line it has, as a sequence of length 0 or 1          *)
  files         (* the lines in each file                                   *)

shared == <<toDay_, lineCount_, fp_, mtx_, deq_>>
locals == <<pc, day, newFile, count, written, begun>>
vars == <<clock, sysTime, shared, locals, flusher, str, files>>

(* After Log::init. *)
Init ==
  /\ clock = 1
  /\ sysTime = 1
  /\ toDay_ = 1
  /\ lineCount_ = 0
  /\ fp_ = <<1, Plain>>
  /\ mtx_ = Nobody
  /\ deq_ = <<>>
  /\ pc = [w \in Writers |-> "idle"]
  /\ day = [w \in Writers |-> 1]
  /\ newFile = [w \in Writers |-> <<1, Plain>>]
  /\ count = [w \in Writers |-> 0]
  /\ written = [w \in Writers |-> 0]
  /\ begun = 0
  /\ flusher = "pop"
  /\ str = <<>>
  /\ files = [f \in Files |-> <<>>]

-----------------------------------------------------------------------------
Midnight ==
  /\ clock < LastDay
  /\ clock' = clock + 1
  /\ UNCHANGED <<sysTime, shared, locals, flusher, str, files>>

Step(w, from, to) ==
  /\ pc[w] = from
  /\ pc' = [pc EXCEPT ![w] = to]

(* lock(mtx_) in a step that keeps it, and in a step that gives it back.   *)
Lock(w) == mtx_ = Nobody /\ mtx_' = w
Unlock(w) == mtx_ = w /\ mtx_' = Nobody

(* Mistake: the producers' condition variable is notified.                 *)
NotifyConsumer_Producer == UNCHANGED flusher

(* condConsumer_.notify_one, of push_back and of flush *)
NotifyConsumer == flusher' = IF flusher = "wait" THEN "woken" ELSE flusher

Fputs(line) == files' = [files EXCEPT ![fp_] = Append(@, line)]

-----------------------------------------------------------------------------
(* LOG_BASE and Log::write *)

(* GetLevel, under mtx_, and gettimeofday *)
Now(w) ==
  /\ Step(w, "idle", "time")
  /\ mtx_ = Nobody
  /\ begun < MaxWrites
  /\ begun' = begun + 1
  /\ written' = [written EXCEPT ![w] = @ + 1]
  /\ day' = [day EXCEPT ![w] = clock]
  /\ UNCHANGED <<clock, sysTime, shared, newFile, count, flusher, str, files>>

(* localtime fills a struct that all threads share, *)
LocalTime(w) ==
  /\ Step(w, "time", "copy")
  /\ sysTime' = day[w]
  /\ UNCHANGED <<clock, shared, day, newFile, count, written, begun, flusher, str, files>>

(* and *sysTime is copied to t: it may be another thread's by now. *)
CopyTime(w) ==
  /\ Step(w, "copy", "day")
  /\ day' = [day EXCEPT ![w] = sysTime]
  /\ UNCHANGED <<clock, sysTime, shared, newFile, count, written, begun, flusher, str, files>>

(* Is a new file needed?  First for the day, then for the lines. *)
TestDay(w) ==
  /\ Step(w, "day", IF toDay_ # day[w] THEN "rotate" ELSE "lines")
  /\ UNCHANGED <<clock, sysTime, shared, day, newFile, count, written, begun, flusher, str, files>>

NeedsSplit == lineCount_ # 0 /\ lineCount_ % MAX_LINES = 0

TestLines(w) ==
  /\ Step(w, "lines", IF NeedsSplit THEN "rotate" ELSE "lock")
  /\ UNCHANGED <<clock, sysTime, shared, day, newFile, count, written, begun, flusher, str, files>>

(* The lock is taken, given back at once, and taken again to reopen. *)
LockUnlock(w) ==
  /\ Step(w, "rotate", "again")
  /\ mtx_ = Nobody
  /\ UNCHANGED <<clock, sysTime, shared, day, newFile, count, written, begun, flusher, str, files>>

(* Without the lock the day is tested again, and the file named by what    *)
(* the test has found, whatever toDay_ and lineCount_ have become since.   *)
TestDayAgain(w) ==
  /\ Step(w, "again", IF toDay_ # day[w] THEN "new day" ELSE "same day")
  /\ UNCHANGED <<clock, sysTime, shared, day, newFile, count, written, begun, flusher, str, files>>

(* A new day: the plain file, toDay_, and in the next step lineCount_. *)
NameNewDay(w) ==
  /\ Step(w, "new day", "zero")
  /\ newFile' = [newFile EXCEPT ![w] = <<day[w], Plain>>]
  /\ toDay_' = day[w]
  /\ UNCHANGED <<clock, sysTime, lineCount_, fp_, mtx_, deq_, day, count, written, begun, flusher,
                 str, files>>

ZeroLines(w) ==
  /\ Step(w, "zero", "reopen")
  /\ lineCount_' = 0
  /\ UNCHANGED <<clock, sysTime, toDay_, fp_, mtx_, deq_, day, newFile, count, written, begun,
                 flusher, str, files>>

(* The same day: the part that lineCount_ says. *)
NameSplit(w) ==
  /\ Step(w, "same day", "reopen")
  /\ newFile' = [newFile EXCEPT ![w] = <<day[w], lineCount_ \div MAX_LINES>>]
  /\ UNCHANGED <<clock, sysTime, shared, day, count, written, begun, flusher, str, files>>

(* Mistake: the lock is not taken again.                                   *)
Reopen_NoLock(w) ==
  /\ Step(w, "reopen", "open")
  /\ UNCHANGED mtx_
  /\ fp_' = Nobody
  /\ NotifyConsumer
  /\ UNCHANGED <<clock, sysTime, toDay_, lineCount_, deq_, day, newFile, count, written, begun,
                 str, files>>

(* flush() and fclose, *)
Reopen(w) ==
  /\ Step(w, "reopen", "open")
  /\ Lock(w)
  /\ fp_' = Nobody
  /\ NotifyConsumer
  /\ UNCHANGED <<clock, sysTime, toDay_, lineCount_, deq_, day, newFile, count, written, begun,
                 str, files>>

(* and fopen, to append.  Locals get their first value back when they go   *)
(* out of use, here and below.                                             *)
Open(w) ==
  /\ Step(w, "open", "lock")
  /\ Unlock(w)
  /\ fp_' = newFile[w]
  /\ newFile' = [newFile EXCEPT ![w] = <<1, Plain>>]
  /\ UNCHANGED <<clock, sysTime, toDay_, lineCount_, deq_, day, count, written, begun,
                 flusher, str, files>>

(* lineCount_++, under mtx_ but not safe from ZeroLines: load *)
LoadCount(w) ==
  /\ Step(w, "lock", "count")
  /\ Lock(w)
  /\ count' = [count EXCEPT ![w] = lineCount_]
  /\ day' = [day EXCEPT ![w] = 1]
  /\ UNCHANGED <<clock, sysTime, toDay_, lineCount_, fp_, deq_, newFile, written, begun,
                 flusher, str, files>>

(* Mistake: push_back alone decides what to do about a full deque.         *)
Full_Never == FALSE

(* Mistake: off by one.                                                    *)
Full_OneMore == Len(deq_) > Capacity

Full == Len(deq_) >= Capacity

(* and store.  The line is formatted, and goes to the deque or, if that is *)
(* full, straight to the file.                                             *)
StoreCount(w) ==
  /\ Step(w, "count", IF Full THEN "puts" ELSE "push")
  /\ lineCount_' = count[w] + 1
  /\ count' = [count EXCEPT ![w] = 0]
  /\ UNCHANGED <<clock, sysTime, toDay_, fp_, mtx_, deq_, day, newFile, written, begun,
                 flusher, str, files>>

(* push_back, which blocks on a full deque. *)
PushBack(w) ==
  /\ Step(w, "push", "flush")
  /\ Len(deq_) < Capacity
  /\ deq_' = Append(deq_, <<w, written[w]>>)
  /\ NotifyConsumer
  /\ Unlock(w)
  /\ UNCHANGED <<clock, sysTime, toDay_, lineCount_, fp_, day, newFile, count, written, begun,
                 str, files>>

(* Mistake: the line is dropped when the deque is full.                    *)
WriteDirectly_Drop(w) ==
  /\ Step(w, "puts", "flush")
  /\ Unlock(w)
  /\ UNCHANGED <<clock, sysTime, toDay_, lineCount_, fp_, deq_, day, newFile, count,
                 written, begun, flusher, str, files>>

WriteDirectly(w) ==
  /\ Step(w, "puts", "flush")
  /\ Fputs(<<w, written[w]>>)
  /\ Unlock(w)
  /\ UNCHANGED <<clock, sysTime, toDay_, lineCount_, fp_, deq_, day, newFile, count,
                 written, begun, flusher, str>>

(* LOG_BASE's own flush: a notification, and fflush of whatever fp_ is.    *)
Flush(w) ==
  /\ Step(w, "flush", "idle")
  /\ NotifyConsumer
  /\ UNCHANGED <<clock, sysTime, shared, day, newFile, count, written, begun, str, files>>

-----------------------------------------------------------------------------
(* Log::AsyncWrite_ *)

Pop ==
  /\ flusher \in {"pop", "woken"}
  /\ deq_ # <<>>
  /\ str' = <<Head(deq_)>>
  /\ deq_' = Tail(deq_)
  /\ flusher' = "write"
  /\ UNCHANGED <<clock, sysTime, toDay_, lineCount_, fp_, mtx_, locals, files>>

PopWaits ==
  /\ flusher \in {"pop", "woken"}
  /\ deq_ = <<>>
  /\ flusher' = "wait"
  /\ UNCHANGED <<clock, sysTime, shared, locals, str, files>>

AsyncWrite_ ==
  /\ flusher = "write"
  /\ mtx_ = Nobody
  /\ Fputs(Head(str))
  /\ str' = <<>>
  /\ flusher' = "pop"
  /\ UNCHANGED <<clock, sysTime, shared, locals>>

-----------------------------------------------------------------------------
InWrite(w) ==
  \/ LocalTime(w) \/ CopyTime(w) \/ TestDay(w) \/ TestLines(w)
  \/ LockUnlock(w) \/ TestDayAgain(w) \/ NameNewDay(w) \/ ZeroLines(w)
  \/ NameSplit(w) \/ Reopen(w) \/ Open(w)
  \/ LoadCount(w) \/ StoreCount(w) \/ PushBack(w) \/ WriteDirectly(w)
  \/ Flush(w)

FlushLogThread == Pop \/ PopWaits \/ AsyncWrite_

Next ==
  \/ Midnight
  \/ \E w \in Writers : Now(w) \/ InWrite(w)
  \/ FlushLogThread

Spec == Init /\ [][Next]_vars

(* The threads are scheduled.  With finitely many lines no thread can be   *)
(* starved of mtx_, so weak fairness is enough.                            *)
FairSpec ==
  /\ Spec
  /\ \A w \in Writers : WF_vars(InWrite(w))
  /\ WF_vars(FlushLogThread)

-----------------------------------------------------------------------------
Control == {"idle", "time", "copy", "day", "lines", "rotate", "again", "new day", "zero",
            "same day", "reopen", "open", "lock", "count", "push", "puts", "flush"}

(* The types; and mtx_ is held for as long as fp_ stands for no open file  *)
(* and all the way from counting a line to having passed it on             *)
(* (log.cc:130-135 and 138-173).                                           *)
TypeOK ==
  /\ clock \in 1 .. LastDay
  /\ sysTime \in 1 .. LastDay
  /\ toDay_ \in 1 .. LastDay
  /\ lineCount_ \in Nat
  /\ fp_ \in Files \cup {Nobody}
  /\ mtx_ \in Writers \cup {Nobody}
  /\ deq_ \in Seq(Lines)
  /\ pc \in [Writers -> Control]
  /\ day \in [Writers -> 1 .. LastDay]
  /\ newFile \in [Writers -> Files]
  /\ count \in [Writers -> Nat]
  /\ written \in [Writers -> 0 .. MaxWrites]
  /\ begun \in 0 .. MaxWrites
  /\ flusher \in {"pop", "wait", "woken", "write"}
  /\ str \in Seq(Lines) /\ Len(str) = (IF flusher = "write" THEN 1 ELSE 0)
  /\ files \in [Files -> Seq(Lines)]
  /\ \A w \in Writers : mtx_ = w <=> pc[w] \in {"open", "count", "push", "puts"}
  /\ fp_ = Nobody => mtx_ # Nobody /\ pc[mtx_] = "open"

(* The deque never makes a writer wait: between full() and push_back, two  *)
(* separate calls, nobody else adds to it, because every writer holds mtx_ *)
(* for both (log.cc:138 and 166-167).  A writer that waited would do so    *)
(* with mtx_ held, which the flusher needs before it pops again.           *)
PushNeverBlocks == \A w \in Writers : pc[w] = "push" => Len(deq_) < Capacity

(* A line that write() has returned from is in exactly one place, once: in *)
(* the deque, in the flusher's hands or in a file, whatever rotations have *)
(* closed and opened the file meanwhile.                                   *)
Positions(s, line) == {i \in DOMAIN s : s[i] = line}
InFiles(line) == UNION {{f} \X Positions(files[f], line) : f \in Files}
Copies(line) ==
  Cardinality(Positions(deq_, line)) + Cardinality(Positions(str, line))
    + Cardinality(InFiles(line))

(* The last line of w that write() has returned from.                      *)
Passed(w) == IF pc[w] \in {"idle", "flush"} THEN written[w] ELSE written[w] - 1

NoLineLost ==
  \A line \in Lines : Copies(line) = IF line[2] <= Passed(line[1]) THEN 1 ELSE 0

(* The log uses the deque by the rules of BlockDeque: each of its calls of *)
(* push_back, pop and flush is what BlockDeque says of the call, with the  *)
(* flusher as the only consumer (log.cc:131, 166-167 and 206), so what is  *)
(* shown of the deque there holds for it here.                             *)
Deque == INSTANCE BlockDeque WITH
  Producers <- Writers,
  Consumers <- {Flusher},
  deq_ <- [i \in DOMAIN deq_ |-> deq_[i][1]],
  isClose_ <- FALSE,
  closing <- FALSE,
  call <- [t \in Writers \cup {Flusher} |-> IF t = Flusher THEN "pop" ELSE "push_back"],
  pc <- [t \in Writers \cup {Flusher} |->
           IF t # Flusher THEN IF pc[t] = "push" THEN "enter" ELSE "out"
           ELSE CASE flusher = "write" -> "out"
                  [] flusher = "pop" -> "enter"
                  [] OTHER -> flusher]

UsesBlockDeque == [][Deque!Next]_(Deque!vars)

(* Logging never stops a thread for good: what is begun comes to an end... *)
WriteReturns == \A w \in Writers : pc[w] # "idle" ~> pc[w] = "idle"

(* ... and a line in the deque gets into a file, even if no other line     *)
(* is ever written.                                                        *)
QueueDrains == deq_ # <<>> ~> deq_ = <<>> /\ str = <<>>

(* "the same day, but the log file has reached its number of lines"        *)
(* (log.cc:125): a numbered file is named only if the count says so.       *)
SplitOnlyWhenFull == [][\A w \in Writers : NameSplit(w) => NeedsSplit]_vars
=============================================================================
