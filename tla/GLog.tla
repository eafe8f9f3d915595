-------------------------------- MODULE GLog --------------------------------
(***************************************************************************)
(* GLog, the log that every thread writes to: one file for each day, opened*)
(* by the first line of the day, under a mutex. The clock it reads may be  *)
(* stepped, by NTPClient for one, in either direction.                     *)
(*                                                                         *)
(* A day is a number, and DayOfMonth what day_ keeps of it. A file is named*)
(* for its day.                                                            *)
(*                                                                         *)
(* X_Variant, just before X, is X with a plausible slip; no specification  *)
(* uses it. It tells whether the properties notice the slip.               *)
(***************************************************************************)
EXTENDS Integers, Sequences

CONSTANTS
  Writer,       \* the threads that log
  LastDay,      \* bound on the clock
  DayOfMonth,   \* of each day
  Silence,      \* the clock moves less than this between two lines
  Never

Day == 0..LastDay
Near(d, e) == d - e < Silence /\ e - d < Silence

\* Silence is less than the shortest month.
ASSUME DaysAssumption ==
  /\ LastDay \in Nat
  /\ Silence \in Nat \ {0}
  /\ DayOfMonth \in [Day -> 1..31]
  /\ \A d, e \in Day : Near(d, e) /\ DayOfMonth[d] = DayOfMonth[e] => d = e
  /\ Never \notin Day \cup Writer

VARIABLES
  today,    \* the day of the clock
  owner,    \* the thread that holds mtx_
  step,     \* where each writer is
  stamp,    \* the time that it took
  day,      \* day_: the day of the month of the open file
  fd,       \* fd_: the day in the name of the open file, or Never
  pieces,   \* what was written since a line was last complete
  line,     \* the last complete line: its time and its file
  crashed   \* fprintf was called with a null pointer

logVars == <<today, owner, step, stamp, day, fd, pieces, line, crashed>>

LogInit ==
  /\ today \in Day
  /\ owner = Never
  /\ step = [w \in Writer |-> "idle"]
  /\ stamp = Never
  /\ day = -1
  /\ fd = Never
  /\ pieces = <<>>
  /\ line = Never
  /\ crashed = FALSE

\* Midnight, or a step of the clock. Not code of the log.
ClockMoves ==
  /\ \E d \in Day :
       /\ stamp # Never => Near(d, stamp)
       /\ today' = d
  /\ UNCHANGED <<owner, step, stamp, day, fd, pieces, line, crashed>>

-----------------------------------------------------------------------------
\* Write: mtx_, then the time.
Free_Unlocked == TRUE
Free == owner = Never

Lock(w) ==
  /\ ~crashed
  /\ step[w] = "idle" /\ Free
  /\ owner' = w
  /\ step' = [step EXCEPT ![w] = "file"]
  /\ stamp' = today
  /\ UNCHANGED <<today, day, fd, pieces, line, crashed>>

\* valid_file: close the file of another day of the month; open one if there is none
\* and the directory can be written to. What fopen returns is not looked at.
SameDay_EverOpen(d) == fd # Never
SameDay(d) == day = DayOfMonth[d]

ValidFile(w) ==
  /\ step[w] = "file"
  /\ LET kept == IF SameDay(stamp) THEN fd ELSE Never
     IN  /\ day' = DayOfMonth[stamp]
         /\ \/ /\ kept # Never
               /\ fd' = kept
               /\ step' = [step EXCEPT ![w] = "time"]
               /\ UNCHANGED <<owner, crashed>>
            \/ /\ kept = Never
               /\ \E directory \in BOOLEAN, opens \in BOOLEAN :
                    /\ crashed' = (directory /\ ~opens)
                    /\ fd' = IF directory /\ opens THEN stamp ELSE Never
                    /\ step' = [step EXCEPT ![w] = IF fd' # Never THEN "time" ELSE "idle"]
                    /\ owner' = IF fd' # Never THEN owner ELSE Never
  /\ UNCHANGED <<today, stamp, pieces, line>>

\* The time; the type and the place, if any; then the text and its end. Each is an
\* fprintf of its own.
Put(w) ==
  /\ step[w] \in {"time", "text"}
  /\ pieces' = Append(pieces, <<w, step[w]>>)
  /\ step' = [step EXCEPT ![w] = IF @ = "time" THEN "text" ELSE "flush"]
  /\ UNCHANGED <<today, owner, stamp, day, fd, line, crashed>>

\* The end of line and fflush, and the mutex is released.
Flush(w) ==
  /\ step[w] = "flush"
  /\ line' = [by |-> pieces, time |-> stamp, file |-> fd]
  /\ pieces' = <<>>
  /\ step' = [step EXCEPT ![w] = "idle"]
  /\ owner' = Never
  /\ UNCHANGED <<today, stamp, day, fd, crashed>>

LogNext ==
  \/ ClockMoves
  \/ \E w \in Writer : Lock(w) \/ ValidFile(w) \/ Put(w) \/ Flush(w)

LogSpec == LogInit /\ [][LogNext]_logVars

-----------------------------------------------------------------------------
LogTypeOK ==
  /\ today \in Day
  /\ owner \in Writer \cup {Never}
  /\ step \in [Writer -> {"idle", "file", "time", "text", "flush"}]
  /\ stamp \in Day \cup {Never}
  /\ day \in {-1} \cup 1..31
  /\ fd \in Day \cup {Never}
  /\ crashed \in BOOLEAN

\* A line is the work of one thread: whoever writes at the same time, its time and its
\* text stand together (mtx_).
WholeLines ==
  line # Never => \E w \in Writer : line.by = <<<<w, "time">>, <<w, "text">>>>

\* Every line is in the file of its day, over midnights and steps of the clock in both
\* directions, although only the day of the month is compared: as long as the log is
\* never silent for a month (valid_file).
InFileOfItsDay == line # Never => line.file = line.time

(* The inductive strengthening: between two lines the open file is that of the last
   line's time, and the clock is near it; the time of the line being written is near
   the file's day until the file has been looked at.                                *)
FileInv ==
  /\ \A w \in Writer : step[w] # "idle" => owner = w /\ stamp # Never
  /\ owner # Never => step[owner] # "idle"
  /\ stamp # Never => Near(today, stamp)
  /\ fd # Never => stamp # Never /\ Near(stamp, fd) /\ day = DayOfMonth[fd]
  /\ fd # Never /\ fd # stamp => \E w \in Writer : step[w] = "file"
  /\ \A w \in Writer : step[w] \in {"time", "text", "flush"} => fd = stamp
  /\ InFileOfItsDay

\* And what the owner of the mutex has written of its line so far.
PiecesInv ==
  /\ owner = Never => pieces = <<>>
  /\ \A w \in Writer :
       /\ step[w] \in {"file", "time"} => pieces = <<>>
       /\ step[w] = "text" => pieces = <<<<w, "time">>>>
       /\ step[w] = "flush" => pieces = <<<<w, "time">>, <<w, "text">>>>
  /\ WholeLines
=============================================================================
