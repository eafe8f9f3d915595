----------------------------- MODULE Heartbeat -----------------------------
(***************************************************************************)
(* The clocks of a controller: thread_cycle looks at the list every Cycle  *)
(* seconds, thread_heartbeat every Beat seconds at the time of the last    *)
(* answer, and an upload keeps thread_respond from hearing the next one.   *)
(* What travels and what is stored is the subject of Controller.           *)
(*                                                                         *)
(* second_clock counts seconds, and so does Tick, or a multiple of them   *)
(* when the periods are given in that unit. The threads sleep by the clock *)
(* that only runs, but tmlast_ and its age are local times, and the local  *)
(* clock may be put forward or back (NTPClient, the operator, the start    *)
(* and the end of summer time).                                            *)
(*                                                                         *)
(* X_Variant, just before X, is X with a plausible slip; no specification  *)
(* uses it. It tells whether the properties notice the slip.               *)
(***************************************************************************)
EXTENDS Integers

CONSTANTS
  Sweep,      \* how many directives a sweep has
  Cycle,      \* 20: the period of thread_cycle
  Beat,       \* 30: that of thread_heartbeat
  Slack,      \* thread_cycle's period may be so much longer: it sleeps after its work
  Exchange,   \* an answer is heard at most so long after its query
  MaxUpload,  \* bound on how long an upload takes
  MaxWrites,  \* bound on the calls of Write
  Jumps,      \* by how much the local clock may be put forward, or back
  MaxSteps    \* bound on how often it is

ASSUME TimesAssumption ==
  /\ Sweep \in Nat \ {0}
  /\ Cycle \in Nat \ {0}
  /\ Beat \in Nat \ {0}
  /\ Slack \in Nat
  /\ Exchange \in Nat
  /\ MaxUpload \in Nat
  /\ MaxWrites \in Nat
  /\ Jumps \subseteq Int
  /\ MaxSteps \in Nat
  /\ Cycle + Slack + Exchange < Beat

VARIABLES
  cycle,   \* seconds until thread_cycle looks
  beat,    \* seconds until thread_heartbeat looks
  left,    \* how many directives drct_ holds
  query,   \* "out": one was sent whose answer will be heard
  wait,    \* for how many seconds it has been under way
  upload,  \* seconds until thread_respond waits again
  td,      \* local time less tmlast_
  ahead,   \* by how much of that the local clock was put forward
  watch,   \* thread_heartbeat "runs", or has "reported" and ended
  writes,
  steps

beatVars == <<cycle, beat, left, query, wait, upload, td, ahead, watch, writes, steps>>

BeatInit ==
  /\ cycle = 1
  /\ beat = Beat
  /\ left = 0
  /\ query = "none"
  /\ wait = 0
  /\ upload = 0
  /\ td = 0 /\ ahead = 0
  /\ watch = "runs"
  /\ writes = 0 /\ steps = 0

\* thread_cycle: a sweep when the list is empty.
Poll_Refreshes ==
  /\ cycle = 0
  /\ cycle' \in Cycle..Cycle + Slack
  /\ td' = 0
  /\ IF left = 0
       THEN left' = Sweep /\ query' = "out" /\ wait' = 0
       ELSE UNCHANGED <<left, query, wait>>
  /\ UNCHANGED <<beat, upload, ahead, watch, writes, steps>>
Poll ==
  /\ cycle = 0
  /\ cycle' \in Cycle..Cycle + Slack
  /\ IF left = 0
       THEN left' = Sweep /\ query' = "out" /\ wait' = 0
       ELSE UNCHANGED <<left, query, wait>>
  /\ UNCHANGED <<beat, upload, td, ahead, watch, writes, steps>>

\* thread_respond hears an answer. After the last one it uploads.
Answer ==
  /\ query = "out" /\ upload = 0
  /\ td' = 0 /\ ahead' = 0
  /\ left' = left - 1
  /\ query' = IF left' > 0 THEN "out" ELSE "none"
  /\ wait' = 0
  /\ upload' \in IF left' = 0 THEN 0..MaxUpload ELSE {0}
  /\ UNCHANGED <<cycle, beat, watch, writes, steps>>

\* It comes during an upload: its notification is lost (cndDrct_ has no predicate).
Miss ==
  /\ query = "out" /\ upload > 0
  /\ query' = "none"
  /\ UNCHANGED <<cycle, beat, left, wait, upload, td, ahead, watch, writes, steps>>

\* The query or its answer is lost on the line. Not code of the program.
Lose ==
  /\ query = "out"
  /\ query' = "none"
  /\ UNCHANGED <<cycle, beat, left, wait, upload, td, ahead, watch, writes, steps>>

\* Write of a directive appends to the list and sends nothing.
Write ==
  /\ writes < MaxWrites
  /\ writes' = writes + 1
  /\ left' = left + 1
  /\ UNCHANGED <<cycle, beat, query, wait, upload, td, ahead, watch, steps>>

\* The local clock is put forward or back. Not code of the program, but for NTPClient.
StepClock ==
  /\ steps < MaxSteps
  /\ steps' = steps + 1
  /\ \E j \in Jumps : td' = td + j /\ ahead' = ahead + j
  /\ UNCHANGED <<cycle, beat, left, query, wait, upload, watch, writes>>

\* thread_heartbeat ends, with its report, when by the local clock nothing came for a
\* period.
Silent_ThisCycle(seconds) == seconds >= Cycle
Silent(seconds) == seconds >= Beat

Heartbeat ==
  /\ beat = 0 /\ watch = "runs"
  /\ IF Silent(td) THEN watch' = "reported" /\ UNCHANGED beat
                   ELSE beat' = Beat /\ UNCHANGED watch
  /\ UNCHANGED <<cycle, left, query, wait, upload, td, ahead, writes, steps>>

Down(n) == IF n > 0 THEN n - 1 ELSE 0

\* A second passes, when nobody has anything to do at this one.
Tick ==
  /\ cycle > 0
  /\ watch = "runs" => beat > 0
  /\ query = "out" => wait < Exchange
  /\ cycle' = cycle - 1
  /\ beat' = Down(beat)
  /\ upload' = Down(upload)
  /\ wait' = IF query = "out" THEN wait + 1 ELSE 0
  /\ td' = IF watch = "runs" THEN td + 1 ELSE td
  /\ UNCHANGED <<left, query, ahead, watch, writes, steps>>

BeatNext ==
  Poll \/ Answer \/ Miss \/ Lose \/ Write \/ StepClock \/ Heartbeat \/ Tick

\* Time passes and the threads run; nobody has to lose or write anything or to put the
\* clock forward or back.
BeatSpec ==
  /\ BeatInit /\ [][BeatNext]_beatVars
  /\ WF_beatVars(Poll \/ Answer \/ Miss \/ Heartbeat \/ Tick)

-----------------------------------------------------------------------------
BeatTypeOK ==
  /\ cycle \in 0..Cycle + Slack /\ beat \in 0..Beat
  /\ left \in Nat /\ wait \in 0..Exchange /\ upload \in 0..MaxUpload
  /\ query \in {"out", "none"} /\ watch \in {"runs", "reported"}
  /\ td \in Int /\ ahead \in Int /\ writes \in Nat /\ steps \in Nat

\* The list waits for an answer that will not be heard: nothing sends the directive
\* again and thread_cycle starts no sweep.
Dead == left > 0 /\ query = "none"

\* The report of thread_heartbeat means a dead link: '长时间收不到信息', nothing was
\* received for a long time.
NoFalseAlarm == watch = "reported" => Dead

\* A false one takes a local clock that was put forward since the last answer, and by what
\* the periods leave: wherever those of the two threads fall, and however long a sweep or
\* an upload takes, there is an answer every Cycle + Slack + Exchange seconds as long as
\* each is heard (thread_cycle, thread_respond, thread_heartbeat).
AlarmIsTrue ==
  [][ watch = "runs" /\ watch' = "reported"
        => Dead \/ ahead >= Beat - (Cycle + Slack + Exchange) ]_beatVars

\* And a dead link is reported, whatever killed it and wherever the clock is put.
DeadIsReported == Dead ~> watch = "reported"

\* The strengthening: how long ago the last answer can be.
Since == td - ahead

SinceInv ==
  /\ query = "out" => left > 0
  /\ ~Dead /\ left = 0 => Since + cycle <= Cycle + Slack
  /\ ~Dead /\ query = "out" => Since <= Cycle + Slack + wait
=============================================================================
