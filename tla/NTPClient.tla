----------------------------- MODULE NTPClient -----------------------------
(***************************************************************************)
(* NTPClient: once a period its thread asks a server for the time, works   *)
(* out how far the local clock is off, and steps it when that is too much. *)
(*                                                                         *)
(* Time is counted in small units and err is the local clock less the true *)
(* time. A reply to a request sent at true time T carries t1 = T + e, where*)
(* e was err when it was sent, and t2 = t3 = T + d1; it is read at         *)
(* t4 = T + d1 + d2 + err. T drops out of the offset and is not kept. A    *)
(* reply that is not read in its period waits in the socket, and its d2    *)
(* grows by a period. Other threads may call SetHost and SynchClock.       *)
(*                                                                         *)
(* X_Variant, just before X, is X with a plausible slip; no specification  *)
(* uses it. It tells whether the properties notice the slip.               *)
(***************************************************************************)
EXTENDS Integers, Sequences

CONSTANTS
  Delay,       \* how long a message may take, within the 10 s of select
  Errors,      \* how far off the clock may be at the start
  Drift,       \* by how much it may drift in a period
  Period,      \* a minute
  Limit,       \* tSync_
  MaxFail,     \* 5: periods after which the offset is no longer valid
  MaxPeriods,  \* bound on the periods
  MaxLate,     \* bound on the replies that come late
  NoReply

ASSUME ConstantsAssumption ==
  /\ Delay \subseteq Nat
  /\ Errors \subseteq Int
  /\ Drift \subseteq Int
  /\ Period \in Nat
  /\ Limit \in Nat \ {0}
  /\ MaxFail \in Nat \ {0}
  /\ MaxPeriods \in Nat
  /\ MaxLate \in Nat
  /\ NoReply \notin [n : Nat, e : Int, d1 : Int, d2 : Int]

VARIABLES
  err,         \* the local clock less the true time
  autoSync,    \* autoSync_
  open,        \* sock_ >= 0
  thread,      \* where thread_body is
  request,     \* how many requests were sent
  buffer,      \* replies in the socket, oldest first
  late,        \* replies that come after the thread has given up
  got,         \* the reply that get_time returned
  offset,      \* offset_
  valid,       \* valid_
  nfail,       \* nfail_
  age,         \* periods since the last reply
  unresolved,  \* those of them in which no socket could be made
  lates,       \* how many replies came late
  periods,
  synching,    \* another thread is in SynchClock, past its test
  stepped,     \* it has stepped the clock since the last request was sent
  undef        \* FD_SET of a socket that was closed after sendto

clockVars == <<err, autoSync, open, thread, request, buffer, late, got, offset, valid, nfail,
          age, unresolved, lates, periods, synching, stepped, undef>>

ClockInit ==
  /\ err \in Errors
  /\ autoSync \in BOOLEAN
  /\ open = FALSE
  /\ thread = "sleep"
  /\ request = 0
  /\ buffer = <<>> /\ late = <<>>
  /\ got = NoReply
  /\ offset = 0 /\ valid = FALSE /\ nfail = 0
  /\ age = 0 /\ unresolved = 0 /\ lates = 0 /\ periods = 0
  /\ synching = FALSE /\ stepped = FALSE /\ undef = FALSE

\* A period passes: late replies arrive, and what is in the socket gets older.
Older(s) == [i \in 1..Len(s) |-> [s[i] EXCEPT !.d2 = @ + Period]]

Wake ==
  /\ thread = "sleep" /\ periods < MaxPeriods
  /\ periods' = periods + 1
  /\ age' = age + 1
  /\ \E x \in Drift : err' = err + x
  /\ buffer' = IF open THEN Older(buffer \o late) ELSE <<>>
  /\ late' = <<>>
  /\ thread' = IF open THEN "ask" ELSE "open"
  /\ UNCHANGED <<autoSync, open, request, got, offset, valid, nfail, unresolved,
                 lates, synching, stepped, undef>>

\* getaddrinfo and socket. When they fail the period is over, and is not counted.
Open ==
  /\ thread = "open"
  /\ \/ open' = TRUE /\ thread' = "ask" /\ UNCHANGED unresolved
     \/ open' = FALSE /\ thread' = "sleep" /\ unresolved' = unresolved + 1
  /\ UNCHANGED <<err, autoSync, request, buffer, late, got, offset, valid, nfail,
                 age, lates, periods, synching, stepped, undef>>

\* get_time returned 0.
Expired_After(n) == n > MaxFail
Expired(n) == n >= MaxFail
Failed ==
  /\ nfail' = nfail + 1
  /\ valid' = (valid /\ ~Expired(nfail + 1))
  /\ thread' = "sleep"

\* The socket is closed, with what it holds and what will still come.
Close_Not == UNCHANGED <<open, buffer, late>>
Close == open' = FALSE /\ buffer' = <<>> /\ late' = <<>>

\* construct_packet and sendto, of a socket that SetHost may have closed since it was
\* looked at. The server's reply comes in time, late or not at all.
Ask ==
  /\ thread = "ask"
  /\ \/ /\ open
        /\ request' = request + 1
        /\ thread' = "sent"
        /\ stepped' = FALSE
        /\ \/ \E d1 \in Delay, d2 \in Delay :
                LET reply == [n |-> request', e |-> err, d1 |-> d1, d2 |-> d2]
                IN  \/ buffer' = Append(buffer, reply) /\ UNCHANGED <<late, lates>>
                    \/ /\ lates < MaxLate
                       /\ lates' = lates + 1
                       /\ late' = Append(late, reply)
                       /\ UNCHANGED buffer
           \/ UNCHANGED <<buffer, late, lates>>
        /\ UNCHANGED <<open, valid, nfail>>
     \/ /\ Failed
        /\ Close
        /\ UNCHANGED <<request, lates, stepped>>
  /\ UNCHANGED <<err, autoSync, got, offset, age, unresolved, periods, synching, undef>>

\* FD_SET: undefined for a socket that is no longer there.
Watch ==
  /\ thread = "sent"
  /\ IF open THEN thread' = "collect" /\ UNCHANGED undef
             ELSE undef' = TRUE /\ UNCHANGED thread
  /\ UNCHANGED <<err, autoSync, open, request, buffer, late, got, offset, valid, nfail,
                 age, unresolved, lates, periods, synching, stepped>>

\* select and recvfrom: the oldest reply in the socket is taken for the answer, whichever
\* request it answers. valid_ is set here, before offset_. Or nothing comes in time, or
\* recvfrom fails, as it does when SetHost has closed the socket meanwhile.
Collect ==
  /\ thread = "collect"
  /\ \/ /\ open /\ buffer # <<>>
        /\ got' = Head(buffer)
        /\ buffer' = Tail(buffer)
        /\ valid' = TRUE
        /\ nfail' = 0
        /\ age' = 0 /\ unresolved' = 0
        /\ thread' = "compute"
        /\ UNCHANGED <<open, late>>
     \/ /\ buffer = <<>>
        /\ Failed
        /\ UNCHANGED <<open, buffer, late, got, age, unresolved>>
     \/ /\ Failed
        /\ Close
        /\ UNCHANGED <<got, age, unresolved>>
  /\ UNCHANGED <<err, autoSync, request, offset, lates, periods, synching, stepped, undef>>

\* ((t2 - t1) + (t3 - t4)) / 2, to the unit below.
Offset_Sum(r, now) == ((r.d1 - r.e) - (0 - r.d2 - now)) \div 2
Offset(r, now) == ((r.d1 - r.e) + (0 - r.d2 - now)) \div 2

Exceeds(x) == x >= Limit \/ x <= -Limit

\* The offset is stored; if it is too much and autoSync_ is set, SynchClock steps the
\* clock and clears valid_.
Compute ==
  /\ thread = "compute"
  /\ offset' = Offset(got, err)
  /\ IF Exceeds(offset') /\ autoSync /\ valid
       THEN err' = err + offset' /\ valid' = FALSE
       ELSE UNCHANGED <<err, valid>>
  /\ thread' = "sleep"
  /\ UNCHANGED <<autoSync, open, request, buffer, late, got, nfail, age, unresolved,
                 lates, periods, synching, stepped, undef>>

\* SetHost, from another thread: under mtx_, which get_time does not take.
SetHost ==
  /\ open
  /\ Close
  /\ UNCHANGED <<err, autoSync, thread, request, got, offset, valid, nfail, age,
                 unresolved, lates, periods, synching, stepped, undef>>

\* SynchClock, from another thread and without a lock: its test, then the step.
SynchClock ==
  /\ \/ /\ ~synching /\ valid /\ Exceeds(offset)
        /\ synching' = TRUE
        /\ UNCHANGED <<err, valid, stepped>>
     \/ /\ synching
        /\ err' = err + offset /\ valid' = FALSE
        /\ synching' = FALSE /\ stepped' = TRUE
  /\ UNCHANGED <<autoSync, open, thread, request, buffer, late, got, offset, nfail, age,
                 unresolved, lates, periods, undef>>

ClockNext ==
  /\ ~undef
  /\ Wake \/ Open \/ Ask \/ Watch \/ Collect \/ Compute \/ SetHost \/ SynchClock

ClockSpec == ClockInit /\ [][ClockNext]_clockVars

-----------------------------------------------------------------------------
Reply == [n : 1..request, e : Int, d1 : Nat, d2 : Nat]

Abs(x) == IF x < 0 THEN -x ELSE x

\* A step of the clock by the thread that uses the answer to its own request leaves it off
\* by at most half the round trip, whatever it was off by before and however unequal the
\* two ways are, unless another thread stepped it since the request was sent (thread_body,
\* SynchClock). The answer to an earlier request promises nothing.
SyncIsAccurate ==
  [][ err' # err /\ thread = "compute" /\ thread' = "sleep" /\ got.n = request /\ ~stepped
        => 2 * Abs(err') <= got.d1 + got.d2 + 1 ]_clockVars

\* Unless a reply came late, the answer that is used is that to the request just sent:
\* neither lost requests nor lost replies nor a new socket put them out of step.
OwnAnswer == thread = "compute" /\ lates = 0 => got.n = request

\* An offset is valid for MaxFail periods (thread_body: '时钟偏差有效期: 5周期').
ValidIsRecent == valid => age < MaxFail + (IF thread = "sleep" THEN 0 ELSE 1)

\* That holds of the periods in which a socket could be had: an offset is not taken for
\* valid when the server was asked in MaxFail of them and there was no answer, whoever
\* closes the socket meanwhile and whatever comes late (thread_body, get_time).
ValidIsCounted ==
  valid => age - unresolved < MaxFail + (IF thread = "sleep" THEN 0 ELSE 1)

(* The inductive strengthenings *)

Asked == thread \in {"sent", "collect"}

InStep ==
  /\ \A i \in 1..Len(buffer) : lates = 0 => i = 1 /\ buffer[i].n = request /\ Asked
  /\ lates = 0 => late = <<>>
  /\ \A i \in 1..Len(buffer) :
       buffer[i].n = request /\ Asked /\ ~stepped => buffer[i].e = err
  /\ thread = "compute" /\ got.n = request /\ ~stepped => got.e = err
  /\ OwnAnswer

CountInv ==
  /\ thread # "compute" => age = nfail + unresolved + (IF thread = "sleep" THEN 0 ELSE 1)
  /\ thread = "compute" => age = 0 /\ nfail = 0 /\ unresolved = 0
  /\ valid => nfail < MaxFail
=============================================================================
