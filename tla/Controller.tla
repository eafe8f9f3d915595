----------------------------- MODULE Controller -----------------------------
(***************************************************************************)
(* One serial controller (ControllerBase with CoolerCtl or VacuumCtl): the *)
(* polling thread thread_cycle, the responding thread thread_respond, the  *)
(* I/O callback serial_read, and the calls AddDevice, Write and Stop.      *)
(*                                                                         *)
(* The serial link is a half-duplex bus: a query is answered by one frame. *)
(* Neither end can tell a query on its way from an answer on its way, so   *)
(* both are one queue, line, of exchanges not yet heard by serial_read.    *)
(*                                                                         *)
(* Values read from a device are abstracted to the function code of the    *)
(* query they answer, which is what a field must agree with.               *)
(*                                                                         *)
(* X_Variant, just before X, is X with a plausible slip; no specification   *)
(* uses it. It tells whether the properties below notice the slip.         *)
(***************************************************************************)
EXTENDS Naturals, Sequences, FiniteSets

CONSTANTS
  Device,         \* device numbers that may be attached to the port
  Func,           \* function codes a directive may carry
  Monitor,        \* COOLER_MONITOR or VACUUM_MONITOR: the polled codes, in order
  FrameHasField,  \* TRUE: the answer names its function (cooler); FALSE: vacuum
  Overlap,        \* where thread_respond may be when an answer or a period comes
  DevicesFirst,   \* TRUE: devices are added before thread_cycle first looks
  None,           \* a field that was never read
  Garbled,        \* a frame that decode_data refuses
  MaxLine,        \* bound on exchanges in flight and frames left in the ring
  Budget          \* bound on how often each fault and each outside call happens

Fault == {"lost", "garbled", "closed", "extra", "spurious", "write", "stop"}
Directive == [dev : Device, fn : Func]
Frame == Directive \cup {Garbled}
Busy == {"woken", "test", "sent", "log", "report"}
Monitored == {Monitor[j] : j \in 1..Len(Monitor)}

ASSUME ConstantsAssumption ==
  /\ Monitor \in Seq(Func)
  /\ Len(Monitor) > 0
  /\ FrameHasField \in BOOLEAN
  /\ Overlap \subseteq Busy
  /\ DevicesFirst \in BOOLEAN
  /\ Garbled \notin Directive
  /\ None \notin Func
  /\ MaxLine \in Nat
  /\ Budget \in [Fault -> Nat]

VARIABLES
  drct,    \* drct_, the directive list
  allDev,  \* allDev_, the devices in the order they were added
  rows,    \* the devices that have an entry in data_
  val,     \* the fields of the entries of data_
  fresh,   \* the fields heard since write_log. Not in the code, whose dirty flag is
           \* set only when a value changes (see Reception)
  cyc,     \* where thread_cycle is
  sweep,   \* its locals while it generates: n devices, device i, code j
  rpc,     \* where thread_respond is
  line,    \* exchanges on the link, oldest first
  ring,    \* complete frames received and not yet read
  stop,    \* the thread Stop is interrupting
  undef,   \* front or pop_front was called on an empty list
  left     \* what remains of Budget

vars == <<drct, allDev, rows, val, fresh, cyc, sweep, rpc, line, ring, stop,
          undef, left>>
store == <<rows, val, fresh>>
poll == <<cyc, sweep>>
link == <<line, ring>>

At(n, i, j) == [n |-> n, i |-> i, j |-> j]
NoSweep == At(0, 1, 1)

Init ==
  /\ drct = <<>>
  /\ allDev = <<>>
  /\ rows = {}
  /\ val = [d \in Device |-> [f \in Monitored |-> None]]
  /\ fresh = [d \in Device |-> {}]
  /\ cyc = "sleep"
  /\ sweep = NoSweep
  /\ rpc = "wait"
  /\ line = <<>>
  /\ ring = <<>>
  /\ stop = "no"
  /\ undef = FALSE
  /\ left = Budget

Spend(k) == left[k] > 0 /\ left' = [left EXCEPT ![k] = @ - 1]

(***************************************************************************)
(* The timing the code relies on and nothing in it enforces. With Overlap  *)
(* = {}, thread_respond is back in its wait before the answer to what it   *)
(* sent arrives and before the next 20 s period ends; {"report"} lets the  *)
(* blocking upload outlast that; Busy is every interleaving. DevicesFirst: *)
(* connect_serial adds a device within the second thread_cycle first       *)
(* sleeps.                                                                 *)
(***************************************************************************)
RespondBack == rpc \in Overlap \cup {"wait", "off"}
DevicesAdded == DevicesFirst => Len(allDev) > 0

Room == Len(line) + Len(ring) < MaxLine

\* first_send: the front of the list goes to the port, without the lock. When the port
\* is closed nothing is sent, and the list is not looked at.
Front_Newest == drct[Len(drct)]
Front == Head(drct)

first_send ==
  \/ drct = <<>> /\ undef' = TRUE /\ UNCHANGED <<line, left>>
  \/ drct # <<>> /\ Room /\ line' = Append(line, Front) /\ UNCHANGED <<undef, left>>
  \/ Spend("closed") /\ UNCHANGED <<line, undef>>

-----------------------------------------------------------------------------
(* The calls of other threads *)

Known_Never(d) == FALSE
Known(d) == \E i \in 1..Len(allDev) : allDev[i] = d

AddDevice(d) ==
  /\ ~undef
  /\ ~Known(d)
  /\ allDev' = Append(allDev, d)
  /\ UNCHANGED <<drct, store, poll, rpc, link, stop, undef, left>>

\* Write appends a directive and returns: it sends nothing.
Write(d, f) ==
  /\ ~undef
  /\ Spend("write")
  /\ drct' = Append(drct, [dev |-> d, fn |-> f])
  /\ UNCHANGED <<allDev, store, poll, rpc, link, stop, undef>>

\* Stop interrupts and joins thread_heartbeat, thread_respond and thread_cycle, in
\* this order. A thread ends at its next interruption point: the wait or a sleep.
Stop ==
  /\ ~undef
  /\ stop = "no"
  /\ Spend("stop")
  /\ stop' = "heartbeat"
  /\ UNCHANGED <<drct, allDev, store, poll, rpc, link, undef>>

\* thread_heartbeat is in its sleep or gets there, or has ended: see Heartbeat.
HeartbeatExit ==
  /\ ~undef
  /\ stop = "heartbeat"
  /\ stop' = "respond"
  /\ UNCHANGED <<drct, allDev, store, poll, rpc, link, undef, left>>

Interruptible_NotInWait == rpc = "woken"
Interruptible == rpc \in {"wait", "woken"}

RespondExit ==
  /\ ~undef
  /\ stop = "respond"
  /\ Interruptible
  /\ rpc' = "off"
  /\ stop' = "cycle"
  /\ UNCHANGED <<drct, allDev, store, poll, link, undef, left>>

CycleExit ==
  /\ ~undef
  /\ stop = "cycle"
  /\ cyc = "sleep"
  /\ cyc' = "off"
  /\ stop' = "done"
  /\ UNCHANGED <<drct, allDev, store, sweep, rpc, link, undef, left>>

-----------------------------------------------------------------------------
(* thread_cycle *)

StartSweep ==
  /\ cyc' = IF allDev = <<>> THEN "send" ELSE "generate"
  /\ sweep' = At(Len(allDev), 1, 1)
  /\ rows' = {allDev[i] : i \in 1..Len(allDev)}        \* check_data
  /\ UNCHANGED <<drct, allDev, val, fresh, rpc, link, stop, undef, left>>

NothingPending_Always == TRUE
NothingPending == drct = <<>>

\* The period ends and the list is empty. (With a directive in the list the
\* thread sleeps again, which changes nothing.)
CyclePoll ==
  /\ ~undef
  /\ cyc = "sleep"
  /\ stop # "cycle"
  /\ RespondBack
  /\ DevicesAdded
  /\ NothingPending
  /\ StartSweep

LastCode_OneShort == sweep.j + 1 >= Len(Monitor)
LastCode == sweep.j = Len(Monitor)
LastDevice == sweep.i = sweep.n

Query(d, j) == [dev |-> d, fn |-> Monitor[j]]

\* One append_directive of the two nested loops of generate_directive.
CycleGenerate ==
  /\ ~undef
  /\ cyc = "generate"
  /\ drct' = Append(drct, Query(allDev[sweep.i], sweep.j))
  /\ \/ LastCode /\ LastDevice /\ cyc' = "send" /\ sweep' = NoSweep
     \/ LastCode /\ ~LastDevice /\ cyc' = cyc
        /\ sweep' = At(sweep.n, sweep.i + 1, 1)
     \/ ~LastCode /\ cyc' = cyc /\ sweep' = At(sweep.n, sweep.i, sweep.j + 1)
  /\ UNCHANGED <<allDev, store, rpc, link, stop, undef, left>>

CycleSend ==
  /\ ~undef
  /\ cyc = "send"
  /\ first_send
  /\ cyc' = "sleep"
  /\ UNCHANGED <<drct, allDev, store, sweep, rpc, ring, stop>>

-----------------------------------------------------------------------------
(* thread_respond *)

\* cndDrct_.wait has no predicate: any wakeup counts as an answer.
SpuriousWakeup ==
  /\ ~undef
  /\ rpc = "wait"
  /\ stop # "respond"
  /\ Spend("spurious")
  /\ rpc' = "woken"
  /\ UNCHANGED <<drct, allDev, store, poll, link, stop, undef>>

remove_directive_KeepFront == UNCHANGED <<drct, undef>>
remove_directive ==
  \/ drct = <<>> /\ undef' = TRUE /\ UNCHANGED drct
  \/ drct # <<>> /\ drct' = Tail(drct) /\ UNCHANGED undef

\* After the 100 ms sleep.
RespondPop ==
  /\ ~undef
  /\ rpc = "woken"
  /\ remove_directive
  /\ rpc' = "test"
  /\ UNCHANGED <<allDev, store, poll, link, stop, left>>

\* drct_.size(), without the lock; only this thread makes the list shorter.
MoreToSend_Always == TRUE
MoreToSend == drct # <<>>

RespondSend ==
  /\ ~undef
  /\ rpc = "test"
  /\ MoreToSend
  /\ first_send
  /\ rpc' = "sent"
  /\ UNCHANGED <<drct, allDev, store, poll, ring, stop>>

RespondAllAnswered ==
  /\ ~undef
  /\ rpc = "test"
  /\ ~MoreToSend
  /\ rpc' = "log"
  /\ UNCHANGED <<drct, allDev, store, poll, link, stop, undef, left>>

\* write_log: what was heard so far is logged.
RespondLog ==
  /\ ~undef
  /\ rpc = "log"
  /\ fresh' = [d \in Device |-> IF d \in rows THEN {} ELSE fresh[d]]
  /\ rpc' = "report"
  /\ UNCHANGED <<drct, allDev, rows, val, poll, link, stop, undef, left>>

\* The blocking upload_database and network_respond end; or first_send has
\* returned. Until then a notify_one finds nobody waiting.
RespondWait ==
  /\ ~undef
  /\ rpc \in {"sent", "report"}
  /\ rpc' = "wait"
  /\ UNCHANGED <<drct, allDev, store, poll, link, stop, undef, left>>

-----------------------------------------------------------------------------
(* serial_read, on the I/O thread *)

notify_one == rpc' = IF rpc = "wait" /\ stop # "respond" THEN "woken" ELSE rpc

\* The setter decode_data calls for a frame f that it takes as the field c.
set_field(f, c) ==
  IF f.dev \in rows /\ c \in Monitored
    THEN /\ val' = [val EXCEPT ![f.dev] = [@ EXCEPT ![c] = f.fn]]
         /\ fresh' = [fresh EXCEPT ![f.dev] = @ \cup {c}]
    ELSE UNCHANGED <<val, fresh>>

\* CoolerCtl takes the code from the frame; VacuumCtl from the list's front,
\* which it reads without the lock.
FieldCode(f) == IF FrameHasField THEN f.fn ELSE Front.fn

decode_data(f) ==
  \/ ~FrameHasField /\ drct = <<>> /\ undef' = TRUE /\ UNCHANGED <<val, fresh>>
  \/ (FrameHasField \/ drct # <<>>) /\ set_field(f, FieldCode(f)) /\ UNCHANGED undef

\* One read event delivers the next k answers of the link, or (k = 0) a piece of
\* the next one, and serial_read takes one frame from the ring, never two.
Receive(k) ==
  /\ ~undef
  /\ line # <<>>
  /\ RespondBack
  /\ ring \o SubSeq(line, 1, k) # <<>>
  /\ line' = SubSeq(line, k + 1, Len(line))
  /\ LET got == ring \o SubSeq(line, 1, k)
         f == Head(got)
     IN /\ ring' = Tail(got)
        /\ \/ f = Garbled /\ UNCHANGED <<val, fresh, rpc, undef>>
           \/ f # Garbled /\ decode_data(f) /\ notify_one
  /\ UNCHANGED <<drct, allDev, rows, poll, stop, left>>

-----------------------------------------------------------------------------
(* What the link may do to an exchange *)

Lose(i) ==
  /\ ~undef
  /\ Spend("lost")
  /\ line' = SubSeq(line, 1, i - 1) \o SubSeq(line, i + 1, Len(line))
  /\ UNCHANGED <<drct, allDev, store, poll, rpc, ring, stop, undef>>

Garble(i) ==
  /\ ~undef
  /\ Spend("garbled")
  /\ line' = [line EXCEPT ![i] = Garbled]
  /\ UNCHANGED <<drct, allDev, store, poll, rpc, ring, stop, undef>>

\* A frame nobody asked for now: a duplicate, or a late answer.
Unsolicited(q) ==
  /\ ~undef
  /\ Spend("extra")
  /\ Room
  /\ line' = Append(line, q)
  /\ UNCHANGED <<drct, allDev, store, poll, rpc, ring, stop, undef>>

-----------------------------------------------------------------------------
Cycle == CyclePoll \/ CycleGenerate \/ CycleSend \/ CycleExit

Respond ==
  \/ RespondPop \/ RespondSend \/ RespondAllAnswered
  \/ RespondLog \/ RespondWait \/ RespondExit

Calls ==
  \/ Stop \/ HeartbeatExit
  \/ \E d \in Device : AddDevice(d)
  \/ \E d \in Device, f \in Func : Write(d, f)

LinkFault ==
  \/ \E i \in 1..Len(line) : Lose(i)
  \/ \E i \in 1..Len(line) : Garble(i)
  \/ \E q \in Directive : Unsolicited(q)

Listen == \E k \in 0..Len(line) : Receive(k)

\* Nothing is said of what follows undefined behaviour: no action is enabled.
Next == Cycle \/ Respond \/ SpuriousWakeup \/ Calls \/ Listen \/ LinkFault

Spec == Init /\ [][Next]_vars

\* Threads run, the link delivers, and connect_serial adds every device.
Fairness ==
  /\ WF_vars(Cycle)
  /\ WF_vars(Respond)
  /\ WF_vars(HeartbeatExit)
  /\ WF_vars(\E k \in 1..Len(line) : Receive(k))
  /\ \A d \in Device : WF_vars(AddDevice(d))

FairSpec == Spec /\ Fairness

-----------------------------------------------------------------------------
(* Properties *)

(* Every variable has its type; no device is listed twice; the loops of    *)
(* thread_cycle stay inside the device list and the code table, even when  *)
(* devices are added while they run.                                       *)
TypeOK ==
  /\ drct \in Seq(Directive)
  /\ allDev \in Seq(Device)
  /\ \A i, k \in 1..Len(allDev) : allDev[i] = allDev[k] => i = k
  /\ rows \subseteq Device
  /\ val \in [Device -> [Monitored -> Func \cup {None}]]
  /\ fresh \in [Device -> SUBSET Monitored]
  /\ cyc \in {"sleep", "generate", "send", "off"}
  /\ sweep \in [n : 0..Len(allDev), i : Nat, j : 1..Len(Monitor)]
  /\ cyc = "generate" => sweep.i \in 1..sweep.n
  /\ rpc \in Busy \cup {"wait", "off"}
  /\ line \in Seq(Frame)
  /\ ring \in Seq(Frame)
  /\ stop \in {"no", "heartbeat", "respond", "cycle", "done"}
  /\ undef \in BOOLEAN
  /\ left \in [Fault -> Nat]

(* Neither thread ever calls front or pop_front on an empty list, although  *)
(* both test drct_.size() without the lock.                                *)
NoUndef == undef = FALSE

(* The link carries at most one exchange, and it is the one at the front   *)
(* of the list: RespondPop removes the directive that was answered, and a  *)
(* vacuum gauge's answer is decoded with its own function code.            *)
OneOutstanding ==
  /\ Len(line) + Len(ring) <= 1
  /\ line # <<>> => /\ drct # <<>>
                    /\ line[1] \in {Head(drct), Garbled}
                    /\ rpc \notin {"woken", "test"}

(* A field of data_ only ever holds a value that was read for that field.  *)
ReadingsRight ==
  \A d \in Device, c \in Monitored : val[d][c] \in {None, c}

(* When thread_respond logs, uploads and publishes, every field of every   *)
(* polled device has been read since the last report: a report never mixes *)
(* the readings of two sweeps.                                             *)
ReportComplete ==
  rpc = "log" => \A d \in rows : fresh[d] = Monitored

(* The list is a stretch of one sweep, in polling order, with nothing      *)
(* twice: thread_cycle never starts a sweep on top of another, however its *)
(* unlocked size test interleaves with thread_respond.                     *)
Follows(devs, q, r) ==
  \E i \in 1..Len(devs), j \in 1..Len(Monitor) :
    /\ q = Query(devs[i], j)
    /\ \/ j < Len(Monitor) /\ r = Query(devs[i], j + 1)
       \/ j = Len(Monitor) /\ i < Len(devs) /\ r = Query(devs[i + 1], 1)
ListIsOneSweep ==
  \A k \in 1..(Len(drct) - 1) : Follows(allDev, drct[k], drct[k + 1])

(* thread_cycle, thread_respond and serial_read together are a stop-and-   *)
(* wait sender: one directive asked at a time, oldest first, and pop_front *)
(* only ever removes the one whose answer woke thread_respond.             *)
StopWait == INSTANCE StopAndWait
  WITH Item <- Directive, Bad <- Garbled, queue <- drct, out <- line,
       answered <- (rpc = "woken")
StopsAndWaits == StopWait!Spec

(* What is not so. Every device is reported, complete, again and again.    *)
ReportedForever ==
  \A d \in Device : []<>(rpc = "log" /\ fresh[d] = Monitored)

(* That holds while nothing is lost or damaged, nobody writes and Stop is  *)
(* not called, when the answers come in time: no notification is missed in *)
(* any interleaving of the threads.                                        *)
ReportedUndisturbed == [](left = Budget) => ReportedForever

(* Stop ends: the threads reach an interruption point and are joined.      *)
StopEnds == stop = "heartbeat" ~> (stop = "done" \/ undef)

-----------------------------------------------------------------------------
(* The inductive strengthening of the properties that need the timing *)

InTime ==
  /\ Overlap = {}
  /\ DevicesFirst
  /\ Budget["extra"] = 0
  /\ Budget["spurious"] = 0

\* A token goes round: the cycle thread that fills the list, the exchange on
\* the link, the woken thread. At most one of them exists at a time.
TokenInv ==
  /\ left["extra"] = 0
  /\ left["spurious"] = 0
  /\ ring = <<>>
  /\ line # <<>> => cyc \in {"sleep", "off"} /\ rpc \in {"wait", "sent", "off"}
  /\ rpc = "woken" => drct # <<>>
  /\ cyc \in {"generate", "send"} => rpc \in {"wait", "off"}
  /\ cyc = "send" => drct # <<>>

Listed(d, c) == \E k \in 1..Len(drct) : drct[k] = [dev |-> d, fn |-> c]
Generated(i, j) == i < sweep.i \/ (i = sweep.i /\ j < sweep.j)

\* What thread_cycle has generated so far is in the list.
GenerateInv ==
  cyc = "generate" =>
    /\ rows = {allDev[i] : i \in 1..sweep.n}
    /\ \A i \in 1..sweep.n, j \in 1..Len(Monitor) :
         Generated(i, j) => Listed(allDev[i], Monitor[j])

\* While the token is out, a field of a polled device was read or is in the list.
PendingInv ==
  (cyc = "send" \/ line # <<>> \/ rpc \in {"woken", "test"}) =>
    \A d \in rows, c \in Monitored : c \in fresh[d] \/ Listed(d, c)

\* The directive RespondPop is about to remove has been answered.
AnsweredInv ==
  rpc = "woken" =>
    \A d \in rows, c \in Monitored :
      Head(drct) = [dev |-> d, fn |-> c] => c \in fresh[d]

CoverInv == GenerateInv /\ PendingInv /\ AnsweredInv /\ ReportComplete

InTimeInv == TokenInv /\ NoUndef /\ OneOutstanding /\ ReadingsRight /\ CoverInv

\* Without Write: the list is one sweep's stretch, and what comes next follows it.
SweepInv ==
  /\ left["write"] = 0
  /\ ListIsOneSweep
  /\ (cyc = "generate" /\ drct # <<>>) =>
       Follows(allDev, drct[Len(drct)], Query(allDev[sweep.i], sweep.j))
=============================================================================
