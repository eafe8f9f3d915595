------------------------------ MODULE Service ------------------------------
(***************************************************************************)
(* The life of the daemon, from main to exit: becoming a daemon, the lock  *)
(* of the pid file, the configuration, StartService and StopService. It may*)
(* be started twice at a time, killed anywhere and started again.          *)
(*                                                                         *)
(* What outlives a process is the configuration file and the name of the   *)
(* message queue; locks of files and open ports end with it. Messages that *)
(* report closed controllers are dropped (MessageQueue, run annex_codes),  *)
(* so they do not appear. Of the configuration, the group, the baud rates, *)
(* the server's address and the keys of NTP are left out: nothing below    *)
(* depends on them.                                                        *)
(*                                                                         *)
(* X_Variant, just before X, is X with a plausible slip; no specification  *)
(* uses it. It tells whether the properties notice the slip.               *)
(***************************************************************************)
EXTENDS Naturals, Sequences

CONSTANTS
  Proc,       \* the starts of the program that may overlap
  Files,      \* what the configuration file may hold at first
  MaxStarts,  \* bound on the starts of each
  Missing     \* a key that the file does not have; nobody

ASSUME MissingAssumption ==
  /\ Missing \notin Proc \cup (Proc \X (0..2))
  /\ Missing \notin Nat

\* What the readers of the file rely on: property_tree yields flags or no flags, and the
\* nodes of the coolers in a list.
ASSUME FilesAssumption ==
  \A file \in Files :
    /\ file.server \in BOOLEAN \cup {Missing}
    /\ file.enableDB \in BOOLEAN \cup {Missing}
    /\ Len(file.cooler) \in Nat

VARIABLES
  pc,       \* where each process is
  gen,      \* how often it has forked: the parents have exited
  pidlock,  \* the process, as of which fork, that holds the lock of the pid file
  xml,      \* the configuration file; Missing also when it cannot be parsed
  param,    \* param_
  name,     \* the process whose queue the queue's name means
  queue,    \* mq_ and thrdmsg_: none, running, told to quit, or the thread has ended
  tcp,      \* is tcp_ connected
  cctl,     \* the controllers, in the order of the configuration
  sig,      \* SIGTERM or SIGINT is in the pipe of the signal_set
  starts

vars == <<pc, gen, pidlock, xml, param, name, queue, tcp, cctl, sig, starts>>

Init ==
  /\ pc = [p \in Proc |-> "off"]
  /\ gen = [p \in Proc |-> 0]
  /\ pidlock = Missing
  /\ xml \in Files \cup {Missing}
  /\ param = [p \in Proc |-> Missing]
  /\ name = Missing
  /\ queue = [p \in Proc |-> "none"]
  /\ tcp = [p \in Proc |-> FALSE]
  /\ cctl = [p \in Proc |-> <<>>]
  /\ sig = [p \in Proc |-> FALSE]
  /\ starts = [p \in Proc |-> 0]

Go(p, place) == pc' = [pc EXCEPT ![p] = place]

\* The process is gone, and with it its memory, its threads and its locks.
Gone(p) ==
  /\ pc' = [pc EXCEPT ![p] = "off"]
  /\ gen' = [gen EXCEPT ![p] = 0]
  /\ pidlock' = IF pidlock = <<p, gen[p]>> THEN Missing ELSE pidlock
  /\ param' = [param EXCEPT ![p] = Missing]
  /\ queue' = [queue EXCEPT ![p] = "none"]
  /\ tcp' = [tcp EXCEPT ![p] = FALSE]
  /\ cctl' = [cctl EXCEPT ![p] = <<>>]
  /\ sig' = [sig EXCEPT ![p] = FALSE]

-----------------------------------------------------------------------------
(* main, up to the service *)

Then_LockFirst == [launch |-> "lock", lock |-> "fork", fork |-> "load"]
Then == [launch |-> "fork", fork |-> "lock", lock |-> "load"]

Launch(p) ==
  /\ pc[p] = "off" /\ starts[p] < MaxStarts
  /\ starts' = [starts EXCEPT ![p] = @ + 1]
  /\ Go(p, Then["launch"])
  /\ UNCHANGED <<gen, pidlock, xml, param, name, queue, tcp, cctl, sig>>

\* MakeItDaemon: two forks, each of whose parents exits, and /dev/null. A lock of a
\* file is not inherited. After the second fork notify_fork(fork_child) closes the pipe
\* of the signal_set, with what is in it, and opens another.
Fork(p) ==
  /\ pc[p] = "fork"
  /\ \/ /\ gen' = [gen EXCEPT ![p] = @ + 1]
        /\ pidlock' = IF pidlock = <<p, gen[p]>> THEN Missing ELSE pidlock
        /\ Go(p, IF gen[p] = 1 THEN Then["fork"] ELSE "fork")
        /\ sig' = [sig EXCEPT ![p] = @ /\ gen[p] = 0]
        /\ UNCHANGED <<param, queue, tcp, cctl>>
     \/ Gone(p)
  /\ UNCHANGED <<xml, name, starts>>

\* The lock, and then what may still fail on the pid file.
isProcSingleton(p) ==
  /\ pc[p] = "lock"
  /\ \/ /\ pidlock = Missing
        /\ pidlock' = <<p, gen[p]>>
        /\ Go(p, Then["lock"])
        /\ UNCHANGED <<gen, param, queue, tcp, cctl, sig>>
     \/ Gone(p)
  /\ UNCHANGED <<xml, name, starts>>

\* The handler that stops ios: it runs when ios does.
Signal(p) ==
  /\ pc[p] # "off"
  /\ sig' = [sig EXCEPT ![p] = TRUE]
  /\ UNCHANGED <<pc, gen, pidlock, xml, param, name, queue, tcp, cctl, starts>>

Kill(p) == pc[p] # "off" /\ Gone(p) /\ UNCHANGED <<xml, name, starts>>

-----------------------------------------------------------------------------
(* param_config *)

Get(key, default) == IF key = Missing THEN default ELSE key

\* A node of the file and what LoadFile makes of it. InitFile writes an ID as a character,
\* which does not read as a number: the reader then takes the default, as it does for
\* one that is missing.
Node(port, n, ids) == [port |-> port, n |-> n, ids |-> ids]
Annex_FromZero(x) ==
  [port |-> Get(x.port, "/dev/ttyS0"),
   idd |-> [i \in 1..Get(x.n, 1) |->
              IF i \in DOMAIN x.ids THEN x.ids[i] % 256 ELSE i - 1]]
Annex(x) ==
  [port |-> Get(x.port, "/dev/ttyS0"),
   idd |-> [i \in 1..Get(x.n, 1) |->
              IF i \in DOMAIN x.ids THEN x.ids[i] % 256 ELSE i]]
LoadFile(file) ==
  [server |-> Get(file.server, FALSE),
   enableDB |-> Get(file.enableDB, TRUE),
   urlDB |-> Get(file.urlDB, "http://172.28.8.8:8080/gwebend/"),
   cooler |-> [i \in 1..Len(file.cooler) |-> Annex(file.cooler[i])],
   vacuum |-> [i \in 1..Len(file.vacuum) |-> Annex(file.vacuum[i])]]

\* InitFile: what it writes, and what it leaves in memory. The third port goes to the
\* file, and in memory to the second device's variable, after it was copied.
InitFile ==
  [server |-> FALSE, enableDB |-> TRUE, urlDB |-> "http://172.28.8.8:8080/gwebend/",
   cooler |-> <<Node("/dev/ttyS0", 2, <<>>)>>,
   vacuum |-> <<Node("/dev/ttyS1", 1, <<>>), Node("/dev/ttyS2", 1, <<>>)>>]
InitParam ==
  [server |-> FALSE, enableDB |-> TRUE, urlDB |-> "http://172.28.8.8:8080/gwebend/",
   cooler |-> <<[port |-> "/dev/ttyS0", idd |-> <<1, 2>>]>>,
   vacuum |-> <<[port |-> "/dev/ttyS1", idd |-> <<1>>], [port |-> "", idd |-> <<1>>]>>]

\* The constructor of AnnexControl: LoadFile, or InitFile, which begins by truncating
\* the file and may not get to write it.
Load(p) ==
  /\ pc[p] = "load"
  /\ IF xml # Missing
       THEN param' = [param EXCEPT ![p] = LoadFile(xml)] /\ Go(p, "queue")
       ELSE param' = [param EXCEPT ![p] = InitParam] /\ Go(p, "write")
  /\ UNCHANGED <<gen, pidlock, xml, name, queue, tcp, cctl, sig, starts>>

WriteFile(p) ==
  /\ pc[p] = "write"
  /\ xml' = InitFile
  /\ Go(p, "queue")
  /\ UNCHANGED <<gen, pidlock, param, name, queue, tcp, cctl, sig, starts>>

-----------------------------------------------------------------------------
(* StartService *)

\* MessageQueue::Start: the name is removed, whoever has it, and a queue created.
StartQueue(p) ==
  /\ pc[p] = "queue"
  /\ \/ /\ name' = p
        /\ queue' = [queue EXCEPT ![p] = "running"]
        /\ Go(p, "server")
     \/ /\ name' = Missing
        /\ Go(p, "close")
        /\ UNCHANGED queue
  /\ UNCHANGED <<gen, pidlock, xml, param, tcp, cctl, sig, starts>>

\* TCPClient::Connect: what resolve throws, nobody catches.
Connect == {"connected", "refused", "thrown"}

\* connect_server(false).
ConnectServer(p) ==
  /\ pc[p] = "server"
  /\ \/ /\ ~param[p].server
        /\ Go(p, "ports")
        /\ UNCHANGED <<gen, pidlock, param, queue, tcp, cctl, sig>>
     \/ /\ param[p].server
        /\ \E outcome \in Connect :
             \/ outcome = "thrown" /\ Gone(p)
             \/ /\ outcome # "thrown"
                /\ tcp' = [tcp EXCEPT ![p] = (outcome = "connected")]
                /\ Go(p, IF outcome = "connected" THEN "ports" ELSE "stop")
                /\ UNCHANGED <<gen, pidlock, param, queue, cctl, sig>>
  /\ UNCHANGED <<xml, name, starts>>

\* Start of a controller, with its threads: it may fail to open its port, and does
\* when it has no name.
MayOpen == BOOLEAN
Start(port) == IF port = "" THEN {FALSE} ELSE MayOpen

\* connect_serial when it has started: CoupleNetwork with what tcp_ is, SetDatabase,
\* which takes an empty address for none (nobody asks enableDB), and AddDevice, which
\* leaves out what it has.
SetDatabase(url) == url # ""
Ids(annex) == {annex.idd[i] : i \in 1..Len(annex.idd)}
connect_serial(p, annex) ==
  [port |-> annex.port, devices |-> Ids(annex), coupled |-> tcp[p],
   database |-> SetDatabase(param[p].urlDB)]

ConnectCooler(p) ==
  /\ pc[p] = "ports"
  /\ LET n == Len(cctl[p])
         all == param[p].cooler
     IN  \/ /\ n = Len(all)
            /\ Go(p, "run")
            /\ UNCHANGED cctl
         \/ /\ n < Len(all)
            /\ \E opens \in Start(all[n + 1].port) :
                 \/ /\ opens
                    /\ cctl' = [cctl EXCEPT ![p] = Append(@, connect_serial(p, all[n + 1]))]
                    /\ UNCHANGED pc
                 \/ ~opens /\ Go(p, "stop") /\ UNCHANGED cctl
  /\ UNCHANGED <<gen, pidlock, xml, param, name, queue, tcp, sig, starts>>

-----------------------------------------------------------------------------
(* StopService, from main or, when the start failed, from the destructor *)

\* ios.run returns.
Run(p) ==
  /\ pc[p] = "run" /\ sig[p]
  /\ Go(p, "stop")
  /\ UNCHANGED <<gen, pidlock, xml, param, name, queue, tcp, cctl, sig, starts>>

\* Stop: SendMessage(MSG_QUIT), thread_message ends, join and reset.
Quit_NotSent(p) == UNCHANGED queue
Quit(p) == queue' = [queue EXCEPT ![p] = "quitting"]

StopSend(p) ==
  /\ pc[p] = "stop"
  /\ Quit(p)
  /\ Go(p, "join")
  /\ UNCHANGED <<gen, pidlock, xml, param, name, tcp, cctl, sig, starts>>

ThreadMessage(p) ==
  /\ queue[p] = "quitting"
  /\ queue' = [queue EXCEPT ![p] = "ended"]
  /\ UNCHANGED <<pc, gen, pidlock, xml, param, name, tcp, cctl, sig, starts>>

StopJoin(p) ==
  /\ pc[p] = "join"
  /\ queue[p] = "ended"
  /\ queue' = [queue EXCEPT ![p] = "none"]
  /\ Go(p, "close")
  /\ UNCHANGED <<gen, pidlock, xml, param, name, tcp, cctl, sig, starts>>

\* The destructor of AnnexControl: the controllers, each of which joins its threads, in
\* some order; then main returns. The name of the queue stays.
LeaveMain(p) ==
  /\ pc[p] = "close"
  /\ IF cctl[p] # <<>>
       THEN /\ cctl' = [cctl EXCEPT ![p] = SubSeq(@, 1, Len(@) - 1)]
            /\ UNCHANGED <<pc, gen, pidlock, param, queue, tcp, sig>>
       ELSE Gone(p)
  /\ UNCHANGED <<xml, name, starts>>

Step(p) ==
  \/ Fork(p) \/ isProcSingleton(p) \/ Load(p) \/ WriteFile(p)
  \/ StartQueue(p) \/ ConnectServer(p) \/ ConnectCooler(p)
  \/ Run(p) \/ StopSend(p) \/ ThreadMessage(p) \/ StopJoin(p) \/ LeaveMain(p)

Next == \E p \in Proc : Launch(p) \/ Step(p) \/ Signal(p) \/ Kill(p)

\* A process runs; nobody has to start, stop or kill one.
Spec == Init /\ [][Next]_vars /\ \A p \in Proc : WF_vars(Step(p))

-----------------------------------------------------------------------------
Serving == {"load", "write", "queue", "server", "ports", "run", "stop", "join", "close"}

TypeOK ==
  /\ pc \in [Proc -> {"off", "fork", "lock"} \cup Serving]
  /\ gen \in [Proc -> 0..2]
  /\ pidlock \in (Proc \X (0..2)) \cup {Missing}
  /\ name \in Proc \cup {Missing}
  /\ queue \in [Proc -> {"none", "running", "quitting", "ended"}]
  /\ tcp \in [Proc -> BOOLEAN]
  /\ sig \in [Proc -> BOOLEAN]

\* One process serves at a time, and the queue it has is the one its name means: no
\* start removes the queue of another or shares the ports and the file with it
\* (isProcSingleton, after MakeItDaemon; MessageQueue::Start).
OneService ==
  \A p \in Proc :
    /\ pc[p] \in Serving => \A q \in Proc : pc[q] \in Serving => q = p
    /\ queue[p] # "none" => name = p

\* A service that runs has a controller for every cooler of the configuration file, on
\* its port, with its devices and with the server's connection when there is to be one;
\* one that fails to start or stops leaves no queue behind (StartService, connect_cooler,
\* StopService). The file is that of this start, or what InitFile wrote: of the two, what
\* was read back and what InitFile left in memory, the coolers are the same.
ServesTheFile ==
  \A p \in Proc :
    /\ pc[p] = "run" =>
         LET file == LoadFile(xml)
         IN  /\ Len(cctl[p]) = Len(file.cooler)
             /\ \A i \in 1..Len(cctl[p]) :
                  /\ cctl[p][i].port = file.cooler[i].port
                  /\ cctl[p][i].devices = Ids(file.cooler[i])
                  /\ cctl[p][i].coupled = file.server
    /\ pc[p] \in {"off", "close"} => queue[p] = "none"

\* Once a signal has come to the daemon the process ends, whatever it was doing:
\* StopService does not wait for ever and the start does not outlast the signal. One
\* that comes before the forks are done is lost with the pipe (Fork).
SignalEnds == \A p \in Proc : sig[p] /\ pc[p] # "fork" ~> pc[p] = "off"

(* The inductive strengthening: who serves has forked twice and holds the lock. *)
LockInv ==
  /\ \A p \in Proc : pc[p] \in Serving => gen[p] = 2 /\ pidlock = <<p, 2>>
  /\ \A p \in Proc : pc[p] \in Serving \ {"load", "write", "queue"} \/ queue[p] = "none"
  /\ \A p \in Proc : pc[p] = "lock" => gen[p] = 2
  /\ \A p \in Proc : queue[p] # "none" => name = p
  /\ \A p \in Proc : pc[p] \in {"server", "ports", "run", "stop"} => name = p
=============================================================================
