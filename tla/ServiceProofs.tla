--------------------------- MODULE ServiceProofs ---------------------------
(***************************************************************************)
(* Two results on the life of the daemon (Service). One process serves at  *)
(* a time: who serves has forked twice and holds the lock of the pid file  *)
(* since, and only who serves touches the name of the queue. And a service *)
(* that runs is the one the configuration file describes: the file, or the *)
(* defaults, were read under that lock, and nobody else writes the file.   *)
(***************************************************************************)
EXTENDS Service, TLAPS

\* What the proof needs of TypeOK, with LockInv.
LockType ==
  /\ pc \in [Proc -> {"off", "fork", "lock"} \cup Serving]
  /\ gen \in [Proc -> Nat]
  /\ queue \in [Proc -> {"none", "running", "quitting", "ended"}]

IInv == LockType /\ LockInv

LEMMA Initial == Init => IInv
  BY SMT DEF Init, IInv, LockType, LockInv, Serving

\* Only one process can serve.
LEMMA Alone ==
  ASSUME IInv, NEW p \in Proc, NEW q \in Proc, pc[p] \in Serving, pc[q] \in Serving
  PROVE  q = p
  BY DEF IInv, LockInv

\* A process that ends takes nothing from another.
LEMMA GoneStep ==
  ASSUME IInv, NEW p \in Proc, Gone(p), UNCHANGED name
  PROVE  IInv'
<1>1. /\ pc' = [pc EXCEPT ![p] = "off"] /\ gen' = [gen EXCEPT ![p] = 0]
      /\ queue' = [queue EXCEPT ![p] = "none"]
      /\ pidlock' = IF pidlock = <<p, gen[p]>> THEN Missing ELSE pidlock
  BY DEF Gone
<1>2. LockType'
  BY <1>1, SMT DEF IInv, LockType
<1>3. pc'[p] = "off" /\ queue'[p] = "none"
  BY <1>1 DEF IInv, LockType
<1>4. \A q \in Proc \ {p} : pc'[q] = pc[q] /\ gen'[q] = gen[q] /\ queue'[q] = queue[q]
  BY <1>1 DEF IInv, LockType
<1>5. ASSUME NEW q \in Proc \ {p}, pc[q] \in Serving
      PROVE  pidlock' = <<q, 2>>
  BY <1>1, <1>5 DEF IInv, LockInv
<1>6. LockInv'
  BY <1>3, <1>4, <1>5 DEF IInv, LockInv, Serving
<1>7. QED
  BY <1>2, <1>6 DEF IInv

\* A serving process goes on, and only it changes its queue and the queue's name.
LEMMA ServingStep ==
  ASSUME IInv, NEW p \in Proc, pc[p] \in Serving,
         NEW place \in Serving, pc' = [pc EXCEPT ![p] = place],
         NEW q \in {"none", "running", "quitting", "ended"},
         queue' = [queue EXCEPT ![p] = q],
         UNCHANGED <<gen, pidlock>>,
         place \in {"load", "write", "queue"} => q = "none",
         q # "none" => name' = p,
         place \in {"server", "ports", "run", "stop"} => name' = p
  PROVE  IInv'
<1>1. LockType'
  BY DEF IInv, LockType
<1>2. pc'[p] = place /\ queue'[p] = q
  BY DEF IInv, LockType
<1>3. \A r \in Proc \ {p} : pc'[r] = pc[r] /\ queue'[r] = queue[r]
  BY DEF IInv, LockType
<1>4. \A r \in Proc \ {p} : queue[r] = "none"
  BY Alone DEF IInv, LockInv
<1>5. LockInv'
  BY <1>2, <1>3, <1>4 DEF IInv, LockInv, Serving
<1>6. QED
  BY <1>1, <1>5 DEF IInv

LEMMA StartsKeep ==
  ASSUME IInv, NEW p \in Proc, Launch(p) \/ Fork(p) \/ isProcSingleton(p)
  PROVE  IInv'
<1>1. CASE Launch(p)
  BY <1>1, SMT DEF Launch, Go, Then, IInv, LockType, LockInv, Serving
<1>2. CASE Fork(p)
  <2>1. CASE Gone(p)
    BY <1>2, <2>1, GoneStep DEF Fork
  <2>2. CASE /\ gen' = [gen EXCEPT ![p] = @ + 1]
             /\ pidlock' = (IF pidlock = <<p, gen[p]>> THEN Missing ELSE pidlock)
             /\ Go(p, IF gen[p] = 1 THEN Then["fork"] ELSE "fork")
             /\ UNCHANGED queue
    <3>1. pc[p] = "fork" /\ name' = name /\ Then["fork"] = "lock"
      BY <1>2 DEF Fork, Then
    <3>2. LockType'
      BY <2>2, <3>1, SMT DEF Go, IInv, LockType
    <3>3. /\ gen'[p] = gen[p] + 1 /\ pc'[p] \in {"fork", "lock"}
          /\ pc'[p] = "lock" => gen[p] = 1
      BY <2>2, <3>1, SMT DEF Go, IInv, LockType
    <3>4. \A q \in Proc \ {p} : pc'[q] = pc[q] /\ gen'[q] = gen[q]
      BY <2>2 DEF Go, IInv, LockType
    <3>5. ASSUME NEW q \in Proc \ {p}, pc[q] \in Serving
          PROVE  pidlock' = <<q, 2>>
      BY <2>2, <3>5 DEF IInv, LockInv
    <3>6. pc'[p] = "lock" => gen'[p] = 2
      BY <3>3, SMT
    <3>7. queue[p] = "none"
      BY <3>1 DEF IInv, LockInv, Serving
    <3>8. LockInv'
      BY <2>2, <3>1, <3>3, <3>4, <3>5, <3>6, <3>7 DEF IInv, LockInv, Serving
    <3>9. QED
      BY <3>2, <3>8 DEF IInv
  <2>3. QED
    BY <1>2, <2>1, <2>2 DEF Fork
<1>3. CASE isProcSingleton(p)
  <2>1. CASE Gone(p)
    BY <1>3, <2>1, GoneStep DEF isProcSingleton
  <2>2. CASE pidlock = Missing /\ pidlock' = <<p, gen[p]>> /\ Go(p, Then["lock"])
             /\ UNCHANGED <<gen, queue>>
    <3>1. pc[p] = "lock" /\ name' = name /\ pc' = [pc EXCEPT ![p] = "load"]
      BY <1>3, <2>2 DEF isProcSingleton, Then, Go
    <3>2. \A q \in Proc : pc[q] \notin Serving
      BY <2>2, MissingAssumption DEF IInv, LockInv
    <3>3. gen[p] = 2
      BY <3>1 DEF IInv, LockInv
    <3>4. LockType'
      BY <2>2, <3>1 DEF IInv, LockType, Serving
    <3>5. pc'[p] = "load" /\ \A q \in Proc \ {p} : pc'[q] = pc[q]
      BY <3>1 DEF IInv, LockType
    <3>6. \A q \in Proc : queue[q] = "none"
      BY <3>2 DEF IInv, LockInv
    <3>7. LockInv'
      BY <2>2, <3>1, <3>2, <3>3, <3>5, <3>6 DEF IInv, LockInv, Serving
    <3>8. QED
      BY <3>4, <3>7 DEF IInv
  <2>3. QED
    BY <1>3, <2>1, <2>2 DEF isProcSingleton
<1>4. QED
  BY <1>1, <1>2, <1>3

\* The same for a step that leaves the queue as it is.
LEMMA PlaceStep ==
  ASSUME IInv, NEW p \in Proc, pc[p] \in Serving,
         NEW place \in Serving, pc' = [pc EXCEPT ![p] = place],
         UNCHANGED <<gen, pidlock, queue, name>>,
         place \in {"load", "write", "queue"} => pc[p] \in {"load", "write", "queue"},
         place \in {"server", "ports", "run", "stop"} => name = p
  PROVE  IInv'
<1>1. queue' = [queue EXCEPT ![p] = queue[p]]
      /\ queue[p] \in {"none", "running", "quitting", "ended"}
  BY DEF IInv, LockType
<1>2. queue[p] # "none" => name' = p
  BY DEF IInv, LockInv
<1>3. place \in {"load", "write", "queue"} => queue[p] = "none"
  BY DEF IInv, LockInv
<1>4. QED
  BY <1>1, <1>2, <1>3, ServingStep

LEMMA ServiceKeeps ==
  ASSUME IInv, NEW p \in Proc,
         \/ Load(p) \/ WriteFile(p) \/ StartQueue(p) \/ ConnectServer(p)
         \/ ConnectCooler(p) \/ Run(p) \/ StopSend(p) \/ ThreadMessage(p)
         \/ StopJoin(p) \/ LeaveMain(p)
  PROVE  IInv'
<1>1. CASE Load(p)
  <2>1. \E place \in {"queue", "write"} : pc' = [pc EXCEPT ![p] = place]
    BY <1>1 DEF Load, Go
  <2>2. QED
    BY <1>1, <2>1, PlaceStep DEF Load, Serving
<1>2. CASE WriteFile(p)
  BY <1>2, PlaceStep DEF WriteFile, Go, Serving
<1>3. CASE StartQueue(p)
  <2>1. CASE name' = p /\ queue' = [queue EXCEPT ![p] = "running"] /\ Go(p, "server")
    BY <1>3, <2>1, ServingStep DEF StartQueue, Go, Serving
  <2>2. CASE Go(p, "close") /\ UNCHANGED queue
    <3>1. queue' = [queue EXCEPT ![p] = "none"]
      BY <1>3, <2>2 DEF StartQueue, IInv, LockType, LockInv
    <3>2. QED
      BY <1>3, <2>2, <3>1, ServingStep DEF StartQueue, Go, Serving
  <2>3. QED
    BY <1>3, <2>1, <2>2 DEF StartQueue
<1>4. CASE ConnectServer(p)
  <2>1. CASE Gone(p)
    BY <1>4, <2>1, GoneStep DEF ConnectServer
  <2>2. CASE /\ \E place \in {"ports", "stop"} : pc' = [pc EXCEPT ![p] = place]
             /\ UNCHANGED <<gen, pidlock, queue>>
    <3>1. pc[p] = "server" /\ name = p /\ name' = name
      BY <1>4 DEF ConnectServer, IInv, LockInv
    <3>2. QED
      BY <2>2, <3>1, PlaceStep DEF Serving
  <2>3. QED
    BY <1>4, <2>1, <2>2 DEF ConnectServer, Go
<1>5. CASE ConnectCooler(p)
  <2>1. pc[p] = "ports" /\ UNCHANGED <<gen, pidlock, queue, name>> /\ name = p
    BY <1>5 DEF ConnectCooler, IInv, LockInv
  <2>2. \E place \in {"run", "ports", "stop"} : pc' = [pc EXCEPT ![p] = place]
    BY <1>5, <2>1 DEF ConnectCooler, Go, IInv, LockType
  <2>3. QED
    BY <2>1, <2>2, PlaceStep DEF Serving
<1>6. CASE Run(p)
  <2>1. pc[p] = "run" /\ name = p
    BY <1>6 DEF Run, IInv, LockInv
  <2>2. QED
    BY <1>6, <2>1, PlaceStep DEF Run, Go, Serving
<1>7. CASE StopSend(p)
  <2>1. pc[p] = "stop" /\ UNCHANGED <<gen, pidlock, name>> /\ pc' = [pc EXCEPT ![p] = "join"]
        /\ queue' = [queue EXCEPT ![p] = "quitting"]
    BY <1>7 DEF StopSend, Quit, Go
  <2>2. name = p
    BY <2>1 DEF IInv, LockInv
  <2>3. QED
    BY <2>1, <2>2, ServingStep DEF Serving
<1>8. CASE ThreadMessage(p)
  <2>1. /\ queue[p] = "quitting" /\ UNCHANGED <<pc, gen, pidlock, name>>
        /\ queue' = [queue EXCEPT ![p] = "ended"]
    BY <1>8 DEF ThreadMessage
  <2>2. /\ pc[p] \in Serving /\ pc[p] \notin {"load", "write", "queue"}
        /\ name = p /\ pc' = [pc EXCEPT ![p] = pc[p]]
    BY <2>1 DEF IInv, LockInv, LockType
  <2>3. QED
    BY <2>1, <2>2, ServingStep
<1>9. CASE StopJoin(p)
  BY <1>9, ServingStep DEF StopJoin, Go, Serving
<1>10. CASE LeaveMain(p)
  <2>1. CASE Gone(p)
    BY <1>10, <2>1, GoneStep DEF LeaveMain
  <2>2. CASE UNCHANGED <<pc, gen, pidlock, queue>>
    BY <1>10, <2>2 DEF LeaveMain, IInv, LockType, LockInv
  <2>3. QED
    BY <1>10, <2>1, <2>2 DEF LeaveMain
<1>11. QED
  BY <1>1, <1>2, <1>3, <1>4, <1>5, <1>6, <1>7, <1>8, <1>9, <1>10

LEMMA Inductive == IInv /\ [Next]_vars => IInv'
<1>1. SUFFICES ASSUME IInv, [Next]_vars
               PROVE  IInv'
  OBVIOUS
<1>2. ASSUME NEW p \in Proc, Signal(p) PROVE IInv'
  BY <1>1, <1>2 DEF Signal, IInv, LockType, LockInv
<1>3. ASSUME NEW p \in Proc, Kill(p) PROVE IInv'
  BY <1>1, <1>3, GoneStep DEF Kill
<1>4. CASE UNCHANGED vars
  BY <1>1, <1>4 DEF vars, IInv, LockType, LockInv
<1>5. QED
  BY <1>1, <1>2, <1>3, <1>4, StartsKeep, ServiceKeeps DEF Next, Step

\* At any time one process serves, and the queue it has is the one that the queue's name
\* means: for any number of starts, signals and kills.
THEOREM OneServes == Spec => []OneService
<1>1. IInv => OneService
  BY Alone DEF IInv, LockInv, OneService
<1>2. QED
  BY Initial, Inductive, <1>1, PTL DEF Spec
-----------------------------------------------------------------------------
(***************************************************************************)
(* That what serves is what the configuration file says. A service reads   *)
(* the file once, or writes it; no other start writes it meanwhile, as it  *)
(* does not hold the lock. What the service has in memory is then what the *)
(* file says, or the defaults in memory and the defaults in the file, which*)
(* agree in what a cooler's controller takes from them.                    *)
(***************************************************************************)

Known(p) ==
  /\ pc[p] = "write" => param[p] = InitParam
  /\ pc[p] \in {"queue", "server", "ports", "run"} =>
       \/ xml \in Files \cup {InitFile} /\ param[p] = LoadFile(xml)
       \/ xml = InitFile /\ param[p] = InitParam

\* Nothing is connected before its turn, then what the parameters say.
Untouched(p) ==
  pc[p] \in {"off", "fork", "lock", "load", "write", "queue", "server"} =>
    tcp[p] = FALSE /\ cctl[p] = <<>>

Opened(p, n) == cctl[p] = [i \in 1..n |-> connect_serial(p, param[p].cooler[i])]
Connected(p) ==
  /\ pc[p] \in {"ports", "run"} => tcp[p] = param[p].server
  /\ pc[p] = "ports" => \E n \in 0..Len(param[p].cooler) : Opened(p, n)
  /\ pc[p] = "run" => Opened(p, Len(param[p].cooler))

NoQueue(p) == pc[p] \in {"off", "close"} => queue[p] = "none"

FileOf(p) == Known(p) /\ Untouched(p) /\ Connected(p) /\ NoQueue(p)

FileInv ==
  /\ xml \in Files \cup {Missing, InitFile}
  /\ param = [p \in Proc |-> param[p]]
  /\ tcp = [p \in Proc |-> tcp[p]]
  /\ cctl = [p \in Proc |-> cctl[p]]
  /\ \A p \in Proc : FileOf(p)

\* A step that leaves what FileOf says of a process alone.
LEMMA OtherKeeps ==
  ASSUME NEW q \in Proc, FileOf(q),
         pc'[q] = pc[q], param'[q] = param[q], tcp'[q] = tcp[q], cctl'[q] = cctl[q],
         queue'[q] = queue[q],
         xml' = xml \/ pc[q] \notin Serving
  PROVE  FileOf(q)'
<1>1. Known(q)'
  BY DEF FileOf, Known, Serving
<1>2. Untouched(q)' /\ NoQueue(q)'
  BY DEF FileOf, Untouched, NoQueue
<1>3. \A a : connect_serial(q, a)' = connect_serial(q, a)
  BY DEF connect_serial
<1>4. \A n : Opened(q, n)' <=> Opened(q, n)
  BY DEF Opened, connect_serial
<1>5. Connected(q)'
  BY <1>4 DEF FileOf, Connected
<1>6. QED
  BY <1>1, <1>2, <1>5 DEF FileOf

\* A step of p that changes only what belongs to p, with p's part proved.
LEMMA OwnStep ==
  ASSUME IInv, FileInv, NEW p \in Proc, FileOf(p)',
         NEW a, pc' = [pc EXCEPT ![p] = a], NEW b, queue' = [queue EXCEPT ![p] = b],
         NEW c, param' = [param EXCEPT ![p] = c], NEW d, tcp' = [tcp EXCEPT ![p] = d],
         NEW e, cctl' = [cctl EXCEPT ![p] = e],
         xml' \in {xml, InitFile},
         xml' = xml \/ pc[p] \in Serving
  PROVE  FileInv'
<1>1. /\ param' = [q \in Proc |-> param'[q]]
      /\ tcp' = [q \in Proc |-> tcp'[q]]
      /\ cctl' = [q \in Proc |-> cctl'[q]]
  BY DEF FileInv
<1>2. ASSUME NEW q \in Proc \ {p}
      PROVE  FileOf(q)'
  <2>1. /\ pc'[q] = pc[q] /\ param'[q] = param[q] /\ tcp'[q] = tcp[q]
        /\ cctl'[q] = cctl[q] /\ queue'[q] = queue[q]
    BY DEF FileInv, IInv, LockType
  <2>2. xml' = xml \/ pc[q] \notin Serving
    BY Alone
  <2>3. QED
    BY <2>1, <2>2, OtherKeeps DEF FileInv
<1>3. QED
  BY <1>1, <1>2 DEF FileInv

LEMMA GoneFile ==
  ASSUME IInv, FileInv, NEW p \in Proc, Gone(p), UNCHANGED xml
  PROVE  FileInv'
<1>1. /\ pc' = [pc EXCEPT ![p] = "off"] /\ queue' = [queue EXCEPT ![p] = "none"]
      /\ param' = [param EXCEPT ![p] = Missing] /\ tcp' = [tcp EXCEPT ![p] = FALSE]
      /\ cctl' = [cctl EXCEPT ![p] = <<>>]
  BY DEF Gone
<1>2. pc'[p] = "off" /\ queue'[p] = "none" /\ tcp'[p] = FALSE /\ cctl'[p] = <<>>
  BY <1>1 DEF FileInv, IInv, LockType
<1>3. FileOf(p)'
  BY <1>2 DEF FileOf, Known, Untouched, Connected, NoQueue
<1>4. QED
  BY <1>1, <1>3, OwnStep

\* A step of p that only goes on to another place.
LEMMA PlaceFile ==
  ASSUME IInv, FileInv, NEW p \in Proc, NEW place, Go(p, place),
         UNCHANGED <<queue, param, tcp, cctl, xml>>, FileOf(p)'
  PROVE  FileInv'
<1>1. /\ queue' = [queue EXCEPT ![p] = queue[p]] /\ param' = [param EXCEPT ![p] = param[p]]
      /\ tcp' = [tcp EXCEPT ![p] = tcp[p]] /\ cctl' = [cctl EXCEPT ![p] = cctl[p]]
  BY DEF IInv, LockType, FileInv
<1>2. QED
  BY <1>1, OwnStep DEF Go

LEMMA InitialFile == Init => FileInv
  BY DEF Init, FileInv, FileOf, Known, Untouched, Connected, NoQueue

LEMMA StartsFile ==
  ASSUME IInv, FileInv, NEW p \in Proc, Launch(p) \/ Fork(p) \/ isProcSingleton(p)
  PROVE  FileInv'
<1>1. ASSUME NEW place \in {"fork", "lock", "load"}, Go(p, place),
             pc[p] \in {"off", "fork", "lock"},
             UNCHANGED <<queue, param, tcp, cctl, xml>>
      PROVE  FileInv'
  <2>1. pc'[p] = place
    BY <1>1 DEF Go, IInv, LockType
  <2>2. FileOf(p)'
    BY <1>1, <2>1 DEF FileInv, FileOf, Known, Untouched, Connected, NoQueue
  <2>3. QED
    BY <1>1, <2>2, PlaceFile
<1>2. CASE Launch(p)
  BY <1>1, <1>2 DEF Launch, Then
<1>3. CASE Fork(p)
  BY <1>1, <1>3, GoneFile DEF Fork, Then
<1>4. CASE isProcSingleton(p)
  BY <1>1, <1>4, GoneFile DEF isProcSingleton, Then
<1>5. QED
  BY <1>2, <1>3, <1>4

LEMMA LoadFileKeeps ==
  ASSUME IInv, FileInv, NEW p \in Proc, Load(p)
  PROVE  FileInv'
<1>1. /\ pc[p] = "load" /\ UNCHANGED <<xml, queue, tcp, cctl>>
      /\ tcp' = [tcp EXCEPT ![p] = tcp[p]] /\ cctl' = [cctl EXCEPT ![p] = cctl[p]]
      /\ queue' = [queue EXCEPT ![p] = queue[p]]
  BY DEF Load, FileInv, IInv, LockType
<1>2. CASE xml # Missing /\ param' = [param EXCEPT ![p] = LoadFile(xml)] /\ Go(p, "queue")
  <2>1. pc'[p] = "queue" /\ param'[p] = LoadFile(xml)
    BY <1>2 DEF Go, IInv, LockType, FileInv
  <2>2. Known(p)'
    BY <1>1, <1>2, <2>1 DEF Known, FileInv, LoadFile
  <2>3. FileOf(p)'
    BY <1>1, <2>1, <2>2 DEF FileInv, FileOf, Untouched, Connected, NoQueue
  <2>4. QED
    BY <1>1, <1>2, <2>3, OwnStep DEF Go
<1>3. CASE param' = [param EXCEPT ![p] = InitParam] /\ Go(p, "write")
  <2>1. pc'[p] = "write" /\ param'[p] = InitParam
    BY <1>3 DEF Go, IInv, LockType, FileInv
  <2>2. FileOf(p)'
    BY <1>1, <2>1 DEF FileInv, FileOf, Known, Untouched, Connected, NoQueue, InitParam
  <2>3. QED
    BY <1>1, <1>3, <2>2, OwnStep DEF Go
<1>4. QED
  BY <1>2, <1>3 DEF Load

LEMMA WriteFileKeeps ==
  ASSUME IInv, FileInv, NEW p \in Proc, WriteFile(p)
  PROVE  FileInv'
<1>1. /\ pc[p] = "write" /\ UNCHANGED <<param, queue, tcp, cctl>> /\ xml' = InitFile
      /\ tcp' = [tcp EXCEPT ![p] = tcp[p]] /\ cctl' = [cctl EXCEPT ![p] = cctl[p]]
      /\ queue' = [queue EXCEPT ![p] = queue[p]] /\ param' = [param EXCEPT ![p] = param[p]]
      /\ pc' = [pc EXCEPT ![p] = "queue"]
  BY DEF WriteFile, FileInv, IInv, LockType, Go
<1>2. pc'[p] = "queue" /\ param'[p] = InitParam
  BY <1>1 DEF IInv, LockType, FileInv, FileOf, Known
<1>3. FileOf(p)'
  BY <1>1, <1>2 DEF FileInv, FileOf, Known, Untouched, Connected, NoQueue, InitParam, InitFile
<1>4. QED
  BY <1>1, <1>3, OwnStep DEF Serving

LEMMA StartQueueFile ==
  ASSUME IInv, FileInv, NEW p \in Proc, StartQueue(p)
  PROVE  FileInv'
<1>1. /\ pc[p] = "queue" /\ UNCHANGED <<xml, param, tcp, cctl>>
      /\ tcp' = [tcp EXCEPT ![p] = tcp[p]] /\ cctl' = [cctl EXCEPT ![p] = cctl[p]]
      /\ param' = [param EXCEPT ![p] = param[p]]
  BY DEF StartQueue, FileInv
<1>2. CASE queue' = [queue EXCEPT ![p] = "running"] /\ Go(p, "server")
  <2>1. pc'[p] = "server"
    BY <1>2 DEF Go, IInv, LockType
  <2>2. FileOf(p)'
    BY <1>1, <2>1 DEF FileInv, FileOf, Known, Untouched, Connected, NoQueue
  <2>3. QED
    BY <1>1, <1>2, <2>2, OwnStep DEF Go
<1>3. CASE Go(p, "close") /\ UNCHANGED queue
  <2>1. pc'[p] = "close" /\ queue'[p] = "none"
    BY <1>1, <1>3 DEF Go, IInv, LockType, LockInv
  <2>2. FileOf(p)'
    BY <2>1 DEF FileOf, Known, Untouched, Connected, NoQueue
  <2>3. QED
    BY <1>1, <1>3, <2>2, PlaceFile
<1>4. QED
  BY <1>2, <1>3 DEF StartQueue

\* What InitFile leaves in memory is, for a cooler's controller, what it writes.
LEMMA Defaults ==
  /\ InitFile.server = FALSE /\ InitParam.server = FALSE
  /\ Len(InitFile.cooler) = 1 /\ Len(InitParam.cooler) = 1
<1>1. InitFile.server = FALSE
  BY Zenon DEF InitFile
<1>2. InitParam.server = FALSE
  BY Zenon DEF InitParam
<1>3. Len(InitFile.cooler) = 1
  BY DEF InitFile
<1>4. Len(InitParam.cooler) = 1
  BY DEF InitParam
<1>5. QED
  BY <1>1, <1>2, <1>3, <1>4

\* What the parameters are for ConnectServer: a flag that is a flag, a list of coolers.
LEMMA ParamType ==
  ASSUME FileInv, NEW p \in Proc, pc[p] \in {"queue", "server", "ports", "run"}
  PROVE  param[p].server \in BOOLEAN /\ Len(param[p].cooler) \in Nat
<1>1. CASE xml \in Files \cup {InitFile} /\ param[p] = LoadFile(xml)
  <2>1. xml.server \in BOOLEAN \cup {Missing} /\ Len(xml.cooler) \in Nat
    <3>1. CASE xml \in Files
      BY <3>1, FilesAssumption, Zenon
    <3>2. CASE xml = InitFile
      <4>1. Len(xml.cooler) \in Nat
        BY <3>2, Defaults
      <4>2. QED
        BY <3>2, <4>1, Defaults, Zenon
    <3>3. QED
      BY <1>1, <3>1, <3>2
  <2>2. param[p].server \in BOOLEAN
    <3>1. param[p].server = Get(xml.server, FALSE)
      BY <1>1 DEF LoadFile
    <3>2. QED
      BY <2>1, <3>1, Zenon DEF Get
  <2>3. param[p].cooler = [i \in 1..Len(xml.cooler) |-> Annex(xml.cooler[i])]
    BY <1>1 DEF LoadFile
  <2>4. Len(param[p].cooler) = Len(xml.cooler)
    BY <2>1, <2>3
  <2>5. QED
    BY <2>1, <2>2, <2>4
<1>2. CASE param[p] = InitParam
  <2>1. Len(param[p].cooler) \in Nat
    BY <1>2, Defaults
  <2>2. QED
    BY <1>2, <2>1, Defaults, Zenon
<1>3. QED
  BY <1>1, <1>2 DEF FileInv, FileOf, Known

LEMMA ConnectServerFile ==
  ASSUME IInv, FileInv, NEW p \in Proc, ConnectServer(p)
  PROVE  FileInv'
<1>1. pc[p] = "server" /\ UNCHANGED xml /\ param[p].server \in BOOLEAN
      /\ Len(param[p].cooler) \in Nat /\ tcp[p] = FALSE /\ cctl[p] = <<>>
  BY ParamType DEF ConnectServer, FileInv, FileOf, Untouched
<1>2. CASE Gone(p)
  BY <1>1, <1>2, GoneFile
<1>3. ASSUME NEW place \in {"ports", "stop"}, Go(p, place), UNCHANGED <<param, queue, cctl>>,
             NEW t, tcp' = [tcp EXCEPT ![p] = t], place = "ports" => t = param[p].server
      PROVE  FileInv'
  <2>1. pc'[p] = place /\ tcp'[p] = t
    BY <1>3 DEF Go, IInv, LockType, FileInv
  <2>2. Known(p)'
    BY <1>1, <1>3, <2>1 DEF Known, FileInv, FileOf
  <2>3. Opened(p, 0)'
    BY <1>1, <1>3 DEF Opened
  <2>4. Connected(p)'
    BY <1>1, <1>3, <2>1, <2>3 DEF Connected
  <2>5. FileOf(p)'
    BY <2>1, <2>2, <2>4 DEF FileOf, Untouched, NoQueue
  <2>6. /\ queue' = [queue EXCEPT ![p] = queue[p]] /\ param' = [param EXCEPT ![p] = param[p]]
        /\ cctl' = [cctl EXCEPT ![p] = cctl[p]]
    BY <1>3 DEF IInv, LockType, FileInv
  <2>7. QED
    BY <1>1, <1>3, <2>5, <2>6, OwnStep DEF Go
<1>4. CASE ~param[p].server /\ Go(p, "ports") /\ UNCHANGED <<param, queue, tcp, cctl>>
  <2>1. tcp' = [tcp EXCEPT ![p] = FALSE] /\ param[p].server = FALSE
    BY <1>1, <1>4 DEF FileInv
  <2>2. QED
    BY <1>3, <1>4, <2>1
<1>5. ASSUME NEW outcome \in Connect, param[p].server,
             tcp' = [tcp EXCEPT ![p] = (outcome = "connected")],
             Go(p, IF outcome = "connected" THEN "ports" ELSE "stop"),
             UNCHANGED <<param, queue, cctl>>
      PROVE  FileInv'
  <2>1. CASE outcome = "connected"
    <3>1. tcp' = [tcp EXCEPT ![p] = TRUE] /\ Go(p, "ports")
      BY <1>5, <2>1
    <3>2. QED
      BY <1>1, <1>3, <1>5, <3>1
  <2>2. CASE outcome # "connected"
    BY <1>3, <1>5, <2>2
  <2>3. QED
    BY <2>1, <2>2
<1>6. QED
  BY <1>2, <1>4, <1>5 DEF ConnectServer

LEMMA ConnectCoolerFile ==
  ASSUME IInv, FileInv, NEW p \in Proc, ConnectCooler(p)
  PROVE  FileInv'
<1> DEFINE all == param[p].cooler
           Controller(i) == connect_serial(p, all[i])
<1>1. pc[p] = "ports" /\ UNCHANGED <<xml, queue, param, tcp>> /\ Len(all) \in Nat
  BY ParamType DEF ConnectCooler
<1>2. /\ queue' = [queue EXCEPT ![p] = queue[p]] /\ param' = [param EXCEPT ![p] = param[p]]
      /\ tcp' = [tcp EXCEPT ![p] = tcp[p]] /\ pc' \in {pc} \cup {[pc EXCEPT ![p] = q] : q \in {"run", "stop"}}
      /\ UNCHANGED cctl => cctl' = [cctl EXCEPT ![p] = cctl[p]]
      /\ UNCHANGED pc => pc' = [pc EXCEPT ![p] = pc[p]]
  BY <1>1 DEF ConnectCooler, Go, FileInv, IInv, LockType
<1>3. PICK n \in 0..Len(all) : Opened(p, n)
  BY <1>1 DEF FileInv, FileOf, Connected
<1>4. cctl[p] = [i \in 1..n |-> Controller(i)]
  BY <1>3 DEF Opened
<1>5. Len(cctl[p]) = n
  BY <1>4
<1>6. param'[p] = param[p] /\ tcp'[p] = tcp[p] /\ queue'[p] = queue[p]
      /\ \A a : connect_serial(p, a)' = connect_serial(p, a)
  BY <1>1 DEF connect_serial
<1>7. Known(p)' \/ pc'[p] = "stop"
  BY <1>1, <1>2, <1>6 DEF Known, FileInv, FileOf, IInv, LockType
<1>8. CASE n = Len(all) /\ Go(p, "run") /\ UNCHANGED cctl
  <2>1. pc'[p] = "run"
    BY <1>8 DEF Go, IInv, LockType
  <2>2. Opened(p, Len(all))'
    BY <1>3, <1>6, <1>8 DEF Opened
  <2>3. Connected(p)'
    BY <1>1, <1>6, <2>1, <2>2 DEF Connected, FileInv, FileOf
  <2>4. FileOf(p)'
    BY <1>7, <2>1, <2>3 DEF FileOf, Untouched, NoQueue
  <2>5. QED
    BY <1>1, <1>2, <1>8, <2>4, OwnStep DEF Go
<1>9. CASE /\ n < Len(all) /\ UNCHANGED pc
           /\ cctl' = [cctl EXCEPT ![p] = Append(@, connect_serial(p, all[n + 1]))]
  <2>1. cctl'[p] = Append(cctl[p], Controller(n + 1))
    BY <1>9 DEF FileInv
  <2>2. cctl'[p] = [i \in 1..n + 1 |-> Controller(i)]
    <3>1. cctl[p] \in Seq({Controller(i) : i \in 1..n + 1})
      BY <1>3, <1>4
    <3>2. QED
      BY <1>3, <1>4, <1>5, <2>1, <3>1
  <2>3. Opened(p, n + 1)'
    BY <1>6, <2>2 DEF Opened
  <2>4. n + 1 \in 0..Len(param'[p].cooler)
    BY <1>1, <1>3, <1>6, <1>9
  <2>5. Connected(p)'
    BY <1>1, <1>6, <1>9, <2>3, <2>4 DEF Connected, FileInv, FileOf
  <2>6. FileOf(p)'
    BY <1>1, <1>7, <1>9, <2>5 DEF FileOf, Untouched, NoQueue
  <2>7. QED
    BY <1>1, <1>2, <1>9, <2>6, OwnStep
<1>10. CASE Go(p, "stop") /\ UNCHANGED cctl
  <2>1. pc'[p] = "stop"
    BY <1>10 DEF Go, IInv, LockType
  <2>2. FileOf(p)'
    BY <2>1 DEF FileOf, Known, Untouched, Connected, NoQueue
  <2>3. QED
    BY <1>1, <1>10, <2>2, PlaceFile
<1>11. QED
  BY <1>1, <1>5, <1>8, <1>9, <1>10 DEF ConnectCooler

LEMMA StopsFile ==
  ASSUME IInv, FileInv, NEW p \in Proc,
         Run(p) \/ StopSend(p) \/ ThreadMessage(p) \/ StopJoin(p) \/ LeaveMain(p)
  PROVE  FileInv'
<1>1. ASSUME NEW place \in {"stop", "join", "close"}, pc' = [pc EXCEPT ![p] = place],
             NEW q, queue' = [queue EXCEPT ![p] = q], place = "close" => q = "none",
             NEW c, cctl' = [cctl EXCEPT ![p] = c], UNCHANGED <<xml, param, tcp>>
      PROVE  FileInv'
  <2>1. pc'[p] = place /\ queue'[p] = q
    BY <1>1 DEF IInv, LockType
  <2>2. FileOf(p)'
    BY <1>1, <2>1 DEF FileOf, Known, Untouched, Connected, NoQueue
  <2>3. param' = [param EXCEPT ![p] = param[p]] /\ tcp' = [tcp EXCEPT ![p] = tcp[p]]
    BY <1>1 DEF FileInv
  <2>4. QED
    BY <1>1, <2>2, <2>3, OwnStep
<1>2. /\ UNCHANGED queue => queue' = [queue EXCEPT ![p] = queue[p]]
      /\ UNCHANGED cctl => cctl' = [cctl EXCEPT ![p] = cctl[p]]
      /\ UNCHANGED pc => pc' = [pc EXCEPT ![p] = pc[p]]
  BY DEF FileInv, IInv, LockType
<1>3. CASE Run(p)
  BY <1>1, <1>2, <1>3 DEF Run, Go
<1>4. CASE StopSend(p)
  BY <1>1, <1>2, <1>4 DEF StopSend, Quit, Go
<1>5. CASE StopJoin(p)
  BY <1>1, <1>2, <1>5 DEF StopJoin, Go
<1>6. CASE ThreadMessage(p)
  <2>1. /\ queue[p] = "quitting" /\ UNCHANGED <<pc, xml, param, tcp, cctl>>
        /\ queue' = [queue EXCEPT ![p] = "ended"]
    BY <1>6 DEF ThreadMessage
  <2>2. pc[p] \notin {"off", "close"}
    BY <2>1 DEF FileInv, FileOf, NoQueue
  <2>3. \A a : connect_serial(p, a)' = connect_serial(p, a)
    BY <2>1 DEF connect_serial
  <2>4. \A n : Opened(p, n)' <=> Opened(p, n)
    BY <2>1, <2>3 DEF Opened
  <2>5. FileOf(p)'
    BY <2>1, <2>2, <2>4 DEF FileInv, FileOf, Known, Untouched, Connected, NoQueue
  <2>6. param' = [param EXCEPT ![p] = param[p]] /\ tcp' = [tcp EXCEPT ![p] = tcp[p]]
    BY <2>1 DEF FileInv
  <2>7. QED
    BY <1>2, <2>1, <2>5, <2>6, OwnStep
<1>7. CASE LeaveMain(p)
  <2>1. CASE Gone(p)
    BY <1>7, <2>1, GoneFile DEF LeaveMain
  <2>2. CASE \E c : cctl' = [cctl EXCEPT ![p] = c] /\ UNCHANGED <<pc, param, queue, tcp>>
    <3>1. pc[p] = "close" /\ UNCHANGED xml /\ pc' = [pc EXCEPT ![p] = "close"]
          /\ queue' = [queue EXCEPT ![p] = "none"]
      BY <1>7, <2>2 DEF LeaveMain, FileInv, FileOf, NoQueue, IInv, LockType
    <3>2. QED
      BY <1>1, <2>2, <3>1
  <2>3. QED
    BY <1>7, <2>1, <2>2 DEF LeaveMain
<1>8. QED
  BY <1>3, <1>4, <1>5, <1>6, <1>7

LEMMA InductiveFile == IInv /\ FileInv /\ [Next]_vars => FileInv'
<1>1. SUFFICES ASSUME IInv, FileInv, [Next]_vars
               PROVE  FileInv'
  OBVIOUS
<1>2. ASSUME UNCHANGED <<pc, xml, param, queue, tcp, cctl>>
      PROVE  FileInv'
  <2>1. \A q \in Proc : FileOf(q)'
    BY <1>1, <1>2, OtherKeeps DEF FileInv
  <2>2. QED
    BY <1>1, <1>2, <2>1 DEF FileInv
<1>3. ASSUME NEW p \in Proc, Kill(p) PROVE FileInv'
  BY <1>1, <1>3, GoneFile DEF Kill
<1>4. CASE Next
  BY <1>1, <1>2, <1>3, <1>4, StartsFile, LoadFileKeeps, WriteFileKeeps, StartQueueFile,
     ConnectServerFile, ConnectCoolerFile, StopsFile DEF Next, Step, Signal
<1>5. QED
  BY <1>1, <1>2, <1>4 DEF vars

\* What a service takes from the file for a cooler, and what the defaults in memory say.
LEMMA DefaultsAgree ==
  /\ LoadFile(InitFile).server = InitParam.server
  /\ Len(LoadFile(InitFile).cooler) = Len(InitParam.cooler)
  /\ \A i \in 1..Len(InitParam.cooler) :
       /\ LoadFile(InitFile).cooler[i].port = InitParam.cooler[i].port
       /\ Ids(LoadFile(InitFile).cooler[i]) = Ids(InitParam.cooler[i])
<1> DEFINE node == Node("/dev/ttyS0", 2, <<>>)
<1>1. LoadFile(InitFile).server = InitParam.server
  <2>1. LoadFile(InitFile).server = Get(InitFile.server, FALSE)
    BY DEF LoadFile
  <2>2. QED
    BY <2>1, Defaults, Zenon DEF Get
<1>3. LoadFile(InitFile).cooler = [i \in 1..1 |-> Annex(node)]
  BY DEF LoadFile, InitFile
<1>4. Annex(node).port = "/dev/ttyS0"
  BY DEF Annex, Node, Get
<1>5. Annex(node).idd = [i \in 1..2 |-> i]
  BY MissingAssumption DEF Annex, Node, Get
<1>6. Ids(Annex(node)) = {1, 2}
  BY <1>5 DEF Ids
<1>7. InitParam.cooler = <<[port |-> "/dev/ttyS0", idd |-> <<1, 2>>]>>
  BY DEF InitParam
<1>8. Ids(InitParam.cooler[1]) = {1, 2} /\ InitParam.cooler[1].port = "/dev/ttyS0"
  BY <1>7 DEF Ids
<1>10. Len(InitParam.cooler) = 1 /\ Len(LoadFile(InitFile).cooler) = 1
  BY <1>3, Defaults
<1>11. LoadFile(InitFile).cooler[1] = Annex(node)
  BY <1>3
<1>12. ASSUME NEW i \in 1..Len(InitParam.cooler)
       PROVE  /\ LoadFile(InitFile).cooler[i].port = InitParam.cooler[i].port
              /\ Ids(LoadFile(InitFile).cooler[i]) = Ids(InitParam.cooler[i])
  <2>1. i = 1
    BY <1>10, <1>12
  <2>2. QED
    BY <2>1, <1>4, <1>6, <1>8, <1>11
<1>13. QED
  BY <1>1, <1>10, <1>12

\* A service that runs has for every cooler of the file a controller of its port with its
\* devices, coupled to the server as the file says, and a service that
\* has closed or could not start leaves no queue: whatever is in the file, however often
\* the program is started, stopped and killed, and also when the file was written by it.
THEOREM Served == Spec => []ServesTheFile
<1>1. ASSUME FileInv, NEW p \in Proc, pc[p] = "run", NEW file, file = LoadFile(xml)
      PROVE  /\ param[p].server = file.server
             /\ Len(param[p].cooler) = Len(file.cooler)
             /\ \A i \in 1..Len(param[p].cooler) :
                  /\ param[p].cooler[i].port = file.cooler[i].port
                  /\ Ids(param[p].cooler[i]) = Ids(file.cooler[i])
  <2>1. param[p] = LoadFile(xml) \/ (xml = InitFile /\ param[p] = InitParam)
    BY <1>1 DEF FileInv, FileOf, Known
  <2>2. QED
    BY <1>1, <2>1, DefaultsAgree
<1>2. ASSUME FileInv, NEW p \in Proc, pc[p] = "run", NEW file, file = LoadFile(xml)
      PROVE  /\ Len(cctl[p]) = Len(file.cooler)
             /\ \A i \in 1..Len(cctl[p]) :
                  /\ cctl[p][i].port = file.cooler[i].port
                  /\ cctl[p][i].devices = Ids(file.cooler[i])
                  /\ cctl[p][i].coupled = file.server
  <2>1. /\ cctl[p] = [i \in 1..Len(param[p].cooler) |-> connect_serial(p, param[p].cooler[i])]
        /\ tcp[p] = param[p].server /\ Len(param[p].cooler) \in Nat
    BY <1>2, ParamType DEF FileInv, FileOf, Connected, Opened
  <2>2. Len(cctl[p]) = Len(param[p].cooler)
    BY <2>1
  <2>3. ASSUME NEW i \in 1..Len(cctl[p])
        PROVE  /\ cctl[p][i].port = param[p].cooler[i].port
               /\ cctl[p][i].devices = Ids(param[p].cooler[i])
               /\ cctl[p][i].coupled = param[p].server
    BY <2>1, <2>2 DEF connect_serial
  <2>4. QED
    BY <1>1, <1>2, <2>2, <2>3
<1>3. FileInv => ServesTheFile
  BY <1>2 DEF ServesTheFile, FileInv, FileOf, NoQueue
<1>4. QED
  BY Initial, Inductive, InitialFile, InductiveFile, <1>3, PTL DEF Spec
=============================================================================
