---------------------------- MODULE MessageQueue ----------------------------
(***************************************************************************)
(* MessageQueue, the base of AnnexControl: codes are registered, threads   *)
(* post messages, thread_message hands each to its handler, Stop ends it.  *)
(*                                                                         *)
(* boost's message_queue delivers the highest priority first and is FIFO   *)
(* within one, which is a FIFO for each priority. A message carries its    *)
(* number in the order of acceptance and no parameters.                    *)
(*                                                                         *)
(* X_Variant, just before X, is X with a plausible slip; no specification   *)
(* uses it. It tells whether the properties below notice the slip.         *)
(***************************************************************************)
EXTENDS Naturals, Sequences

CONSTANTS
  Poster,       \* the threads that post
  Slot,         \* the codes for which RegisterMessage is called
  PostCode,     \* the codes that are posted
  MSG_USER,     \* the first code a program may use
  MQFUNC_SIZE,  \* how many codes have a handler
  Capacity,     \* how many messages the queue holds
  MaxPosts,     \* bound on the messages posted
  None          \* no message

MSG_QUIT == 0
Low == 1
High == 10
Priority == {Low, High}
Code == Slot \cup PostCode \cup {MSG_QUIT}
Request == [code : PostCode, pri : Priority]
Message == [n : Nat, code : Code, pri : Priority]

ASSUME ConstantsAssumption ==
  /\ Slot \subseteq Nat
  /\ PostCode \subseteq Nat
  /\ MSG_USER \in Nat \ {0}
  /\ MQFUNC_SIZE \in Nat
  /\ Capacity \in Nat \ {0}
  /\ MaxPosts \in Nat
  /\ None \notin Request \cup Message

VARIABLES
  main,     \* where the thread is that starts and stops the service
  asked,    \* the codes RegisterMessage was called for
  funcs,    \* the codes that have a handler
  exists,   \* mq_ is not null
  mq,       \* the messages in the queue, by priority
  count,    \* how many messages the queue has accepted
  posting,  \* what each poster is about to send, mq_.unique() having been true
  thr,      \* where thread_message is
  cur,      \* the message it has received
  handled,  \* the messages whose handler was called
  undef     \* a message was sent to a queue that no longer exists

vars == <<main, asked, funcs, exists, mq, count, posting, thr, cur, handled, undef>>
service == <<main, asked, funcs, exists>>
thread == <<thr, cur, handled>>

Init ==
  /\ main = "register"
  /\ asked = {}
  /\ funcs = {}
  /\ exists = FALSE
  /\ mq = [p \in Priority |-> <<>>]
  /\ count = 0
  /\ posting = [t \in Poster |-> None]
  /\ thr = "none"
  /\ cur = None
  /\ handled = <<>>
  /\ undef = FALSE

HasHandler_NotFirst(c) == MSG_USER < c /\ c < MSG_USER + MQFUNC_SIZE
HasHandler(c) == MSG_USER <= c /\ c < MSG_USER + MQFUNC_SIZE

HasRoom_Always == TRUE
HasRoom == Len(mq[Low]) + Len(mq[High]) < Capacity

\* mq_->send: waits for room, then queues behind its own priority.
send(r) ==
  /\ HasRoom
  /\ mq' = [mq EXCEPT ![r.pri] = Append(@, [n |-> count, code |-> r.code, pri |-> r.pri])]
  /\ count' = count + 1

-----------------------------------------------------------------------------
(* The thread that owns the service *)

RegisterMessage(c) ==
  /\ main = "register"
  /\ c \notin asked
  /\ asked' = asked \cup {c}
  /\ funcs' = IF HasHandler(c) THEN funcs \cup {c} ELSE funcs
  /\ UNCHANGED <<main, exists, mq, count, posting, thread, undef>>

Start ==
  /\ main = "register"
  /\ asked = Slot
  /\ main' = "running"
  /\ exists' = TRUE
  /\ thr' = "receive"
  /\ UNCHANGED <<asked, funcs, mq, count, posting, cur, handled, undef>>

\* Stop: SendMessage(MSG_QUIT), which may wait for room; join; mq_.reset.
StopCall ==
  /\ main = "running"
  /\ main' = "quit"
  /\ UNCHANGED <<asked, funcs, exists, mq, count, posting, thread, undef>>

StopSend ==
  /\ main = "quit"
  /\ send([code |-> MSG_QUIT, pri |-> High])
  /\ main' = "join"
  /\ UNCHANGED <<asked, funcs, exists, posting, thread, undef>>

StopJoin ==
  /\ main = "join"
  /\ thr = "ended"
  /\ main' = "reset"
  /\ UNCHANGED <<asked, funcs, exists, mq, count, posting, thread, undef>>

\* A thread inside send, or about to enter it, is left with a dead queue.
StopReset ==
  /\ main = "reset"
  /\ main' = "stopped"
  /\ exists' = FALSE
  /\ mq' = [p \in Priority |-> <<>>]
  /\ undef' = \E t \in Poster : posting[t] # None
  /\ UNCHANGED <<asked, funcs, count, posting, thread>>

-----------------------------------------------------------------------------
(* Any other thread *)

\* PostMessage and SendMessage up to mq_.unique(). Without a queue they return.
PostTest(t, r) ==
  /\ ~undef
  /\ exists
  /\ posting[t] = None
  /\ count < MaxPosts
  /\ posting' = [posting EXCEPT ![t] = r]
  /\ UNCHANGED <<service, mq, count, thread, undef>>

PostSend(t) ==
  /\ ~undef
  /\ posting[t] # None
  /\ send(posting[t])
  /\ posting' = [posting EXCEPT ![t] = None]
  /\ UNCHANGED <<service, thread, undef>>

-----------------------------------------------------------------------------
(* thread_message *)

receive(p) ==
  /\ mq[p] # <<>>
  /\ cur' = Head(mq[p])
  /\ mq' = [mq EXCEPT ![p] = Tail(@)]

HighestFirst == \/ receive(High)
                \/ mq[High] = <<>> /\ receive(Low)

Receive ==
  /\ thr = "receive"
  /\ HighestFirst
  /\ thr' = "handle"
  /\ UNCHANGED <<service, count, posting, handled, undef>>

Ends_AfterAny == TRUE
Ends == cur.code = MSG_QUIT

Handle ==
  /\ thr = "handle"
  /\ handled' = IF cur.code \in funcs THEN Append(handled, cur) ELSE handled
  /\ \/ Ends /\ thr' = "ended"
     \/ ~Ends /\ thr' = "receive"
  /\ cur' = None
  /\ UNCHANGED <<service, mq, count, posting, undef>>

-----------------------------------------------------------------------------
Stop == StopSend \/ StopJoin \/ StopReset
StartUp == Start \/ \E c \in Slot : RegisterMessage(c)
Post == \E t \in Poster : PostSend(t) \/ \E r \in Request : PostTest(t, r)
Dispatch == Receive \/ Handle

Next == StartUp \/ StopCall \/ Stop \/ Post \/ Dispatch

Spec == Init /\ [][Next]_vars

\* Every thread runs; whether and when the service is stopped is open, but a Stop
\* that has begun goes on.
FairSpec ==
  /\ Spec
  /\ WF_vars(StartUp)
  /\ WF_vars(Dispatch)
  /\ WF_vars(Stop)
  /\ \A t \in Poster : WF_vars(PostSend(t))

-----------------------------------------------------------------------------
(* Properties *)

(* The queue never holds more than its capacity, and a handler is only     *)
(* called for a code that has one.                                         *)
TypeOK ==
  /\ main \in {"register", "running", "quit", "join", "reset", "stopped"}
  /\ asked \subseteq Slot
  /\ funcs \subseteq {c \in Slot : HasHandler(c)}
  /\ exists \in BOOLEAN
  /\ mq \in [Priority -> Seq(Message)]
  /\ Len(mq[Low]) + Len(mq[High]) <= Capacity
  /\ count \in Nat
  /\ posting \in [Poster -> Request \cup {None}]
  /\ thr \in {"none", "receive", "handle", "ended"}
  /\ cur \in Message \cup {None}
  /\ cur # None <=> thr = "handle"
  /\ main = "register" => thr = "none"
  /\ handled \in Seq(Message)
  /\ undef \in BOOLEAN

(* A message posted for a code with a handler that RegisterMessage was     *)
(* given is handled, unless the service is being stopped: MSG_QUIT has a   *)
(* high priority and overtakes what was posted before it.                  *)
PostedIsHandled ==
  \A n \in 0..(MaxPosts - 1), p \in Priority :
    (\E i \in 1..Len(mq[p]) : mq[p][i].n = n /\ mq[p][i].code \in asked)
      ~> (main # "running" \/ \E i \in 1..Len(handled) : handled[i].n = n)

(* Stop returns, even from a full queue and with threads that still post.  *)
StopEnds == main = "quit" ~> main = "stopped"

(* Only Stop ends the thread, and after it no handler is called.           *)
EndsByStop == thr = "ended" => main \in {"join", "reset", "stopped"}

-----------------------------------------------------------------------------
(* Inductive strengthening *)

\* What is queued, and what has been received.
Queued(p) == {mq[p][i] : i \in 1..Len(mq[p])}
Received == IF cur = None THEN {} ELSE {cur}

\* MSG_QUIT comes from Stop alone.
QuitInv ==
  /\ \A m \in Received \cup Queued(Low) \cup Queued(High) :
       m.code = MSG_QUIT => main \in {"join", "reset", "stopped"}
  /\ EndsByStop
=============================================================================
