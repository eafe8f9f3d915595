------------------------- MODULE MessageQueueProofs -------------------------
(***************************************************************************)
(* Proofs about MessageQueue: types, and who ends the thread.              *)
(***************************************************************************)
EXTENDS MessageQueue, SequenceTheorems, TLAPS

LEMMA OneMore ==
  ASSUME NEW a \in Nat, NEW b \in Nat, NEW c \in Nat, a + b < c
  PROVE  (a + 1) + b <= c /\ a + (b + 1) <= c
OBVIOUS

LEMMA OneLess ==
  ASSUME NEW a \in Nat, NEW b \in Nat, NEW c \in Nat, a + b <= c
  PROVE  (a - 1) + b <= c /\ a + (b - 1) <= c
OBVIOUS

LEMMA SendType ==
  ASSUME TypeOK, NEW r \in [code : Code, pri : Priority], send(r)
  PROVE  /\ mq' \in [Priority -> Seq(Message)]
         /\ Len(mq'[Low]) + Len(mq'[High]) <= Capacity
         /\ count' = count + 1 /\ count' \in Nat
<1> DEFINE m == [n |-> count, code |-> r.code, pri |-> r.pri]
<1> USE DEF TypeOK
<1>1. m \in Message
  BY DEF Message
<1>2. mq' = [mq EXCEPT ![r.pri] = Append(@, m)] /\ count' = count + 1
  BY DEF send
<1>3. r.pri \in Priority /\ mq[r.pri] \in Seq(Message)
  OBVIOUS
<1>4. Append(mq[r.pri], m) \in Seq(Message) /\ Len(Append(mq[r.pri], m)) = Len(mq[r.pri]) + 1
  BY <1>1, <1>3, AppendProperties
<1>5. mq' \in [Priority -> Seq(Message)]
  BY <1>2, <1>3, <1>4
<1>6. mq[Low] \in Seq(Message) /\ mq[High] \in Seq(Message)
  BY DEF Priority
<1>7. Len(mq[Low]) \in Nat /\ Len(mq[High]) \in Nat
  BY <1>6, LenProperties
<1>8. Len(mq[Low]) + Len(mq[High]) < Capacity
  BY DEF send, HasRoom
<1>9. count' = count + 1 /\ count' \in Nat
  BY <1>2
<1>10. CASE r.pri = Low
  <2>1. Len(mq'[Low]) = Len(mq[Low]) + 1 /\ mq'[High] = mq[High]
    BY <1>2, <1>4, <1>10 DEF Low, High, Priority
  <2>2. QED
    BY <1>5, <1>7, <1>8, <1>9, <2>1, OneMore, ConstantsAssumption
<1>11. CASE r.pri = High
  <2>1. Len(mq'[High]) = Len(mq[High]) + 1 /\ mq'[Low] = mq[Low]
    BY <1>2, <1>4, <1>11 DEF Low, High, Priority
  <2>2. QED
    BY <1>5, <1>7, <1>8, <1>9, <2>1, OneMore, ConstantsAssumption
<1>12. QED
  BY <1>3, <1>10, <1>11 DEF Priority

LEMMA ReceiveType ==
  ASSUME TypeOK, NEW p \in Priority, receive(p)
  PROVE  /\ mq' \in [Priority -> Seq(Message)]
         /\ Len(mq'[Low]) + Len(mq'[High]) <= Capacity
         /\ cur' \in Message
<1> USE DEF TypeOK
<1>1. mq[p] \in Seq(Message) /\ mq[p] # <<>> /\ mq' = [mq EXCEPT ![p] = Tail(mq[p])]
      /\ cur' = Head(mq[p])
  BY DEF receive
<1>2. Head(mq[p]) \in Message /\ Tail(mq[p]) \in Seq(Message)
      /\ Len(Tail(mq[p])) = Len(mq[p]) - 1 /\ cur' \in Message
  BY <1>1, HeadTailProperties
<1>3. mq' \in [Priority -> Seq(Message)]
  BY <1>1, <1>2
<1>4. mq[Low] \in Seq(Message) /\ mq[High] \in Seq(Message)
  BY DEF Priority
<1>5. Len(mq[Low]) \in Nat /\ Len(mq[High]) \in Nat
  BY <1>4, LenProperties
<1>6. Len(mq[Low]) + Len(mq[High]) <= Capacity
  OBVIOUS
<1>7. CASE p = Low
  <2>1. Len(mq'[Low]) = Len(mq[Low]) - 1 /\ mq'[High] = mq[High]
    BY <1>1, <1>2, <1>7 DEF Low, High, Priority
  <2>2. QED
    BY <1>2, <1>3, <1>5, <1>6, <2>1, OneLess, ConstantsAssumption
<1>8. CASE p = High
  <2>1. Len(mq'[High]) = Len(mq[High]) - 1 /\ mq'[Low] = mq[Low]
    BY <1>1, <1>2, <1>8 DEF Low, High, Priority
  <2>2. QED
    BY <1>2, <1>3, <1>5, <1>6, <2>1, OneLess, ConstantsAssumption
<1>9. QED
  BY <1>7, <1>8 DEF Priority

(* The queue never holds more than its capacity, whatever is posted, and no  *)
(* code outside the table gets a handler.                                    *)
THEOREM TypeCorrect == Spec => []TypeOK
<1>1. Init => TypeOK
  <2> SUFFICES ASSUME Init PROVE TypeOK
    OBVIOUS
  <2>1. <<>> \in Seq(Message) /\ Len(<<>>) = 0
    BY EmptySeq
  <2>2. mq \in [Priority -> Seq(Message)] /\ mq[Low] = <<>> /\ mq[High] = <<>>
    BY <2>1 DEF Init, Priority
  <2>3. Len(mq[Low]) + Len(mq[High]) <= Capacity
    BY <2>1, <2>2, ConstantsAssumption
  <2>4. QED
    BY <2>1, <2>2, <2>3 DEF Init, TypeOK
<1>2. TypeOK /\ [Next]_vars => TypeOK'
  <2> SUFFICES ASSUME TypeOK, [Next]_vars PROVE TypeOK'
    OBVIOUS
  <2> USE DEF TypeOK, service, thread
  <2>1. ASSUME NEW c \in Slot, RegisterMessage(c) PROVE TypeOK'
    BY <2>1 DEF RegisterMessage
  <2>2. CASE Start
    BY <2>2 DEF Start
  <2>3. CASE StopCall
    BY <2>3 DEF StopCall
  <2>4. CASE StopSend
    <3>1. [code |-> MSG_QUIT, pri |-> High] \in [code : Code, pri : Priority]
      BY DEF Code, Priority
    <3>2. /\ mq' \in [Priority -> Seq(Message)]
          /\ Len(mq'[Low]) + Len(mq'[High]) <= Capacity
          /\ count' \in Nat
      BY <2>4, <3>1, SendType DEF StopSend
    <3>3. QED
      BY <2>4, <3>2 DEF StopSend
  <2>5. CASE StopJoin
    BY <2>5 DEF StopJoin
  <2>6. CASE StopReset
    <3>1. <<>> \in Seq(Message) /\ Len(<<>>) = 0
      BY EmptySeq
    <3>2. mq' \in [Priority -> Seq(Message)] /\ mq'[Low] = <<>> /\ mq'[High] = <<>>
      BY <2>6, <3>1 DEF StopReset, Priority
    <3>3. Len(mq'[Low]) + Len(mq'[High]) <= Capacity
      BY <3>1, <3>2, ConstantsAssumption
    <3>4. QED
      BY <2>6, <3>2, <3>3 DEF StopReset
  <2>7. ASSUME NEW t \in Poster, NEW r \in Request, PostTest(t, r) PROVE TypeOK'
    BY <2>7 DEF PostTest
  <2>8. ASSUME NEW t \in Poster, PostSend(t) PROVE TypeOK'
    <3>1. posting[t] \in [code : Code, pri : Priority]
      BY <2>8 DEF PostSend, Request, Code
    <3>2. /\ mq' \in [Priority -> Seq(Message)]
          /\ Len(mq'[Low]) + Len(mq'[High]) <= Capacity
          /\ count' \in Nat
      BY <2>8, <3>1, SendType DEF PostSend
    <3>3. QED
      BY <2>8, <3>2 DEF PostSend
  <2>9. CASE Receive
    <3>1. PICK p \in Priority : receive(p)
      BY <2>9 DEF Receive, HighestFirst, Priority
    <3>2. /\ mq' \in [Priority -> Seq(Message)]
          /\ Len(mq'[Low]) + Len(mq'[High]) <= Capacity
          /\ cur' \in Message
      BY <3>1, ReceiveType
    <3>3. QED
      BY <2>9, <3>2, ConstantsAssumption DEF Receive
  <2>10. CASE Handle
    <3>1. cur \in Message
      BY <2>10 DEF Handle
    <3>2. handled' \in Seq(Message)
      BY <2>10, <3>1, AppendProperties DEF Handle
    <3>3. QED
      BY <2>10, <3>2 DEF Handle
  <2>11. CASE UNCHANGED vars
    BY <2>11 DEF vars
  <2>12. QED
    BY <2>1, <2>2, <2>3, <2>4, <2>5, <2>6, <2>7, <2>8, <2>9, <2>10, <2>11
       DEF Next, StartUp, Stop, Post, Dispatch
<1>3. QED
  BY <1>1, <1>2, PTL DEF Spec

-----------------------------------------------------------------------------
(* Who ends the thread *)

\* The queues after a message was sent: the same, and it.
LEMMA SendQueued ==
  ASSUME TypeOK, NEW r \in [code : Code, pri : Priority], send(r)
  PROVE  LET m == [n |-> count, code |-> r.code, pri |-> r.pri]
         IN  \A p \in Priority : \A x \in Queued(p)' : x \in Queued(p) \/ (x = m /\ p = r.pri)
<1> DEFINE m == [n |-> count, code |-> r.code, pri |-> r.pri]
<1> USE DEF TypeOK
<1>1. m \in Message /\ r.pri \in Priority
  BY DEF Message
<1>2. mq' = [mq EXCEPT ![r.pri] = Append(mq[r.pri], m)]
  BY DEF send
<1>3. mq[r.pri] \in Seq(Message) /\ Len(mq[r.pri]) \in Nat
  BY <1>1, LenProperties
<1> HIDE DEF m
<1>4. /\ mq'[r.pri] = Append(mq[r.pri], m)
      /\ \A p \in Priority : p # r.pri => mq'[p] = mq[p]
  BY <1>1, <1>2
<1>5. /\ Len(mq'[r.pri]) = Len(mq[r.pri]) + 1
      /\ mq'[r.pri][Len(mq[r.pri]) + 1] = m
      /\ \A i \in 1..Len(mq[r.pri]) : mq'[r.pri][i] = mq[r.pri][i]
  BY <1>1, <1>3, <1>4, AppendProperties
<1>6. \A p \in Priority : \A x \in Queued(p)' : x \in Queued(p) \/ (x = m /\ p = r.pri)
  <2> SUFFICES ASSUME NEW p \in Priority, NEW i \in 1..Len(mq'[p])
               PROVE  mq'[p][i] \in Queued(p) \/ (mq'[p][i] = m /\ p = r.pri)
    BY DEF Queued
  <2>1. CASE p # r.pri
    BY <1>4, <2>1 DEF Queued
  <2>2. CASE p = r.pri /\ i = Len(mq[r.pri]) + 1
    BY <1>5, <2>2
  <2>3. CASE p = r.pri /\ i # Len(mq[r.pri]) + 1
    <3>1. i \in 1..Len(mq[p])
      BY <1>3, <1>5, <2>3
    <3>2. QED
      BY <1>5, <2>3, <3>1 DEF Queued
  <2>4. QED
    BY <2>1, <2>2, <2>3
<1>7. QED
  BY <1>6 DEF m

\* The queues after a message was received: what was there, less that message.
LEMMA ReceiveQueued ==
  ASSUME TypeOK, NEW p \in Priority, receive(p)
  PROVE  /\ cur' \in Queued(p) /\ Received' = {cur'}
         /\ \A q \in Priority : Queued(q)' \subseteq Queued(q)
<1> USE DEF TypeOK
<1>1. /\ mq[p] \in Seq(Message) /\ mq[p] # <<>>
      /\ mq' = [mq EXCEPT ![p] = Tail(mq[p])]
      /\ cur' = Head(mq[p])
  BY DEF receive
<1>2. /\ Len(mq[p]) \in Nat \ {0}
      /\ Len(Tail(mq[p])) = Len(mq[p]) - 1
      /\ \A i \in 1..Len(Tail(mq[p])) : Tail(mq[p])[i] = mq[p][i + 1]
      /\ Head(mq[p]) = mq[p][1]
      /\ Head(mq[p]) \in Message
  BY <1>1, HeadTailProperties, LenProperties, EmptySeq
<1>3. mq'[p] = Tail(mq[p]) /\ \A q \in Priority : q # p => mq'[q] = mq[q]
  BY <1>1
<1>4. cur' \in Queued(p) /\ Received' = {cur'}
  <2>1. cur' \in Queued(p)
    BY <1>1, <1>2 DEF Queued
  <2>2. cur' # None
    BY <1>1, <1>2, ConstantsAssumption
  <2>3. QED
    BY <2>1, <2>2 DEF Received
<1>5. ASSUME NEW i \in 1..Len(mq'[p])
      PROVE  i + 1 \in 1..Len(mq[p]) /\ mq'[p][i] = mq[p][i + 1]
  BY <1>2, <1>3
<1>6. \A q \in Priority : Queued(q)' \subseteq Queued(q)
  <2> SUFFICES ASSUME NEW q \in Priority, NEW i \in 1..Len(mq'[q])
               PROVE  mq'[q][i] \in Queued(q)
    BY DEF Queued
  <2>1. CASE q # p
    BY <1>3, <2>1 DEF Queued
  <2>2. CASE q = p
    BY <1>5, <2>2 DEF Queued
  <2>3. QED
    BY <2>1, <2>2
<1>7. QED
  BY <1>4, <1>6

\* No code of the program's is MSG_QUIT's.
NoQuitPosted == MSG_QUIT \notin PostCode

StopBegun == main \in {"join", "reset", "stopped"}

(* Only Stop ends thread_message, unless a program posts the code MSG_QUIT,   *)
(* as the first of AnnexControl's codes is.                                   *)
THEOREM OnlyStopEnds == NoQuitPosted => (Spec => []EndsByStop)
<1> SUFFICES ASSUME NoQuitPosted PROVE Spec => []EndsByStop
  OBVIOUS
<1> DEFINE Held == Received \cup Queued(Low) \cup Queued(High)
<1>1. Init => QuitInv
  BY DEF Init, QuitInv, EndsByStop, Received, Queued, Priority, Low, High
<1>2. TypeOK /\ QuitInv /\ [Next]_vars => QuitInv'
  <2> SUFFICES ASSUME TypeOK, QuitInv, [Next]_vars PROVE QuitInv'
    OBVIOUS
  <2> USE DEF service, thread, TypeOK
  <2>1. CASE StopBegun'
    BY <2>1 DEF QuitInv, EndsByStop, StopBegun
  <2>2. CASE ~StopBegun'
    <3>1. ~StopBegun
      BY <2>2 DEF StopBegun, vars, Next, StartUp, StopCall, Stop, Post, Dispatch,
         RegisterMessage, Start, StopSend, StopJoin, StopReset, PostTest, PostSend,
         Receive, Handle
    <3>2. thr # "ended" /\ \A m \in Held : m.code # MSG_QUIT
      BY <3>1 DEF QuitInv, EndsByStop, StopBegun
    <3>3. ASSUME thr' # "ended", \A x \in Held' : x.code # MSG_QUIT
          PROVE  QuitInv'
      BY <3>3 DEF QuitInv, EndsByStop
    <3>4. Low \in Priority /\ High \in Priority
      BY DEF Priority
    <3>5. ASSUME NEW t \in Poster, PostSend(t) PROVE QuitInv'
      <4> DEFINE m == [n |-> count, code |-> posting[t].code, pri |-> posting[t].pri]
      <4>1. posting[t] \in [code : Code, pri : Priority] /\ posting[t].code \in PostCode
            /\ send(posting[t]) /\ UNCHANGED thread
        BY <3>5 DEF PostSend, Request, Code
      <4>2. m.code # MSG_QUIT
        BY <4>1 DEF NoQuitPosted
      <4>3. \A p \in Priority : \A x \in Queued(p)' : x \in Queued(p) \/ x = m
        BY <4>1, SendQueued
      <4> HIDE DEF m
      <4>4. \A x \in Held' : x.code # MSG_QUIT
        BY <3>2, <3>4, <4>1, <4>2, <4>3 DEF Received
      <4>5. QED
        BY <3>2, <3>3, <4>1, <4>4
    <3>6. CASE Receive
      <4>1. PICK p \in Priority : receive(p)
        BY <3>6 DEF Receive, HighestFirst, Priority
      <4>2. cur' \in Queued(p) /\ Received' = {cur'}
            /\ \A q \in Priority : Queued(q)' \subseteq Queued(q)
        BY <4>1, ReceiveQueued
      <4>3. \A x \in Held' : x.code # MSG_QUIT
        BY <3>2, <3>4, <4>2 DEF Priority
      <4>4. thr' = "handle"
        BY <3>6 DEF Receive
      <4>5. QED
        BY <3>3, <4>3, <4>4
    <3>7. CASE Handle
      <4>1. cur \in Message /\ cur # None /\ cur' = None /\ UNCHANGED mq
        BY <3>7 DEF Handle
      <4>2. cur.code # MSG_QUIT
        BY <3>2, <4>1 DEF Received
      <4>3. thr' = "receive"
        BY <3>7, <4>2 DEF Handle, Ends
      <4>4. Received' = {} /\ \A q \in Priority : Queued(q)' = Queued(q)
        BY <4>1 DEF Received, Queued
      <4>5. \A x \in Held' : x.code # MSG_QUIT
        BY <3>2, <3>4, <4>4
      <4>6. QED
        BY <3>3, <4>3, <4>5
    <3>8. ASSUME UNCHANGED <<mq, cur>>, thr' = thr \/ thr' = "receive" PROVE QuitInv'
      <4>1. Received' = Received /\ \A q \in Priority : Queued(q)' = Queued(q)
        BY <3>8 DEF Received, Queued
      <4>2. \A x \in Held' : x.code # MSG_QUIT
        BY <3>2, <3>4, <4>1
      <4>3. QED
        BY <3>2, <3>3, <3>8, <4>2
    <3>9. ~Stop
      BY <2>2, <3>1 DEF StopBegun, Stop, StopSend, StopJoin, StopReset
    <3>10. CASE StartUp \/ StopCall \/ UNCHANGED vars
      BY <3>8, <3>10 DEF StartUp, RegisterMessage, Start, StopCall, vars
    <3>11. ASSUME NEW t \in Poster, NEW r \in Request, PostTest(t, r) PROVE QuitInv'
      BY <3>8, <3>11 DEF PostTest
    <3>12. QED
      BY <3>5, <3>6, <3>7, <3>9, <3>10, <3>11 DEF Next, Post, Dispatch
  <2>3. QED
    BY <2>1, <2>2
<1>3. QED
  BY <1>1, <1>2, TypeCorrect, PTL DEF Spec, QuitInv
=============================================================================
