-------------------------- MODULE ControllerProofs --------------------------
(* Proofs about Controller, for every set of devices, code table and budget. *)
EXTENDS Controller, SequenceTheorems, TLAPS

(* A spent budget is still a budget.                                         *)
LEMMA SpendType ==
  ASSUME left \in [Fault -> Nat], NEW k \in Fault, Spend(k)
  PROVE  left' \in [Fault -> Nat]
BY DEF Spend

(* first_send puts a directive on the link, or nothing, or is undefined.     *)
LEMMA SendType ==
  ASSUME drct \in Seq(Directive), line \in Seq(Frame), undef \in BOOLEAN,
         left \in [Fault -> Nat], first_send
  PROVE  line' \in Seq(Frame) /\ undef' \in BOOLEAN /\ left' \in [Fault -> Nat]
<1>1. CASE drct = <<>> /\ undef' = TRUE /\ UNCHANGED <<line, left>>
  BY <1>1
<1>2. CASE drct # <<>> /\ line' = Append(line, Head(drct)) /\ UNCHANGED <<undef, left>>
  <2>1. Head(drct) \in Directive
    BY <1>2
  <2>2. QED
    BY <1>2, <2>1 DEF Frame
<1>3. CASE Spend("closed") /\ UNCHANGED <<line, undef>>
  BY <1>3, SpendType DEF Fault
<1>4. QED
  BY <1>1, <1>2, <1>3 DEF first_send, Front

(* decode_data stores, if anything, a function code under a polled code.     *)
LEMMA DecodeType ==
  ASSUME val \in [Device -> [Monitored -> Func \cup {None}]],
         fresh \in [Device -> SUBSET Monitored],
         NEW f \in Directive, decode_data(f)
  PROVE  /\ val' \in [Device -> [Monitored -> Func \cup {None}]]
         /\ fresh' \in [Device -> SUBSET Monitored]
<1>1. f.dev \in Device /\ f.fn \in Func
  BY DEF Directive
<1>2. CASE UNCHANGED <<val, fresh>>
  BY <1>2
<1>3. ASSUME NEW c \in Monitored,
             val' = [val EXCEPT ![f.dev] = [@ EXCEPT ![c] = f.fn]],
             fresh' = [fresh EXCEPT ![f.dev] = @ \cup {c}]
      PROVE  /\ val' \in [Device -> [Monitored -> Func \cup {None}]]
             /\ fresh' \in [Device -> SUBSET Monitored]
  <2>1. [val[f.dev] EXCEPT ![c] = f.fn] \in [Monitored -> Func \cup {None}]
    BY <1>1
  <2>2. fresh[f.dev] \cup {c} \in SUBSET Monitored
    BY <1>1
  <2>3. QED
    BY <1>1, <1>3, <2>1, <2>2
<1>4. QED
  BY <1>2, <1>3 DEF decode_data, set_field

(* TypeOK is inductive: no action leaves the types, and the loops of         *)
(* thread_cycle index inside allDev and Monitor although AddDevice may run   *)
(* between any two of their steps.                                           *)
THEOREM TypeCorrect == Spec => []TypeOK
<1>1. Init => TypeOK
  <2> SUFFICES ASSUME Init PROVE TypeOK
    OBVIOUS
  <2>1. sweep \in [n : 0..Len(allDev), i : Nat, j : 1..Len(Monitor)]
    BY ConstantsAssumption DEF Init, NoSweep, At
  <2>2. left \in [Fault -> Nat]
    BY ConstantsAssumption DEF Init
  <2>3. val \in [Device -> [Monitored -> Func \cup {None}]]
    BY DEF Init
  <2>4. fresh \in [Device -> SUBSET Monitored]
    BY DEF Init
  <2>5. drct \in Seq(Directive) /\ allDev \in Seq(Device)
        /\ line \in Seq(Frame) /\ ring \in Seq(Frame)
    BY EmptySeq DEF Init
  <2>6. \A i, k \in 1..Len(allDev) : allDev[i] = allDev[k] => i = k
    BY DEF Init
  <2>7. QED
    BY <2>1, <2>2, <2>3, <2>4, <2>5, <2>6 DEF Init, TypeOK
<1>2. TypeOK /\ [Next]_vars => TypeOK'
  <2> SUFFICES ASSUME TypeOK, [Next]_vars
               PROVE TypeOK'
    OBVIOUS
  <2> USE ConstantsAssumption DEF TypeOK, store, poll, link, Busy, Frame
  <2>1. CASE CyclePoll
    BY <2>1 DEF CyclePoll, StartSweep, At, NothingPending
  <2>2. CASE CycleGenerate
    <3>1. Query(allDev[sweep.i], sweep.j) \in Directive
      BY <2>2 DEF CycleGenerate, Query, Directive
    <3>2. drct' \in Seq(Directive)
      BY <2>2, <3>1 DEF CycleGenerate
    <3>3. sweep' \in [n : 0..Len(allDev), i : Nat, j : 1..Len(Monitor)]
      BY <2>2 DEF CycleGenerate, LastCode, LastDevice, NoSweep, At
    <3>4. cyc' = "generate" => sweep'.i \in 1..sweep'.n
      BY <2>2 DEF CycleGenerate, LastCode, LastDevice, NoSweep, At
    <3>5. QED
      BY <2>2, <3>2, <3>3, <3>4 DEF CycleGenerate
  <2>3. CASE CycleSend
    BY <2>3, SendType DEF CycleSend
  <2>4. CASE CycleExit
    BY <2>4 DEF CycleExit
  <2>5. CASE RespondPop
    <3>1. drct' \in Seq(Directive) /\ undef' \in BOOLEAN
      <4>1. CASE drct = <<>>
        BY <2>5, <4>1 DEF RespondPop, remove_directive
      <4>2. CASE drct # <<>>
        <5>1. drct' = Tail(drct) /\ undef' = undef
          BY <2>5, <4>2 DEF RespondPop, remove_directive
        <5>2. Tail(drct) \in Seq(Directive)
          BY <4>2, HeadTailProperties
        <5>3. QED
          BY <5>1, <5>2
      <4>3. QED
        BY <4>1, <4>2
    <3>2. QED
      BY <2>5, <3>1 DEF RespondPop
  <2>6. CASE RespondSend
    BY <2>6, SendType DEF RespondSend
  <2>7. CASE RespondAllAnswered \/ RespondWait \/ RespondExit
    BY <2>7 DEF RespondAllAnswered, RespondWait, RespondExit
  <2>8. CASE RespondLog
    BY <2>8 DEF RespondLog
  <2>9. CASE SpuriousWakeup
    <3>1. left' \in [Fault -> Nat]
      BY <2>9, SpendType DEF SpuriousWakeup, Fault
    <3>2. QED
      BY <2>9, <3>1 DEF SpuriousWakeup
  <2>10. CASE Stop
    <3>1. left' \in [Fault -> Nat]
      BY <2>10, SpendType DEF Stop, Fault
    <3>2. QED
      BY <2>10, <3>1 DEF Stop
  <2>18. CASE HeartbeatExit
    BY <2>18 DEF HeartbeatExit
  <2>11. ASSUME NEW d \in Device, AddDevice(d)
         PROVE TypeOK'
    BY <2>11 DEF AddDevice, Known
  <2>12. ASSUME NEW d \in Device, NEW f \in Func, Write(d, f)
         PROVE TypeOK'
    <3>1. left' \in [Fault -> Nat]
      BY <2>12, SpendType DEF Write, Fault
    <3>2. [dev |-> d, fn |-> f] \in Directive
      BY DEF Directive
    <3>3. QED
      BY <2>12, <3>1, <3>2 DEF Write
  <2>13. ASSUME NEW k \in 0..Len(line), Receive(k)
         PROVE TypeOK'
    <3> DEFINE got == ring \o SubSeq(line, 1, k)
    <3>1. line' \in Seq(Frame) /\ got \in Seq(Frame) /\ got # <<>>
      <4>1. line' \in Seq(Frame)
        BY <2>13, SubSeqProperties, ElementOfSeq DEF Receive
      <4>2. SubSeq(line, 1, k) \in Seq(Frame)
        BY SubSeqProperties, ElementOfSeq
      <4>3. QED
        BY <2>13, <4>1, <4>2, ConcatProperties DEF Receive
    <3>2. ring' = Tail(got) /\ ring' \in Seq(Frame)
      <4>1. ring' = Tail(got)
        BY <2>13 DEF Receive
      <4>2. QED
        BY <3>1, <4>1, HeadTailProperties
    <3>3. CASE UNCHANGED <<val, fresh, rpc, undef>>
      BY <2>13, <3>1, <3>2, <3>3 DEF Receive
    <3>4. ASSUME Head(got) # Garbled, decode_data(Head(got)), notify_one
          PROVE  TypeOK'
      <4>1. Head(got) \in Directive
        BY <3>1, <3>4
      <4>2. undef' \in BOOLEAN
        BY <3>4 DEF decode_data, set_field
      <4>3. rpc' \in Busy \cup {"wait", "off"}
        BY <3>4 DEF notify_one
      <4>4. val' \in [Device -> [Monitored -> Func \cup {None}]]
            /\ fresh' \in [Device -> SUBSET Monitored]
        BY <3>4, <4>1, DecodeType
      <4>5. QED
        BY <2>13, <3>1, <3>2, <4>2, <4>3, <4>4 DEF Receive
    <3>5. QED
      BY <2>13, <3>3, <3>4 DEF Receive
  <2>14. ASSUME NEW i \in 1..Len(line), Lose(i) \/ Garble(i)
         PROVE TypeOK'
    <3>1. left' \in [Fault -> Nat]
      BY <2>14, SpendType DEF Lose, Garble, Fault
    <3>2. line' \in Seq(Frame)
      <4>1. SubSeq(line, 1, i - 1) \in Seq(Frame)
        BY SubSeqProperties, ElementOfSeq
      <4>2. SubSeq(line, i + 1, Len(line)) \in Seq(Frame)
        BY SubSeqProperties, ElementOfSeq
      <4>3. Garbled \in Frame
        OBVIOUS
      <4>4. QED
        <5>1. CASE Lose(i)
          BY <5>1, <4>1, <4>2, ConcatProperties DEF Lose
        <5>2. CASE Garble(i)
          BY <5>2, <4>3, ExceptSeq DEF Garble
        <5>3. QED
          BY <2>14, <5>1, <5>2
    <3>3. QED
      BY <2>14, <3>1, <3>2 DEF Lose, Garble
  <2>15. ASSUME NEW q \in Directive, Unsolicited(q)
         PROVE TypeOK'
    <3>1. left' \in [Fault -> Nat]
      BY <2>15, SpendType DEF Unsolicited, Fault
    <3>2. QED
      BY <2>15, <3>1 DEF Unsolicited
  <2>16. CASE UNCHANGED vars
    BY <2>16 DEF vars
  <2>17. QED
    BY <2>1, <2>2, <2>3, <2>4, <2>5, <2>6, <2>7, <2>8, <2>9, <2>10, <2>11, <2>12,
       <2>13, <2>14, <2>15, <2>16, <2>18
       DEF Next, Cycle, Respond, Calls, Listen, LinkFault
<1>3. QED
  BY <1>1, <1>2, PTL DEF Spec

-----------------------------------------------------------------------------
(* The properties that need the timing *)

TokenPart == TokenInv /\ NoUndef /\ OneOutstanding /\ ReadingsRight

(* A link in use carries exactly one exchange.                               *)
LEMMA OneExchange ==
  ASSUME TypeOK, TokenPart, line # <<>>
  PROVE  Len(line) = 1
<1> USE DEF TypeOK, TokenPart, OneOutstanding
<1>1. Len(line) \in Nat /\ Len(line) # 0
  BY EmptySeq
<1>2. Len(ring) \in Nat
  BY LenProperties
<1>3. Len(line) + Len(ring) <= 1
  OBVIOUS
<1>4. \A a, b \in Nat : a # 0 /\ a + b <= 1 => a = 1
  BY SMT
<1>5. QED
  BY <1>1, <1>2, <1>3, <1>4, Zenon

(* While the token rule holds, a read event hears the one exchange there is. *)
LEMMA ReceiveOne ==
  ASSUME TypeOK, TokenPart, InTime, NEW k \in 0..Len(line), Receive(k)
  PROVE  /\ Len(line) = 1
         /\ line[1] \in {Head(drct), Garbled}
         /\ drct # <<>>
         /\ cyc \in {"sleep", "off"}
         /\ rpc \in {"wait", "off"}
         /\ line' = <<>>
         /\ ring' = <<>>
         /\ \/ UNCHANGED <<val, fresh, rpc, undef>>
            \/ /\ line[1] = Head(drct)
               /\ Head(drct) \in Directive
               /\ decode_data(Head(drct))
               /\ notify_one
         /\ UNCHANGED <<drct, allDev, rows, poll, stop, left>>
<1> USE DEF TypeOK, TokenPart, TokenInv, OneOutstanding
<1>1. /\ line # <<>>
      /\ ring = <<>>
      /\ rpc \in {"wait", "off"}
      /\ UNCHANGED <<drct, allDev, rows, poll, stop, left>>
  BY DEF Receive, RespondBack, InTime
<1>2. Len(line) = 1
  BY <1>1, OneExchange
<1>3. SubSeq(line, 1, 0) = <<>>
  BY SubSeqEmpty
<1>4. ring \o SubSeq(line, 1, k) = SubSeq(line, 1, k)
  <2>1. SubSeq(line, 1, k) \in Seq(Frame)
    BY SubSeqProperties, ElementOfSeq
  <2>2. QED
    BY <1>1, <2>1, ConcatEmptySeq
<1>5. k = 1
  <2>1. SubSeq(line, 1, k) # <<>>
    BY <1>4 DEF Receive
  <2>2. k # 0
    BY <1>3, <2>1
  <2>3. QED
    BY <1>2, <2>2
<1>6. ring \o SubSeq(line, 1, k) = line
  BY <1>2, <1>4, <1>5, SubSeqFull
<1>7. line' = <<>>
  <2>1. line' = SubSeq(line, 2, 1)
    BY <1>2, <1>5 DEF Receive
  <2>2. QED
    BY <2>1, SubSeqEmpty
<1>8. ring' = Tail(line)
  BY <1>6 DEF Receive
<1>9. Tail(line) = <<>>
  <2>1. Tail(line) \in Seq(Frame) /\ Len(Tail(line)) = 0
    BY <1>1, <1>2, HeadTailProperties
  <2>2. QED
    BY <2>1, EmptySeq
<1>10. Head(line) = line[1]
  BY <1>1
<1>11. drct # <<>> /\ line[1] \in {Head(drct), Garbled} /\ cyc \in {"sleep", "off"}
  BY <1>1
<1>12. Head(drct) \in Directive
  BY <1>11, HeadTailProperties
<1>13. \/ UNCHANGED <<val, fresh, rpc, undef>>
       \/ line[1] # Garbled /\ decode_data(line[1]) /\ notify_one
  BY <1>6, <1>10 DEF Receive
<1>14. QED
  BY <1>1, <1>2, <1>7, <1>8, <1>9, <1>11, <1>12, <1>13

(* A good answer is stored under the function code it was asked with.        *)
LEMMA DecodeRight ==
  ASSUME TypeOK, TypeOK', ReadingsRight, NEW f \in Directive, decode_data(f),
         drct # <<>>, f = Head(drct)
  PROVE  ReadingsRight' /\ UNCHANGED undef
<1> USE DEF TypeOK
<1>1. FieldCode(f) = f.fn
  BY DEF FieldCode, Front
<1>2. set_field(f, f.fn) /\ UNCHANGED undef
  BY <1>1, ConstantsAssumption DEF decode_data
<1>3. CASE UNCHANGED <<val, fresh>>
  BY <1>2, <1>3 DEF ReadingsRight
<1>4. ASSUME f.fn \in Monitored,
             val' = [val EXCEPT ![f.dev] = [@ EXCEPT ![f.fn] = f.fn]]
      PROVE  ReadingsRight'
  <2> SUFFICES ASSUME NEW d \in Device, NEW c \in Monitored
               PROVE  val'[d][c] \in {None, c}
    BY DEF ReadingsRight
  <2>1. f.dev \in Device
    BY DEF Directive
  <2>2. val[d][c] \in {None, c}
    BY DEF ReadingsRight
  <2>3. QED
    BY <1>4, <2>1, <2>2
<1>5. QED
  BY <1>2, <1>3, <1>4 DEF set_field

(* A list of an appended directive is not empty, and its front stays.        *)
LEMMA AppendFront ==
  ASSUME drct \in Seq(Directive), NEW q \in Directive, drct' = Append(drct, q)
  PROVE  drct' # <<>> /\ (drct # <<>> => Head(drct') = Head(drct))
BY AppendProperties, HeadTailAppend

(* first_send with an empty link and a list that is not: one exchange, the   *)
(* front of the list, or none when the port is closed.                       *)
LEMMA SendFront ==
  ASSUME TypeOK, NoUndef, drct # <<>>, line = <<>>, ring = <<>>, first_send,
         UNCHANGED ring
  PROVE  /\ NoUndef'
         /\ line' \in {<<>>, <<Head(drct)>>}
         /\ Len(line') + Len(ring') <= 1
         /\ line' # <<>> => line'[1] = Head(drct)
         /\ left'["extra"] = left["extra"]
         /\ left'["spurious"] = left["spurious"]
<1>1. CASE line' = Append(<<>>, Head(drct)) /\ UNCHANGED <<undef, left>>
  <2>1. Append(<<>>, Head(drct)) = <<Head(drct)>>
    OBVIOUS
  <2>2. QED
    BY <1>1, <2>1 DEF NoUndef
<1>2. CASE Spend("closed") /\ UNCHANGED <<line, undef>>
  <2>1. left'["extra"] = left["extra"] /\ left'["spurious"] = left["spurious"]
    BY <1>2 DEF Spend, Fault, TypeOK
  <2>2. QED
    BY <1>2, <2>1 DEF NoUndef
<1>3. QED
  BY <1>1, <1>2 DEF first_send, Front

(* The token rule, the absence of undefined behaviour and the correctness of *)
(* the readings are preserved together: each needs the others.               *)
LEMMA TokenStep ==
  ASSUME InTime, TypeOK, TypeOK', TokenPart, [Next]_vars
  PROVE  TokenPart'
<1> USE DEF TypeOK, TokenPart, TokenInv, NoUndef, store, poll, link
<1>1. CASE CyclePoll
  <2>1. line = <<>>
    BY <1>1 DEF CyclePoll, NothingPending, OneOutstanding
  <2>2. allDev # <<>>
    BY <1>1, EmptySeq DEF CyclePoll, DevicesAdded, InTime
  <2>3. rpc \in {"wait", "off"}
    BY <1>1 DEF CyclePoll, RespondBack, InTime
  <2>4. cyc' = "generate" /\ UNCHANGED <<drct, val, rpc, link, undef, left>>
    BY <1>1, <2>2 DEF CyclePoll, StartSweep
  <2>5. QED
    BY <2>1, <2>3, <2>4 DEF OneOutstanding, ReadingsRight
<1>2. CASE CycleGenerate
  <2>1. line = <<>>
    BY <1>2 DEF CycleGenerate
  <2>2. Query(allDev[sweep.i], sweep.j) \in Directive
    BY <1>2, ConstantsAssumption DEF CycleGenerate, Query, Directive
  <2>3. drct' # <<>>
    BY <1>2, <2>2, AppendFront DEF CycleGenerate
  <2>4. UNCHANGED <<val, rpc, link, undef, left>>
    BY <1>2 DEF CycleGenerate
  <2>5. rpc \in {"wait", "off"}
    BY <1>2 DEF CycleGenerate
  <2>6. QED
    BY <2>1, <2>3, <2>4, <2>5 DEF OneOutstanding, ReadingsRight
<1>3. CASE CycleSend
  <2>1. drct # <<>> /\ line = <<>> /\ rpc \in {"wait", "off"}
    BY <1>3 DEF CycleSend
  <2>2. cyc' = "sleep" /\ UNCHANGED <<drct, val, rpc, ring>>
    BY <1>3 DEF CycleSend
  <2>3. /\ undef' = FALSE
        /\ Len(line') + Len(ring') <= 1
        /\ line' # <<>> => line'[1] = Head(drct)
        /\ left'["extra"] = 0 /\ left'["spurious"] = 0
    BY <1>3, <2>1, <2>2, SendFront DEF CycleSend
  <2>4. QED
    BY <2>1, <2>2, <2>3 DEF OneOutstanding, ReadingsRight
<1>4. CASE CycleExit
  BY <1>4 DEF CycleExit, OneOutstanding, ReadingsRight
<1>5. CASE RespondPop
  <2>1. drct # <<>> /\ line = <<>> /\ cyc \in {"sleep", "off"}
    BY <1>5 DEF RespondPop
  <2>2. rpc' = "test" /\ UNCHANGED <<val, cyc, link, undef, left>>
    BY <1>5, <2>1 DEF RespondPop, remove_directive
  <2>3. QED
    BY <2>1, <2>2 DEF OneOutstanding, ReadingsRight
<1>6. CASE RespondSend
  <2>1. drct # <<>> /\ line = <<>> /\ cyc \in {"sleep", "off"}
    BY <1>6 DEF RespondSend, MoreToSend, OneOutstanding
  <2>2. rpc' = "sent" /\ UNCHANGED <<drct, val, cyc, ring>>
    BY <1>6 DEF RespondSend
  <2>3. /\ undef' = FALSE
        /\ Len(line') + Len(ring') <= 1
        /\ line' # <<>> => line'[1] = Head(drct)
        /\ left'["extra"] = 0 /\ left'["spurious"] = 0
    BY <1>6, <2>1, <2>2, SendFront DEF RespondSend
  <2>4. QED
    BY <2>1, <2>2, <2>3 DEF OneOutstanding, ReadingsRight
<1>7. CASE RespondAllAnswered \/ RespondLog \/ RespondWait \/ RespondExit
  BY <1>7 DEF RespondAllAnswered, RespondLog, RespondWait, RespondExit, Interruptible,
              OneOutstanding, ReadingsRight
<1>8. CASE SpuriousWakeup
  BY <1>8 DEF SpuriousWakeup, Spend
<1>9. CASE Stop
  <2>1. left'["extra"] = 0 /\ left'["spurious"] = 0
    BY <1>9 DEF Stop, Spend, Fault
  <2>2. UNCHANGED <<drct, val, cyc, rpc, link, undef>>
    BY <1>9 DEF Stop
  <2>3. QED
    BY <2>1, <2>2 DEF OneOutstanding, ReadingsRight
<1>17. CASE HeartbeatExit
  BY <1>17 DEF HeartbeatExit, OneOutstanding, ReadingsRight
<1>10. ASSUME NEW d \in Device, AddDevice(d)
       PROVE  TokenPart'
  BY <1>10 DEF AddDevice, OneOutstanding, ReadingsRight
<1>11. ASSUME NEW d \in Device, NEW f \in Func, Write(d, f)
       PROVE  TokenPart'
  <2>1. left'["extra"] = 0 /\ left'["spurious"] = 0
    BY <1>11 DEF Write, Spend, Fault
  <2>2. UNCHANGED <<val, cyc, rpc, link, undef>>
    BY <1>11 DEF Write
  <2>3. [dev |-> d, fn |-> f] \in Directive
    BY DEF Directive
  <2>4. drct' # <<>> /\ (drct # <<>> => Head(drct') = Head(drct))
    BY <1>11, <2>3, AppendFront DEF Write
  <2>5. QED
    BY <2>1, <2>2, <2>4 DEF OneOutstanding, ReadingsRight
<1>12. ASSUME NEW k \in 0..Len(line), Receive(k)
       PROVE  TokenPart'
  <2>1. /\ drct # <<>>
        /\ cyc \in {"sleep", "off"}
        /\ rpc \in {"wait", "off"}
        /\ line' = <<>>
        /\ ring' = <<>>
        /\ UNCHANGED <<drct, cyc, left>>
    BY <1>12, ReceiveOne
  <2>2. Len(line') + Len(ring') <= 1
    BY <2>1
  <2>3. CASE UNCHANGED <<val, fresh, rpc, undef>>
    BY <2>1, <2>2, <2>3 DEF OneOutstanding, ReadingsRight
  <2>4. ASSUME Head(drct) \in Directive, decode_data(Head(drct)), notify_one
        PROVE  TokenPart'
    <3>1. ReadingsRight' /\ undef' = FALSE
      BY <2>1, <2>4, DecodeRight
    <3>2. QED
      BY <2>1, <2>2, <2>4, <3>1 DEF OneOutstanding, notify_one
  <2>5. QED
    BY <1>12, <2>3, <2>4, ReceiveOne
<1>13. ASSUME NEW i \in 1..Len(line), Lose(i) \/ Garble(i)
       PROVE  TokenPart'
  <2>1. left'["extra"] = 0 /\ left'["spurious"] = 0
    BY <1>13 DEF Lose, Garble, Spend, Fault
  <2>2. UNCHANGED <<drct, val, cyc, rpc, ring, undef>>
    BY <1>13 DEF Lose, Garble
  <2>3. line # <<>>
    OBVIOUS
  <2>4. Len(line) = 1 /\ i = 1
    <3>1. Len(line) = 1
      BY <2>3, OneExchange
    <3>2. QED
      BY <3>1
  <2>5. CASE Lose(i)
    <3>1. SubSeq(line, 1, 0) = <<>> /\ SubSeq(line, 2, 1) = <<>>
      BY SubSeqEmpty
    <3>2. line' = SubSeq(line, 1, 0) \o SubSeq(line, 2, 1)
      BY <2>4, <2>5 DEF Lose
    <3>3. line' = <<>>
      BY <3>1, <3>2
    <3>4. Len(line') + Len(ring') <= 1
      BY <2>2, <3>3
    <3>5. QED
      BY <2>1, <2>2, <3>3, <3>4 DEF OneOutstanding, ReadingsRight
  <2>6. CASE Garble(i)
    <3>1. Garbled \in Frame
      BY DEF Frame
    <3>2. line' = [line EXCEPT ![1] = Garbled]
      BY <2>4, <2>6 DEF Garble
    <3>3. Len(line') = 1 /\ line'[1] = Garbled
      BY <2>4, <3>1, <3>2, ExceptSeq
    <3>4. Len(line') + Len(ring') <= 1
      BY <2>2, <3>3
    <3>5. QED
      BY <2>1, <2>2, <2>3, <3>3, <3>4 DEF OneOutstanding, ReadingsRight
  <2>7. QED
    BY <1>13, <2>5, <2>6
<1>14. ASSUME NEW q \in Directive, Unsolicited(q)
       PROVE  TokenPart'
  BY <1>14 DEF Unsolicited, Spend
<1>15. CASE UNCHANGED vars
  BY <1>15 DEF vars, OneOutstanding, ReadingsRight
<1>16. QED
  BY <1>1, <1>2, <1>3, <1>4, <1>5, <1>6, <1>7, <1>8, <1>9, <1>10, <1>11, <1>12,
     <1>13, <1>14, <1>15, <1>17 DEF Next, Cycle, Respond, Calls, Listen, LinkFault

(* The cover rule needs the token rule: the list shrinks only after the      *)
(* front was answered, and a report starts only when the list is empty.      *)
LEMMA ListedAppend ==
  ASSUME drct \in Seq(Directive), NEW q \in Directive, drct' = Append(drct, q),
         NEW d, NEW c
  PROVE  /\ Listed(d, c) => Listed(d, c)'
         /\ q = [dev |-> d, fn |-> c] => Listed(d, c)'
<1>1. Len(drct) \in Nat /\ Len(drct') = Len(drct) + 1
  BY AppendProperties, LenProperties
<1>2. \A k \in 1..Len(drct) : k \in 1..Len(drct') /\ drct'[k] = drct[k]
  BY <1>1, AppendProperties
<1>3. Len(drct') \in 1..Len(drct') /\ drct'[Len(drct')] = q
  BY <1>1, AppendProperties
<1>4. QED
  BY <1>2, <1>3 DEF Listed

LEMMA ListedTail ==
  ASSUME drct \in Seq(Directive), drct # <<>>, drct' = Tail(drct),
         NEW d, NEW c, Listed(d, c)
  PROVE  Listed(d, c)' \/ Head(drct) = [dev |-> d, fn |-> c]
<1>1. PICK k \in 1..Len(drct) : drct[k] = [dev |-> d, fn |-> c]
  BY DEF Listed
<1>2. Len(drct) \in Nat /\ Len(drct') = Len(drct) - 1
  BY HeadTailProperties, LenProperties
<1>3. CASE k = 1
  BY <1>1, <1>3
<1>4. CASE k # 1
  <2>1. k - 1 \in 1..Len(drct')
    BY <1>2, <1>4
  <2>2. drct'[k - 1] = drct[k - 1 + 1]
    BY <2>1, HeadTailProperties
  <2>3. k - 1 + 1 = k
    OBVIOUS
  <2>4. QED
    BY <1>1, <2>1, <2>2, <2>3 DEF Listed
<1>5. QED
  BY <1>3, <1>4

(* One more directive of the sweep is in the list.                           *)
LEMMA GenerateStep ==
  ASSUME TypeOK, GenerateInv, CycleGenerate,
         NEW i \in 1..sweep.n, NEW j \in 1..Len(Monitor),
         Generated(i, j) \/ (i = sweep.i /\ j = sweep.j)
  PROVE  Listed(allDev[i], Monitor[j])'
<1> USE DEF TypeOK
<1>1. Query(allDev[sweep.i], sweep.j) \in Directive
  BY ConstantsAssumption DEF CycleGenerate, Query, Directive
<1>2. drct' = Append(drct, Query(allDev[sweep.i], sweep.j)) /\ UNCHANGED allDev
  BY DEF CycleGenerate
<1>3. CASE Generated(i, j)
  <2>1. Listed(allDev[i], Monitor[j])
    BY <1>3 DEF GenerateInv, CycleGenerate
  <2>2. QED
    BY <1>1, <1>2, <2>1, ListedAppend DEF Listed
<1>4. CASE i = sweep.i /\ j = sweep.j
  <2>1. Query(allDev[sweep.i], sweep.j) = [dev |-> allDev[i], fn |-> Monitor[j]]
    BY <1>4 DEF Query
  <2>2. QED
    BY <1>1, <1>2, <2>1, ListedAppend DEF Listed
<1>5. QED
  BY <1>3, <1>4

(* CoverInv claims nothing while its parts' triggers are off: each part is a  *)
(* lemma of its own, so that the steps below need only the control state.    *)
LEMMA NotGenerating ==
  ASSUME cyc' # "generate" PROVE GenerateInv'
BY DEF GenerateInv

LEMMA NoTokenNext ==
  ASSUME cyc' # "send", line' = <<>>, rpc' \notin {"woken", "test"} PROVE PendingInv'
BY DEF PendingInv

LEMMA NotWoken ==
  ASSUME rpc' # "woken" PROVE AnsweredInv'
BY DEF AnsweredInv

LEMMA NotLogging ==
  ASSUME rpc' # "log" PROVE ReportComplete'
BY DEF ReportComplete

LEMMA CoverParts ==
  ASSUME GenerateInv', PendingInv', AnsweredInv', ReportComplete' PROVE CoverInv'
BY DEF CoverInv

LEMMA CoverStep ==
  ASSUME InTime, TypeOK, TypeOK', TokenPart, TokenPart', CoverInv, [Next]_vars
  PROVE  CoverInv'
<1> DEFINE Token == cyc = "send" \/ line # <<>> \/ rpc \in {"woken", "test"}
           Cover == \A d \in rows, c \in Monitored : c \in fresh[d] \/ Listed(d, c)
<1> USE DEF TypeOK, TokenPart, TokenInv, CoverInv, store, poll, link
<1>1. CASE CyclePoll
  <2>1. /\ line = <<>>
        /\ rpc \in {"wait", "off"}
        /\ cyc' # "send"
        /\ rows' = {allDev[i] : i \in 1..Len(allDev)}
        /\ UNCHANGED <<drct, allDev, fresh, rpc, link>>
    BY <1>1 DEF CyclePoll, StartSweep, NothingPending, OneOutstanding, RespondBack,
                InTime, DevicesAdded
  <2>2. sweep' = [n |-> Len(allDev), i |-> 1, j |-> 1]
    BY <1>1 DEF CyclePoll, StartSweep, At
  <2>3. \A i \in Nat \ {0}, j \in Nat \ {0} : ~Generated(i, j)'
    BY <2>2 DEF Generated
  <2>4. GenerateInv'
    BY <2>1, <2>2, <2>3 DEF GenerateInv
  <2>5. QED
    BY <2>1, <2>4 DEF PendingInv, AnsweredInv, ReportComplete
<1>2. CASE CycleGenerate
  <2>1. /\ line = <<>>
        /\ rpc \in {"wait", "off"}
        /\ cyc = "generate"
        /\ UNCHANGED <<allDev, rows, fresh, rpc, link>>
    BY <1>2 DEF CycleGenerate
  <2>2. /\ sweep.i \in 1..sweep.n
        /\ sweep.j \in 1..Len(Monitor)
        /\ sweep.n \in Nat
        /\ Len(Monitor) \in Nat
    BY <2>1, ConstantsAssumption, LenProperties
  <2>3. GenerateInv'
    <3> SUFFICES ASSUME cyc' = "generate"
                 PROVE  /\ sweep'.n = sweep.n
                        /\ \A i \in 1..sweep.n, j \in 1..Len(Monitor) :
                             Generated(i, j)' => Listed(allDev[i], Monitor[j])'
      BY <2>1 DEF GenerateInv
    <3>1. \/ sweep.j = Len(Monitor) /\ sweep' = At(sweep.n, sweep.i + 1, 1)
          \/ sweep' = At(sweep.n, sweep.i, sweep.j + 1)
      BY <1>2 DEF CycleGenerate, LastCode, LastDevice
    <3>2. ASSUME NEW i \in 1..sweep.n, NEW j \in 1..Len(Monitor), Generated(i, j)'
          PROVE  Generated(i, j) \/ (i = sweep.i /\ j = sweep.j)
      <4> HIDE DEF TypeOK, TokenPart, TokenInv, CoverInv, Token, Cover
      <4>1. i \in Nat /\ j \in Nat /\ j <= Len(Monitor)
        BY <2>2
      <4>2. CASE sweep.j = Len(Monitor) /\ sweep' = At(sweep.n, sweep.i + 1, 1)
        <5>1. sweep'.i = sweep.i + 1 /\ sweep'.j = 1
          BY <4>2 DEF At
        <5>2. QED
          BY <2>2, <3>2, <4>1, <4>2, <5>1 DEF Generated
      <4>3. CASE sweep' = At(sweep.n, sweep.i, sweep.j + 1)
        <5>1. sweep'.i = sweep.i /\ sweep'.j = sweep.j + 1
          BY <4>3 DEF At
        <5>2. QED
          BY <2>2, <3>2, <4>1, <5>1 DEF Generated
      <4>4. QED
        BY <3>1, <4>2, <4>3
    <3>3. sweep'.n = sweep.n
      BY <3>1 DEF At
    <3>4. GenerateInv
      OBVIOUS
    <3>5. ASSUME NEW i \in 1..sweep.n, NEW j \in 1..Len(Monitor), Generated(i, j)'
          PROVE  Listed(allDev[i], Monitor[j])'
      <4> HIDE DEF TypeOK, TokenPart, TokenInv, CoverInv, Token, Cover
      <4>1. Generated(i, j) \/ (i = sweep.i /\ j = sweep.j)
        BY <3>2, <3>5
      <4>2. QED
        BY <1>2, <3>4, <4>1, GenerateStep
    <3>6. QED
      BY <3>3, <3>5
  <2>4. PendingInv'
    <3> SUFFICES ASSUME cyc' = "send", NEW d \in rows, NEW c \in Monitored
                 PROVE  Listed(d, c)'
      BY <2>1 DEF PendingInv
    <3>1. sweep.j = Len(Monitor) /\ sweep.i = sweep.n
      BY <1>2, <2>1 DEF CycleGenerate, LastCode, LastDevice
    <3>2. PICK i \in 1..sweep.n : d = allDev[i]
      BY <2>1 DEF GenerateInv
    <3>3. PICK j \in 1..Len(Monitor) : c = Monitor[j]
      BY DEF Monitored
    <3>4. Generated(i, j) \/ (i = sweep.i /\ j = sweep.j)
      BY <2>2, <3>1 DEF Generated
    <3>5. Listed(allDev[i], Monitor[j])'
      BY <1>2, <3>4, GenerateStep
    <3>6. QED
      BY <2>1, <3>2, <3>3, <3>5
  <2> HIDE DEF TypeOK, TokenPart, TokenInv, CoverInv, Token, Cover
  <2>5. rpc' \notin {"woken", "log"}
    BY <2>1
  <2>6. QED
    BY <2>3, <2>4, <2>5, NotWoken, NotLogging, CoverParts
<1>3. CASE CycleSend
  <2>1. Cover
    BY <1>3 DEF CycleSend, PendingInv
  <2>2. /\ cyc' = "sleep"
        /\ rpc \in {"wait", "off"}
        /\ UNCHANGED <<drct, rows, fresh, rpc>>
    BY <1>3 DEF CycleSend
  <2>3. Cover'
    BY <2>1, <2>2 DEF Listed
  <2>4. PendingInv'
    BY <2>3 DEF PendingInv
  <2> HIDE DEF TypeOK, TokenPart, TokenInv, CoverInv, Token, Cover
  <2>5. cyc' # "generate" /\ rpc' \notin {"woken", "log"}
    BY <2>2
  <2>6. QED
    BY <2>4, <2>5, NotGenerating, NotWoken, NotLogging, CoverParts
<1>4. CASE CycleExit \/ RespondExit \/ Stop \/ HeartbeatExit \/ UNCHANGED vars
  <2>1. /\ cyc' \in {cyc, "off"}
        /\ rpc' \in {rpc, "off"}
        /\ UNCHANGED <<drct, allDev, rows, fresh, sweep, line>>
    BY <1>4 DEF CycleExit, RespondExit, Stop, HeartbeatExit, vars
  <2>2. GenerateInv /\ PendingInv /\ AnsweredInv /\ ReportComplete
    OBVIOUS
  <2> HIDE DEF TypeOK, TokenPart, TokenInv, CoverInv, Token, Cover
  <2>3. GenerateInv'
    BY <2>1, <2>2 DEF GenerateInv, Generated, Listed
  <2>4. PendingInv'
    BY <2>1, <2>2 DEF PendingInv, Listed
  <2>5. AnsweredInv' /\ ReportComplete'
    BY <2>1, <2>2 DEF AnsweredInv, ReportComplete
  <2>6. QED
    BY <2>3, <2>4, <2>5, CoverParts
<1>5. CASE RespondPop
  <2>1. /\ drct # <<>>
        /\ rpc = "woken"
        /\ rpc' = "test"
        /\ cyc \in {"sleep", "off"}
        /\ drct' = Tail(drct)
        /\ UNCHANGED <<rows, fresh, cyc>>
    BY <1>5 DEF RespondPop, remove_directive
  <2>2. Cover
    BY <2>1 DEF PendingInv
  <2>3. ASSUME NEW d \in rows, NEW c \in Monitored
        PROVE  c \in fresh[d] \/ Listed(d, c)'
    <3>1. CASE Listed(d, c)
      BY <2>1, <2>3, <3>1, ListedTail DEF AnsweredInv
    <3>2. QED
      BY <2>2, <2>3, <3>1
  <2> HIDE DEF TypeOK, TokenPart, TokenInv, CoverInv, Token, Cover
  <2>4. PendingInv'
    BY <2>1, <2>3 DEF PendingInv
  <2>5. cyc' # "generate" /\ rpc' \notin {"woken", "log"}
    BY <2>1
  <2>6. QED
    BY <2>4, <2>5, NotGenerating, NotWoken, NotLogging, CoverParts
<1>6. CASE RespondSend
  <2>1. Cover
    BY <1>6 DEF RespondSend, PendingInv
  <2>2. /\ rpc' = "sent"
        /\ cyc \in {"sleep", "off"}
        /\ UNCHANGED <<drct, rows, fresh, cyc>>
    BY <1>6 DEF RespondSend
  <2>3. Cover'
    BY <2>1, <2>2 DEF Listed
  <2>4. PendingInv'
    BY <2>3 DEF PendingInv
  <2> HIDE DEF TypeOK, TokenPart, TokenInv, CoverInv, Token, Cover
  <2>5. cyc' # "generate" /\ rpc' \notin {"woken", "log"}
    BY <2>2
  <2>6. QED
    BY <2>4, <2>5, NotGenerating, NotWoken, NotLogging, CoverParts
<1>7. CASE RespondAllAnswered
  <2>1. /\ rpc = "test"
        /\ drct = <<>>
        /\ rpc' = "log"
        /\ cyc \in {"sleep", "off"}
        /\ line = <<>>
        /\ UNCHANGED <<rows, fresh, cyc, line>>
    BY <1>7 DEF RespondAllAnswered, MoreToSend, OneOutstanding
  <2>2. \A d \in rows, c \in Monitored : c \in fresh[d]
    BY <2>1 DEF PendingInv, Listed
  <2> HIDE DEF TypeOK, TokenPart, TokenInv, CoverInv, Token, Cover
  <2>3. \A d \in rows' : fresh'[d] = fresh[d]
    BY <2>1
  <2>4. \A d \in rows' : fresh[d] = Monitored
    <3>1. rows' \subseteq Device /\ fresh \in [Device -> SUBSET Monitored]
      BY <2>1 DEF TypeOK
    <3>2. QED
      BY <2>1, <2>2, <3>1
  <2>5. ReportComplete'
    BY <2>3, <2>4 DEF ReportComplete
  <2>6. /\ cyc' \notin {"generate", "send"}
        /\ line' = <<>>
        /\ rpc' \notin {"woken", "test"}
    BY <2>1
  <2>7. QED
    BY <2>5, <2>6, NotGenerating, NoTokenNext, NotWoken, CoverParts
<1>8. CASE RespondLog \/ RespondWait
  <2>1. rpc \in {"log", "sent", "report"} /\ rpc' \in {"report", "wait"}
    BY <1>8 DEF RespondLog, RespondWait
  <2>2. cyc \in {"sleep", "off"} /\ UNCHANGED <<drct, rows, cyc, line>>
    BY <1>8, <2>1 DEF RespondLog, RespondWait
  <2>3. line # <<>> => UNCHANGED fresh
    BY <1>8 DEF RespondLog, RespondWait
  <2>4. line # <<>> => Cover'
    BY <2>2, <2>3 DEF PendingInv, Listed
  <2> HIDE DEF TypeOK, TokenPart, TokenInv, CoverInv, Token, Cover
  <2>5. PendingInv'
    <3>1. CASE line' = <<>>
      BY <2>1, <2>2, <3>1, NoTokenNext
    <3>2. CASE line # <<>>
      BY <2>4, <3>2 DEF PendingInv, Cover
    <3>3. QED
      BY <2>2, <3>1, <3>2
  <2>6. cyc' # "generate" /\ rpc' \notin {"woken", "log"}
    BY <2>1, <2>2
  <2>7. QED
    BY <2>5, <2>6, NotGenerating, NotWoken, NotLogging, CoverParts
<1>9. CASE SpuriousWakeup
  BY <1>9 DEF SpuriousWakeup, Spend
<1>10. ASSUME NEW d \in Device, AddDevice(d)
       PROVE  CoverInv'
  <2>1. allDev' = Append(allDev, d)
        /\ UNCHANGED <<drct, rows, fresh, cyc, sweep, rpc, line>>
    BY <1>10 DEF AddDevice
  <2>2. Len(allDev) \in Nat /\ sweep.n \in 0..Len(allDev)
    BY LenProperties
  <2>3. \A i \in 1..sweep.n : allDev'[i] = allDev[i]
    BY <2>1, <2>2, AppendProperties
  <2>4. GenerateInv'
    BY <2>1, <2>3, SMTT(30) DEF GenerateInv, Generated, Listed
  <2>5. PendingInv'
    BY <2>1 DEF PendingInv, Listed
  <2>6. QED
    BY <2>1, <2>4, <2>5 DEF AnsweredInv, ReportComplete
<1>11. ASSUME NEW d \in Device, NEW f \in Func, Write(d, f)
       PROVE  CoverInv'
  <2>1. UNCHANGED <<allDev, rows, fresh, cyc, sweep, rpc, line>>
    BY <1>11 DEF Write
  <2>2. [dev |-> d, fn |-> f] \in Directive
    BY DEF Directive
  <2>3. drct' = Append(drct, [dev |-> d, fn |-> f])
    BY <1>11 DEF Write
  <2>4. \A e \in Device, c \in Monitored : Listed(e, c) => Listed(e, c)'
    BY <2>2, <2>3, ListedAppend
  <2>5. drct # <<>> => Head(drct') = Head(drct)
    BY <2>2, <2>3, AppendFront
  <2>6. GenerateInv'
    <3> SUFFICES ASSUME cyc = "generate"
                 PROVE  \A i \in 1..sweep.n, j \in 1..Len(Monitor) :
                          Generated(i, j) => Listed(allDev[i], Monitor[j])'
      BY <2>1 DEF GenerateInv, Generated
    <3>1. ASSUME NEW i \in 1..sweep.n, NEW j \in 1..Len(Monitor), Generated(i, j)
          PROVE  Listed(allDev[i], Monitor[j])'
      <4>1. Listed(allDev[i], Monitor[j])
        BY <3>1 DEF GenerateInv
      <4>2. sweep.n \in 0..Len(allDev) /\ Len(allDev) \in Nat
        BY LenProperties
      <4>3. allDev[i] \in Device
        BY <4>2, ElementOfSeq
      <4>4. Monitor[j] \in Monitored
        BY DEF Monitored
      <4>5. \E m \in 1..Len(drct') : drct'[m] = [dev |-> allDev[i], fn |-> Monitor[j]]
        BY <2>4, <4>1, <4>3, <4>4 DEF Listed
      <4>6. QED
        BY <2>1, <4>5 DEF Listed
    <3>2. QED
      BY <3>1
  <2>7. PendingInv'
    BY <2>1, <2>4 DEF PendingInv
  <2>8. QED
    BY <2>1, <2>5, <2>6, <2>7 DEF AnsweredInv, ReportComplete
<1>12. ASSUME NEW k \in 0..Len(line), Receive(k)
       PROVE  CoverInv'
  <2>1. /\ drct # <<>>
        /\ cyc \in {"sleep", "off"}
        /\ rpc \in {"wait", "off"}
        /\ line # <<>>
        /\ line' = <<>>
        /\ UNCHANGED <<drct, rows, cyc>>
    <3> HIDE DEF TypeOK, TokenPart, TokenInv, CoverInv, Token, Cover
    <3>1. UNCHANGED <<drct, allDev, rows, poll, stop, left>>
      BY <1>12, ReceiveOne
    <3>2. QED
      BY <1>12, <3>1, ReceiveOne DEF poll
  <2>2. Cover
    BY <2>1 DEF PendingInv
  <2>3. CASE UNCHANGED <<val, fresh, rpc, undef>>
    <3> HIDE DEF TypeOK, TokenPart, TokenInv, CoverInv, Token, Cover
    <3>1. /\ cyc' \notin {"generate", "send"}
          /\ line' = <<>>
          /\ rpc' \notin {"woken", "test", "log"}
      BY <2>1, <2>3
    <3>2. QED
      BY <3>1, NotGenerating, NoTokenNext, NotWoken, NotLogging, CoverParts
  <2>4. ASSUME Head(drct) \in Directive, decode_data(Head(drct)), notify_one
        PROVE  CoverInv'
    <3> DEFINE q == Head(drct)
    <3>1. set_field(q, q.fn)
      BY <2>1, <2>4, ConstantsAssumption DEF decode_data, FieldCode, Front
    <3>2. q.dev \in Device
      BY <2>4 DEF Directive
    <3>3. \A d \in Device, c \in Monitored : c \in fresh[d] => c \in fresh'[d]
      <4>1. CASE UNCHANGED fresh
        BY <4>1
      <4>2. CASE fresh' = [fresh EXCEPT ![q.dev] = @ \cup {q.fn}]
        BY <3>2, <4>2
      <4>3. QED
        BY <3>1, <4>1, <4>2 DEF set_field
    <3>4. \A d \in rows, c \in Monitored :
            q = [dev |-> d, fn |-> c] => c \in fresh'[d]
      <4> SUFFICES ASSUME NEW d \in rows, NEW c \in Monitored,
                          q = [dev |-> d, fn |-> c]
                   PROVE  c \in fresh'[d]
        OBVIOUS
      <4> HIDE DEF TokenPart, TokenInv, CoverInv, Token, Cover, q
      <4>1. q.dev = d /\ q.fn = c /\ d \in Device
        OBVIOUS
      <4>2. fresh' = [fresh EXCEPT ![d] = @ \cup {c}]
        BY <3>1, <4>1 DEF set_field
      <4>3. QED
        BY <4>1, <4>2
    <3>5. Cover'
      BY <2>1, <2>2, <3>3 DEF Listed
    <3>6. rpc' \in {"wait", "woken", "off"}
      BY <2>1, <2>4 DEF notify_one
    <3> HIDE DEF TypeOK, TokenPart, TokenInv, CoverInv, Token, Cover
    <3>7. PendingInv'
      BY <3>5 DEF PendingInv, Cover
    <3>8. AnsweredInv'
      BY <2>1, <3>4 DEF AnsweredInv
    <3>9. cyc' # "generate" /\ rpc' # "log"
      BY <2>1, <3>6
    <3>10. QED
      BY <3>7, <3>8, <3>9, NotGenerating, NotLogging, CoverParts
  <2>5. QED
    BY <1>12, <2>3, <2>4, ReceiveOne
<1>13. ASSUME NEW i \in 1..Len(line), Lose(i) \/ Garble(i)
       PROVE  CoverInv'
  <2>1. line # <<>>
    OBVIOUS
  <2>2. UNCHANGED <<drct, allDev, rows, fresh, cyc, sweep, rpc>>
    BY <1>13 DEF Lose, Garble
  <2>3. QED
    BY <2>1, <2>2 DEF GenerateInv, Generated, PendingInv, AnsweredInv, ReportComplete, Listed
<1>14. ASSUME NEW q \in Directive, Unsolicited(q)
       PROVE  CoverInv'
  BY <1>14 DEF Unsolicited, Spend
<1>15. QED
  BY <1>1, <1>2, <1>3, <1>4, <1>5, <1>6, <1>7, <1>8, <1>9, <1>10, <1>11, <1>12,
     <1>13, <1>14 DEF Next, Cycle, Respond, Calls, Listen, LinkFault

(* The inductive invariant holds initially.                                  *)
LEMMA InTimeInit ==
  ASSUME InTime, Init
  PROVE  TokenPart /\ CoverInv
<1>1. TokenInv /\ NoUndef
  BY DEF InTime, Init, TokenInv, NoUndef
<1>2. OneOutstanding
  BY DEF Init, OneOutstanding
<1>3. ReadingsRight
  BY DEF Init, ReadingsRight
<1>4. CoverInv
  BY DEF Init, CoverInv, GenerateInv, PendingInv, AnsweredInv, ReportComplete
<1>5. QED
  BY <1>1, <1>2, <1>3, <1>4 DEF TokenPart

(* With thread_respond back in its wait in time, and no frame or wakeup that *)
(* nobody asked for: the invariant of the half-duplex exchange holds however *)
(* many answers are lost or garbled and however many directives Write adds.  *)
THEOREM InTimeInvariant == InTime => (Spec => []InTimeInv)
<1> SUFFICES ASSUME InTime
             PROVE  Spec => []InTimeInv
  OBVIOUS
<1>1. Init => TokenPart /\ CoverInv
  BY InTimeInit
<1>2. TypeOK /\ TypeOK' /\ (TokenPart /\ CoverInv) /\ [Next]_vars
        => (TokenPart /\ CoverInv)'
  BY TokenStep, CoverStep
<1>3. TokenPart /\ CoverInv => InTimeInv
  BY DEF TokenPart, InTimeInv
<1>4. QED
  BY <1>1, <1>2, <1>3, TypeCorrect, PTL DEF Spec

(* Under the same timing: at most one exchange, readings under their own     *)
(* names, and complete reports.                                              *)
THEOREM InTimeOneOutstanding == InTime => (Spec => []OneOutstanding)
BY InTimeInvariant, PTL DEF InTimeInv

THEOREM InTimeReadingsRight == InTime => (Spec => []ReadingsRight)
BY InTimeInvariant, PTL DEF InTimeInv

THEOREM InTimeReportComplete == InTime => (Spec => []ReportComplete)
BY InTimeInvariant, PTL DEF InTimeInv, CoverInv

-----------------------------------------------------------------------------
(* The controller as a stop-and-wait sender *)

(* A step that leaves the list and the link alone and wakes nobody: at most  *)
(* it ends the wait of a thread that is being stopped.                       *)
LEMMA QuietStep ==
  ASSUME UNCHANGED <<drct, line>>, rpc' = "woken" => rpc = "woken",
         rpc = "woken" => line = <<>>
  PROVE  [StopWait!Next]_<<drct, line, rpc = "woken">>
<1>1. CASE (rpc' = "woken") <=> (rpc = "woken")
  BY <1>1, Zenon
<1>2. CASE rpc = "woken" /\ rpc' # "woken"
  BY <1>2 DEF StopWait!Next, StopWait!Fail
<1>3. QED
  BY <1>1, <1>2

(* Sending the front of the list over an empty link asks for it, or, when    *)
(* the port is closed, does nothing.                                         *)
LEMMA SendAsks ==
  ASSUME TypeOK, TokenPart, drct # <<>>, line = <<>>, first_send,
         UNCHANGED <<drct, ring>>, rpc # "woken", rpc' # "woken"
  PROVE  StopWait!Ask \/ UNCHANGED <<drct, line, rpc = "woken">>
<1>1. line' \in {<<>>, <<Head(drct)>>}
  BY SendFront DEF TokenPart, TokenInv
<1>2. CASE line' = <<Head(drct)>>
  BY <1>2 DEF StopWait!Ask
<1>3. CASE line' = <<>>
  <2>1. (rpc = "woken")' = (rpc = "woken")
    OBVIOUS
  <2>2. QED
    BY <1>3, <2>1
<1>4. QED
  BY <1>1, <1>2, <1>3

(* A read event hears the front of the list, or nothing that counts.         *)
LEMMA ReceiveAnswers ==
  ASSUME TypeOK, TokenPart, InTime, NEW k \in 0..Len(line), Receive(k)
  PROVE  StopWait!Answer \/ StopWait!Fail
<1>1. /\ Len(line) = 1
      /\ drct # <<>>
      /\ rpc \in {"wait", "off"}
      /\ line' = <<>>
      /\ drct' = drct
  BY ReceiveOne
<1>2. line # <<>>
  BY <1>1
<1>3. CASE rpc' = "woken"
  <2>1. line[1] = Head(drct)
    BY <1>1, <1>3, ReceiveOne
  <2>2. line = <<line[1]>>
    BY <1>1 DEF TypeOK
  <2>3. line = <<Head(drct)>>
    BY <2>1, <2>2
  <2>4. QED
    BY <1>1, <1>3, <2>3 DEF StopWait!Answer
<1>4. CASE rpc' # "woken"
  BY <1>1, <1>2, <1>4 DEF StopWait!Fail
<1>5. QED
  BY <1>3, <1>4

(* Losing or damaging the one exchange is a failure of it.                   *)
LEMMA FaultFails ==
  ASSUME TypeOK, TokenPart, NEW i \in 1..Len(line), Lose(i) \/ Garble(i)
  PROVE  StopWait!Fail
<1>1. line # <<>> /\ UNCHANGED <<drct, rpc>>
  <2>1. line # <<>>
    OBVIOUS
  <2>2. QED
    BY <2>1 DEF Lose, Garble
<1>2. rpc # "woken"
  BY <1>1 DEF TokenPart, OneOutstanding
<1>3. Len(line) = 1
  BY <1>1, OneExchange
<1>4. i = 1
  BY <1>3, SMT
<1>5. CASE Lose(i)
  <2>1. line' = SubSeq(line, 1, 0) \o SubSeq(line, 2, 1)
    BY <1>3, <1>4, <1>5 DEF Lose
  <2>2. SubSeq(line, 1, 0) = <<>> /\ SubSeq(line, 2, 1) = <<>>
    BY SubSeqEmpty
  <2>3. line' = <<>>
    BY <2>1, <2>2
  <2>4. QED
    BY <1>1, <1>2, <2>3 DEF StopWait!Fail
<1>6. CASE Garble(i)
  <2>1. line' = [line EXCEPT ![1] = Garbled]
    BY <1>4, <1>6 DEF Garble
  <2>2. line' = <<Garbled>>
    BY <1>3, <2>1 DEF TypeOK
  <2>3. QED
    BY <1>1, <1>2, <2>2 DEF StopWait!Fail
<1>7. QED
  BY <1>5, <1>6

(* Every step of the controller is a step of the sender, or none.            *)
LEMMA StopWaitStep ==
  ASSUME InTime, TypeOK, TypeOK', TokenPart, [Next]_vars
  PROVE  [StopWait!Next]_<<drct, line, rpc = "woken">>
<1> USE DEF store, poll, link
<1>0. rpc = "woken" => line = <<>>
  BY DEF TokenPart, OneOutstanding
<1>1. CASE CyclePoll \/ CycleExit \/ RespondAllAnswered \/ RespondLog \/ RespondWait
           \/ RespondExit \/ Stop \/ HeartbeatExit \/ UNCHANGED vars
  BY <1>0, <1>1, QuietStep
     DEF CyclePoll, StartSweep, CycleExit, RespondAllAnswered, RespondLog,
         RespondWait, RespondExit, Stop, HeartbeatExit, vars
<1>2. CASE CycleGenerate
  <2>1. Query(allDev[sweep.i], sweep.j) \in Directive
    <3>1. /\ sweep.i \in 1..Len(allDev)
          /\ sweep.j \in 1..Len(Monitor)
      BY <1>2, LenProperties DEF TypeOK, CycleGenerate
    <3>2. allDev[sweep.i] \in Device /\ Monitor[sweep.j] \in Func
      BY <3>1, ConstantsAssumption, ElementOfSeq DEF TypeOK
    <3>3. QED
      BY <3>2 DEF Query, Directive
  <2>2. QED
    BY <1>2, <2>1 DEF CycleGenerate, StopWait!Next, StopWait!Enqueue
<1>3. CASE CycleSend
  <2>1. /\ drct # <<>>
        /\ line = <<>>
        /\ rpc \in {"wait", "off"}
        /\ UNCHANGED <<drct, rpc, ring>>
        /\ first_send
    BY <1>3 DEF CycleSend, TokenPart, TokenInv
  <2>2. QED
    BY <2>1, SendAsks DEF StopWait!Next
<1>4. CASE RespondPop
  <2>1. /\ rpc = "woken"
        /\ rpc' = "test"
        /\ drct # <<>>
        /\ drct' = Tail(drct)
        /\ UNCHANGED line
    BY <1>4 DEF RespondPop, remove_directive, TokenPart, TokenInv
  <2>2. QED
    BY <2>1 DEF StopWait!Next, StopWait!Remove
<1>5. CASE RespondSend
  <2>1. /\ drct # <<>>
        /\ line = <<>>
        /\ rpc = "test"
        /\ rpc' = "sent"
        /\ UNCHANGED <<drct, ring>>
        /\ first_send
    BY <1>5 DEF RespondSend, MoreToSend, TokenPart, OneOutstanding
  <2>2. QED
    BY <2>1, SendAsks DEF StopWait!Next
<1>6. CASE SpuriousWakeup \/ \E q \in Directive : Unsolicited(q)
  BY <1>6 DEF SpuriousWakeup, Unsolicited, Spend, TokenPart, TokenInv
<1>7. ASSUME NEW d \in Device, AddDevice(d)
      PROVE  [StopWait!Next]_<<drct, line, rpc = "woken">>
  BY <1>7 DEF AddDevice
<1>8. ASSUME NEW d \in Device, NEW f \in Func, Write(d, f)
      PROVE  StopWait!Next
  <2>1. [dev |-> d, fn |-> f] \in Directive
    BY DEF Directive
  <2>2. QED
    BY <1>8, <2>1 DEF Write, StopWait!Next, StopWait!Enqueue
<1>9. CASE Listen
  BY <1>9, ReceiveAnswers DEF Listen, StopWait!Next
<1>10. ASSUME NEW i \in 1..Len(line), Lose(i) \/ Garble(i)
       PROVE  StopWait!Next
  BY <1>10, FaultFails DEF StopWait!Next
<1>11. QED
  BY <1>1, <1>2, <1>3, <1>4, <1>5, <1>6, <1>7, <1>8, <1>9, <1>10
     DEF Next, Cycle, Respond, Calls, LinkFault

(* With answers in time, the three threads implement the abstract sender:    *)
(* nothing is asked while an exchange is out, and nothing leaves the list    *)
(* before its own answer came.                                               *)
THEOREM ImplementsStopAndWait == InTime => (Spec => StopsAndWaits)
<1> SUFFICES ASSUME InTime
             PROVE  Spec => StopsAndWaits
  OBVIOUS
<1>1. Init => StopWait!Init
  BY DEF Init, StopWait!Init
<1>2. InTimeInv => TokenPart
  BY DEF InTimeInv, TokenPart
<1>3. TypeOK /\ TypeOK' /\ InTimeInv /\ [Next]_vars
        => [StopWait!Next]_<<drct, line, rpc = "woken">>
  BY <1>2, StopWaitStep
<1>4. QED
  BY <1>1, <1>3, TypeCorrect, InTimeInvariant, PTL
     DEF Spec, StopsAndWaits, StopWait!Spec

-----------------------------------------------------------------------------
(* Sweeps never overlap *)

LEMMA FollowsGrows ==
  ASSUME NEW devs \in Seq(Device), NEW d \in Device, NEW q, NEW r, Follows(devs, q, r)
  PROVE  Follows(Append(devs, d), q, r)
<1> DEFINE more == Append(devs, d)
<1>1. /\ Len(devs) \in Nat
      /\ Len(more) = Len(devs) + 1
      /\ \A i \in 1..Len(devs) : more[i] = devs[i]
  BY AppendProperties, LenProperties
<1>2. PICK i \in 1..Len(devs), j \in 1..Len(Monitor) :
        /\ q = Query(devs[i], j)
        /\ \/ j < Len(Monitor) /\ r = Query(devs[i], j + 1)
           \/ j = Len(Monitor) /\ i < Len(devs) /\ r = Query(devs[i + 1], 1)
  BY DEF Follows
<1>3. i \in 1..Len(more) /\ more[i] = devs[i]
  BY <1>1
<1>4. CASE j < Len(Monitor) /\ r = Query(devs[i], j + 1)
  BY <1>2, <1>3, <1>4 DEF Follows
<1>5. CASE j = Len(Monitor) /\ i < Len(devs) /\ r = Query(devs[i + 1], 1)
  <2>1. i < Len(more) /\ more[i + 1] = devs[i + 1]
    BY <1>1, <1>5
  <2>2. QED
    BY <1>2, <1>3, <1>5, <2>1 DEF Follows
<1>6. QED
  BY <1>2, <1>4, <1>5

LEMMA SweepPop ==
  ASSUME TypeOK, ListIsOneSweep, drct # <<>>, drct' = Tail(drct), UNCHANGED allDev
  PROVE  /\ ListIsOneSweep'
         /\ drct' # <<>> => drct'[Len(drct')] = drct[Len(drct)]
<1> USE DEF TypeOK
<1>1. Len(drct) \in Nat /\ Len(drct') = Len(drct) - 1 /\ drct' \in Seq(Directive)
  BY HeadTailProperties, LenProperties
<1>2. \A k \in 1..Len(drct') : drct'[k] = drct[k + 1]
  BY HeadTailProperties
<1>3. ASSUME NEW k \in 1..(Len(drct') - 1)
      PROVE  Follows(allDev', drct'[k], drct'[k + 1])
  <2>1. k + 1 \in 1..(Len(drct) - 1) /\ k + 1 + 1 = k + 2
    BY <1>1
  <2>2. Follows(allDev, drct[k + 1], drct[k + 2])
    BY <2>1 DEF ListIsOneSweep
  <2>3. k \in 1..Len(drct') /\ k + 1 \in 1..Len(drct')
    BY <1>1
  <2>4. drct'[k] = drct[k + 1] /\ drct'[k + 1] = drct[k + 2]
    BY <1>2, <2>1, <2>3
  <2>5. QED
    BY <2>2, <2>4
<1>4. ListIsOneSweep'
  BY <1>3 DEF ListIsOneSweep
<1>5. ASSUME drct' # <<>>
      PROVE  drct'[Len(drct')] = drct[Len(drct)]
  <2>1. Len(drct') \in 1..Len(drct')
    BY <1>1, <1>5, EmptySeq
  <2>2. QED
    BY <1>1, <1>2, <2>1
<1>6. QED
  BY <1>4, <1>5

LEMMA SweepGenerate ==
  ASSUME TypeOK, SweepInv, CycleGenerate
  PROVE  SweepInv'
<1> USE DEF TypeOK, SweepInv
<1> DEFINE q == Query(allDev[sweep.i], sweep.j)
<1>1. /\ cyc = "generate"
      /\ sweep.i \in 1..sweep.n
      /\ sweep.n \in 0..Len(allDev)
      /\ sweep.j \in 1..Len(Monitor)
      /\ Len(allDev) \in Nat
      /\ Len(Monitor) \in Nat \ {0}
  BY ConstantsAssumption, LenProperties DEF CycleGenerate
<1>2. q \in Directive
  <2>1. allDev[sweep.i] \in Device /\ Monitor[sweep.j] \in Func
    BY <1>1, ConstantsAssumption, ElementOfSeq
  <2>2. QED
    BY <2>1 DEF Query, Directive
<1>3. drct' = Append(drct, q) /\ UNCHANGED <<allDev, left>>
  BY DEF CycleGenerate
<1>4. /\ Len(drct) \in Nat
      /\ Len(drct') = Len(drct) + 1
      /\ drct'[Len(drct) + 1] = q
      /\ \A k \in 1..Len(drct) : drct'[k] = drct[k]
  BY <1>2, <1>3, AppendProperties, LenProperties
<1>5. ASSUME NEW k \in 1..(Len(drct') - 1)
      PROVE  Follows(allDev', drct'[k], drct'[k + 1])
  <2>1. k \in 1..Len(drct)
    BY <1>4
  <2>2. CASE k = Len(drct)
    <3>1. drct # <<>>
      BY <2>1
    <3>2. Follows(allDev, drct[Len(drct)], q)
      BY <1>1, <3>1
    <3>3. QED
      BY <1>3, <1>4, <2>1, <2>2, <3>2
  <2>3. CASE k # Len(drct)
    <3>1. k \in 1..(Len(drct) - 1) /\ k + 1 \in 1..Len(drct)
      BY <1>4, <2>1, <2>3
    <3>2. Follows(allDev, drct[k], drct[k + 1])
      BY <3>1 DEF ListIsOneSweep
    <3>3. QED
      BY <1>3, <1>4, <2>1, <3>1, <3>2
  <2>4. QED
    BY <2>2, <2>3
<1>6. ListIsOneSweep'
  BY <1>5 DEF ListIsOneSweep
<1>7. ASSUME cyc' = "generate"
      PROVE  Follows(allDev, q, Query(allDev[sweep'.i], sweep'.j))
  <2>1. CASE /\ sweep.j = Len(Monitor)
             /\ sweep.i # sweep.n
             /\ sweep' = At(sweep.n, sweep.i + 1, 1)
    <3>1. sweep.i < Len(allDev) /\ sweep.i \in 1..Len(allDev)
      BY <1>1, <2>1
    <3>2. sweep'.i = sweep.i + 1 /\ sweep'.j = 1
      BY <2>1 DEF At
    <3>3. QED
      BY <1>1, <2>1, <3>1, <3>2 DEF Follows
  <2>2. CASE sweep.j # Len(Monitor) /\ sweep' = At(sweep.n, sweep.i, sweep.j + 1)
    <3>1. sweep.j < Len(Monitor) /\ sweep.i \in 1..Len(allDev)
      BY <1>1, <2>2
    <3>2. sweep'.i = sweep.i /\ sweep'.j = sweep.j + 1
      BY <2>2 DEF At
    <3>3. QED
      BY <1>1, <3>1, <3>2 DEF Follows
  <2>3. QED
    BY <1>7, <2>1, <2>2 DEF CycleGenerate, LastCode, LastDevice
<1>8. drct'[Len(drct')] = q
  BY <1>4
<1>9. cyc' = "generate" =>
        Follows(allDev', drct'[Len(drct')], Query(allDev'[sweep'.i], sweep'.j))
  BY <1>3, <1>7, <1>8
<1>10. QED
  BY <1>3, <1>6, <1>9

LEMMA SweepAdd ==
  ASSUME TypeOK, SweepInv, NEW d \in Device, AddDevice(d)
  PROVE  SweepInv'
<1> USE DEF TypeOK, SweepInv, poll
<1>1. allDev' = Append(allDev, d) /\ UNCHANGED <<drct, cyc, sweep, left>>
  BY DEF AddDevice
<1>2. Len(allDev) \in Nat /\ \A i \in 1..Len(allDev) : allDev'[i] = allDev[i]
  BY <1>1, AppendProperties, LenProperties
<1>3. ASSUME NEW q, NEW r, Follows(allDev, q, r)
      PROVE  Follows(allDev', q, r)
  BY <1>1, <1>3, FollowsGrows
<1>4. ListIsOneSweep'
  BY <1>1, <1>3 DEF ListIsOneSweep
<1>5. ASSUME cyc = "generate", drct # <<>>
      PROVE  Follows(allDev', drct[Len(drct)], Query(allDev'[sweep.i], sweep.j))
  <2>1. sweep.i \in 1..sweep.n /\ sweep.n \in 0..Len(allDev)
    BY <1>5
  <2>2. allDev'[sweep.i] = allDev[sweep.i]
    BY <1>2, <2>1
  <2>3. Follows(allDev, drct[Len(drct)], Query(allDev[sweep.i], sweep.j))
    BY <1>5
  <2>4. QED
    BY <1>3, <2>2, <2>3
<1>6. QED
  BY <1>1, <1>4, <1>5

LEMMA SweepStep ==
  ASSUME TypeOK, TypeOK', SweepInv, [Next]_vars
  PROVE  SweepInv'
<1> USE DEF SweepInv, store, poll, link
<1>1. CASE CyclePoll
  <2>1. drct' = <<>> /\ left' = left
    BY <1>1 DEF CyclePoll, StartSweep, NothingPending
  <2>2. QED
    BY <2>1 DEF ListIsOneSweep
<1>2. CASE RespondPop
  <2>1. UNCHANGED <<allDev, cyc, sweep, left>>
    BY <1>2 DEF RespondPop
  <2>2. CASE drct = <<>>
    <3>1. drct' = drct
      BY <1>2, <2>2 DEF RespondPop, remove_directive
    <3>2. QED
      BY <2>1, <2>2, <3>1 DEF ListIsOneSweep
  <2>3. CASE drct # <<>>
    <3>1. drct' = Tail(drct)
      BY <1>2, <2>3 DEF RespondPop, remove_directive
    <3>2. ListIsOneSweep' /\ (drct' # <<>> => drct'[Len(drct')] = drct[Len(drct)])
      BY <2>1, <2>3, <3>1, SweepPop
    <3>3. QED
      BY <2>1, <2>3, <3>2
  <2>4. QED
    BY <2>2, <2>3
<1>3. ASSUME NEW d \in Device, NEW f \in Func, Write(d, f)
      PROVE  SweepInv'
  BY <1>3 DEF Write, Spend
<1>4. ASSUME UNCHANGED <<drct, allDev, sweep>>,
             cyc' = cyc \/ cyc' # "generate",
             left'["write"] = left["write"]
      PROVE  SweepInv'
  <2>1. ListIsOneSweep'
    BY <1>4 DEF ListIsOneSweep
  <2>2. QED
    BY <1>4, <2>1
<1>5. CASE \/ CycleExit \/ RespondAllAnswered \/ HeartbeatExit
           \/ RespondLog \/ RespondWait \/ RespondExit \/ Listen \/ UNCHANGED vars
  BY <1>4, <1>5
     DEF CycleExit, RespondAllAnswered, HeartbeatExit,
         RespondLog, RespondWait, RespondExit, Listen, Receive, vars
<1>9. CASE CycleSend \/ RespondSend
  <2>1. first_send
    BY <1>9 DEF CycleSend, RespondSend
  <2>2. left'["write"] = left["write"]
    BY <2>1 DEF first_send, Spend, Fault, TypeOK
  <2>3. QED
    BY <1>4, <1>9, <2>2 DEF CycleSend, RespondSend
<1>6. CASE SpuriousWakeup \/ Stop
  <2>1. left'["write"] = left["write"]
    BY <1>6 DEF SpuriousWakeup, Stop, Spend, Fault, TypeOK
  <2>2. QED
    BY <1>4, <1>6, <2>1 DEF SpuriousWakeup, Stop
<1>7. CASE LinkFault
  <2>1. left'["write"] = left["write"]
    BY <1>7 DEF LinkFault, Lose, Garble, Unsolicited, Spend, Fault, TypeOK
  <2>2. QED
    BY <1>4, <1>7, <2>1 DEF LinkFault, Lose, Garble, Unsolicited
<1>8. QED
  BY <1>1, <1>2, <1>3, <1>5, <1>6, <1>7, <1>9, SweepGenerate, SweepAdd
     DEF Next, Cycle, Respond, Calls

(* Without temporary directives, the list is always a stretch of one sweep,  *)
(* in order and without repetition: in every interleaving of the threads and *)
(* with every fault of the link.                                             *)
THEOREM SweepsNeverOverlap == Budget["write"] = 0 => (Spec => []ListIsOneSweep)
<1> SUFFICES ASSUME Budget["write"] = 0
             PROVE  Spec => []ListIsOneSweep
  OBVIOUS
<1>1. Init => SweepInv
  BY DEF Init, SweepInv, ListIsOneSweep
<1>2. TypeOK /\ TypeOK' /\ SweepInv /\ [Next]_vars => SweepInv'
  BY SweepStep
<1>3. SweepInv => ListIsOneSweep
  BY DEF SweepInv
<1>4. QED
  BY <1>1, <1>2, <1>3, TypeCorrect, PTL DEF Spec
=============================================================================
