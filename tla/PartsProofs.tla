---------------------------- MODULE PartsProofs ----------------------------
(***************************************************************************)
(* Theorems about Heartbeat, GLog, NTPClient, Upload and AsciiProtocol,    *)
(* each from an inductive invariant of its module.                         *)
(***************************************************************************)
EXTENDS Upload, GLog, NTPClient, Heartbeat, AsciiProtocol, Inductions, FiniteSetTheorems,
        SequenceTheorems, TLAPS

(***************************************************************************)
(* Heartbeat: while each answer is heard, the last one is never as old as  *)
(* Beat. SinceInv bounds its age by what thread_cycle still has to sleep,  *)
(* and, once a query is out, by how long that has been under way; the local*)
(* clock shows that age and by how much it was put forward.                *)
(***************************************************************************)

BeatInv == BeatTypeOK /\ SinceInv

LEMMA BeatInitial == BeatInit => BeatInv
  BY TimesAssumption, SMT DEF BeatInit, BeatInv, BeatTypeOK, SinceInv, Since, Dead

LEMMA BeatStep == BeatInv /\ [BeatNext]_beatVars => BeatInv'
<1>1. SUFFICES ASSUME BeatInv, [BeatNext]_beatVars
               PROVE  BeatInv'
  OBVIOUS
<1> USE TimesAssumption DEF BeatInv, BeatTypeOK, SinceInv, Since, Dead
<1>2. CASE Poll
  <2>1. cycle = 0 /\ cycle' \in Cycle..Cycle + Slack
    BY <1>2 DEF Poll
  <2>2. cycle' \in Nat /\ Cycle <= cycle' /\ cycle' <= Cycle + Slack
    BY <2>1, SMT
  <2>3. UNCHANGED <<beat, upload, td, ahead, watch, writes, steps>>
    BY <1>2 DEF Poll
  <2>4. CASE left = 0
    <3>1. left' = Sweep /\ query' = "out" /\ wait' = 0
      BY <1>2, <2>4 DEF Poll
    <3>2. td - ahead <= Cycle + Slack
      BY <1>1, <2>1, <2>4, SMT
    <3>3. BeatTypeOK'
      BY <1>1, <2>2, <2>3, <3>1, SMT
    <3>4. SinceInv'
      BY <1>1, <2>3, <3>1, <3>2, SMT
    <3>5. QED
      BY <3>3, <3>4
  <2>5. CASE left # 0
    <3>1. UNCHANGED <<left, query, wait>>
      BY <1>2, <2>5 DEF Poll
    <3>2. BeatTypeOK'
      BY <1>1, <2>2, <2>3, <3>1, SMT
    <3>3. SinceInv'
      BY <1>1, <2>3, <2>5, <3>1
    <3>4. QED
      BY <3>2, <3>3
  <2>6. QED
    BY <2>4, <2>5
<1>3. CASE Answer
  BY <1>1, <1>3, SMT DEF Answer
<1>4. CASE Miss
  BY <1>1, <1>4, SMT DEF Miss
<1>5. CASE Lose
  BY <1>1, <1>5, SMT DEF Lose
<1>6. CASE Write
  BY <1>1, <1>6, SMT DEF Write
<1>7. CASE StepClock
  <2>1. PICK j \in Jumps : td' = td + j /\ ahead' = ahead + j
    BY <1>7 DEF StepClock
  <2>2. td' \in Int /\ ahead' \in Int /\ td' - ahead' = td - ahead /\ steps' \in Nat
    BY <1>1, <1>7, <2>1, SMT DEF StepClock
  <2>3. UNCHANGED <<cycle, beat, left, query, wait, upload, watch, writes>>
    BY <1>7 DEF StepClock
  <2>4. QED
    BY <1>1, <2>2, <2>3
<1>8. CASE Heartbeat
  BY <1>1, <1>8, SMT DEF Heartbeat
<1>9. CASE Tick
  BY <1>1, <1>9, SMT DEF Tick, Down
<1>10. CASE UNCHANGED beatVars
  BY <1>1, <1>10, SMT DEF beatVars
<1>11. QED
  BY <1>1, <1>2, <1>3, <1>4, <1>5, <1>6, <1>7, <1>8, <1>9, <1>10 DEF BeatNext

\* thread_heartbeat reports a link on which every answer is heard only by a local clock
\* that was put forward by Beat - (Cycle + Slack + Exchange) since the last one, for all
\* periods with Cycle + Slack + Exchange < Beat, any length of a sweep and of an upload and
\* any steps of the clock.
THEOREM AlarmsAreTrue == BeatSpec => AlarmIsTrue
<1> DEFINE Told == watch = "runs" /\ watch' = "reported"
                     => Dead \/ ahead >= Beat - (Cycle + Slack + Exchange)
<1>1. ASSUME BeatInv, [BeatNext]_beatVars, watch = "runs", watch' = "reported", ~Dead
      PROVE  ahead >= Beat - (Cycle + Slack + Exchange)
  <2>1. Heartbeat
    BY <1>1 DEF BeatNext, beatVars, Poll, Answer, Miss, Lose, Write, StepClock, Tick
  <2>2. td >= Beat
    BY <1>1, <2>1 DEF Heartbeat, Silent
  <2>3. query = "out" \/ left = 0
    BY <1>1, SMT DEF BeatInv, BeatTypeOK, Dead
  <2>4. td - ahead <= Cycle + Slack + Exchange
    BY <1>1, <2>3, TimesAssumption, SMT DEF BeatInv, BeatTypeOK, SinceInv, Since
  <2>5. td \in Int /\ ahead \in Int
    BY <1>1 DEF BeatInv, BeatTypeOK
  <2>6. QED
    BY <2>2, <2>4, <2>5, TimesAssumption, SMT
<1>2. BeatInv /\ [BeatNext]_beatVars => [Told]_beatVars
  BY <1>1
<1>3. QED
  BY BeatInitial, BeatStep, <1>2, PTL DEF BeatSpec, AlarmIsTrue

(***************************************************************************)
(* GLog: the clock stays near the time of the last line, and so does the   *)
(* open file; the day of the month then tells the two apart.               *)
(***************************************************************************)

LogInv == LogTypeOK /\ FileInv /\ PiecesInv

LEMMA LogInitial == LogInit => LogInv
<1>1. SUFFICES ASSUME LogInit PROVE LogInv
  OBVIOUS
<1> USE DaysAssumption DEF LogInit
<1>2. LogTypeOK
  <2>1. crashed \in BOOLEAN
    BY <1>1
  <2>2. step \in [Writer -> {"idle", "file", "time", "text", "flush"}]
    BY <1>1
  <2>3. today \in Day /\ owner \in Writer \cup {Never} /\ stamp \in Day \cup {Never}
        /\ fd \in Day \cup {Never}
    BY <1>1
  <2>4. day \in {-1} \cup 1..31
    BY <1>1
  <2>5. QED
    BY <2>1, <2>2, <2>3, <2>4 DEF LogTypeOK
<1>3. FileInv
  BY <1>1, SMT DEF FileInv, InFileOfItsDay
<1>4. PiecesInv
  BY <1>1, SMT DEF PiecesInv, WholeLines
<1>5. QED
  BY <1>2, <1>3, <1>4 DEF LogInv

LEMMA NearReflexive == \A d \in Day : Near(d, d)
  BY DaysAssumption, SMT DEF Day, Near

LEMMA AppendOne == ASSUME NEW a, NEW b PROVE Append(<<a>>, b) = <<a, b>>
<1> DEFINE S == {a, b}
<1>1. <<a>> \in Seq(S) /\ <<a, b>> \in Seq(S) /\ b \in S
  OBVIOUS
<1>2. Len(<<a>>) = 1 /\ <<a>>[1] = a
  OBVIOUS
<1>3. Len(<<a, b>>) = 2 /\ <<a, b>>[1] = a /\ <<a, b>>[2] = b
  OBVIOUS
<1> HIDE DEF S
<1>4. /\ Append(<<a>>, b) \in Seq(S) /\ Len(Append(<<a>>, b)) = 2
      /\ Append(<<a>>, b)[1] = a /\ Append(<<a>>, b)[2] = b
  BY <1>1, <1>2, AppendProperties
<1>5. \A i \in 1..2 : Append(<<a>>, b)[i] = <<a, b>>[i]
  BY <1>3, <1>4
<1>6. QED
  BY <1>1, <1>3, <1>4, <1>5, SeqEqual

LEMMA LogStep == LogInv /\ [LogNext]_logVars => LogInv'
<1>1. SUFFICES ASSUME LogInv, [LogNext]_logVars
               PROVE  LogInv'
  OBVIOUS
<1> USE DaysAssumption
    DEF LogInv, LogTypeOK, FileInv, PiecesInv, InFileOfItsDay, WholeLines
<1> HIDE DEF Near, Day
<1>2. CASE ClockMoves
  BY <1>1, <1>2, SMT DEF ClockMoves
<1>3. ASSUME NEW w \in Writer, Lock(w) PROVE LogInv'
  <2>1. fd # Never => fd = stamp
    BY <1>1, <1>3, SMT DEF Lock, Free
  <2>2. LogTypeOK'
    BY <1>1, <1>3, SMT DEF Lock, Free
  <2>3. FileInv'
    BY <1>1, <1>3, <2>1, NearReflexive, SMT DEF Lock, Free
  <2>4. PiecesInv'
    BY <1>1, <1>3, SMT DEF Lock, Free
  <2>5. QED
    BY <2>2, <2>3, <2>4
<1>4. ASSUME NEW w \in Writer, ValidFile(w) PROVE LogInv'
  <2>1. SameDay(stamp) /\ fd # Never => fd = stamp
    BY <1>1, <1>4, SMT DEF ValidFile, SameDay
  <2>2. fd' \in {stamp, Never} /\ stamp' = stamp /\ stamp \in Day
    BY <1>1, <1>4, <2>1, SMT DEF ValidFile
  <2>3. LogTypeOK'
    <3>1. crashed' \in BOOLEAN
      BY <1>1, <1>4, Zenon DEF ValidFile
    <3>2. day' = DayOfMonth[stamp] /\ today' = today
      BY <1>4 DEF ValidFile
    <3>3. day' \in {-1} \cup 1..31
      BY <2>2, <3>2, SMT
    <3>4. step' \in [Writer -> {"idle", "file", "time", "text", "flush"}]
      BY <1>1, <1>4, SMT DEF ValidFile
    <3>5. owner' \in Writer \cup {Never}
      BY <1>1, <1>4, SMT DEF ValidFile
    <3>6. QED
      BY <1>1, <2>2, <3>1, <3>2, <3>3, <3>4, <3>5
  <2>4. FileInv'
    BY <1>1, <1>4, <2>1, <2>2, NearReflexive, SMT DEF ValidFile
  <2>5. PiecesInv'
    BY <1>1, <1>4, SMT DEF ValidFile
  <2>6. QED
    BY <2>3, <2>4, <2>5
<1>5. ASSUME NEW w \in Writer, Put(w) PROVE LogInv'
  <2>1. LogTypeOK'
    BY <1>1, <1>5, SMT DEF Put
  <2>2. FileInv'
    BY <1>1, <1>5, SMT DEF Put
  <2>3. PiecesInv'
    <3>1. owner = w /\ owner' = w /\ line' = line /\ w # Never
      BY <1>1, <1>5, SMT DEF Put
    <3>2. \A v \in Writer : v # w => step'[v] = "idle"
      BY <1>1, <1>5, <3>1, SMT DEF Put
    <3>3. CASE step[w] = "time"
      <4>1. step'[w] = "text" /\ pieces = <<>> /\ pieces' = Append(pieces, <<w, "time">>)
        BY <1>1, <1>5, <3>3 DEF Put
      <4>2. Append(<<>>, <<w, "time">>) = <<<<w, "time">>>>
        OBVIOUS
      <4>3. pieces' = <<<<w, "time">>>>
        BY <4>1, <4>2
      <4>4. QED
        BY <1>1, <3>1, <3>2, <4>1, <4>3
    <3>4. CASE step[w] = "text"
      <4>1. /\ step'[w] = "flush" /\ pieces = <<<<w, "time">>>>
            /\ pieces' = Append(pieces, <<w, "text">>)
        BY <1>1, <1>5, <3>4 DEF Put
      <4>2. Append(<<<<w, "time">>>>, <<w, "text">>) = <<<<w, "time">>, <<w, "text">>>>
        BY AppendOne
      <4>3. pieces' = <<<<w, "time">>, <<w, "text">>>>
        BY <4>1, <4>2
      <4>4. QED
        BY <1>1, <3>1, <3>2, <4>1, <4>3
    <3>5. QED
      BY <1>5, <3>3, <3>4 DEF Put
  <2>4. QED
    BY <2>1, <2>2, <2>3
<1>6. ASSUME NEW w \in Writer, Flush(w) PROVE LogInv'
  <2>1. LogTypeOK'
    BY <1>1, <1>6, SMT DEF Flush
  <2>2. FileInv'
    BY <1>1, <1>6, SMT DEF Flush
  <2>3. PiecesInv'
    BY <1>1, <1>6, SMT DEF Flush
  <2>4. QED
    BY <2>1, <2>2, <2>3
<1>7. CASE UNCHANGED logVars
  BY <1>1, <1>7, SMT DEF logVars
<1>8. QED
  BY <1>1, <1>2, <1>3, <1>4, <1>5, <1>6, <1>7 DEF LogNext

\* Every line of the log is in the file of its day, for any number of threads that
\* write and any clock that moves less than Silence between two lines.
THEOREM LinesAreFiled == LogSpec => []InFileOfItsDay
<1>1. LogInv => InFileOfItsDay
  BY DEF LogInv, FileInv
<1>2. QED
  BY LogInitial, LogStep, <1>1, PTL DEF LogSpec

\* And every line is the work of one thread.
THEOREM LinesAreWhole == LogSpec => []WholeLines
<1>1. LogInv => WholeLines
  BY DEF LogInv, PiecesInv
<1>2. QED
  BY LogInitial, LogStep, <1>1, PTL DEF LogSpec

(***************************************************************************)
(* NTPClient: how many periods passed since the last reply is what the two *)
(* counters add up to; and the socket holds the answers to no more than the*)
(* request just sent, as long as none comes late.                          *)
(***************************************************************************)

CountsInv == age \in Nat /\ nfail \in Nat /\ unresolved \in Nat /\ CountInv

LEMMA CountsInitial == ClockInit => CountsInv
  BY ConstantsAssumption, SMT DEF ClockInit, CountsInv, CountInv

LEMMA CountsFailed ==
  ASSUME CountsInv, Failed, thread \in {"ask", "collect"},
         UNCHANGED <<age, unresolved>>
  PROVE  CountsInv'
<1> USE DEF CountsInv, CountInv
<1>1. valid' => valid /\ ~Expired(nfail + 1)
  BY Zenon DEF Failed
<1>2. nfail' = nfail + 1 /\ thread' = "sleep"
  BY DEF Failed
<1>3. ~Expired(nfail + 1) => nfail + 1 < MaxFail
  BY ConstantsAssumption, SMT DEF Expired
<1>4. age = nfail + unresolved + 1
  BY SMT
<1>5. valid' => nfail' < MaxFail
  BY <1>1, <1>2, <1>3
<1>6. age' = nfail' + unresolved' + 0
  BY <1>2, <1>4, SMT
<1>7. QED
  BY <1>2, <1>5, <1>6, SMT

LEMMA CountsStep == CountsInv /\ [ClockNext]_clockVars => CountsInv'
<1>1. SUFFICES ASSUME CountsInv, [ClockNext]_clockVars
               PROVE  CountsInv'
  OBVIOUS
<1>2. CASE Wake
  BY <1>1, <1>2, SMT DEF Wake, CountsInv, CountInv
<1>3. CASE Open
  BY <1>1, <1>3, SMT DEF Open, CountsInv, CountInv
<1>4. CASE Ask
  <2>1. CASE Failed
    BY <1>1, <1>4, <2>1, CountsFailed DEF Ask
  <2>2. CASE thread' = "sent" /\ UNCHANGED <<valid, nfail>>
    BY <1>1, <1>4, <2>2, SMT DEF Ask, CountsInv, CountInv
  <2>3. QED
    BY <1>4, <2>1, <2>2 DEF Ask
<1>5. CASE Collect
  <2>1. CASE Failed /\ UNCHANGED <<age, unresolved>>
    BY <1>1, <1>5, <2>1, CountsFailed DEF Collect
  <2>2. CASE nfail' = 0 /\ age' = 0 /\ unresolved' = 0 /\ thread' = "compute"
    BY <2>2, ConstantsAssumption, SMT DEF CountsInv, CountInv
  <2>3. QED
    BY <1>5, <2>1, <2>2 DEF Collect
<1>6. CASE Compute
  BY <1>1, <1>6, ConstantsAssumption, SMT DEF Compute, CountsInv, CountInv
<1>7. CASE SetHost
  BY <1>1, <1>7 DEF SetHost, CountsInv, CountInv
<1>8. CASE Watch
  BY <1>1, <1>8, SMT DEF Watch, CountsInv, CountInv
<1>9. CASE SynchClock
  BY <1>1, <1>9 DEF SynchClock, CountsInv, CountInv
<1>10. CASE UNCHANGED clockVars
  BY <1>1, <1>10 DEF clockVars, CountsInv, CountInv
<1>11. QED
  BY <1>1, <1>2, <1>3, <1>4, <1>5, <1>6, <1>7, <1>8, <1>9, <1>10 DEF ClockNext

\* The clock's offset is not taken for valid after MaxFail periods in which the server was
\* asked and did not answer, for any delays, drift and number of periods.
THEOREM ValidityExpires == ClockSpec => []ValidIsCounted
<1>1. CountsInv => ValidIsCounted
  BY ConstantsAssumption, SMT DEF CountsInv, CountInv, ValidIsCounted
<1>2. QED
  BY CountsInitial, CountsStep, <1>1, PTL DEF ClockSpec

RepliesInv ==
  /\ err \in Int /\ offset \in Int /\ request \in Nat /\ lates \in Nat
  /\ buffer \in Seq(Reply) /\ late \in Seq(Reply)
  /\ thread = "compute" => got \in Reply
  /\ InStep

LEMMA RepliesInitial == ClockInit => RepliesInv
  BY ConstantsAssumption, SMT DEF ClockInit, RepliesInv, InStep, OwnAnswer

\* Getting older keeps a reply what it is.
LEMMA OlderReplies ==
  ASSUME NEW s \in Seq(Reply)
  PROVE  Older(s) \in Seq(Reply) /\ Len(Older(s)) = Len(s)
<1>1. \A i \in 1..Len(s) : [s[i] EXCEPT !.d2 = @ + Period] \in Reply
  <2>1. TAKE i \in 1..Len(s)
  <2>2. s[i] \in Reply
    BY ElementOfSeq
  <2>3. s[i].d2 + Period \in Nat
    <3>1. s[i].d2 \in Nat
      BY <2>2, Zenon DEF Reply
    <3>2. Period \in Nat
      BY ConstantsAssumption, SMT
    <3>3. QED
      BY <3>1, <3>2, SMT
  <2>4. QED
    BY <2>2, <2>3 DEF Reply
<1>2. Len(s) \in Nat
  OBVIOUS
<1>3. QED
  BY <1>1, <1>2, SMT DEF Older

\* Nothing in the socket: the two conditions on its replies are void.
LEMMA EmptyBuffer ==
  ASSUME buffer' = <<>>, late' = <<>>, RepliesInv,
         UNCHANGED <<err, offset, request, lates, stepped>>,
         thread' # "compute" \/ UNCHANGED <<thread, got>>
  PROVE  RepliesInv'
<1>1. Reply' = Reply
  BY DEF Reply
<1>2. buffer' \in Seq(Reply') /\ late' \in Seq(Reply') /\ Len(buffer') = 0
  OBVIOUS
<1>3. QED
  BY <1>1, <1>2, SMT DEF RepliesInv, InStep, OwnAnswer

\* A request is sent: what is in the socket answers an earlier one.
LEMMA AskReplies ==
  ASSUME RepliesInv, thread = "ask", thread' = "sent", request' = request + 1,
         UNCHANGED <<err, offset>>, Ask
  PROVE  RepliesInv'
<1>1. Reply \subseteq Reply'
  BY SMT DEF RepliesInv, Reply
<1>2. buffer \in Seq(Reply') /\ late \in Seq(Reply')
  BY <1>1 DEF RepliesInv
<1>3. \A i \in 1..Len(buffer) : buffer[i] \in Reply
  BY ElementOfSeq DEF RepliesInv
<1>4. \A i \in 1..Len(buffer) : buffer[i].n # request'
  <2>1. TAKE i \in 1..Len(buffer)
  <2>2. buffer[i].n \in 1..request
    BY <1>3, Zenon DEF Reply
  <2>3. request \in Nat /\ request' = request + 1
    BY Zenon DEF RepliesInv
  <2>4. QED
    BY <2>2, <2>3, SMT
<1>5. lates = 0 => Len(buffer) = 0
  <2>1. lates = 0 => ~(1 \in 1..Len(buffer))
    BY DEF RepliesInv, InStep, Asked
  <2>2. Len(buffer) \in Nat
    BY DEF RepliesInv
  <2>3. QED
    BY <2>1, <2>2, SMT
<1>6. CASE UNCHANGED <<buffer, late, lates>>
  BY <1>2, <1>4, <1>5, <1>6, SMT DEF RepliesInv, InStep, OwnAnswer, Asked
<1>7. ASSUME NEW d1 \in Delay, NEW d2 \in Delay,
             NEW r, r = [n |-> request', e |-> err, d1 |-> d1, d2 |-> d2],
             buffer' = Append(buffer, r), UNCHANGED <<late, lates>>
      PROVE  RepliesInv'
  <2>1. r \in Reply' /\ r.n = request' /\ r.e = err
    BY <1>7, ConstantsAssumption, SMT DEF Reply, RepliesInv
  <2>2. /\ buffer' \in Seq(Reply') /\ Len(buffer') = Len(buffer) + 1
        /\ \A i \in 1..Len(buffer) : buffer'[i] = buffer[i]
        /\ buffer'[Len(buffer) + 1] = r
    BY <1>2, <1>7, <2>1, AppendProperties
  <2>3. \A i \in 1..Len(buffer') : i \in 1..Len(buffer) \/ i = Len(buffer) + 1
    BY <1>2, <2>2, SMT
  <2>4. InStep'
    BY <1>4, <1>5, <1>7, <2>1, <2>2, <2>3, SMT DEF RepliesInv, InStep, OwnAnswer, Asked
  <2>5. QED
    BY <1>2, <1>7, <2>2, <2>4 DEF RepliesInv
<1>8. ASSUME NEW d1 \in Delay, NEW d2 \in Delay,
             NEW r, r = [n |-> request', e |-> err, d1 |-> d1, d2 |-> d2],
             lates' = lates + 1, late' = Append(late, r), UNCHANGED buffer
      PROVE  RepliesInv'
  <2>1. r \in Reply'
    BY <1>8, ConstantsAssumption, SMT DEF Reply, RepliesInv
  <2>2. late' \in Seq(Reply')
    BY <1>2, <1>8, <2>1, AppendProperties
  <2>3. lates' \in Nat /\ lates' # 0
    BY <1>8, SMT DEF RepliesInv
  <2>4. QED
    BY <1>2, <1>4, <1>8, <2>2, <2>3, SMT DEF RepliesInv, InStep, OwnAnswer, Asked
<1>9. request' # request
  BY SMT DEF RepliesInv
<1>10. QED
  BY <1>6, <1>7, <1>8, <1>9 DEF Ask

\* A period begins: what waits in the socket gets older, and late replies come.
LEMMA WakeReplies ==
  ASSUME RepliesInv, Wake
  PROVE  RepliesInv'
<1>1. Reply' = Reply /\ thread' \in {"ask", "open"} /\ request' = request
      /\ UNCHANGED <<got, lates, offset>> /\ late' = <<>>
  BY DEF Wake, Reply
<1>2. err' \in Int
  BY ConstantsAssumption, SMT DEF Wake, RepliesInv
<1>3. buffer \o late \in Seq(Reply) /\ Len(buffer \o late) = Len(buffer) + Len(late)
  BY ConcatProperties DEF RepliesInv
<1>4. buffer' \in Seq(Reply) /\ Len(buffer') \in {0, Len(buffer) + Len(late)}
  <2>1. CASE open
    BY <1>3, <2>1, OlderReplies DEF Wake
  <2>2. CASE ~open
    <3>1. buffer' = <<>>
      BY <2>2 DEF Wake
    <3>2. QED
      BY <3>1
  <2>3. QED
    BY <2>1, <2>2
<1>5. lates = 0 => Len(buffer) = 0 /\ Len(late) = 0
  <2>1. thread = "sleep" /\ Len(buffer) \in Nat
    BY DEF Wake, RepliesInv
  <2>2. lates = 0 => ~(1 \in 1..Len(buffer))
    BY <2>1 DEF RepliesInv, InStep, Asked
  <2>3. QED
    BY <2>1, <2>2, SMT DEF RepliesInv, InStep
<1>6. lates = 0 => Len(buffer') = 0
  BY <1>4, <1>5, SMT
<1>7. lates = 0 => ~\E i \in 1..Len(buffer') : TRUE
  BY <1>6, SMT
<1>8. late' \in Seq(Reply')
  BY <1>1
<1>9. InStep'
  BY <1>1, <1>7 DEF InStep, OwnAnswer, Asked
<1>10. QED
  BY <1>1, <1>2, <1>4, <1>8, <1>9 DEF RepliesInv

\* The oldest reply is taken.
LEMMA CollectReplies ==
  ASSUME RepliesInv, Collect, buffer # <<>>, got' = Head(buffer),
         buffer' = Tail(buffer), thread' = "compute", UNCHANGED late
  PROVE  RepliesInv'
<1>1. Reply' = Reply /\ UNCHANGED <<err, offset, request, lates, stepped>>
      /\ thread = "collect"
  BY DEF Collect, Reply
<1>2. /\ Head(buffer) = buffer[1] /\ buffer[1] \in Reply /\ 1 \in 1..Len(buffer)
      /\ Tail(buffer) \in Seq(Reply) /\ Len(Tail(buffer)) = Len(buffer) - 1
  <2>1. buffer \in Seq(Reply) /\ buffer # <<>>
    BY DEF RepliesInv
  <2>2. Len(buffer) \in Nat \ {0}
    BY <2>1, EmptySeq
  <2>3. Tail(buffer) \in Seq(Reply) /\ Len(Tail(buffer)) = Len(buffer) - 1
    BY <2>1, HeadTailProperties
  <2>4. QED
    BY <2>1, <2>2, <2>3, ElementOfSeq
<1>3. lates = 0 => Len(Tail(buffer)) = 0 /\ buffer[1].n = request
  <2>1. lates = 0 => \A i \in 1..Len(buffer) : i = 1 /\ buffer[i].n = request
    BY DEF RepliesInv, InStep
  <2>2. Len(buffer) \in Nat
    BY DEF RepliesInv
  <2>3. QED
    BY <1>2, <2>1, <2>2, SMT
<1>4. buffer[1].n = request /\ ~stepped => buffer[1].e = err
  BY <1>1, <1>2 DEF RepliesInv, InStep, Asked
<1>5. lates' = 0 => ~\E i \in 1..Len(buffer') : TRUE
  <2>1. lates' = 0 => Len(buffer') = 0
    BY <1>1, <1>3
  <2>2. QED
    BY <2>1, SMT
<1>6. InStep'
  <2>1. thread' = "compute" /\ got' = buffer[1] /\ late' = late /\ lates' = lates
    BY <1>1, <1>2
  <2>2. OwnAnswer'
    BY <1>1, <1>3, <2>1 DEF OwnAnswer
  <2>3. lates' = 0 => late' = <<>>
    BY <2>1 DEF RepliesInv, InStep
  <2>4. \A i \in 1..Len(buffer') : ~Asked'
    BY <2>1 DEF Asked
  <2>5. got'.n = request' /\ ~stepped' => got'.e = err'
    BY <1>1, <1>4, <2>1
  <2>6. QED
    BY <1>5, <2>1, <2>2, <2>3, <2>4, <2>5 DEF InStep
<1>7. QED
  BY <1>1, <1>2, <1>6 DEF RepliesInv

\* SynchClock, or not: the socket holds nothing that is an answer to this request.
LEMMA ComputeReplies ==
  ASSUME RepliesInv, Compute
  PROVE  RepliesInv'
<1>1. Reply' = Reply /\ thread' = "sleep" /\ UNCHANGED <<buffer, late, got, request, lates>>
      /\ thread = "compute"
  BY DEF Compute, Reply
<1>2. err' \in Int /\ offset' \in Int
  <2>1. got.d1 \in Int /\ got.d2 \in Int /\ got.e \in Int /\ err \in Int
    BY <1>1 DEF RepliesInv, Reply
  <2>2. Offset(got, err) \in Int
    BY <2>1, SMT DEF Offset
  <2>3. (err' = err \/ err' = err + Offset(got, err)) /\ offset' = Offset(got, err)
    BY DEF Compute
  <2>4. QED
    BY <2>1, <2>2, <2>3, SMT
<1>3. lates = 0 => ~\E i \in 1..Len(buffer) : TRUE
  BY <1>1 DEF RepliesInv, InStep, Asked
<1>4. InStep'
  BY <1>1, <1>3 DEF RepliesInv, InStep, OwnAnswer, Asked
<1>5. QED
  BY <1>1, <1>2, <1>4 DEF RepliesInv

LEMMA RepliesStep == RepliesInv /\ [ClockNext]_clockVars => RepliesInv'
<1>1. SUFFICES ASSUME RepliesInv, [ClockNext]_clockVars
               PROVE  RepliesInv'
  OBVIOUS
<1>2. ASSUME UNCHANGED <<err, offset, request, lates, buffer, late, got, stepped>>,
             \/ {thread, thread'} \cap {"compute", "sent", "collect"} = {}
             \/ thread = "sent" /\ thread' = "collect"
             \/ UNCHANGED thread
      PROVE  RepliesInv'
  <2>1. Reply' = Reply
    BY <1>2 DEF Reply
  <2>2. QED
    BY <1>1, <1>2, <2>1 DEF RepliesInv, InStep, OwnAnswer, Asked
<1>3. CASE Wake
  BY <1>1, <1>3, WakeReplies
<1>4. CASE Open
  BY <1>2, <1>4 DEF Open
<1>5. CASE Ask
  <2>1. CASE thread' = "sent" /\ request' = request + 1
    BY <1>1, <1>5, <2>1, AskReplies DEF Ask
  <2>2. CASE Failed /\ Close /\ UNCHANGED <<request, lates, stepped>>
    BY <1>1, <1>5, <2>2, EmptyBuffer DEF Ask, Failed, Close
  <2>3. QED
    BY <1>5, <2>1, <2>2 DEF Ask
<1>6. CASE Collect
  <2>1. CASE /\ buffer # <<>> /\ got' = Head(buffer) /\ buffer' = Tail(buffer)
             /\ thread' = "compute" /\ UNCHANGED late
    BY <1>1, <1>6, <2>1, CollectReplies
  <2>2. CASE buffer = <<>> /\ Failed /\ UNCHANGED <<buffer, late>>
    <3>1. thread' = "sleep" /\ UNCHANGED <<err, offset, request, lates>> /\ buffer' = <<>>
          /\ late' = late /\ Reply' = Reply
      BY <1>6, <2>2 DEF Collect, Failed, Reply
    <3>2. Len(buffer') = 0 /\ buffer' \in Seq(Reply)
      BY <3>1
    <3>3. ~\E i \in 1..Len(buffer') : TRUE
      BY <3>2, SMT
    <3>4. QED
      BY <1>1, <3>1, <3>2, <3>3 DEF RepliesInv, InStep, OwnAnswer, Asked
  <2>3. CASE Failed /\ Close
    BY <1>1, <1>6, <2>3, EmptyBuffer DEF Collect, Failed, Close
  <2>4. QED
    BY <1>6, <2>1, <2>2, <2>3 DEF Collect
<1>7. CASE Compute
  BY <1>1, <1>7, ComputeReplies
<1>8. CASE SetHost
  BY <1>1, <1>8, EmptyBuffer DEF SetHost, Close
<1>9. CASE Watch
  BY <1>2, <1>9 DEF Watch
<1>10. CASE SynchClock
  <2>1. CASE synching' = TRUE /\ UNCHANGED <<err, stepped>>
    BY <1>2, <1>10, <2>1 DEF SynchClock
  <2>2. CASE err' = err + offset /\ stepped' = TRUE
    <3>1. err' \in Int
      BY <1>1, <2>2, SMT DEF RepliesInv
    <3>2. Reply' = Reply /\ UNCHANGED <<offset, request, lates, buffer, late, got, thread>>
      BY <1>10 DEF SynchClock, Reply
    <3>3. QED
      BY <1>1, <2>2, <3>1, <3>2 DEF RepliesInv, InStep, OwnAnswer, Asked
  <2>3. QED
    BY <1>10, <2>1, <2>2 DEF SynchClock
<1>11. CASE UNCHANGED clockVars
  BY <1>2, <1>11 DEF clockVars
<1>12. QED
  BY <1>1, <1>3, <1>4, <1>5, <1>6, <1>7, <1>8, <1>9, <1>10, <1>11 DEF ClockNext

\* While no reply comes late, the answer that is used is that to the request just sent,
\* whatever else is lost, for any number of periods.
THEOREM AnswersAreOwn == ClockSpec => []OwnAnswer
<1>1. RepliesInv => OwnAnswer
  BY DEF RepliesInv, InStep
<1>2. QED
  BY RepliesInitial, RepliesStep, <1>1, PTL DEF ClockSpec

\* Half of the round trip, for all numbers.
LEMMA HalfRoundTrip ==
  ASSUME NEW e \in Int, NEW d1 \in Nat, NEW d2 \in Nat, NEW q \in Int,
         q = ((d1 - e) + (0 - d2 - e)) \div 2
  PROVE  /\ 2 * (e + q) <= d1 + d2 + 1
         /\ -(2 * (e + q)) <= d1 + d2 + 1
<1>1. 2 * q <= (d1 - e) + (0 - d2 - e) /\ (d1 - e) + (0 - d2 - e) < 2 * q + 2
  BY SMT
<1>2. QED
  BY <1>1, SMT

\* A step of the clock by the thread's answer to its own request leaves it off by at most
\* half the round trip, for all delays, errors and drifts.
THEOREM SyncsAreAccurate == ClockSpec => SyncIsAccurate
<1> DEFINE Accurate ==
      err' # err /\ thread = "compute" /\ thread' = "sleep" /\ got.n = request /\ ~stepped
        => 2 * Abs(err') <= got.d1 + got.d2 + 1
<1>1. ASSUME RepliesInv, [ClockNext]_clockVars, err' # err, thread = "compute",
             thread' = "sleep", got.n = request, ~stepped
      PROVE  2 * Abs(err') <= got.d1 + got.d2 + 1
  <2>1. Compute
    BY <1>1 DEF ClockNext, clockVars, Wake, Open, Ask, Watch, Collect, SetHost, SynchClock
  <2>2. err \in Int /\ got.d1 \in Nat /\ got.d2 \in Nat /\ got.e = err
    BY <1>1 DEF RepliesInv, Reply, InStep
  <2>3. offset' = ((got.d1 - err) + (0 - got.d2 - err)) \div 2
    BY <2>1, <2>2 DEF Compute, Offset
  <2>4. err' = err + offset'
    BY <1>1, <2>1 DEF Compute
  <2>5. offset' \in Int
    BY <2>2, <2>3, SMT
  <2>6. 2 * (err + offset') <= got.d1 + got.d2 + 1
        /\ -(2 * (err + offset')) <= got.d1 + got.d2 + 1
    BY <2>2, <2>3, <2>5, HalfRoundTrip
  <2>7. err + offset' \in Int
    BY <2>2, <2>5, SMT
  <2>8. Abs(err + offset') \in {err + offset', -(err + offset')}
    BY DEF Abs
  <2>9. 2 * (-(err + offset')) = -(2 * (err + offset'))
    BY <2>7, SMT
  <2>10. QED
    BY <2>4, <2>6, <2>8, <2>9
<1>2. RepliesInv /\ [ClockNext]_clockVars => [Accurate]_clockVars
  BY <1>1
<1>3. QED
  BY RepliesInitial, RepliesStep, <1>2, PTL DEF ClockSpec, SyncIsAccurate

(***************************************************************************)
(* Upload: what a DataTransfer has allocated is known at each place. The   *)
(* numbers of the calls tell the blocks of a call from those of the        *)
(* constructor, which have 0, and from what earlier calls have left.       *)
(***************************************************************************)

Places == {"idle", "init", "session", "perform", "verdict", "destroyed"}

UploadTypes ==
  /\ at \in [Caller -> Places]
  /\ turn \in [Caller -> Nat]
  /\ heap = [c \in Caller |-> heap[c]]
  /\ cut = [c \in Caller |-> cut[c]]
  /\ body = [c \in Caller |-> body[c]]
  /\ calls \in Nat

\* The part of HeldInv about one caller.
HoldsBlocks(c) ==
  /\ heap[c] = (IF at[c] = "destroyed" THEN {} ELSE Owned(c))
               \cup Leaked(c) \cup Own(c, InUse(c))
  /\ 0 < turn[c] \/ at[c] \in {"idle", "destroyed"}
  /\ turn[c] <= calls
  /\ body[c] = "null" => /\ at[c] \in {"perform", "verdict"}
                         /\ <<turn[c], "no memory">> \in cut[c]
  /\ \A x \in cut[c] :
       /\ x[1] \in 1..calls /\ x[2] \in {"no session", "no memory"}
       /\ at[c] \in {"init", "session"} => x[1] # turn[c]
       /\ at[c] \in {"perform", "verdict"} /\ x[1] = turn[c]
            => x[2] = "no memory" /\ body[c] = "null"

UploadInv == UploadTypes /\ \A c \in Caller : HoldsBlocks(c)

LEMMA UploadInitial == UploadInit => UploadInv
<1>1. SUFFICES ASSUME UploadInit PROVE UploadInv
  OBVIOUS
<1>2. UploadTypes
  BY <1>1 DEF UploadInit, UploadTypes, Places
<1>3. ASSUME NEW c \in Caller PROVE HoldsBlocks(c)
  BY <1>1 DEF UploadInit, HoldsBlocks, Leaked, Own, InUse
<1>4. QED
  BY <1>2, <1>3 DEF UploadInv

\* A step of one caller leaves what the others hold alone.
LEMMA OthersHold ==
  ASSUME UploadInv, NEW c \in Caller, UploadTypes', HoldsBlocks(c)', urls' = urls,
         calls' \in {calls, calls + 1},
         \A d \in Caller \ {c} :
           /\ at'[d] = at[d] /\ turn'[d] = turn[d] /\ heap'[d] = heap[d]
           /\ cut'[d] = cut[d] /\ body'[d] = body[d]
  PROVE  UploadInv'
<1>1. ASSUME NEW d \in Caller \ {c} PROVE HoldsBlocks(d)'
  <2>1. HoldsBlocks(d) /\ turn[d] \in Nat /\ calls \in Nat
    BY DEF UploadInv, UploadTypes
  <2>2. /\ Owned(d)' = Owned(d) /\ Leaked(d)' = Leaked(d)
        /\ Own(d, InUse(d))' = Own(d, InUse(d))
    BY DEF Owned, Leaked, Own, InUse
  <2>3. turn[d] <= calls' /\ \A n \in 1..calls : n \in 1..calls'
    <3>1. turn[d] <= calls
      BY <2>1, Zenon DEF HoldsBlocks
    <3>2. QED
      BY <2>1, <3>1, SMT
  <2>4. /\ at'[d] = at[d] /\ turn'[d] = turn[d] /\ heap'[d] = heap[d]
        /\ cut'[d] = cut[d] /\ body'[d] = body[d]
    OBVIOUS
  <2>5. QED
    BY <2>1, <2>2, <2>3, <2>4 DEF HoldsBlocks
<1>2. QED
  BY <1>1 DEF UploadInv

\* What a call leaves for ever bears its number.
LEMMA LeakedIs ==
  ASSUME UploadInv, NEW c \in Caller, NEW b \in Leaked(c)
  PROVE  \E x \in cut[c] : b[1] = x[1] /\ b \in Left(x) /\ b[1] \in 1..calls
<1>1. PICK x \in cut[c] : b \in Left(x)
  BY DEF Leaked
<1>2. b[1] = x[1]
  BY <1>1 DEF Left
<1>3. x[1] \in 1..calls
  BY <1>1, Zenon DEF UploadInv, HoldsBlocks
<1>4. QED
  BY <1>1, <1>2, <1>3

\* In a call the number is positive.
LEMMA TurnIs ==
  ASSUME UploadInv, NEW c \in Caller, at[c] \notin {"idle", "destroyed"}
  PROVE  turn[c] \in 1..calls /\ turn[c] # 0
<1>1. turn[c] \in Nat /\ calls \in Nat /\ 0 < turn[c] /\ turn[c] <= calls
  BY Zenon DEF UploadInv, UploadTypes, HoldsBlocks
<1>2. QED
  BY <1>1, SMT

\* The calls that were cut short have had their numbers.
LEMMA CutIs ==
  ASSUME UploadInv, NEW c \in Caller, NEW x \in cut[c]
  PROVE  x[1] \in 1..calls /\ x[2] \in {"no session", "no memory"}
  BY Zenon DEF UploadInv, HoldsBlocks

LEMMA UploadStep == UploadInv /\ [UploadNext]_uploadVars => UploadInv'
<1>1. SUFFICES ASSUME UploadInv, [UploadNext]_uploadVars
               PROVE  UploadInv'
  OBVIOUS
<1> USE DEF UploadTypes
<1>2. UploadTypes /\ \A c \in Caller : HoldsBlocks(c)
  BY <1>1 DEF UploadInv
<1>3. ASSUME NEW c \in Caller, NEW k \in Made, Enter(c, k) PROVE UploadInv'
  <2>1. /\ at[c] = "idle" /\ turn' = [turn EXCEPT ![c] = calls + 1] /\ calls' = calls + 1
        /\ urls' = urls /\ cut' = cut
    BY <1>3 DEF Enter
  <2>2. Owned(c)' = Owned(c) /\ Leaked(c)' = Leaked(c)
    BY <2>1 DEF Owned, Leaked
  <2>3. heap[c] = Owned(c) \cup Leaked(c)
    BY <1>2, <2>1 DEF HoldsBlocks, Own, InUse
  <2>4. \A x \in cut[c] : /\ x[1] \in 1..calls' /\ x[1] # calls'
                          /\ x[2] \in {"no session", "no memory"}
    <3>1. \A n \in 1..calls : n \in 1..(calls + 1) /\ n # calls + 1
      BY <1>2, SMT
    <3>2. QED
      BY <1>1, <2>1, <3>1, CutIs
  <2>5. /\ turn'[c] = calls' /\ 0 < calls' /\ calls' \in Nat /\ calls' <= calls'
        /\ body[c] # "null"
    <3>1. 0 < calls + 1 /\ calls + 1 \in Nat /\ calls + 1 <= calls + 1
      BY <1>2, SMT
    <3>2. turn'[c] = calls'
      BY <1>2, <2>1
    <3>3. body[c] # "null"
      BY <1>2, <2>1 DEF HoldsBlocks
    <3>4. QED
      BY <2>1, <3>1, <3>2, <3>3
  <2>6. CASE FormOf(k).url \in urls[c]
    <3>1. /\ at' = [at EXCEPT ![c] = "init"]
          /\ heap' = [heap EXCEPT ![c] = @ \cup {<<calls', "memory">>}]
          /\ body' = [body EXCEPT ![c] = "unwritten"]
      BY <1>3, <2>6 DEF Enter
    <3>2. UploadTypes'
      BY <1>2, <2>1, <2>5, <3>1 DEF Places
    <3>3. at'[c] = "init" /\ body'[c] = "unwritten"
      BY <1>2, <3>1
    <3>4. Own(c, InUse(c))' = {<<calls', "memory">>}
      BY <2>5, <3>3 DEF Own, InUse
    <3>5. heap'[c] = heap[c] \cup {<<calls', "memory">>}
      BY <1>2, <3>1
    <3>6. HoldsBlocks(c)'
      BY <2>1, <2>2, <2>3, <2>4, <2>5, <3>3, <3>4, <3>5 DEF HoldsBlocks
    <3>7. QED
      BY <1>1, <1>2, <2>1, <3>1, <3>2, <3>6, OthersHold
  <2>7. CASE FormOf(k).url \notin urls[c]
    <3>1. at' = [at EXCEPT ![c] = "idle"] /\ UNCHANGED <<heap, body>>
      BY <1>3, <2>7 DEF Enter, Return
    <3>2. UploadTypes'
      BY <1>2, <2>1, <2>5, <3>1 DEF Places
    <3>3. at'[c] = "idle"
      BY <1>2, <3>1
    <3>4. Own(c, InUse(c))' = {}
      BY <3>3 DEF Own, InUse
    <3>5. HoldsBlocks(c)'
      BY <2>1, <2>2, <2>3, <2>4, <2>5, <3>1, <3>3, <3>4 DEF HoldsBlocks
    <3>6. QED
      BY <1>1, <1>2, <2>1, <3>1, <3>2, <3>5, OthersHold
  <2>8. QED
    BY <2>6, <2>7
<1>4. ASSUME NEW c \in Caller, GlobalInit(c) PROVE UploadInv'
  <2>1. /\ at[c] = "init" /\ at' = [at EXCEPT ![c] = "session"]
        /\ heap' = [heap EXCEPT ![c] = @ \cup Own(c, {"formpost"})]
        /\ UNCHANGED <<urls, turn, cut, body, calls>>
    BY <1>4 DEF GlobalInit
  <2>2. UploadTypes'
    BY <1>2, <2>1 DEF Places
  <2>3. Owned(c)' = Owned(c) /\ Leaked(c)' = Leaked(c) /\ at'[c] = "session"
    BY <1>2, <2>1 DEF Owned, Leaked
  <2>4. Own(c, InUse(c))' = Own(c, InUse(c)) \cup Own(c, {"formpost"})
    BY <2>1, <2>3 DEF Own, InUse
  <2>5. heap'[c] = heap[c] \cup Own(c, {"formpost"})
    BY <1>2, <2>1
  <2>6. HoldsBlocks(c)'
    BY <1>2, <2>1, <2>3, <2>4, <2>5 DEF HoldsBlocks
  <2>7. QED
    BY <1>1, <1>2, <2>1, <2>2, <2>6, OthersHold
<1>5. ASSUME NEW c \in Caller, EasyInit(c) PROVE UploadInv'
  <2>1. at[c] = "session" /\ UNCHANGED <<urls, turn, body, calls>>
    BY <1>5 DEF EasyInit
  <2>2. Owned(c)' = Owned(c)
    BY <2>1 DEF Owned
  <2>3. heap[c] = Owned(c) \cup Leaked(c) \cup Own(c, {"memory", "formpost"})
    BY <1>2, <2>1 DEF HoldsBlocks, InUse
  <2>4. CASE at' = [at EXCEPT ![c] = "perform"]
    <3>1. /\ heap' = [heap EXCEPT ![c] =
                        @ \cup Own(c, {"headerlist", "session", "reqErrorBuf", "fullUrl"})]
          /\ cut' = cut
      BY <1>2, <1>5, <2>4 DEF EasyInit, Return
    <3>2. UploadTypes'
      BY <1>2, <2>1, <2>4, <3>1 DEF Places
    <3>3. Leaked(c)' = Leaked(c) /\ at'[c] = "perform"
      BY <1>2, <2>4, <3>1 DEF Leaked
    <3>4. Own(c, InUse(c))' = Own(c, {"memory", "formpost"})
                              \cup Own(c, {"headerlist", "session", "reqErrorBuf", "fullUrl"})
      BY <2>1, <3>3 DEF Own, InUse, AllBlocks
    <3>5. heap'[c] = heap[c] \cup Own(c, {"headerlist", "session", "reqErrorBuf", "fullUrl"})
      BY <1>2, <3>1
    <3>6. HoldsBlocks(c)'
      BY <1>2, <2>1, <2>2, <2>3, <3>1, <3>3, <3>4, <3>5 DEF HoldsBlocks
    <3>7. QED
      BY <1>1, <1>2, <2>1, <2>4, <3>1, <3>2, <3>6, OthersHold
  <2>5. CASE at' = [at EXCEPT ![c] = "idle"]
    <3> DEFINE lack == <<turn[c], "no session">>
    <3>1. /\ heap' = [heap EXCEPT ![c] = @ \cup Own(c, {"headerlist"})]
          /\ cut' = [cut EXCEPT ![c] = @ \cup {lack}]
      BY <1>2, <1>5, <2>5 DEF EasyInit, Return
    <3>2. UploadTypes'
      BY <1>2, <2>1, <2>5, <3>1 DEF Places
    <3>3. at'[c] = "idle" /\ cut'[c] = cut[c] \cup {lack}
      BY <1>2, <2>5, <3>1
    <3>4. Own(c, InUse(c))' = {}
      BY <3>3 DEF Own, InUse
    <3>5. Left(lack) = Own(c, {"memory", "formpost"}) \cup Own(c, {"headerlist"})
      BY DEF Left, Own
    <3>6. Leaked(c)' = Leaked(c) \cup Left(lack)
      <4>1. Leaked(c)' = UNION {Left(x) : x \in cut'[c]}
        BY DEF Leaked, Left
      <4>2. QED
        BY <3>3, <4>1 DEF Leaked
    <3>7. heap'[c] = heap[c] \cup Own(c, {"headerlist"})
      BY <1>2, <3>1
    <3>8. heap'[c] = Owned(c)' \cup Leaked(c)' \cup Own(c, InUse(c))'
      BY <2>2, <2>3, <3>4, <3>5, <3>6, <3>7
    <3>9. turn[c] \in 1..calls /\ body[c] # "null"
      BY <1>1, <1>2, <2>1, TurnIs DEF HoldsBlocks
    <3>10. \A x \in cut'[c] : x[1] \in 1..calls /\ x[2] \in {"no session", "no memory"}
      <4>1. lack[1] = turn[c] /\ lack[2] = "no session"
        OBVIOUS
      <4>2. QED
        BY <1>1, <3>3, <3>9, <4>1, CutIs
    <3>11. turn'[c] <= calls'
      BY <1>2, <2>1 DEF HoldsBlocks
    <3>12. HoldsBlocks(c)'
      BY <2>1, <3>3, <3>8, <3>9, <3>10, <3>11 DEF HoldsBlocks
    <3>13. QED
      BY <1>1, <1>2, <2>1, <2>5, <3>1, <3>2, <3>12, OthersHold
  <2>6. QED
    BY <1>5, <2>4, <2>5 DEF EasyInit, Return
<1>6. ASSUME NEW c \in Caller, Piece(c) PROVE UploadInv'
  <2>1. /\ at[c] = "perform" /\ body[c] \in {"unwritten", "text"}
        /\ UNCHANGED <<urls, at, turn, heap, calls>>
    BY <1>6 DEF Piece
  <2>2. Owned(c)' = Owned(c) /\ Own(c, InUse(c))' = Own(c, InUse(c))
    BY <2>1 DEF Owned, Own, InUse
  <2>3. CASE body' = [body EXCEPT ![c] = "text"] /\ UNCHANGED cut
    <3>1. Leaked(c)' = Leaked(c) /\ body'[c] = "text"
      BY <1>2, <2>3 DEF Leaked
    <3>2. UploadTypes'
      BY <1>2, <2>1, <2>3
    <3>3. \A x \in cut[c] : x[1] # turn[c]
      BY <1>2, <2>1 DEF HoldsBlocks
    <3>4. HoldsBlocks(c)'
      BY <1>2, <2>1, <2>2, <2>3, <3>1, <3>3 DEF HoldsBlocks
    <3>5. QED
      BY <1>1, <1>2, <2>1, <2>3, <3>2, <3>4, OthersHold
  <2>4. CASE /\ body' = [body EXCEPT ![c] = "null"]
             /\ cut' = [cut EXCEPT ![c] = @ \cup {<<turn[c], "no memory">>}]
    <3> DEFINE lack == <<turn[c], "no memory">>
    <3>1. cut'[c] = cut[c] \cup {lack} /\ body'[c] = "null"
      BY <1>2, <2>4
    <3>2. UploadTypes'
      BY <1>2, <2>1, <2>4
    <3>3. Leaked(c)' = Leaked(c) \cup Left(lack)
      <4>1. Leaked(c)' = UNION {Left(x) : x \in cut'[c]}
        BY DEF Leaked, Left
      <4>2. QED
        BY <3>1, <4>1 DEF Leaked
    <3>4. Left(lack) \subseteq Own(c, InUse(c))
      BY <2>1 DEF Left, Own, InUse, AllBlocks
    <3>5. heap'[c] = Owned(c)' \cup Leaked(c)' \cup Own(c, InUse(c))'
      <4>1. heap[c] = Owned(c) \cup Leaked(c) \cup Own(c, InUse(c))
        BY <1>2, <2>1 DEF HoldsBlocks
      <4>2. QED
        BY <2>1, <2>2, <3>3, <3>4, <4>1
    <3>6. turn[c] \in 1..calls /\ 0 < turn[c]
      BY <1>1, <1>2, <2>1, TurnIs DEF HoldsBlocks
    <3>7. \A x \in cut[c] : x[1] # turn[c]
      BY <1>2, <2>1 DEF HoldsBlocks
    <3>8. \A x \in cut'[c] : /\ x[1] \in 1..calls /\ x[2] \in {"no session", "no memory"}
                             /\ x[1] = turn[c] => x[2] = "no memory"
      <4>1. lack[1] = turn[c] /\ lack[2] = "no memory"
        OBVIOUS
      <4>2. QED
        BY <1>1, <3>1, <3>6, <3>7, <4>1, CutIs
    <3>9. turn'[c] <= calls'
      BY <1>2, <2>1 DEF HoldsBlocks
    <3>10. HoldsBlocks(c)'
      BY <2>1, <3>1, <3>5, <3>6, <3>8, <3>9 DEF HoldsBlocks
    <3>11. QED
      BY <1>1, <1>2, <2>1, <2>4, <3>2, <3>10, OthersHold
  <2>5. QED
    BY <1>6, <2>3, <2>4 DEF Piece
<1>7. ASSUME NEW c \in Caller, Performed(c) PROVE UploadInv'
  <2>1. /\ at[c] = "perform" /\ at' = [at EXCEPT ![c] = "verdict"]
        /\ UNCHANGED <<urls, turn, heap, cut, body, calls>>
    BY <1>7 DEF Performed
  <2>2. UploadTypes' /\ at'[c] = "verdict"
    BY <1>2, <2>1 DEF Places
  <2>3. /\ Owned(c)' = Owned(c) /\ Leaked(c)' = Leaked(c)
        /\ Own(c, InUse(c))' = Own(c, InUse(c))
    BY <2>1, <2>2 DEF Owned, Leaked, Own, InUse
  <2>4. HoldsBlocks(c)'
    BY <1>2, <2>1, <2>2, <2>3 DEF HoldsBlocks
  <2>5. QED
    BY <1>1, <1>2, <2>1, <2>2, <2>4, OthersHold
<1>8. ASSUME NEW c \in Caller, Finish(c) PROVE UploadInv'
  <2>1. /\ at[c] = "verdict" /\ at' = [at EXCEPT ![c] = "idle"]
        /\ heap' = [heap EXCEPT ![c] = @ \ Own(c, Freed(body[c]))]
        /\ body' = [body EXCEPT ![c] = "none"]
        /\ UNCHANGED <<urls, turn, cut, calls>>
    BY <1>8 DEF Finish, Return
  <2>2. UploadTypes' /\ at'[c] = "idle" /\ body'[c] = "none"
    BY <1>2, <2>1 DEF Places
  <2>3. /\ Owned(c)' = Owned(c) /\ Leaked(c)' = Leaked(c)
        /\ Own(c, InUse(c))' = {}
    BY <2>1, <2>2 DEF Owned, Leaked, Own, InUse
  <2>4. heap[c] = Owned(c) \cup Leaked(c) \cup Own(c, AllBlocks)
    BY <1>2, <2>1 DEF HoldsBlocks, InUse
  <2>5. ASSUME NEW b \in Owned(c) PROVE b \notin Own(c, Freed(body[c]))
    <3>1. turn[c] # 0
      BY <1>1, <2>1, TurnIs
    <3>2. QED
      BY <2>5, <3>1 DEF Owned, Own
  <2>6. ASSUME NEW b \in Leaked(c) PROVE b \notin Own(c, Freed(body[c]))
    <3>1. PICK x \in cut[c] : b[1] = x[1] /\ b \in Left(x)
      BY <1>1, <2>6, LeakedIs
    <3>2. CASE x[1] # turn[c]
      BY <3>1, <3>2 DEF Own
    <3>3. CASE x[1] = turn[c]
      <4>1. x[2] = "no memory" /\ body[c] = "null"
        BY <1>2, <2>1, <3>3 DEF HoldsBlocks
      <4>2. b[2] = "memory"
        BY <3>1, <4>1 DEF Left
      <4>3. QED
        BY <4>1, <4>2 DEF Own, Freed
    <3>4. QED
      BY <3>2, <3>3
  <2>7. Own(c, AllBlocks) \ Own(c, Freed(body[c])) \subseteq Leaked(c)
    <3>1. CASE body[c] = "null"
      <4>1. <<turn[c], "no memory">> \in cut[c]
        BY <1>2, <3>1 DEF HoldsBlocks
      <4>2. Left(<<turn[c], "no memory">>) \subseteq Leaked(c)
        BY <4>1 DEF Leaked
      <4>3. Own(c, AllBlocks) \ Own(c, Freed(body[c])) \subseteq Left(<<turn[c], "no memory">>)
        BY <3>1 DEF Own, Freed, AllBlocks, Left
      <4>4. QED
        BY <4>2, <4>3
    <3>2. CASE body[c] # "null"
      BY <3>2 DEF Freed
    <3>3. QED
      BY <3>1, <3>2
  <2>8. heap'[c] = heap[c] \ Own(c, Freed(body[c]))
    BY <1>2, <2>1
  <2>9. heap'[c] = Owned(c) \cup Leaked(c)
    BY <2>4, <2>5, <2>6, <2>7, <2>8
  <2>10. HoldsBlocks(c)'
    BY <1>2, <2>1, <2>2, <2>3, <2>9 DEF HoldsBlocks
  <2>11. QED
    BY <1>1, <1>2, <2>1, <2>2, <2>10, OthersHold
<1>9. ASSUME NEW c \in Caller, Destroy(c) PROVE UploadInv'
  <2>1. /\ at[c] = "idle" /\ at' = [at EXCEPT ![c] = "destroyed"]
        /\ heap' = [heap EXCEPT ![c] = @ \ Owned(c)]
        /\ UNCHANGED <<urls, turn, cut, body, calls>>
    BY <1>9 DEF Destroy
  <2>2. UploadTypes' /\ at'[c] = "destroyed"
    BY <1>2, <2>1 DEF Places
  <2>3. Leaked(c)' = Leaked(c) /\ Own(c, InUse(c))' = {}
    BY <2>1, <2>2 DEF Leaked, Own, InUse
  <2>4. heap[c] = Owned(c) \cup Leaked(c)
    BY <1>2, <2>1 DEF HoldsBlocks, Own, InUse
  <2>5. ASSUME NEW b \in Leaked(c) PROVE b \notin Owned(c)
    <3>1. b[1] \in 1..calls
      BY <1>1, <2>5, LeakedIs
    <3>2. b[1] # 0
      BY <1>2, <3>1, SMT
    <3>3. QED
      BY <3>2 DEF Owned
  <2>6. heap'[c] = heap[c] \ Owned(c)
    BY <1>2, <2>1
  <2>7. heap'[c] = Leaked(c)
    BY <2>4, <2>5, <2>6
  <2>8. HoldsBlocks(c)'
    <3>1. heap'[c] = {} \cup Leaked(c)' \cup Own(c, InUse(c))'
      BY <2>3, <2>7
    <3>2. turn[c] <= calls /\ body[c] # "null"
      BY <1>2, <2>1 DEF HoldsBlocks
    <3>3. QED
      BY <1>1, <2>1, <2>2, <3>1, <3>2, CutIs, Zenon DEF HoldsBlocks
  <2>9. QED
    BY <1>1, <1>2, <2>1, <2>2, <2>8, OthersHold
<1>10. CASE UNCHANGED uploadVars
  <2>1. UNCHANGED <<urls, at, turn, heap, cut, body, calls>>
    BY <1>10 DEF uploadVars
  <2>2. UploadTypes'
    BY <1>2, <2>1
  <2>3. ASSUME NEW c \in Caller PROVE HoldsBlocks(c)'
    BY <1>2, <2>1 DEF HoldsBlocks, Owned, Leaked, Own, InUse
  <2>4. QED
    BY <2>2, <2>3 DEF UploadInv
<1>11. QED
  BY <1>1, <1>3, <1>4, <1>5, <1>6, <1>7, <1>8, <1>9, <1>10 DEF UploadNext

\* No call leaves a block behind but on the two paths that cannot free it, where what is
\* left is just that: for any number of callers and of calls and whatever becomes of each.
THEOREM CallsReturnClean == UploadSpec => []ReturnsClean
<1>1. UploadInv => ReturnsClean
  <2>1. SUFFICES ASSUME UploadInv, NEW c \in Caller
                 PROVE  /\ at[c] = "idle" => heap[c] = Owned(c) \cup Leaked(c)
                        /\ at[c] = "destroyed" => heap[c] = Leaked(c)
    BY DEF ReturnsClean
  <2>2. at[c] \in {"idle", "destroyed"} => Own(c, InUse(c)) = {}
    BY DEF Own, InUse
  <2>3. HoldsBlocks(c)
    BY <2>1 DEF UploadInv
  <2>4. QED
    BY <2>2, <2>3 DEF HoldsBlocks
<1>2. QED
  BY UploadInitial, UploadStep, <1>1, PTL DEF UploadSpec

\* The callers that have a session, whom the count of libcurl is about.
Active == {c \in Caller : at[c] \in Session}

GlobalInv ==
  /\ at \in [Caller -> Places]
  /\ lost \in Nat /\ inits = lost + Cardinality(Active)

LEMMA GlobalInitial == UploadInit => GlobalInv
<1>1. SUFFICES ASSUME UploadInit PROVE GlobalInv
  OBVIOUS
<1>2. Active = {} /\ at \in [Caller -> Places]
  BY <1>1 DEF UploadInit, Active, Session, Places
<1>3. QED
  BY <1>1, <1>2, FS_EmptySet, SMT DEF UploadInit, GlobalInv

\* The count follows a caller that begins a session, stays in it or ends it.
LEMMA GlobalStep ==
  ASSUME GlobalInv, NEW c \in Caller, NEW place \in Places,
         at' = [at EXCEPT ![c] = place],
         \/ at[c] \notin Session /\ place \in Session /\ inits' = inits + 1 /\ lost' = lost
         \/ (at[c] \in Session <=> place \in Session) /\ inits' = inits /\ lost' = lost
         \/ at[c] \in Session /\ place \notin Session /\ inits' = inits - 1 /\ lost' = lost
         \/ at[c] \in Session /\ place \notin Session /\ inits' = inits /\ lost' = lost + 1
  PROVE  GlobalInv'
<1>1. at' \in [Caller -> Places] /\ at'[c] = place /\ \A d \in Caller \ {c} : at'[d] = at[d]
  BY DEF GlobalInv
<1>2. IsFiniteSet(Active) /\ Cardinality(Active) \in Nat
  BY CallersAssumption, FS_Subset, FS_CardinalityType DEF Active
<1>3. CASE at[c] \notin Session /\ place \in Session /\ inits' = inits + 1 /\ lost' = lost
  <2>1. Active' = Active \cup {c} /\ c \notin Active
    BY <1>1, <1>3 DEF Active
  <2>2. Cardinality(Active') = Cardinality(Active) + 1
    BY <1>2, <2>1, FS_AddElement
  <2>3. QED
    BY <1>1, <1>2, <1>3, <2>2, SMT DEF GlobalInv
<1>4. CASE (at[c] \in Session <=> place \in Session) /\ inits' = inits /\ lost' = lost
  <2>1. Active' = Active
    BY <1>1, <1>4 DEF Active
  <2>2. QED
    BY <1>1, <1>4, <2>1 DEF GlobalInv
<1>5. CASE at[c] \in Session /\ place \notin Session
  <2>1. Active' = Active \ {c} /\ c \in Active
    BY <1>1, <1>5 DEF Active
  <2>2. Cardinality(Active') = Cardinality(Active) - 1
    BY <1>2, <2>1, FS_RemoveElement
  <2>3. CASE inits' = inits - 1 /\ lost' = lost
    BY <1>1, <1>2, <2>2, <2>3, SMT DEF GlobalInv
  <2>4. CASE inits' = inits /\ lost' = lost + 1
    BY <1>1, <1>2, <2>2, <2>4, SMT DEF GlobalInv
  <2>5. QED
    BY <1>4, <1>5, <2>3, <2>4
<1>6. QED
  BY <1>3, <1>4, <1>5

LEMMA GlobalSteps == GlobalInv /\ [UploadNext]_uploadVars => GlobalInv'
<1>1. SUFFICES ASSUME GlobalInv, [UploadNext]_uploadVars
               PROVE  GlobalInv'
  OBVIOUS
<1>2. ASSUME UNCHANGED <<at, inits, lost>> PROVE GlobalInv'
  BY <1>1, <1>2 DEF GlobalInv, Active
<1>3. ASSUME NEW c \in Caller, NEW k \in Made, Enter(c, k) PROVE GlobalInv'
  <2>1. at[c] = "idle" /\ UNCHANGED <<inits, lost>>
        /\ \E place \in {"init", "idle"} : at' = [at EXCEPT ![c] = place]
    BY <1>3 DEF Enter, Return
  <2>2. QED
    BY <1>1, <2>1, GlobalStep DEF Places, Session
<1>4. ASSUME NEW c \in Caller, GlobalInit(c) PROVE GlobalInv'
  <2>1. at[c] = "init" /\ inits' = inits + 1 /\ lost' = lost
        /\ at' = [at EXCEPT ![c] = "session"]
    BY <1>4 DEF GlobalInit
  <2>2. QED
    BY <1>1, <2>1, GlobalStep DEF Places, Session
<1>5. ASSUME NEW c \in Caller, EasyInit(c) PROVE GlobalInv'
  <2>1. at[c] = "session" /\ inits' = inits
    BY <1>5 DEF EasyInit
  <2>2. CASE at' = [at EXCEPT ![c] = "perform"] /\ lost' = lost
    BY <1>1, <2>1, <2>2, GlobalStep DEF Places, Session
  <2>3. CASE at' = [at EXCEPT ![c] = "idle"] /\ lost' = lost + 1
    BY <1>1, <2>1, <2>3, GlobalStep DEF Places, Session
  <2>4. QED
    BY <1>5, <2>2, <2>3 DEF EasyInit, Return
<1>6. ASSUME NEW c \in Caller, Piece(c) PROVE GlobalInv'
  BY <1>2, <1>6 DEF Piece
<1>7. ASSUME NEW c \in Caller, Performed(c) PROVE GlobalInv'
  <2>1. at[c] = "perform" /\ inits' = inits /\ lost' = lost
        /\ at' = [at EXCEPT ![c] = "verdict"]
    BY <1>7 DEF Performed
  <2>2. QED
    BY <1>1, <2>1, GlobalStep DEF Places, Session
<1>8. ASSUME NEW c \in Caller, Finish(c) PROVE GlobalInv'
  <2>1. at[c] = "verdict" /\ inits' = inits - 1 /\ lost' = lost
        /\ at' = [at EXCEPT ![c] = "idle"]
    BY <1>8 DEF Finish, Return, cleanup
  <2>2. QED
    BY <1>1, <2>1, GlobalStep DEF Places, Session
<1>9. ASSUME NEW c \in Caller, Destroy(c) PROVE GlobalInv'
  <2>1. at[c] = "idle" /\ inits' = inits /\ lost' = lost
        /\ at' = [at EXCEPT ![c] = "destroyed"]
    BY <1>9 DEF Destroy
  <2>2. QED
    BY <1>1, <2>1, GlobalStep DEF Places, Session
<1>10. CASE UNCHANGED uploadVars
  BY <1>2, <1>10 DEF uploadVars
<1>11. QED
  BY <1>1, <1>3, <1>4, <1>5, <1>6, <1>7, <1>8, <1>9, <1>10 DEF UploadNext

\* libcurl is initialised while anybody has a session, for any finite number of callers.
THEOREM LibraryStaysInitialised == UploadSpec => []GlobalHeld
<1>1. GlobalInv => GlobalHeld
  <2>1. SUFFICES ASSUME GlobalInv PROVE GlobalHeld
    OBVIOUS
  <2>2. IsFiniteSet(Active) /\ Cardinality(Active) \in Nat
    BY CallersAssumption, FS_Subset, FS_CardinalityType DEF Active
  <2>3. ASSUME NEW c \in Caller, at[c] \in Session PROVE inits > 0
    <3>1. c \in Active
      BY <2>3 DEF Active
    <3>2. Cardinality(Active) # 0
      BY <2>2, <3>1, FS_EmptySet
    <3>3. QED
      BY <2>1, <2>2, <3>2, SMT DEF GlobalInv
  <2>4. QED
    BY <2>1, <2>3 DEF GlobalInv, GlobalHeld, Active
<1>2. QED
  BY GlobalInitial, GlobalSteps, <1>1, PTL DEF UploadSpec
(***************************************************************************)
(* AsciiProtocol: a receiver reads in a buffer what was said. A message    *)
(* splits at its commas into the pairs it was joined from, by induction    *)
(* over them (FlatSplits); each pair reads as its name and its word, and   *)
(* the last one as what the cut leaves of it (PairReads, LastPart); the    *)
(* names are distinct, so that each is found once or not at all            *)
(* (FoundOnce, FoundNever). TextInv says where the last messages are.      *)
(***************************************************************************)

-----------------------------------------------------------------------------
(* Greatest and least elements, and what a concatenation has where. *)

LEMMA MaxIs ==
  ASSUME NEW T, NEW m \in T, T \subseteq Int, \A n \in T : n <= m
  PROVE  Max(T) = m
<1>1. PICK x : x = Max(T)
  OBVIOUS
<1>2. x \in T /\ \A n \in T : x >= n
  BY <1>1, Zenon DEF Max
<1>3. QED
  BY <1>1, <1>2

LEMMA MinIs ==
  ASSUME NEW T, NEW m \in T, T \subseteq Int, \A n \in T : m <= n
  PROVE  Min(T) = m
<1>1. \A n \in T : m <= n
  OBVIOUS
<1>2. PICK x : x = Min(T)
  OBVIOUS
<1>3. x \in T /\ \A n \in T : x <= n
  BY <1>2 DEF Min
<1>4. QED
  BY <1>2, <1>3

\* An equality of sequences that the provers are to take as one fact.
Same(s, t) == s = t

\* Two sequences that agree on a stretch have the same stretch there.
Agree(S, s, a, b, t, d) ==
  /\ a \in Int /\ b \in Int /\ d \in Int
  /\ \A i \in a..b : s[i] \in S /\ s[i] = t[d + i]

LEMMA SameStretch ==
  ASSUME NEW S, NEW s, NEW a, NEW b, NEW t, NEW d, Agree(S, s, a, b, t, d)
  PROVE  Same(SubSeq(s, a, b), SubSeq(t, d + a, d + b))
<1> DEFINE x == SubSeq(s, a, b)
           y == SubSeq(t, d + a, d + b)
<1>0. a \in Int /\ b \in Int /\ d \in Int /\ \A i \in a..b : s[i] \in S /\ s[i] = t[d + i]
  BY DEF Agree
<1>1. \A i \in (d + a)..(d + b) : t[i] \in S
  <2>1. TAKE i \in (d + a)..(d + b)
  <2>2. i - d \in a..b /\ d + (i - d) = i
    BY <1>0
  <2>3. QED
    BY <1>0, <2>2
<1>2. /\ x \in Seq(S) /\ Len(x) = (IF a <= b THEN b - a + 1 ELSE 0)
      /\ \A i \in 1..(b - a + 1) : x[i] = s[a + i - 1]
  BY <1>0, SubSeqProperties
<1>3. d + a \in Int /\ d + b \in Int
  BY <1>0
<1>4. /\ y \in Seq(S) /\ Len(y) = (IF d + a <= d + b THEN (d + b) - (d + a) + 1 ELSE 0)
      /\ \A i \in 1..((d + b) - (d + a) + 1) : y[i] = t[(d + a) + i - 1]
  <2> HIDE DEF y
  <2>1. \A m, n \in Int : (\A i \in m..n : t[i] \in S) =>
           /\ SubSeq(t, m, n) \in Seq(S)
           /\ Len(SubSeq(t, m, n)) = (IF m <= n THEN n - m + 1 ELSE 0)
           /\ \A i \in 1..(n - m + 1) : SubSeq(t, m, n)[i] = t[m + i - 1]
    BY SubSeqProperties
  <2>2. QED
    BY <1>1, <1>3, <2>1 DEF y
<1> HIDE DEF x, y
<1>5. Len(x) = Len(y)
  BY <1>0, <1>2, <1>4
<1>6. ASSUME NEW i \in 1..Len(x)
      PROVE  x[i] = y[i]
  <2>1. i \in 1..(b - a + 1) /\ i \in 1..((d + b) - (d + a) + 1) /\ a + i - 1 \in a..b
        /\ d + (a + i - 1) = (d + a) + i - 1
    BY <1>0, <1>2
  <2>2. QED
    BY <1>0, <1>2, <1>4, <2>1
<1>7. x = y
  BY <1>2, <1>4, <1>5, <1>6, SeqEqual
<1>8. QED
  BY <1>7 DEF x, y, Same

\* What a concatenation has where.
Concat(t, s, n, p, m) ==
  /\ n \in Nat /\ m \in Nat /\ Len(t) = n + m
  /\ \A i \in 1..n : t[i] = s[i]
  /\ \A i \in 1..m : t[n + i] = p[i]

LEMMA JoinedAt ==
  ASSUME NEW S, NEW s \in Seq(S), NEW p \in Seq(S), NEW n, n = Len(s), NEW m, m = Len(p)
  PROVE  s \o p \in Seq(S) /\ Concat(s \o p, s, n, p, m)
<1>1. n \in Nat /\ m \in Nat
  OBVIOUS
<1>2. s \o p \in Seq(S) /\ Len(s \o p) = n + m
  OBVIOUS
<1>3. \A i \in 1..n : (s \o p)[i] = s[i]
  OBVIOUS
<1>4. \A i \in 1..m : (s \o p)[n + i] = p[i]
  OBVIOUS
<1>5. QED
  BY <1>1, <1>2, <1>3, <1>4 DEF Concat

Seqs(S, a, b, c) == a \in Seq(S) /\ b \in Seq(S) /\ c \in Seq(S)

LEMMA Associative ==
  ASSUME NEW S, NEW a, NEW b, NEW c, Seqs(S, a, b, c)
  PROVE  Same((a \o b) \o c, a \o (b \o c))
  BY ConcatAssociative DEF Seqs, Same

-----------------------------------------------------------------------------
(* split: what Starts and Stretch find. *)

\* A part that starts at i ends at k.
Ends(s, sep, i, k) ==
  /\ i \in 1..Len(s) /\ k \in i..Len(s)
  /\ k = Len(s) \/ s[k + 1] = sep
  /\ \A j \in i..k - 1 : s[j + 1] # sep

LEMMA StretchIs ==
  ASSUME NEW s, Len(s) \in Nat, NEW sep, NEW i, NEW k, Ends(s, sep, i, k)
  PROVE  Stretch(s, sep, i) = SubSeq(s, i, k)
<1> DEFINE T == {j \in i..Len(s) : j = Len(s) \/ s[j + 1] = sep}
<1>0. Len(s) \in Nat
  OBVIOUS
<1>1. T \subseteq Int /\ k \in T
  BY <1>0 DEF Ends
<1>2. ASSUME NEW j \in T
      PROVE  k <= j
  <2>1. j \in i..Len(s) /\ (j = Len(s) \/ s[j + 1] = sep)
    OBVIOUS
  <2>2. j \notin i..k - 1
    BY <1>0, <2>1 DEF Ends
  <2>3. QED
    BY <1>0, <2>1, <2>2 DEF Ends
<1>3. Min(T) = k
  <2> HIDE DEF T
  <2>1. QED
    BY <1>1, <1>2, MinIs
<1>4. QED
  BY <1>3 DEF Stretch

\* p follows s, with its separator or without.
Follows(s, sep, p, e) ==
  /\ s = <<>> \/ s[Len(s)] = sep
  /\ p # <<>> /\ \A i \in 1..Len(p) : p[i] # sep
  /\ e = <<>> \/ e = <<sep>>

\* The parts of t are those of s, as they were, and p where s ends.
Extends(t, s, sep, p) ==
  /\ Starts(t, sep) = Starts(s, sep) \cup {Len(s) + 1}
  /\ \A i \in Starts(s, sep) : Stretch(t, sep, i) = Stretch(s, sep, i)
  /\ Stretch(t, sep, Len(s) + 1) = p

LEMMA OnePartMore ==
  ASSUME NEW S, NEW sep, NEW s \in Seq(S), NEW p \in Seq(S), NEW e \in Seq(S),
         Follows(s, sep, p, e)
  PROVE  (s \o p) \o e \in Seq(S) /\ Extends((s \o p) \o e, s, sep, p)
<1>0. s \in Seq(S) /\ p \in Seq(S) /\ e \in Seq(S)
  OBVIOUS
<1>1. PICK n \in Nat : n = Len(s)
  BY LenProperties
<1>2. PICK m \in Nat : m = Len(p)
  BY LenProperties
<1>3. PICK t : t = (s \o p) \o e
  OBVIOUS
<1>4. PICK k \in Nat : k = Len(t)
  BY <1>3
<1>5. m >= 1
  BY <1>2 DEF Follows
<1>6. /\ t \in Seq(S) /\ (n = 0 \/ s[n] = sep)
      /\ \A i \in 1..n : t[i] = s[i]
      /\ \A i \in 1..m : t[n + i] = p[i] /\ p[i] # sep
  <2>1. PICK w : w = s \o p
    OBVIOUS
  <2>2. w \in Seq(S) /\ Concat(w, s, n, p, m)
    BY <1>0, <1>1, <1>2, <2>1, JoinedAt
  <2>3. n + m = Len(w)
    BY <2>2 DEF Concat
  <2>4. t \in Seq(S) /\ Concat(t, w, n + m, e, Len(e))
    BY <1>0, <1>3, <2>1, <2>2, <2>3, JoinedAt
  <2>5. \A i \in 1..n + m : t[i] = w[i]
    BY <2>4 DEF Concat
  <2>6. (\A i \in 1..n : i \in 1..n + m) /\ (\A i \in 1..m : n + i \in 1..n + m)
    OBVIOUS
  <2>7. (\A i \in 1..n : w[i] = s[i]) /\ \A i \in 1..m : w[n + i] = p[i]
    BY <2>2 DEF Concat
  <2>8. n = 0 \/ s[n] = sep
    BY <1>1 DEF Follows
  <2>9. \A i \in 1..m : p[i] # sep
    BY <1>2 DEF Follows
  <2>10. QED
    BY <2>4, <2>5, <2>6, <2>7, <2>8, <2>9, Zenon
<1>7. k = n + m \/ (k = n + m + 1 /\ t[k] = sep)
  <2>1. PICK w : w = s \o p
    OBVIOUS
  <2>2. w \in Seq(S) /\ Concat(w, s, n, p, m)
    BY <1>0, <1>1, <1>2, <2>1, JoinedAt
  <2>3. n + m = Len(w)
    BY <2>2 DEF Concat
  <2>4. Concat(t, w, n + m, e, Len(e))
    BY <1>0, <1>3, <2>1, <2>2, <2>3, JoinedAt
  <2>5. CASE e = <<>>
    BY <1>4, <2>4, <2>5 DEF Concat
  <2>6. CASE e = <<sep>>
    <3>1. Len(e) = 1 /\ e[1] = sep /\ 1 \in 1..1
      BY <2>6
    <3>2. Concat(t, w, n + m, e, 1)
      BY <2>4, <3>1
    <3>3. QED
      BY <1>4, <3>1, <3>2 DEF Concat
  <2>7. QED
    BY <2>5, <2>6 DEF Follows
<1>8. Starts(t, sep) = {i \in 1..k : t[i] # sep /\ (i = 1 \/ t[i - 1] = sep)}
      /\ Starts(s, sep) = {i \in 1..n : s[i] # sep /\ (i = 1 \/ s[i - 1] = sep)}
  BY <1>1, <1>4 DEF Starts
<1>9. Starts(t, sep) = Starts(s, sep) \cup {n + 1}
  <2>1. ASSUME NEW i \in 1..n
        PROVE  i \in Starts(t, sep) <=> i \in Starts(s, sep)
    <3>1. i \in 1..k
      BY <1>7
    <3>2. t[i] = s[i]
      BY <1>6
    <3>3. i # 1 => i - 1 \in 1..n
      OBVIOUS
    <3>4. i # 1 => t[i - 1] = s[i - 1]
      BY <1>6, <3>3
    <3>5. QED
      BY <1>8, <3>1, <3>2, <3>4
  <2>2. n + 1 \in Starts(t, sep)
    <3>1. n + 1 \in 1..k /\ t[n + 1] # sep
      BY <1>5, <1>6, <1>7
    <3>2. n # 0 => t[n] = sep
      BY <1>6
    <3>3. (n + 1) - 1 = n
      OBVIOUS
    <3>4. QED
      BY <1>8, <3>1, <3>2, <3>3
  <2>3. ASSUME NEW i \in 1..k, i > n + 1
        PROVE  i \notin Starts(t, sep)
    <3>1. CASE i = n + m + 1
      BY <1>6, <1>7, <1>8, <3>1
    <3>2. CASE i # n + m + 1
      <4>1. i - n - 1 \in 1..m /\ n + (i - n - 1) = i - 1 /\ i # 1
        BY <1>7, <2>3, <3>2
      <4>2. t[i - 1] # sep
        BY <1>6, <4>1
      <4>3. QED
        BY <1>8, <4>1, <4>2
    <3>3. QED
      BY <3>1, <3>2
  <2>4. Starts(t, sep) \subseteq 1..k /\ Starts(s, sep) \subseteq 1..n /\ n <= k
    BY <1>7, <1>8
  <2>5. QED
    BY <2>1, <2>2, <2>3, <2>4
<1>10. ASSUME NEW i \in Starts(s, sep)
       PROVE  Stretch(t, sep, i) = Stretch(s, sep, i)
  <2>1. i \in 1..n /\ s[i] # sep
    BY <1>8
  <2>2. s[n] = sep /\ i < n
    BY <1>6, <2>1
  <2> DEFINE T == {j \in i..n - 1 : s[j + 1] = sep}
  <2>3. T \subseteq Nat /\ T # {}
    <3>1. n - 1 \in T
      BY <2>1, <2>2
    <3>2. i..n - 1 \subseteq Nat
      BY <2>1
    <3>3. QED
      BY <3>1, <3>2, Zenon
  <2>4. PICK j \in T : \A h \in T : j <= h
    BY <2>3, LeastElement
  <2>5. j \in i..n - 1 /\ s[j + 1] = sep /\ \A h \in i..j - 1 : s[h + 1] # sep
    <3>1. j \in i..n - 1 /\ s[j + 1] = sep
      BY <2>4
    <3>2. ASSUME NEW h \in i..j - 1
          PROVE  s[h + 1] # sep
      <4>1. h \notin T /\ h \in i..n - 1
        BY <2>1, <2>4, <3>1
      <4>2. QED
        BY <4>1
    <3>3. QED
      BY <3>1, <3>2
  <2> HIDE DEF T
  <2>6. Stretch(s, sep, i) = SubSeq(s, i, j)
    <3>1. j \in i..n
      BY <2>1, <2>5
    <3>2. Ends(s, sep, i, j)
      BY <1>1, <2>1, <2>5, <3>1 DEF Ends
    <3>3. QED
      BY <1>1, <3>2, StretchIs
  <2>7. Stretch(t, sep, i) = SubSeq(t, i, j)
    <3>1. j \in i..k /\ i \in 1..k /\ j + 1 \in 1..n
      BY <1>7, <2>1, <2>5
    <3>2. t[j + 1] = sep
      BY <1>6, <2>5, <3>1
    <3>3. ASSUME NEW h \in i..j - 1
          PROVE  t[h + 1] # sep
      <4>1. h + 1 \in 1..n
        BY <2>1, <2>5
      <4>2. QED
        BY <1>6, <2>5, <4>1
    <3>4. Ends(t, sep, i, j)
      BY <1>4, <3>1, <3>2, <3>3, Zenon DEF Ends
    <3>5. QED
      BY <1>4, <3>4, StretchIs
  <2>8. SubSeq(s, i, j) = SubSeq(t, 0 + i, 0 + j)
    <3>1. i \in Int /\ j \in Int /\ \A h \in i..j : h \in 1..n
      BY <2>1, <2>5
    <3>2. \A h \in i..j : s[h] \in S /\ s[h] = t[0 + h]
      BY <1>1, <1>6, <3>1
    <3>3. Agree(S, s, i, j, t, 0)
      BY <3>1, <3>2 DEF Agree
    <3>4. Same(SubSeq(s, i, j), SubSeq(t, 0 + i, 0 + j))
      BY <3>3, SameStretch
    <3>5. QED
      BY <3>4, Zenon DEF Same
  <2>9. 0 + i = i /\ 0 + j = j
    BY <2>1, <2>5
  <2>10. QED
    BY <2>6, <2>7, <2>8, <2>9
<1>11. Stretch(t, sep, n + 1) = p
  <2>1. Stretch(t, sep, n + 1) = SubSeq(t, n + 1, n + m)
    <3>1. n + 1 \in 1..k /\ n + m \in n + 1..k
      BY <1>5, <1>7
    <3>2. n + m = k \/ t[(n + m) + 1] = sep
      BY <1>7
    <3>3. ASSUME NEW j \in n + 1..(n + m) - 1
          PROVE  t[j + 1] # sep
      <4>1. (j + 1) - n \in 1..m /\ n + ((j + 1) - n) = j + 1
        OBVIOUS
      <4>2. QED
        BY <1>6, <4>1
    <3>4. Ends(t, sep, n + 1, n + m)
      BY <1>4, <3>1, <3>2, <3>3, Zenon DEF Ends
    <3>5. QED
      BY <1>4, <3>4, StretchIs
  <2>2. SubSeq(p, 1, m) = SubSeq(t, n + 1, n + m)
    <3>1. \A i \in 1..m : p[i] \in S /\ p[i] = t[n + i]
      BY <1>2, <1>6
    <3>2. Agree(S, p, 1, m, t, n)
      BY <3>1 DEF Agree
    <3>3. Same(SubSeq(p, 1, m), SubSeq(t, n + 1, n + m))
      BY <3>2, SameStretch
    <3>4. QED
      BY <3>3, Zenon DEF Same
  <2>3. SubSeq(p, 1, m) = p
    BY <1>2, SubSeqFull
  <2>4. QED
    BY <2>1, <2>2, <2>3
<1>12. QED
  BY <1>1, <1>3, <1>6, <1>9, <1>10, <1>11 DEF Extends

-----------------------------------------------------------------------------
(* trim_right and trim: what is kept. *)

\* The last that trim_right keeps of s is at j.
Keeps(s, drop, j) ==
  /\ j \in 1..Len(s) /\ s[j] \notin drop
  /\ \A h \in j + 1..Len(s) : s[h] \in drop

LEMMA TrimIs ==
  ASSUME NEW s, Len(s) \in Nat, NEW drop, NEW j, Keeps(s, drop, j)
  PROVE  trim_right(s, drop) = SubSeq(s, 1, j)
<1> DEFINE T == {i \in 1..Len(s) : s[i] \notin drop}
<1>0. Len(s) \in Nat
  OBVIOUS
<1>1. j \in T /\ T \subseteq Int
  BY DEF Keeps
<1>2. ASSUME NEW i \in T
      PROVE  i <= j
  <2>1. i \in 1..Len(s) /\ s[i] \notin drop
    OBVIOUS
  <2>2. i \notin j + 1..Len(s) /\ j \in 1..Len(s)
    BY <2>1 DEF Keeps
  <2>3. QED
    BY <1>0, <2>1, <2>2
<1>3. Max(T) = j /\ T # {}
  <2> HIDE DEF T
  <2>1. QED
    BY <1>1, <1>2, MaxIs
<1>4. QED
  BY <1>3 DEF trim_right

LEMMA SomeKept ==
  ASSUME NEW s, NEW n \in Nat, n = Len(s), NEW drop, NEW i \in 1..n, s[i] \notin drop
  PROVE  \E j \in i..n : Keeps(s, drop, j)
<1> DEFINE T == {h \in 0..n - i : s[n - h] \notin drop}
<1>1. n - i \in T /\ n - (n - i) = i
  OBVIOUS
<1>2. PICK h \in T : \A g \in T : h <= g
  <2>1. T \subseteq Nat
    OBVIOUS
  <2> HIDE DEF T
  <2>2. QED
    BY <1>1, <2>1, LeastElement
<1>3. h \in 0..n - i /\ s[n - h] \notin drop
  BY <1>2
<1>4. ASSUME NEW g \in (n - h) + 1..n
      PROVE  s[g] \in drop
  <2>1. n - g \in 0..n - i /\ n - (n - g) = g /\ ~(h <= n - g)
    BY <1>3
  <2>2. n - g \notin T
    BY <1>2, <2>1
  <2>3. QED
    BY <2>1, <2>2
<1>5. n - h \in i..n /\ n - h \in 1..n
  BY <1>3
<1>6. Keeps(s, drop, n - h)
  BY <1>3, <1>4, <1>5 DEF Keeps
<1>7. QED
  BY <1>5, <1>6

LEMMA NoneKept ==
  ASSUME NEW s, NEW drop, \A i \in 1..Len(s) : s[i] \in drop
  PROVE  trim_right(s, drop) = <<>>
  BY DEF trim_right

\* Where something is kept of the end, all that is before it is.
KeptEnd(S, s, p, drop) ==
  s \in Seq(S) /\ p \in Seq(S) /\ \E i \in 1..Len(p) : p[i] \notin drop

LEMMA TrimTail ==
  ASSUME NEW S, NEW s, NEW p, NEW drop, KeptEnd(S, s, p, drop)
  PROVE  Same(trim_right(s \o p, drop), s \o trim_right(p, drop))
<1>0. s \in Seq(S) /\ p \in Seq(S) /\ \E i \in 1..Len(p) : p[i] \notin drop
  BY DEF KeptEnd
<1>1. PICK n \in Nat : n = Len(s)
  BY <1>0, LenProperties
<1>2. PICK m \in Nat : m = Len(p)
  BY <1>0, LenProperties
<1>3. PICK t : t = s \o p
  OBVIOUS
<1>4. /\ t \in Seq(S) /\ Len(t) = n + m
      /\ \A k \in 1..n : t[k] = s[k]
      /\ \A k \in 1..m : t[n + k] = p[k]
  <2>1. t \in Seq(S) /\ Concat(t, s, n, p, m)
    BY <1>0, <1>1, <1>2, <1>3, JoinedAt
  <2>2. QED
    BY <2>1 DEF Concat
<1>5. PICK j : j \in 1..m /\ Keeps(p, drop, j)
  <2>1. PICK i \in 1..m : p[i] \notin drop
    BY <1>0, <1>2
  <2>2. PICK j \in i..m : Keeps(p, drop, j)
    BY <1>2, <2>1, SomeKept
  <2>3. j \in 1..m
    BY <2>1, <2>2
  <2>4. QED
    BY <2>2, <2>3
<1>6. Keeps(t, drop, n + j)
  <2>1. n + j \in 1..n + m /\ t[n + j] = p[j] /\ p[j] \notin drop
    BY <1>4, <1>5 DEF Keeps
  <2>2. ASSUME NEW h \in (n + j) + 1..n + m
        PROVE  t[h] \in drop
    <3>1. h - n \in j + 1..m /\ h - n \in 1..m /\ n + (h - n) = h
      BY <1>5
    <3>2. p[h - n] \in drop
      BY <1>2, <1>5, <3>1 DEF Keeps
    <3>3. t[n + (h - n)] = p[h - n]
      BY <1>4, <3>1
    <3>4. QED
      BY <3>1, <3>2, <3>3
  <2>3. QED
    BY <1>4, <2>1, <2>2 DEF Keeps
<1>7. trim_right(t, drop) = SubSeq(t, 1, n + j) /\ trim_right(p, drop) = SubSeq(p, 1, j)
  <2>1. Len(t) \in Nat /\ Len(p) \in Nat
    BY <1>2, <1>4
  <2>2. QED
    BY <1>5, <1>6, <2>1, TrimIs
<1>8. SubSeq(t, 1, n + j) = s \o SubSeq(p, 1, j)
  <2>1. PICK q : q = SubSeq(p, 1, j)
    OBVIOUS
  <2>2. \A k \in 1..j : k \in 1..m /\ p[k] \in S
    BY <1>0, <1>2, <1>5
  <2>3. /\ q \in Seq(S) /\ Len(q) = j
        /\ \A k \in 1..j : q[k] = p[k]
    <3>1. 1 \in Int /\ j \in Int /\ 1 <= j /\ j - 1 + 1 = j
      BY <1>5
    <3>2. /\ q \in Seq(S) /\ Len(q) = (IF 1 <= j THEN j - 1 + 1 ELSE 0)
          /\ \A k \in 1..j - 1 + 1 : q[k] = p[1 + k - 1]
      BY <2>1, <2>2, <3>1, SubSeqProperties
    <3>3. QED
      BY <3>1, <3>2
  <2>4. PICK x : x = s \o q
    OBVIOUS
  <2>5. /\ x \in Seq(S) /\ Len(x) = n + j
        /\ \A k \in 1..n : x[k] = s[k]
        /\ \A k \in 1..j : x[n + k] = q[k]
    <3>1. x \in Seq(S) /\ Concat(x, s, n, q, j)
      BY <1>0, <1>1, <2>3, <2>4, JoinedAt
    <3>2. QED
      BY <3>1 DEF Concat
  <2>6. PICK y : y = SubSeq(t, 1, n + j)
    OBVIOUS
  <2>7. /\ y \in Seq(S) /\ Len(y) = n + j
        /\ \A k \in 1..n + j : y[k] = t[k]
    <3>1. 1 \in Int /\ n + j \in Int /\ 1 <= n + j /\ (n + j) - 1 + 1 = n + j
      BY <1>5
    <3>2. \A k \in 1..n + j : t[k] \in S
      BY <1>4, <1>5
    <3>3. /\ y \in Seq(S) /\ Len(y) = (IF 1 <= n + j THEN (n + j) - 1 + 1 ELSE 0)
          /\ \A k \in 1..(n + j) - 1 + 1 : y[k] = t[1 + k - 1]
      BY <2>6, <3>1, <3>2, SubSeqProperties
    <3>4. QED
      BY <3>1, <3>3
  <2>8. ASSUME NEW k \in 1..n + j
        PROVE  y[k] = x[k]
    <3>1. CASE k <= n
      <4>1. k \in 1..n
        BY <3>1
      <4>2. QED
        BY <1>4, <2>5, <2>7, <4>1
    <3>2. CASE k > n
      <4>1. k - n \in 1..j /\ n + (k - n) = k /\ k - n \in 1..m
        BY <1>5, <3>2
      <4>2. y[k] = t[k] /\ t[n + (k - n)] = p[k - n]
        BY <1>4, <2>7, <4>1
      <4>3. x[n + (k - n)] = q[k - n] /\ q[k - n] = p[k - n]
        BY <2>3, <2>5, <4>1
      <4>4. QED
        BY <4>1, <4>2, <4>3
    <3>3. QED
      BY <1>5, <3>1, <3>2
  <2>9. x = y
    BY <2>5, <2>7, <2>8, SeqEqual
  <2>10. QED
    BY <2>1, <2>4, <2>6, <2>9
<1>9. QED
  BY <1>3, <1>7, <1>8, Zenon DEF Same

LEMMA TrimLast ==
  ASSUME NEW S, NEW s \in Seq(S), NEW drop, NEW c \in S, c \in drop
  PROVE  trim_right(s \o <<c>>, drop) = trim_right(s, drop)
<1>0. s \in Seq(S) /\ <<c>> \in Seq(S) /\ Len(<<c>>) = 1 /\ <<c>>[1] = c
  OBVIOUS
<1>1. PICK n \in Nat : n = Len(s)
  BY LenProperties
<1>2. PICK t : t = s \o <<c>>
  OBVIOUS
<1>3. t \in Seq(S) /\ Len(t) = n + 1 /\ (\A i \in 1..n : t[i] = s[i]) /\ t[n + 1] = c
  <2>1. t \in Seq(S) /\ Concat(t, s, n, <<c>>, 1)
    BY <1>0, <1>1, <1>2, JoinedAt
  <2>2. 1 \in 1..1
    OBVIOUS
  <2>3. QED
    BY <1>0, <2>1, <2>2 DEF Concat
<1>4. CASE \A i \in 1..n : s[i] \in drop
  <2>1. \A i \in 1..n + 1 : t[i] \in drop
    BY <1>3, <1>4
  <2>2. trim_right(t, drop) = <<>> /\ trim_right(s, drop) = <<>>
    BY <1>1, <1>3, <1>4, <2>1, NoneKept
  <2>3. QED
    BY <1>2, <2>2
<1>5. CASE ~\A i \in 1..n : s[i] \in drop
  <2>1. PICK i \in 1..n : s[i] \notin drop
    BY <1>5
  <2>2. PICK j : j \in 1..n /\ Keeps(s, drop, j)
    <3>1. PICK j \in i..n : Keeps(s, drop, j)
      BY <1>1, <2>1, SomeKept
    <3>2. j \in 1..n
      BY <2>1, <3>1
    <3>3. QED
      BY <3>1, <3>2
  <2>3. Keeps(t, drop, j)
    <3>1. j \in 1..n + 1 /\ t[j] \notin drop
      BY <1>3, <2>2 DEF Keeps
    <3>2. ASSUME NEW h \in j + 1..n + 1
          PROVE  t[h] \in drop
      <4>1. CASE h = n + 1
        BY <1>3, <4>1
      <4>2. CASE h # n + 1
        <5>1. h \in j + 1..n /\ h \in 1..n
          BY <2>2, <4>2
        <5>2. QED
          BY <1>1, <1>3, <2>2, <5>1 DEF Keeps
      <4>3. QED
        BY <4>1, <4>2
    <3>3. QED
      BY <1>3, <3>1, <3>2 DEF Keeps
  <2>4. trim_right(t, drop) = SubSeq(t, 1, j) /\ trim_right(s, drop) = SubSeq(s, 1, j)
    <3>1. Len(t) \in Nat /\ Len(s) \in Nat
      BY <1>1, <1>3
    <3>2. QED
      BY <2>2, <2>3, <3>1, TrimIs
  <2>5. SubSeq(s, 1, j) = SubSeq(t, 0 + 1, 0 + j)
    <3>1. j \in Int /\ \A h \in 1..j : h \in 1..n
      BY <2>2
    <3>2. \A h \in 1..j : s[h] \in S /\ s[h] = t[0 + h]
      BY <1>0, <1>1, <1>3, <3>1
    <3>3. Agree(S, s, 1, j, t, 0)
      BY <3>1, <3>2 DEF Agree
    <3>4. Same(SubSeq(s, 1, j), SubSeq(t, 0 + 1, 0 + j))
      BY <3>3, SameStretch
    <3>5. QED
      BY <3>4, Zenon DEF Same
  <2>6. 0 + 1 = 1 /\ 0 + j = j
    BY <2>2
  <2>7. QED
    BY <1>2, <2>4, <2>5, <2>6
<1>6. QED
  BY <1>4, <1>5

-----------------------------------------------------------------------------
(* trim: blanks go from both ends, and from nowhere else. *)

Blank == {SPC, NEWLINE}

\* What trim keeps of s is from a to b.
Holds(s, a, b) ==
  /\ a \in 1..Len(s) /\ b \in 1..Len(s) /\ s[a] \notin Blank /\ s[b] \notin Blank
  /\ \A i \in 1..a - 1 : s[i] \in Blank
  /\ \A i \in b + 1..Len(s) : s[i] \in Blank

LEMMA TrimHolds ==
  ASSUME NEW s, Len(s) \in Nat, NEW a, NEW b, Holds(s, a, b)
  PROVE  trim(s) = SubSeq(s, a, b)
<1> DEFINE T == {i \in 1..Len(s) : s[i] \notin Blank}
<1>0. Len(s) \in Nat
  OBVIOUS
<1>1. a \in T /\ b \in T /\ T \subseteq Int
  BY DEF Holds
<1>2. ASSUME NEW i \in T
      PROVE  a <= i /\ i <= b
  <2>1. i \in 1..Len(s) /\ s[i] \notin Blank
    OBVIOUS
  <2>2. i \notin b + 1..Len(s) /\ i \notin 1..a - 1 /\ a \in 1..Len(s) /\ b \in 1..Len(s)
    BY <2>1 DEF Holds
  <2>3. QED
    BY <1>0, <2>1, <2>2
<1>3. Max(T) = b /\ Min(T) = a /\ T # {}
  <2> HIDE DEF T
  <2>1. QED
    BY <1>1, <1>2, MaxIs, MinIs
<1>4. QED
  BY <1>3 DEF trim, Blank

\* A text without blanks at its ends.
Sound(s) == s # <<>> => s[1] \notin Blank /\ s[Len(s)] \notin Blank

LEMMA TrimSound ==
  ASSUME NEW S, NEW s \in Seq(S), Sound(s)
  PROVE  trim(s) = s /\ (NEWLINE \in S => trim(s \o <<NEWLINE>>) = s)
<1>0. s \in Seq(S)
  OBVIOUS
<1>1. PICK n \in Nat : n = Len(s)
  BY LenProperties
<1>2. PICK t : t = s \o <<NEWLINE>>
  OBVIOUS
<1>3. NEWLINE \in S => t \in Seq(S) /\ Concat(t, s, n, <<NEWLINE>>, 1)
  <2>1. NEWLINE \in S => <<NEWLINE>> \in Seq(S) /\ Len(<<NEWLINE>>) = 1
    OBVIOUS
  <2>2. QED
    BY <1>0, <1>1, <1>2, <2>1, JoinedAt
<1>4. CASE s = <<>>
  <2>1. trim(s) = <<>>
    BY <1>4 DEF trim
  <2>2. t = <<NEWLINE>>
    BY <1>2, <1>4
  <2>3. Len(t) = 1 /\ t[1] = NEWLINE
    BY <2>2
  <2>4. {i \in 1..Len(t) : t[i] \notin {SPC, NEWLINE}} = {}
    BY <2>3
  <2>5. trim(t) = <<>>
    BY <2>4 DEF trim
  <2>6. QED
    BY <1>2, <1>4, <2>1, <2>5
<1>5. CASE s # <<>>
  <2>1. n >= 1 /\ s[1] \notin Blank /\ s[n] \notin Blank
    BY <1>1, <1>5 DEF Sound
  <2>2. Holds(s, 1, n)
    BY <1>1, <2>1 DEF Holds
  <2>3. SubSeq(s, 1, n) = s
    BY <1>0, <1>1, SubSeqFull
  <2>4. trim(s) = s
    BY <1>1, <2>2, <2>3, TrimHolds
  <2>5. ASSUME NEWLINE \in S
        PROVE  trim(t) = s
    <3>1. /\ t \in Seq(S) /\ Len(t) = n + 1 /\ (\A i \in 1..n : t[i] = s[i])
          /\ t[n + 1] = NEWLINE
      <4>1. 1 \in 1..1 /\ <<NEWLINE>>[1] = NEWLINE
        OBVIOUS
      <4>2. QED
        BY <1>3, <2>5, <4>1 DEF Concat
    <3>2. Holds(t, 1, n)
      <4>1. 1 \in 1..n /\ n \in 1..n /\ 1 \in 1..n + 1 /\ n \in 1..n + 1
        BY <2>1
      <4>2. t[1] \notin Blank /\ t[n] \notin Blank
        BY <2>1, <3>1, <4>1
      <4>3. \A i \in n + 1..n + 1 : t[i] \in Blank
        BY <3>1 DEF Blank
      <4>4. QED
        BY <3>1, <4>1, <4>2, <4>3 DEF Holds
    <3>3. trim(t) = SubSeq(t, 1, n)
      <4>1. Len(t) \in Nat
        BY <3>1
      <4>2. QED
        BY <3>2, <4>1, TrimHolds
    <3>4. SubSeq(s, 1, n) = SubSeq(t, 0 + 1, 0 + n)
      <4>1. \A i \in 1..n : s[i] \in S /\ s[i] = t[0 + i]
        BY <1>0, <1>1, <3>1
      <4>2. Agree(S, s, 1, n, t, 0)
        BY <4>1 DEF Agree
      <4>3. Same(SubSeq(s, 1, n), SubSeq(t, 0 + 1, 0 + n))
        BY <4>2, SameStretch
      <4>4. QED
        BY <4>3, Zenon DEF Same
    <3>5. 0 + 1 = 1 /\ 0 + n = n
      OBVIOUS
    <3>6. QED
      BY <2>3, <3>3, <3>4, <3>5
  <2>6. QED
    BY <1>2, <2>4, <2>5
<1>6. QED
  BY <1>4, <1>5

\* A text that trim leaves as it is has no blank at its ends.
LEMMA PlainIsSound ==
  ASSUME NEW S, NEW s \in Seq(S), trim(s) = s
  PROVE  Sound(s)
<1> DEFINE T == {i \in 1..Len(s) : s[i] \notin Blank}
<1>1. PICK n \in Nat : n = Len(s)
  BY LenProperties
<1>2. SUFFICES ASSUME s # <<>>
               PROVE  s[1] \notin Blank /\ s[n] \notin Blank
  BY <1>1 DEF Sound
<1>3. T # {} /\ s = SubSeq(s, Min(T), Max(T))
  BY <1>2 DEF trim, Blank
<1>4. T \subseteq Nat /\ T \subseteq Int /\ T \subseteq 1..n
  BY <1>1
<1>5. PICK i \in 1..n : s[i] \notin Blank
  BY <1>1, <1>3
<1>6. Max(T) \in T
  <2>1. PICK j \in i..n : Keeps(s, Blank, j)
    BY <1>1, <1>5, SomeKept
  <2>2. j \in T
    BY <2>1 DEF Keeps
  <2>3. ASSUME NEW h \in T
        PROVE  h <= j
    <3>1. h \in 1..n /\ h \notin j + 1..n
      BY <1>1, <2>1 DEF Keeps
    <3>2. QED
      BY <2>1, <3>1
  <2> HIDE DEF T
  <2>4. QED
    BY <1>4, <2>2, <2>3, MaxIs
<1>7. Min(T) \in T
  <2> HIDE DEF T
  <2>1. PICK j \in T : \A h \in T : j <= h
    BY <1>3, <1>4, LeastElement
  <2>2. QED
    BY <1>4, <2>1, MinIs
<1>8. PICK a, b : a = Min(T) /\ b = Max(T)
  OBVIOUS
<1>9. a \in 1..n /\ b \in 1..n /\ s[a] \notin Blank /\ s[b] \notin Blank
  BY <1>1, <1>6, <1>7, <1>8
<1> HIDE DEF T
<1>10. s = SubSeq(s, a, b)
  BY <1>3, <1>8
<1>11. Len(SubSeq(s, a, b)) = (IF a <= b THEN b - a + 1 ELSE 0)
  <2>1. \A i_1 \in a..b : s[i_1] \in S
    BY <1>1, <1>9
  <2>2. a \in Int /\ b \in Int
    BY <1>9
  <2>3. QED
    BY <2>1, <2>2, SubSeqProperties
<1>12. n = (IF a <= b THEN b - a + 1 ELSE 0)
  BY <1>1, <1>10, <1>11, Zenon
<1>13. a = 1 /\ b = n
  BY <1>9, <1>12
<1>14. QED
  BY <1>9, <1>13

-----------------------------------------------------------------------------
(* resolve_kv of "keyword=value" and of a keyword alone. *)

LEMMA PairJoined ==
  ASSUME NEW a, NEW b
  PROVE  <<a>> \o <<b>> = <<a, b>>
<1>1. /\ <<a>> \in Seq({a, b}) /\ <<b>> \in Seq({a, b}) /\ Len(<<a>>) = 1 /\ Len(<<b>>) = 1
      /\ <<a>>[1] = a /\ <<b>>[1] = b
  OBVIOUS
<1>2. PICK t : t = <<a>> \o <<b>>
  OBVIOUS
<1>3. t \in Seq({a, b}) /\ Concat(t, <<a>>, 1, <<b>>, 1)
  BY <1>1, <1>2, JoinedAt
<1>4. Len(t) = 2 /\ t[1] = a /\ t[2] = b
  <2>1. 1 \in 1..1 /\ 1 + 1 = 2
    OBVIOUS
  <2>2. QED
    BY <1>1, <1>3, <2>1 DEF Concat
<1>5. t = <<a, b>>
  <2>1. PICK u : u = <<a, b>>
    OBVIOUS
  <2>2. u \in Seq({a, b}) /\ Len(u) = 2 /\ u[1] = a /\ u[2] = b
    BY <2>1
  <2>3. \A i \in 1..Len(t) : t[i] = u[i]
    BY <1>4, <2>2
  <2>4. t = u
    BY <1>3, <1>4, <2>2, <2>3, SeqEqual
  <2>5. QED
    BY <2>1, <2>4
<1>6. QED
  BY <1>2, <1>5

LEMMA NoStarts == \A sep : Starts(<<>>, sep) = {}
  BY DEF Starts

LEMMA KeywordValue ==
  ASSUME NEW S, EQUALS \in S, NEW f \in S, f \notin Blank, f # EQUALS,
         NEW x \in Seq(S), \A i \in 1..Len(x) : x[i] # EQUALS
  PROVE  Keyword(<<f, EQUALS>> \o x) = <<f>> /\ Value(<<f, EQUALS>> \o x) = trim(x)
<1>0. x \in Seq(S) /\ f \in S /\ EQUALS \in S /\ f # EQUALS
  OBVIOUS
<1>1. PICK s : s = <<f, EQUALS>>
  OBVIOUS
<1>2. s \in Seq(S) /\ Len(s) = 2 /\ s[1] = f /\ s[2] = EQUALS
  BY <1>0, <1>1
<1>3. Starts(s, EQUALS) = {1} /\ Stretch(s, EQUALS, 1) = <<f>>
  <2>1. /\ <<>> \in Seq(S) /\ <<f>> \in Seq(S) /\ <<f>> # <<>> /\ <<EQUALS>> \in Seq(S)
        /\ Len(<<f>>) = 1 /\ <<f>>[1] = f /\ Len(<<>>) = 0
    BY <1>0
  <2>2. Follows(<<>>, EQUALS, <<f>>, <<EQUALS>>)
    BY <1>0, <2>1 DEF Follows
  <2>3. s = (<<>> \o <<f>>) \o <<EQUALS>>
    <3>1. <<>> \o <<f>> = <<f>>
      BY <2>1, ConcatEmptySeq
    <3>2. <<f>> \o <<EQUALS>> = <<f, EQUALS>>
      BY PairJoined
    <3>3. QED
      BY <1>1, <3>1, <3>2, Zenon
  <2>4. Extends(s, <<>>, EQUALS, <<f>>)
    BY <2>1, <2>2, <2>3, OnePartMore
  <2>5. QED
    BY <2>1, <2>4, NoStarts DEF Extends
<1>4. trim(<<f>>) = <<f>>
  <2>1. <<f>> \in Seq(S) /\ Sound(<<f>>)
    BY DEF Sound
  <2>2. QED
    BY <2>1, TrimSound
<1>5. PICK kv : kv = s \o x
  OBVIOUS
<1>6. kv[1] = f
  <2>1. Concat(kv, s, 2, x, Len(x))
    BY <1>0, <1>2, <1>5, JoinedAt
  <2>2. QED
    BY <1>2, <2>1 DEF Concat
<1>7. CASE x = <<>>
  <2>1. kv = s
    BY <1>2, <1>5, <1>7, ConcatEmptySeq
  <2>2. trim(x) = <<>>
    BY <1>7 DEF trim
  <2>3. Keyword(kv) = <<f>>
    BY <1>0, <1>3, <1>4, <1>6, <2>1 DEF Keyword
  <2>4. {i \in Starts(kv, EQUALS) : i > 1} = {}
    BY <1>3, <2>1
  <2>5. Value(kv) = <<>>
    BY <2>4 DEF Value
  <2>6. QED
    BY <1>1, <1>5, <2>2, <2>3, <2>5
<1>8. CASE x # <<>>
  <2>1. kv = (s \o x) \o <<>> /\ <<>> \in Seq(S) /\ s[Len(s)] = EQUALS
    BY <1>0, <1>2, <1>5, ConcatProperties, ConcatEmptySeq
  <2>2. Extends(kv, s, EQUALS, x)
    <3>1. \A i \in 1..Len(x) : x[i] # EQUALS
      OBVIOUS
    <3>2. Follows(s, EQUALS, x, <<>>)
      BY <1>8, <2>1, <3>1 DEF Follows
    <3>3. QED
      BY <1>0, <1>2, <2>1, <3>2, OnePartMore
  <2>3. Starts(kv, EQUALS) = {1, 3} /\ Stretch(kv, EQUALS, 1) = <<f>>
        /\ Stretch(kv, EQUALS, 3) = x
    BY <1>2, <1>3, <2>2 DEF Extends
  <2>4. Keyword(kv) = <<f>>
    BY <1>0, <1>4, <1>6, <2>3 DEF Keyword
  <2>5. {i \in Starts(kv, EQUALS) : i > 1} = {3} /\ Min({3}) = 3
    <3>1. {i \in Starts(kv, EQUALS) : i > 1} = {3}
      BY <2>3
    <3>2. Min({3}) = 3
      <4>1. 3 \in {3} /\ {3} \subseteq Int /\ \A h \in {3} : 3 <= h
        OBVIOUS
      <4>2. QED
        BY <4>1, MinIs, Zenon
    <3>3. QED
      BY <3>1, <3>2
  <2>6. Value(kv) = trim(x)
    BY <2>3, <2>5 DEF Value
  <2>7. QED
    BY <1>1, <1>5, <2>4, <2>6
<1>9. QED
  BY <1>7, <1>8

LEMMA KeywordAlone ==
  ASSUME NEW f, f \notin Blank, f # EQUALS
  PROVE  Keyword(<<f, NEWLINE>>) = <<f>> /\ Value(<<f, NEWLINE>>) = <<>>
<1> DEFINE S == {f, NEWLINE, EQUALS}
<1>1. PICK kv : kv = <<f, NEWLINE>>
  OBVIOUS
<1>2. /\ kv \in Seq(S) /\ kv # <<>> /\ Len(kv) = 2 /\ kv[1] = f /\ kv[2] = NEWLINE
      /\ <<>> \in Seq(S) /\ Len(<<>>) = 0
  BY <1>1
<1>3. NEWLINE # EQUALS
  BY DEF NEWLINE, EQUALS
<1>4. Starts(kv, EQUALS) = {1} /\ Stretch(kv, EQUALS, 1) = kv
  <2> HIDE DEF S
  <2>1. \A i \in 1..Len(kv) : kv[i] # EQUALS
    BY <1>2, <1>3
  <2>2. kv = (<<>> \o kv) \o <<>>
    BY <1>2, ConcatProperties, ConcatEmptySeq
  <2>3. Follows(<<>>, EQUALS, kv, <<>>)
    BY <1>2, <2>1 DEF Follows
  <2>4. Extends(kv, <<>>, EQUALS, kv)
    <3>1. Extends((<<>> \o kv) \o <<>>, <<>>, EQUALS, kv)
      BY <1>2, <2>3, OnePartMore
    <3>2. QED
      BY <2>2, <3>1, Zenon
  <2>5. QED
    BY <1>2, <2>4, NoStarts DEF Extends
<1>5. trim(kv) = <<f>>
  <2>1. <<f>> \in Seq(S) /\ Sound(<<f>>) /\ NEWLINE \in S
    BY DEF Sound
  <2>2. kv = <<f>> \o <<NEWLINE>>
    BY <1>1
  <2> HIDE DEF S
  <2>3. QED
    BY <2>1, <2>2, TrimSound
<1>6. Keyword(kv) = <<f>>
  BY <1>2, <1>4, <1>5 DEF Keyword
<1>7. {i \in Starts(kv, EQUALS) : i > 1} = {}
  BY <1>4
<1>8. Value(kv) = <<>>
  BY <1>7 DEF Value
<1>9. QED
  BY <1>1, <1>6, <1>8

-----------------------------------------------------------------------------
(* FlattenSeq: one sequence after the other. *)

Flattens(flat, pairs, n) ==
  flat[0] = <<>> /\ \A i \in 1..n : flat[i] = flat[i - 1] \o pairs[i]

LEMMA FlatExists ==
  ASSUME NEW S, NEW n \in Nat, NEW pairs \in [1..n -> Seq(S)]
  PROVE  \E flat \in [0..n -> Seq(S)] : Flattens(flat, pairs, n)
<1> DEFINE joining == [i \in 1..n |-> [s \in Seq(S) |-> s \o pairs[i]]]
<1>1. \A i \in 1..n, s \in Seq(S) : s \o pairs[i] \in Seq(S)
  BY ConcatProperties
<1>2. joining \in [1..n -> [Seq(S) -> Seq(S)]]
  BY <1>1, Zenon
<1>3. \A i \in 1..n, s \in Seq(S) : joining[i][s] = s \o pairs[i]
  OBVIOUS
<1>4. <<>> \in Seq(S)
  OBVIOUS
<1> HIDE DEF joining
<1>5. \E flat \in [0..n -> Seq(S)] :
        flat[0] = <<>> /\ \A i \in 1..n : flat[i] = joining[i][flat[i - 1]]
  <2>1. PICK V : V = Seq(S)
    OBVIOUS
  <2>2. PICK v0 \in V : v0 = <<>>
    BY <1>4, <2>1, Zenon
  <2>3. PICK g \in [1..n -> [V -> V]] : g = joining
    BY <1>2, <2>1, Zenon
  <2>4. \E flat \in [0..n -> V] : Iterates(flat, v0, g, n)
    BY <2>2, <2>3, Iteration
  <2>5. QED
    BY <2>1, <2>2, <2>3, <2>4, Zenon DEF Iterates
<1>6. PICK flat \in [0..n -> Seq(S)] :
        flat[0] = <<>> /\ \A i \in 1..n : flat[i] = joining[i][flat[i - 1]]
  BY <1>5
<1>7. ASSUME NEW i \in 1..n
      PROVE  flat[i] = flat[i - 1] \o pairs[i]
  <2>1. flat[i - 1] \in Seq(S)
    BY <1>6
  <2>2. QED
    BY <1>3, <1>6, <2>1
<1>8. QED
  BY <1>6, <1>7 DEF Flattens

LEMMA FlatRuns ==
  ASSUME NEW S, NEW n \in Nat \ {0}, NEW pairs \in [1..n -> Seq(S)]
  PROVE  \E flat \in [0..n -> Seq(S)] : Flattens(flat, pairs, n) /\ FlattenSeq(pairs) = flat[n]
<1>0. n \in Nat /\ n >= 1 /\ pairs \in [1..n -> Seq(S)] /\ <<>> \in Seq(S)
  OBVIOUS
<1>1. PICK f \in [0..n -> Seq(S)] : Flattens(f, pairs, n)
  BY <1>0, FlatExists, Zenon
<1> DEFINE Def(g) == [i \in 1..Len(pairs) |-> IF i = 1 THEN pairs[i] ELSE g[i - 1] \o pairs[i]]
           flat == CHOOSE g : g = Def(g)
<1>2. Len(pairs) = n
  BY <1>0
<1>3. FlattenSeq(pairs) = flat[n]
  BY <1>0, <1>2 DEF FlattenSeq
<1>4. f[1] = pairs[1]
  <2>1. 1 \in 1..n /\ pairs[1] \in Seq(S) /\ 1 - 1 = 0
    BY <1>0
  <2>2. f[1] = <<>> \o pairs[1]
    BY <1>1, <2>1 DEF Flattens
  <2>3. QED
    BY <2>1, <2>2, ConcatEmptySeq
<1>5. \E g : g = Def(g)
  <2> DEFINE g == [i \in 1..n |-> f[i]]
  <2>1. ASSUME NEW i \in 1..n
        PROVE  g[i] = IF i = 1 THEN pairs[i] ELSE g[i - 1] \o pairs[i]
    <3>1. CASE i = 1
      BY <1>4, <3>1
    <3>2. CASE i # 1
      <4>1. i - 1 \in 1..n /\ g[i] = f[i] /\ g[i - 1] = f[i - 1]
        BY <3>2
      <4>2. f[i] = f[i - 1] \o pairs[i]
        BY <1>1 DEF Flattens
      <4>3. QED
        BY <3>2, <4>1, <4>2, Zenon
    <3>3. QED
      BY <3>1, <3>2
  <2>2. g = Def(g)
    BY <1>2, <2>1
  <2>3. QED
    BY <2>2
<1>6. flat = Def(flat)
  <2> HIDE DEF Def
  <2>1. QED
    BY <1>5
<1> HIDE DEF flat
<1>7. \A k \in 1..n : flat[k] = f[k]
  <2> DEFINE T == {k \in Nat : k \in 1..n => flat[k] = f[k]}
  <2>1. 0 \in T
    OBVIOUS
  <2>2. ASSUME NEW k \in Nat, k \in T
        PROVE  k + 1 \in T
    <3>1. SUFFICES ASSUME k + 1 \in 1..n
                   PROVE  flat[k + 1] = f[k + 1]
      OBVIOUS
    <3>2. flat[k + 1] = IF k + 1 = 1 THEN pairs[k + 1] ELSE flat[(k + 1) - 1] \o pairs[k + 1]
      BY <1>2, <1>6, <3>1
    <3>3. CASE k = 0
      BY <1>4, <3>2, <3>3
    <3>4. CASE k # 0
      <4>1. k \in 1..n /\ (k + 1) - 1 = k /\ k + 1 # 1
        BY <3>1, <3>4
      <4>2. flat[k] = f[k]
        BY <2>2, <4>1
      <4>3. f[k + 1] = f[k] \o pairs[k + 1]
        BY <1>1, <3>1, <4>1 DEF Flattens
      <4>4. QED
        BY <3>2, <4>1, <4>2, <4>3, Zenon
    <3>5. QED
      BY <3>3, <3>4
  <2>3. Nat \subseteq T
    <3> HIDE DEF T
    <3>1. QED
      BY <2>1, <2>2, Induction
  <2>4. QED
    BY <1>0, <2>3
<1>8. n \in 1..n
  BY <1>0
<1>9. QED
  BY <1>1, <1>3, <1>7, <1>8

-----------------------------------------------------------------------------
(* What the parts of a text are. *)

Split(t, sep, n, part) ==
  \E from \in [1..n -> Nat] :
    /\ Starts(t, sep) = {from[i] : i \in 1..n}
    /\ \A i \in 1..n : Stretch(t, sep, from[i]) = part[i]

LEMMA SplitMore ==
  ASSUME NEW n \in Nat, NEW sep, NEW s, NEW t, NEW p, Len(s) \in Nat,
         NEW part, Split(s, sep, n, part), Extends(t, s, sep, p), part[n + 1] = p
  PROVE  Split(t, sep, n + 1, part)
<1>1. PICK from \in [1..n -> Nat] :
        /\ Starts(s, sep) = {from[i] : i \in 1..n}
        /\ \A i \in 1..n : Stretch(s, sep, from[i]) = part[i]
  BY DEF Split
<1>2. PICK l \in Nat : l = Len(s) + 1
  OBVIOUS
<1>3. /\ Starts(t, sep) = Starts(s, sep) \cup {l}
      /\ \A i \in Starts(s, sep) : Stretch(t, sep, i) = Stretch(s, sep, i)
      /\ Stretch(t, sep, l) = p
  BY <1>2 DEF Extends
<1> DEFINE new == [i \in 1..n + 1 |-> IF i = n + 1 THEN l ELSE from[i]]
<1>4. new \in [1..n + 1 -> Nat]
  OBVIOUS
<1>5. (\A i \in 1..n : i \in 1..n + 1 /\ new[i] = from[i]) /\ n + 1 \in 1..n + 1 /\ new[n + 1] = l
      /\ \A i \in 1..n + 1 : i \in 1..n \/ i = n + 1
  OBVIOUS
<1> HIDE DEF new
<1>6. Starts(t, sep) = {new[i] : i \in 1..n + 1}
  BY <1>1, <1>3, <1>5
<1>7. ASSUME NEW i \in 1..n + 1
      PROVE  Stretch(t, sep, new[i]) = part[i]
  <2>1. CASE i = n + 1
    BY <1>3, <1>5, <2>1
  <2>2. CASE i \in 1..n
    <3>1. from[i] \in Starts(s, sep) /\ new[i] = from[i]
      BY <1>1, <1>5, <2>2
    <3>2. QED
      BY <1>1, <1>3, <2>2, <3>1
  <2>3. QED
    BY <1>5, <2>1, <2>2
<1>8. QED
  BY <1>4, <1>6, <1>7 DEF Split

\* A name that the protocol can carry: none of its separators, and nothing it trims.
Name(f) == f \notin PUNCT \cup Blank

Kept(w) == trim_right(w, PUNCT \cup {SPC})

Signs == {COMMA, EQUALS, SPC, NEWLINE}

LEMMA SignsDiffer ==
  /\ COMMA # EQUALS /\ COMMA # NEWLINE /\ EQUALS # NEWLINE /\ NEWLINE \notin PUNCT \cup {SPC}
  /\ COMMA \in PUNCT \cup {SPC} /\ EQUALS \in PUNCT \cup {SPC}
  BY DEF COMMA, EQUALS, NEWLINE, SPC, PUNCT

\* The last pair of a message, as it is left at its end, reads as what is kept of it.
\* A name and a word that the protocol can carry, and what carries them.
Pair(S, f, w) ==
  Signs \subseteq S /\ f \in S /\ Name(f) /\ w \in Seq(S) /\ Plain(w)

Carries(p, S, f, w) ==
  /\ p \in Seq(S) /\ p # <<>> /\ \A i \in 1..Len(p) : p[i] # COMMA
  /\ Keyword(p) = <<f>> /\ Value(p) = w

LastPair(f, w) == Kept((<<f, EQUALS>> \o w) \o <<COMMA>>)

LEMMA LastPart ==
  ASSUME NEW S, NEW f, NEW w, Pair(S, f, w)
  PROVE  LastPair(f, w) \in Seq(S) /\ Carries(LastPair(f, w) \o <<NEWLINE>>, S, f, Kept(w))
<1> DEFINE drop == PUNCT \cup {SPC}
<1>0. /\ w \in Seq(S) /\ f \in S /\ COMMA \in S /\ EQUALS \in S /\ NEWLINE \in S
      /\ f \notin drop /\ f # NEWLINE /\ f # EQUALS /\ f # COMMA /\ f \notin Blank
      /\ \A i \in 1..Len(w) : w[i] # COMMA /\ w[i] # EQUALS /\ w[i] # NEWLINE
  BY SignsDiffer DEF Pair, Signs, Name, Plain, Blank, PUNCT
<1>1. /\ COMMA \in drop /\ EQUALS \in drop /\ NEWLINE \notin drop /\ COMMA # NEWLINE
      /\ EQUALS # NEWLINE /\ COMMA # EQUALS
  BY SignsDiffer
<1> DEFINE kept == trim_right(w, drop)
<1>2. Kept(w) = kept
  BY DEF Kept
<1> HIDE DEF drop
<1>3. PICK k : k = <<f, EQUALS>>
  OBVIOUS
<1>4. k \in Seq(S) /\ Len(k) = 2 /\ k[1] = f /\ k[2] = EQUALS /\ <<NEWLINE>> \in Seq(S)
      /\ <<f>> \in Seq(S) /\ Len(<<NEWLINE>>) = 1 /\ <<NEWLINE>>[1] = NEWLINE
  BY <1>0, <1>3
<1>5. PICK n \in Nat : n = Len(w)
  BY <1>0, LenProperties
<1>6. k \o w \in Seq(S) /\ Concat(k \o w, k, 2, w, n)
  BY <1>0, <1>4, <1>5, JoinedAt
<1>7. PICK y : y = LastPair(f, w) /\ y = trim_right(k \o w, drop)
  <2>1. LastPair(f, w) = trim_right((k \o w) \o <<COMMA>>, drop)
    BY <1>3 DEF LastPair, Kept, drop
  <2>2. QED
    BY <1>0, <1>1, <1>6, <2>1, TrimLast
<1>8. CASE \A i \in 1..n : w[i] \in drop
  <2>1. kept = <<>>
    BY <1>5, <1>8, NoneKept
  <2>2. PICK u : u = k \o w
    OBVIOUS
  <2>3. /\ u \in Seq(S) /\ Len(u) = 2 + n /\ u[1] = f /\ u[2] = EQUALS
        /\ \A i \in 1..n : u[2 + i] = w[i]
    BY <1>4, <1>6, <2>2 DEF Concat
  <2>4. Keeps(u, drop, 1)
    <3>1. ASSUME NEW h \in 1 + 1..2 + n
          PROVE  u[h] \in drop
      <4>1. CASE h = 2
        BY <1>1, <2>3, <4>1
      <4>2. CASE h # 2
        <5>1. h - 2 \in 1..n /\ 2 + (h - 2) = h
          BY <4>2
        <5>2. QED
          BY <1>8, <2>3, <5>1
      <4>3. QED
        BY <4>1, <4>2
    <3>2. 1 \in 1..2 + n
      OBVIOUS
    <3>3. QED
      BY <1>0, <2>3, <3>1, <3>2 DEF Keeps
  <2>5. y = SubSeq(u, 1, 1)
    <3>1. Len(u) \in Nat
      BY <2>3
    <3>2. QED
      BY <1>7, <2>2, <2>4, <3>1, TrimIs
  <2>6. SubSeq(<<f>>, 1, 1) = SubSeq(u, 0 + 1, 0 + 1)
    <3>1. <<f>>[1] = f /\ \A i \in 1..1 : i = 1
      OBVIOUS
    <3>2. \A i \in 1..1 : <<f>>[i] \in S /\ <<f>>[i] = u[0 + i]
      BY <1>0, <2>3, <3>1
    <3>3. QED
      <4>1. Agree(S, <<f>>, 1, 1, u, 0)
        BY <3>2 DEF Agree
      <4>2. Same(SubSeq(<<f>>, 1, 1), SubSeq(u, 0 + 1, 0 + 1))
        BY <4>1, SameStretch
      <4>3. QED
        BY <4>2, Zenon DEF Same
  <2>7. SubSeq(<<f>>, 1, 1) = <<f>>
    <3>1. Len(<<f>>) = 1
      OBVIOUS
    <3>2. QED
      BY <1>4, <3>1, SubSeqFull
  <2>8. y = <<f>>
    <3>1. 0 + 1 = 1
      OBVIOUS
    <3>2. QED
      BY <2>5, <2>6, <2>7, <3>1
  <2>9. y \o <<NEWLINE>> = <<f, NEWLINE>>
    BY <2>8, PairJoined
  <2>10. Keyword(<<f, NEWLINE>>) = <<f>> /\ Value(<<f, NEWLINE>>) = <<>>
    BY <1>0, KeywordAlone
  <2>11. /\ <<f, NEWLINE>> # <<>>
         /\ \A i \in 1..Len(<<f, NEWLINE>>) : <<f, NEWLINE>>[i] # COMMA
    <3>1. PICK z : z = <<f, NEWLINE>>
      OBVIOUS
    <3>2. z # <<>> /\ Len(z) = 2 /\ z[1] = f /\ z[2] = NEWLINE
      BY <3>1
    <3>3. \A i \in 1..Len(z) : z[i] # COMMA
      BY <1>0, <1>1, <3>2
    <3>4. QED
      BY <3>1, <3>2, <3>3
  <2>12. <<f, NEWLINE>> \in Seq(S)
    BY <1>0
  <2>13. QED
    BY <1>2, <1>4, <1>7, <2>1, <2>8, <2>9, <2>10, <2>11, <2>12, Zenon DEF Carries
<1>9. CASE ~\A i \in 1..n : w[i] \in drop
  <2>1. PICK i \in 1..n : w[i] \notin drop
    BY <1>9
  <2>2. y = k \o kept
    <3>1. KeptEnd(S, k, w, drop)
      BY <1>0, <1>4, <1>5, <2>1 DEF KeptEnd
    <3>2. Same(trim_right(k \o w, drop), k \o trim_right(w, drop))
      BY <3>1, TrimTail, Zenon
    <3>3. QED
      BY <1>7, <3>2, Zenon DEF Same
  <2>3. PICK j : j \in 1..n /\ Keeps(w, drop, j)
    <3>1. PICK j \in i..n : Keeps(w, drop, j)
      BY <1>5, <2>1, SomeKept
    <3>2. j \in 1..n
      BY <2>1, <3>1
    <3>3. QED
      BY <3>1, <3>2
  <2>4. PICK r : r = kept
    OBVIOUS
  <2>5. r \in Seq(S) /\ Len(r) = j /\ \A h \in 1..j : r[h] = w[h]
    <3>1. r = SubSeq(w, 1, j)
      BY <1>5, <2>3, <2>4, TrimIs
    <3>2. 1 \in Int /\ j \in Int /\ 1 <= j /\ j - 1 + 1 = j
          /\ \A h \in 1..j : w[h] \in S
      BY <1>0, <1>5, <2>3
    <3>3. /\ r \in Seq(S) /\ Len(r) = (IF 1 <= j THEN j - 1 + 1 ELSE 0)
          /\ \A h \in 1..j - 1 + 1 : r[h] = w[1 + h - 1]
      BY <3>1, <3>2, SubSeqProperties
    <3>4. \A h \in 1..j : 1 + h - 1 = h
      OBVIOUS
    <3>5. QED
      BY <3>2, <3>3, <3>4
  <2>6. Sound(r)
    <3>1. Sound(w)
      BY <1>0, PlainIsSound DEF Pair, Plain
    <3>2. w # <<>>
      BY <1>5, <2>1
    <3>3. w[1] \notin Blank
      BY <3>1, <3>2 DEF Sound
    <3>4. w[j] \notin drop /\ w[j] # NEWLINE
      BY <1>0, <1>5, <2>3 DEF Keeps
    <3>5. w[j] \notin Blank
      BY <3>4 DEF Blank, drop
    <3>6. r[1] = w[1] /\ r[j] = w[j]
      BY <2>3, <2>5
    <3>7. QED
      BY <2>5, <3>3, <3>5, <3>6 DEF Sound
  <2>7. PICK x : x = r \o <<NEWLINE>>
    OBVIOUS
  <2>8. x \in Seq(S) /\ Concat(x, r, j, <<NEWLINE>>, 1)
    BY <1>4, <2>5, <2>7, JoinedAt
  <2>9. \A h \in 1..Len(x) : x[h] # EQUALS /\ x[h] # COMMA
    <3>1. Len(x) = j + 1 /\ (\A h \in 1..j : x[h] = r[h])
          /\ \A h \in 1..1 : x[j + h] = <<NEWLINE>>[h]
      BY <2>8 DEF Concat
    <3>2. x[j + 1] = NEWLINE
      BY <1>4, <3>1
    <3>3. ASSUME NEW h \in 1..j
          PROVE  x[h] # EQUALS /\ x[h] # COMMA
      BY <1>0, <1>5, <2>3, <2>5, <3>1
    <3>4. \A h \in 1..j + 1 : h \in 1..j \/ h = j + 1
      BY <2>3
    <3>5. QED
      BY <1>1, <3>1, <3>2, <3>3, <3>4
  <2>10. trim(x) = r
    BY <1>0, <2>5, <2>6, <2>7, TrimSound
  <2>11. y \o <<NEWLINE>> = k \o x
    <3>1. y = k \o r
      BY <2>2, <2>4
    <3>2. (k \o r) \o <<NEWLINE>> = k \o (r \o <<NEWLINE>>)
      <4>1. Seqs(S, k, r, <<NEWLINE>>)
        BY <1>4, <2>5, Zenon DEF Seqs
      <4>2. Same((k \o r) \o <<NEWLINE>>, k \o (r \o <<NEWLINE>>))
        BY <4>1, Associative, Zenon
      <4>3. QED
        BY <4>2, Zenon DEF Same
    <3>3. QED
      BY <2>7, <3>1, <3>2, Zenon
  <2>12. Keyword(k \o x) = <<f>> /\ Value(k \o x) = r
    <3>1. \A h \in 1..Len(x) : x[h] # EQUALS
      BY <2>9
    <3>2. Keyword(k \o x) = <<f>> /\ Value(k \o x) = trim(x)
      BY <1>0, <1>3, <2>8, <3>1, KeywordValue
    <3>3. QED
      BY <2>10, <3>2
  <2>13. /\ k \o x \in Seq(S) /\ k \o x # <<>>
         /\ \A h \in 1..Len(k \o x) : (k \o x)[h] # COMMA
    <3>1. PICK z : z = k \o x
      OBVIOUS
    <3>2. PICK l \in Nat : l = Len(x)
      BY <2>8, LenProperties
    <3>3. z \in Seq(S) /\ Concat(z, k, 2, x, l)
      BY <1>4, <2>8, <3>1, <3>2, JoinedAt
    <3>4. /\ Len(z) = 2 + l /\ z[1] = f /\ z[2] = EQUALS
          /\ \A h \in 1..l : z[2 + h] = x[h]
      BY <1>4, <3>3 DEF Concat
    <3>5. ASSUME NEW h \in 1..2 + l
          PROVE  z[h] # COMMA
      <4>1. CASE h \in {1, 2}
        BY <1>0, <1>1, <3>4, <4>1
      <4>2. CASE h \notin {1, 2}
        <5>1. h - 2 \in 1..l /\ 2 + (h - 2) = h
          BY <4>2
        <5>2. QED
          BY <2>9, <3>2, <3>4, <5>1
      <4>3. QED
        BY <4>1, <4>2
    <3>6. z # <<>>
      BY <3>3, <3>4
    <3>7. QED
      BY <3>1, <3>3, <3>4, <3>5, <3>6
  <2>14. y \in Seq(S)
    BY <1>4, <2>2, <2>4, <2>5, ConcatProperties
  <2>15. QED
    BY <1>2, <1>7, <2>4, <2>11, <2>12, <2>13, <2>14, Zenon DEF Carries
<1>10. QED
  BY <1>8, <1>9

-----------------------------------------------------------------------------
(* A message: pairs of names and words, and what a receiver finds in it. *)

Paired(f, w) == <<f, EQUALS>> \o w

Speakable(S, n, names, words) == \A i \in 1..n : Pair(S, names[i], words[i])

LEMMA PairReads ==
  ASSUME NEW S, NEW f, NEW w, Pair(S, f, w)
  PROVE  Carries(Paired(f, w), S, f, w) /\ Paired(f, w)[1] = f
<1>0. /\ w \in Seq(S) /\ f \in S /\ EQUALS \in S /\ f # EQUALS /\ f # COMMA /\ f \notin Blank
      /\ \A i \in 1..Len(w) : w[i] # COMMA /\ w[i] # EQUALS
      /\ EQUALS # COMMA
  BY SignsDiffer DEF Pair, Signs, Name, Plain, PUNCT
<1>1. trim(w) = w
  BY DEF Pair, Plain
<1>2. Keyword(Paired(f, w)) = <<f>> /\ Value(Paired(f, w)) = w
  BY <1>0, <1>1, KeywordValue DEF Paired
<1>3. PICK k : k = <<f, EQUALS>>
  OBVIOUS
<1>4. k \in Seq(S) /\ Len(k) = 2 /\ k[1] = f /\ k[2] = EQUALS
  BY <1>0, <1>3
<1>5. PICK n \in Nat : n = Len(w)
  BY <1>0, LenProperties
<1>6. PICK z : z = Paired(f, w)
  OBVIOUS
<1>7. z \in Seq(S) /\ Concat(z, k, 2, w, n)
  BY <1>0, <1>3, <1>4, <1>5, <1>6, JoinedAt DEF Paired
<1>8. Len(z) = 2 + n /\ z[1] = f /\ z[2] = EQUALS /\ \A i \in 1..n : z[2 + i] = w[i]
  BY <1>4, <1>7 DEF Concat
<1>9. ASSUME NEW i \in 1..2 + n
      PROVE  z[i] # COMMA
  <2>1. CASE i \in {1, 2}
    BY <1>0, <1>8, <2>1
  <2>2. CASE i \notin {1, 2}
    <3>1. i - 2 \in 1..n /\ 2 + (i - 2) = i
      BY <2>2
    <3>2. QED
      BY <1>0, <1>5, <1>8, <3>1
  <2>3. QED
    BY <2>1, <2>2
<1>10. z # <<>>
  BY <1>7, <1>8
<1>11. QED
  BY <1>2, <1>6, <1>7, <1>8, <1>9, <1>10 DEF Carries

\* The text of the first pairs, each with its comma, splits into them.
Whole(t, S, n, part) ==
  /\ t \in Seq(S) /\ Split(t, COMMA, n, part)
  /\ t = <<>> \/ t[Len(t)] = COMMA

Pieces(S, n, names, words, part, flat) ==
  /\ n \in Nat /\ Signs \subseteq S /\ Speakable(S, n, names, words)
  /\ flat[0] = <<>>
  /\ \A i \in 1..n : /\ part[i] = Paired(names[i], words[i])
                     /\ flat[i] = flat[i - 1] \o (part[i] \o <<COMMA>>)

LEMMA FlatSplits ==
  ASSUME NEW S, NEW n, NEW names, NEW words, NEW part, NEW flat,
         Pieces(S, n, names, words, part, flat)
  PROVE  Whole(flat[n], S, n, part)
<1> DEFINE T == {k \in Nat : k <= n => Whole(flat[k], S, k, part)}
<1>1. 0 \in T
  <2>1. flat[0] = <<>> /\ <<>> \in Seq(S)
    BY DEF Pieces
  <2>2. Split(<<>>, COMMA, 0, part)
    <3>1. [i \in 1..0 |-> 0] \in [1..0 -> Nat]
      OBVIOUS
    <3>2. PICK from \in [1..0 -> Nat] : TRUE
      BY <3>1
    <3>3. {from[i] : i \in 1..0} = {}
      OBVIOUS
    <3>4. QED
      BY <3>2, <3>3, NoStarts DEF Split
  <2>3. Whole(flat[0], S, 0, part)
    BY <2>1, <2>2 DEF Whole
  <2>4. QED
    BY <2>3
<1>2. ASSUME NEW k \in Nat, k \in T
      PROVE  k + 1 \in T
  <2>1. SUFFICES ASSUME k + 1 <= n
                 PROVE  Whole(flat[k + 1], S, k + 1, part)
    OBVIOUS
  <2>2. k + 1 \in 1..n /\ (k + 1) - 1 = k
    BY <2>1
  <2>3. PICK s, p : s = flat[k] /\ p = part[k + 1]
    OBVIOUS
  <2>4. Whole(s, S, k, part)
    <3>1. n \in Nat /\ k <= n
      BY <2>1 DEF Pieces
    <3>2. QED
      BY <1>2, <2>3, <3>1
  <2>5. p = Paired(names[k + 1], words[k + 1]) /\ flat[k + 1] = s \o (p \o <<COMMA>>)
    BY <2>2, <2>3, Zenon DEF Pieces
  <2>6. p \in Seq(S) /\ p # <<>> /\ \A i \in 1..Len(p) : p[i] # COMMA
    <3>1. PICK f, w : f = names[k + 1] /\ w = words[k + 1]
      OBVIOUS
    <3>2. Pair(S, f, w)
      BY <2>2, <3>1, Zenon DEF Pieces, Speakable
    <3>3. Carries(p, S, f, w)
      BY <2>5, <3>1, <3>2, PairReads, Zenon
    <3>4. QED
      BY <3>3 DEF Carries
  <2>7. COMMA \in S /\ <<COMMA>> \in Seq(S) /\ s \in Seq(S) /\ Len(s) \in Nat
    BY <2>4 DEF Pieces, Signs, Whole
  <2>8. Follows(s, COMMA, p, <<COMMA>>)
    BY <2>4, <2>6 DEF Follows, Whole
  <2>9. PICK t : t = (s \o p) \o <<COMMA>>
    OBVIOUS
  <2>10. flat[k + 1] = t
    <3>1. Seqs(S, s, p, <<COMMA>>)
      BY <2>6, <2>7, Zenon DEF Seqs
    <3>2. Same((s \o p) \o <<COMMA>>, s \o (p \o <<COMMA>>))
      BY <3>1, Associative, Zenon
    <3>3. QED
      BY <2>5, <2>9, <3>2, Zenon DEF Same
  <2>11. t \in Seq(S) /\ Extends(t, s, COMMA, p)
    BY <2>6, <2>7, <2>8, <2>9, OnePartMore
  <2>12. Split(t, COMMA, k + 1, part)
    BY <2>3, <2>4, <2>7, <2>11, SplitMore DEF Whole
  <2>13. t[Len(t)] = COMMA
    <3>1. PICK m \in Nat : m = Len(s \o p)
      BY <2>6, <2>7, ConcatProperties
    <3>2. s \o p \in Seq(S) /\ Len(<<COMMA>>) = 1 /\ <<COMMA>>[1] = COMMA
      BY <2>6, <2>7, ConcatProperties
    <3>3. Concat(t, s \o p, m, <<COMMA>>, 1)
      BY <2>7, <2>9, <3>1, <3>2, JoinedAt
    <3>4. Len(t) = m + 1 /\ \A i \in 1..1 : t[m + i] = <<COMMA>>[i]
      BY <3>3 DEF Concat
    <3>5. QED
      BY <3>2, <3>4
  <2>14. QED
    BY <2>10, <2>11, <2>12, <2>13 DEF Whole
<1>3. Nat \subseteq T
  <2> HIDE DEF T
  <2>1. QED
    BY <1>1, <1>2, Induction
<1>4. n \in Nat
  BY DEF Pieces
<1>5. QED
  BY <1>3, <1>4

\* What a receiver finds in the pairs: each name with its word, less what the end loses.
Reads(rest, n, names, words) ==
  \E from \in [1..n -> Nat] :
    /\ Starts(rest, COMMA) = {from[i] : i \in 1..n}
    /\ \A i \in 1..n :
         /\ Keyword(Stretch(rest, COMMA, from[i])) = <<names[i]>>
         /\ Value(Stretch(rest, COMMA, from[i])) = IF i = n THEN Kept(words[n]) ELSE words[i]

Message(type, n, names, words) ==
  LET pairs == [i \in 1..n |-> Paired(names[i], words[i]) \o <<COMMA>>]
  IN  Append(Kept(<<type, SPC>> \o FlattenSeq(pairs)), NEWLINE)

Tells(text, type, n, names, words) ==
  text[1] = type /\ Reads(SubSeq(text, 3, Len(text)), n, names, words)

LEMMA MessageReads ==
  ASSUME NEW S, Signs \subseteq S, NEW n \in Nat, n # 0, NEW names, NEW words,
         Speakable(S, n, names, words), NEW type \in S
  PROVE  Tells(Message(type, n, names, words), type, n, names, words)
<1>0. /\ Signs \subseteq S /\ COMMA \in S /\ NEWLINE \in S /\ SPC \in S /\ type \in S
      /\ <<COMMA>> \in Seq(S) /\ <<NEWLINE>> \in Seq(S) /\ <<type, SPC>> \in Seq(S)
      /\ n \in 1..n /\ n - 1 \in Nat /\ n - 1 \in 0..n /\ (n - 1) + 1 = n
  BY DEF Signs
<1>1. \A i \in 1..n : Pair(S, names[i], words[i])
  BY DEF Speakable
<1>2. \A i \in 1..n : /\ Paired(names[i], words[i]) \in Seq(S)
                      /\ Paired(names[i], words[i]) \o <<COMMA>> \in Seq(S)
                      /\ Keyword(Paired(names[i], words[i])) = <<names[i]>>
                      /\ Value(Paired(names[i], words[i])) = words[i]
  <2>1. TAKE i \in 1..n
  <2>2. /\ Paired(names[i], words[i]) \in Seq(S)
        /\ Keyword(Paired(names[i], words[i])) = <<names[i]>>
        /\ Value(Paired(names[i], words[i])) = words[i]
    <3>1. Carries(Paired(names[i], words[i]), S, names[i], words[i])
      BY <1>1, PairReads, Zenon
    <3>2. QED
      BY <3>1, Zenon DEF Carries
  <2>3. QED
    BY <1>0, <2>2, ConcatProperties
<1> DEFINE prs == [i \in 1..n |-> Paired(names[i], words[i]) \o <<COMMA>>]
<1>3. PICK pairs \in [1..n -> Seq(S)] :
        /\ pairs = prs
        /\ \A i \in 1..n : pairs[i] = Paired(names[i], words[i]) \o <<COMMA>>
  <2>1. \A i \in 1..n : Paired(names[i], words[i]) \o <<COMMA>> \in Seq(S)
    BY <1>2, Zenon
  <2>2. prs \in [1..n -> Seq(S)]
    BY <2>1, Zenon
  <2>3. \A i \in 1..n : prs[i] = Paired(names[i], words[i]) \o <<COMMA>>
    BY Zenon
  <2>4. QED
    BY <2>2, <2>3, Zenon
<1>30. PICK text : /\ text = Message(type, n, names, words)
                   /\ text = Append(Kept(<<type, SPC>> \o FlattenSeq(pairs)), NEWLINE)
  BY <1>3 DEF Message
<1> HIDE DEF prs
<1>4. PICK flat \in [0..n -> Seq(S)] : Flattens(flat, pairs, n) /\ FlattenSeq(pairs) = flat[n]
  <2>1. n \in Nat \ {0}
    OBVIOUS
  <2>2. QED
    BY <1>3, <2>1, FlatRuns
<1>5. PICK s, f, w : s = flat[n - 1] /\ f = names[n] /\ w = words[n]
  OBVIOUS
<1>6. s \in Seq(S) /\ Pair(S, f, w)
  BY <1>0, <1>1, <1>4, <1>5
<1>7. PICK q : q = (<<f, EQUALS>> \o w) \o <<COMMA>>
  OBVIOUS
<1>8. q \in Seq(S) /\ flat[n] = s \o q
  <2>1. q = pairs[n]
    BY <1>0, <1>3, <1>5, <1>7 DEF Paired
  <2>2. flat[n] = flat[n - 1] \o pairs[n]
    BY <1>0, <1>4 DEF Flattens
  <2>3. QED
    BY <1>0, <1>3, <1>5, <2>1, <2>2
<1>9. q[1] = f /\ 1 \in 1..Len(q) /\ f \notin PUNCT \cup {SPC}
  <2>1. PICK z : z = Paired(f, w)
    OBVIOUS
  <2>2. z \in Seq(S) /\ z # <<>> /\ z[1] = f /\ q = z \o <<COMMA>>
    <3>1. Carries(z, S, f, w) /\ z[1] = f
      BY <1>6, <2>1, PairReads, Zenon
    <3>2. q = z \o <<COMMA>>
      BY <1>7, <2>1, Zenon DEF Paired
    <3>3. QED
      BY <3>1, <3>2, Zenon DEF Carries
  <2>3. PICK m \in Nat : m = Len(z)
    BY <2>2, LenProperties
  <2>4. m >= 1
    BY <2>2, <2>3
  <2>5. Concat(q, z, m, <<COMMA>>, Len(<<COMMA>>))
    BY <1>0, <2>2, <2>3, JoinedAt
  <2>6. Len(<<COMMA>>) = 1
    OBVIOUS
  <2>7. q[1] = f /\ 1 \in 1..Len(q)
    BY <2>2, <2>4, <2>5, <2>6 DEF Concat
  <2>8. QED
    BY <1>6, <2>7 DEF Pair, Name, Blank
<1>10. PICK y : y = Kept(q) /\ y = LastPair(f, w)
  BY <1>7 DEF LastPair
<1>11. PICK p : p = y \o <<NEWLINE>>
  OBVIOUS
<1>12. y \in Seq(S) /\ p \in Seq(S) /\ Carries(p, S, f, Kept(w))
  BY <1>6, <1>10, <1>11, LastPart, Zenon DEF Carries
<1>13. PICK k : k = <<type, SPC>>
  OBVIOUS
<1>14. k \in Seq(S) /\ Len(k) = 2 /\ k[1] = type
  BY <1>0, <1>13
<1>15. Kept(k \o flat[n]) = (k \o s) \o y
  <2>1. k \o s \in Seq(S)
    BY <1>6, <1>14, ConcatProperties, Zenon
  <2>2. (k \o s) \o q = k \o (s \o q)
    <3>1. Seqs(S, k, s, q)
      BY <1>6, <1>8, <1>14, Zenon DEF Seqs
    <3>2. Same((k \o s) \o q, k \o (s \o q))
      BY <3>1, Associative, Zenon
    <3>3. QED
      BY <3>2, Zenon DEF Same
  <2>3. trim_right((k \o s) \o q, PUNCT \cup {SPC}) = (k \o s) \o trim_right(q, PUNCT \cup {SPC})
    <3>1. KeptEnd(S, k \o s, q, PUNCT \cup {SPC})
      BY <1>8, <1>9, <2>1, Zenon DEF KeptEnd
    <3>2. Same(trim_right((k \o s) \o q, PUNCT \cup {SPC}),
               (k \o s) \o trim_right(q, PUNCT \cup {SPC}))
      BY <3>1, TrimTail, Zenon
    <3>3. QED
      BY <3>2, Zenon DEF Same
  <2>4. QED
    BY <1>8, <1>10, <2>2, <2>3, Zenon DEF Kept
<1>16. PICK rest : rest = s \o p
  OBVIOUS
<1>17. rest \in Seq(S) /\ text = k \o rest
  <2>1. k \o s \in Seq(S) /\ s \o p \in Seq(S)
    BY <1>6, <1>12, <1>14, ConcatProperties, Zenon
  <2>2. (k \o s) \o y \in Seq(S)
    BY <1>12, <2>1, ConcatProperties, Zenon
  <2>3. text = ((k \o s) \o y) \o <<NEWLINE>>
    <3>1. text = Append((k \o s) \o y, NEWLINE)
      BY <1>4, <1>13, <1>15, <1>30, Zenon
    <3>2. Append((k \o s) \o y, NEWLINE) = ((k \o s) \o y) \o <<NEWLINE>>
      BY <1>0, <2>2, AppendIsConcat, Zenon
    <3>3. QED
      BY <3>1, <3>2, Zenon
  <2>4. ((k \o s) \o y) \o <<NEWLINE>> = (k \o s) \o (y \o <<NEWLINE>>)
    <3>1. Seqs(S, (k \o s), y, <<NEWLINE>>)
      BY <1>0, <1>12, <2>1, Zenon DEF Seqs
    <3>2. Same(((k \o s) \o y) \o <<NEWLINE>>, (k \o s) \o (y \o <<NEWLINE>>))
      BY <3>1, Associative, Zenon
    <3>3. QED
      BY <3>2, Zenon DEF Same
  <2>5. (k \o s) \o p = k \o (s \o p)
    <3>1. Seqs(S, k, s, p)
      BY <1>6, <1>12, <1>14, Zenon DEF Seqs
    <3>2. Same((k \o s) \o p, k \o (s \o p))
      BY <3>1, Associative, Zenon
    <3>3. QED
      BY <3>2, Zenon DEF Same
  <2>6. QED
    BY <1>11, <1>16, <2>1, <2>3, <2>4, <2>5, Zenon
<1>18. text[1] = type /\ SubSeq(text, 3, Len(text)) = rest
  <2>1. PICK m \in Nat : m = Len(rest)
    BY <1>17, LenProperties
  <2>2. text \in Seq(S) /\ Concat(text, k, 2, rest, m)
    BY <1>14, <1>17, <2>1, JoinedAt
  <2>3. /\ Len(text) = 2 + m /\ text[1] = type
        /\ \A i \in 1..m : text[2 + i] = rest[i]
    BY <1>14, <2>2 DEF Concat
  <2>4. SubSeq(rest, 1, m) = SubSeq(text, 2 + 1, 2 + m)
    <3>1. \A i \in 1..m : rest[i] \in S /\ rest[i] = text[2 + i]
      BY <1>17, <2>1, <2>3
    <3>2. Agree(S, rest, 1, m, text, 2)
      BY <3>1 DEF Agree
    <3>3. Same(SubSeq(rest, 1, m), SubSeq(text, 2 + 1, 2 + m))
      BY <3>2, SameStretch
    <3>4. QED
      BY <3>3, Zenon DEF Same
  <2>5. SubSeq(rest, 1, m) = rest
    BY <1>17, <2>1, SubSeqFull
  <2>6. 2 + 1 = 3
    OBVIOUS
  <2>7. QED
    BY <2>3, <2>4, <2>5, <2>6
<1> DEFINE part == [i \in 1..n |-> IF i = n THEN p ELSE Paired(names[i], words[i])]
<1>19. part[n] = p /\ \A i \in 1..n - 1 : i \in 1..n /\ part[i] = Paired(names[i], words[i])
  BY <1>0
<1> HIDE DEF part
<1>20. Whole(s, S, n - 1, part)
  <2>1. Speakable(S, n - 1, names, words)
    BY <1>1, <1>19, Zenon DEF Speakable
  <2>2. \A i \in 1..n - 1 : /\ part[i] = Paired(names[i], words[i])
                            /\ flat[i] = flat[i - 1] \o (part[i] \o <<COMMA>>)
    BY <1>3, <1>4, <1>19, Zenon DEF Flattens
  <2>3. Pieces(S, n - 1, names, words, part, flat)
    BY <1>0, <1>4, <2>1, <2>2, Zenon DEF Pieces, Flattens
  <2>4. Whole(flat[n - 1], S, n - 1, part)
    BY <2>3, FlatSplits, Zenon
  <2>5. QED
    BY <1>5, <2>4
<1>21. Extends(rest, s, COMMA, p)
  <2>1. Follows(s, COMMA, p, <<>>)
    BY <1>12, <1>20, Zenon DEF Carries, Follows, Whole
  <2>2. rest = (s \o p) \o <<>> /\ <<>> \in Seq(S)
    BY <1>16, <1>17, ConcatEmptySeq
  <2>3. Extends((s \o p) \o <<>>, s, COMMA, p)
    BY <1>6, <1>12, <2>1, <2>2, OnePartMore
  <2>4. QED
    BY <2>2, <2>3, Zenon
<1>22. Split(rest, COMMA, n, part)
  <2>1. Len(s) \in Nat
    BY <1>6
  <2>2. Split(rest, COMMA, (n - 1) + 1, part)
    BY <1>0, <1>19, <1>20, <1>21, <2>1, SplitMore DEF Whole
  <2>3. QED
    BY <1>0, <2>2
<1>23. Reads(rest, n, names, words)
  <2>1. PICK from \in [1..n -> Nat] :
          /\ Starts(rest, COMMA) = {from[i] : i \in 1..n}
          /\ \A i \in 1..n : Stretch(rest, COMMA, from[i]) = part[i]
    BY <1>22 DEF Split
  <2>2. ASSUME NEW i \in 1..n
        PROVE  /\ Keyword(Stretch(rest, COMMA, from[i])) = <<names[i]>>
               /\ Value(Stretch(rest, COMMA, from[i])) = IF i = n THEN Kept(words[n]) ELSE words[i]
    <3>1. Stretch(rest, COMMA, from[i]) = part[i]
      BY <2>1
    <3>2. CASE i = n
      BY <1>5, <1>12, <1>19, <3>1, <3>2 DEF Carries
    <3>3. CASE i # n
      <4>1. i \in 1..n - 1
        BY <3>3
      <4>2. QED
        BY <1>2, <1>19, <3>1, <3>3, <4>1
    <3>4. QED
      BY <3>2, <3>3
  <2>3. QED
    BY <2>1, <2>2 DEF Reads
<1>24. QED
  BY <1>18, <1>23, <1>30 DEF Tells

-----------------------------------------------------------------------------
(* What network_respond says: the names of a message, and words that carry. *)

Literals == Signs \cup {"cooler", "vacuum", "time", "group_id", "unit_id", "cam_id", "voltage",
                        "current", "hotend", "coolget", "coolset", "pressure",
                        "2017", "-", "10", "010", "FLT_MIN", "1.17549e-38"}
Alphabet == Words \cup Literals

Said(type, p) == IF p["time"] = <<>> THEN Tail(Names[type]) ELSE Names[type]

\* The names in a message of n pairs: all the fields, once each, but for an empty time.
Order(names, n, type, p) ==
  /\ n \in Nat \ {0} /\ Len(names) = n
  /\ \A i \in 1..n : names[i] \in Fields(type)
  /\ names[n] = Last(Names[type])
  /\ \A i, j \in 1..n : names[i] = names[j] => i = j
  /\ \A f \in Fields(type) : (\E i \in 1..n : f = names[i]) \/ (f = "time" /\ p["time"] = <<>>)

LEMMA CoolerFields ==
  Fields("cooler") = {"time", "group_id", "unit_id", "cam_id", "voltage", "current",
                      "hotend", "coolget", "coolset"}
  BY DEF Fields, Names, ToSet

LEMMA VacuumFields ==
  Fields("vacuum") = {"time", "group_id", "unit_id", "cam_id", "voltage", "current", "pressure"}
  BY DEF Fields, Names, ToSet

LEMMA FieldsAreNames ==
  ASSUME NEW type \in {"cooler", "vacuum"}, NEW f \in Fields(type)
  PROVE  f \in Alphabet /\ Name(f)
<1>1. f \in {"time", "group_id", "unit_id", "cam_id", "voltage", "current", "hotend", "coolget",
             "coolset", "pressure"}
  BY CoolerFields, VacuumFields
<1>2. QED
  BY <1>1 DEF Name, Alphabet, Literals, PUNCT, Blank, COMMA, EQUALS, SPC, NEWLINE

LEMMA OrderOfSaid ==
  ASSUME NEW type \in {"cooler", "vacuum"}, NEW p
  PROVE  \E n : Order(Said(type, p), n, type, p)
<1>1. CASE type = "cooler"
  <2>1. PICK a : a = Names["cooler"]
    OBVIOUS
  <2>2. a = <<"time", "group_id", "unit_id", "cam_id", "voltage", "current", "hotend", "coolget",
              "coolset">>
    BY <2>1 DEF Names
  <2>3. CASE p["time"] = <<>>
    <3>1. PICK t : t = Tail(a)
      OBVIOUS
    <3>2. t = <<"group_id", "unit_id", "cam_id", "voltage", "current", "hotend", "coolget",
                "coolset">>
      BY <2>2, <3>1
    <3>3. Said(type, p) = t
      BY <1>1, <2>1, <2>3, <3>1 DEF Said
    <3>4. Order(t, 8, "cooler", p)
      BY <2>1, <2>2, <2>3, <3>2, CoolerFields DEF Order, Last
    <3>5. QED
      BY <1>1, <3>3, <3>4
  <2>4. CASE p["time"] # <<>>
    <3>1. Said(type, p) = a
      BY <1>1, <2>1, <2>4 DEF Said
    <3>2. Order(a, 9, "cooler", p)
      BY <2>1, <2>2, CoolerFields DEF Order, Last
    <3>3. QED
      BY <1>1, <3>1, <3>2
  <2>5. QED
    BY <2>3, <2>4
<1>2. CASE type = "vacuum"
  <2>1. PICK a : a = Names["vacuum"]
    OBVIOUS
  <2>2. a = <<"time", "group_id", "unit_id", "cam_id", "voltage", "current", "pressure">>
    BY <2>1 DEF Names
  <2>3. CASE p["time"] = <<>>
    <3>1. PICK t : t = Tail(a)
      OBVIOUS
    <3>2. t = <<"group_id", "unit_id", "cam_id", "voltage", "current", "pressure">>
      BY <2>2, <3>1
    <3>3. Said(type, p) = t
      BY <1>2, <2>1, <2>3, <3>1 DEF Said
    <3>4. Order(t, 6, "vacuum", p)
      BY <2>1, <2>2, <2>3, <3>2, VacuumFields DEF Order, Last
    <3>5. QED
      BY <1>2, <3>3, <3>4
  <2>4. CASE p["time"] # <<>>
    <3>1. Said(type, p) = a
      BY <1>2, <2>1, <2>4 DEF Said
    <3>2. Order(a, 7, "vacuum", p)
      BY <2>1, <2>2, VacuumFields DEF Order, Last
    <3>3. QED
      BY <1>2, <3>1, <3>2
  <2>5. QED
    BY <2>3, <2>4
<1>3. QED
  BY <1>1, <1>2

-----------------------------------------------------------------------------
(* What a message says of a proto, and what network_respond puts in one. *)

LEMMA CompactIs ==
  ASSUME NEW type, NEW p, NEW names, NEW words, NEW n,
         names = Said(type, p), n = Len(names),
         \A i \in 1..n : words[i] = Written(names[i], p[names[i]])
  PROVE  Same(Compact(type, p), Message(type, n, names, words))
<1> DEFINE x == [i \in 1..n |-> join_kv(names[i], p[names[i]])]
           y == [i \in 1..n |-> Paired(names[i], words[i]) \o <<COMMA>>]
<1>1. ASSUME NEW i \in 1..n
      PROVE  join_kv(names[i], p[names[i]]) = Paired(names[i], words[i]) \o <<COMMA>>
  BY Zenon DEF join_kv, Paired
<1>2. x = y
  BY <1>1, Zenon
<1>3. Message(type, n, names, words) = Append(Kept(<<type, SPC>> \o FlattenSeq(y)), NEWLINE)
  BY Zenon DEF Message
<1>4. Compact(type, p) = Append(Kept(<<type, SPC>> \o FlattenSeq(x)), NEWLINE)
  BY Zenon DEF Compact, Kept, Said
<1>5. QED
  BY <1>2, <1>3, <1>4, Zenon DEF Same

\* What a proto holds where network_respond says it.
Sayable(type, p) ==
  /\ \A f \in Fields(type) : p[f] \in Seq(Alphabet)
  /\ \A f \in Fields(type) \cap Numeric : Written(f, p[f]) # <<>>
  /\ Last(Names[type]) \in Numeric => Kept(Written(Last(Names[type]), p[Last(Names[type])])) # <<>>

LEMMA FreshIs ==
  ASSUME NEW type \in {"cooler", "vacuum"}, NEW f \in Fields(type)
  PROVE  Fresh(type)[f] = IF f \in Numeric THEN FLT_MIN ELSE <<>>
  BY DEF Fresh

LEMMA LastNames == Last(Names["cooler"]) = "coolset" /\ Last(Names["vacuum"]) = "pressure"
<1>1. PICK a, b : a = Names["cooler"] /\ b = Names["vacuum"]
  OBVIOUS
<1>2. a = <<"time", "group_id", "unit_id", "cam_id", "voltage", "current", "hotend", "coolget",
              "coolset">>
      /\ b = <<"time", "group_id", "unit_id", "cam_id", "voltage", "current", "pressure">>
  BY <1>1 DEF Names
<1>3. Last(a) = "coolset" /\ Last(b) = "pressure"
  BY <1>2 DEF Last
<1>4. QED
  BY <1>1, <1>3

\* What Protos puts where.
LEMMA ProtosHold ==
  ASSUME NEW type \in {"cooler", "vacuum"}, NEW text \in Fields(type) \ Numeric,
         text \notin {"time", "cam_id"}, NEW p \in Protos(type, text)
  PROVE  \A f \in Fields(type) :
           IF f = "time" THEN p[f] \in Dates
           ELSE IF f = text THEN p[f] \in Texts
           ELSE IF f = "cam_id" THEN p[f] = <<"010">>
           ELSE IF f = "voltage" THEN p[f] \in Numbers \cup {FLT_MIN}
           ELSE IF f \in Numeric THEN p[f] = FLT_MIN
           ELSE p[f] = <<>>
<1> DEFINE q(t, x, v) == [Fresh(type) EXCEPT !["time"] = t, ![text] = x, !["cam_id"] = <<"010">>,
                                             !["voltage"] = v]
<1>1. PICK t \in Dates, x \in Texts, v \in Numbers \cup {FLT_MIN} : p = q(t, x, v)
  BY DEF Protos
<1>3. PICK g : g = Fresh(type)
  OBVIOUS
<1>4. PICK c : c = <<"010">>
  OBVIOUS
<1>5. DOMAIN g = Fields(type)
  BY <1>3 DEF Fresh
<1>6. \A f \in Fields(type) : g[f] = IF f \in Numeric THEN FLT_MIN ELSE <<>>
  BY <1>3, FreshIs
<1>7. p = [g EXCEPT !["time"] = t, ![text] = x, !["cam_id"] = c, !["voltage"] = v]
  BY <1>1, <1>3, <1>4
<1>8. \A f \in Fields(type) :
        p[f] = IF f = "voltage" THEN v ELSE IF f = "cam_id" THEN c
               ELSE IF f = text THEN x ELSE IF f = "time" THEN t ELSE g[f]
  BY <1>5, <1>7
<1>9. text # "voltage" /\ text # "time" /\ text # "cam_id"
  BY DEF Numeric
<1>10. ASSUME NEW f \in Fields(type)
       PROVE  IF f = "time" THEN p[f] \in Dates
              ELSE IF f = text THEN p[f] \in Texts
              ELSE IF f = "cam_id" THEN p[f] = c
              ELSE IF f = "voltage" THEN p[f] \in Numbers \cup {FLT_MIN}
              ELSE IF f \in Numeric THEN p[f] = FLT_MIN
              ELSE p[f] = <<>>
  BY <1>1, <1>6, <1>8, <1>9
<1>11. QED
  BY <1>4, <1>10

LEMMA ProtosSayable ==
  ASSUME NEW type, NEW text,
         <<type, text>> \in {<<"cooler", "group_id">>, <<"vacuum", "pressure">>},
         NEW p \in Protos(type, text)
  PROVE  Sayable(type, p)
<1>1. type \in {"cooler", "vacuum"} /\ text \in Fields(type) \ Numeric
      /\ text \notin {"time", "cam_id"}
  BY CoolerFields, VacuumFields DEF Numeric
<1>2. \A f \in Fields(type) :
           IF f = "time" THEN p[f] \in Dates
           ELSE IF f = text THEN p[f] \in Texts
           ELSE IF f = "cam_id" THEN p[f] = <<"010">>
           ELSE IF f = "voltage" THEN p[f] \in Numbers \cup {FLT_MIN}
           ELSE IF f \in Numeric THEN p[f] = FLT_MIN
           ELSE p[f] = <<>>
  BY <1>1, ProtosHold
<1>3. \A v \in Texts \cup Numbers : v \in Seq(Alphabet)
  <2>1. TAKE v \in Texts \cup Numbers
  <2>2. v \in Seq(Words)
    BY TextAssumption
  <2>3. Words \subseteq Alphabet
    BY DEF Alphabet
  <2>4. QED
    BY <2>2, <2>3
<1>4. FLT_MIN \in Seq(Alphabet) /\ <<"010">> \in Seq(Alphabet) /\ <<>> \in Seq(Alphabet)
      /\ <<"2017", "-", "10">> \in Seq(Alphabet)
  BY DEF FLT_MIN, Alphabet, Literals
<1>5. \A f \in Fields(type) : p[f] \in Seq(Alphabet)
  BY <1>2, <1>3, <1>4 DEF Dates
<1>6. FLT_MIN # <<>> /\ <<"1.17549e-38">> # <<>>
  BY DEF FLT_MIN
<1>7. ASSUME NEW f \in Fields(type) \cap Numeric
      PROVE  Written(f, p[f]) # <<>>
  <2>1. p[f] \in Numbers \cup {FLT_MIN}
    BY <1>1, <1>2 DEF Numeric
  <2>2. QED
    BY <1>6, <2>1, TextAssumption DEF Written
<1>8. ASSUME Last(Names[type]) \in Numeric
      PROVE  Kept(Written(Last(Names[type]), p[Last(Names[type])])) # <<>>
  <2>1. type = "cooler" /\ Last(Names[type]) = "coolset"
    BY <1>1, <1>8, LastNames DEF Numeric
  <2>2. text # "coolset" /\ "coolset" \in Fields(type) \cap Numeric
    BY <1>1, <2>1, CoolerFields DEF Numeric
  <2>3. p["coolset"] = FLT_MIN
    BY <1>2, <2>2
  <2>4. Written("coolset", p["coolset"]) = <<"1.17549e-38">>
    BY <2>2, <2>3, Zenon DEF Written
  <2>5. PICK w : w = <<"1.17549e-38">>
    OBVIOUS
  <2>6. Keeps(w, PUNCT \cup {SPC}, 1) /\ Len(w) = 1
    BY <2>5 DEF Keeps, PUNCT, SPC, COMMA, EQUALS
  <2>7. Kept(w) = SubSeq(w, 1, 1)
    <3>1. Len(w) \in Nat /\ Keeps(w, PUNCT \cup {SPC}, 1)
      BY <2>6
    <3>2. trim_right(w, PUNCT \cup {SPC}) = SubSeq(w, 1, 1)
      BY <3>1, TrimIs, Zenon
    <3>3. QED
      BY <3>2, Zenon DEF Kept
  <2>8. SubSeq(w, 1, 1) # <<>>
    BY <2>5
  <2>9. QED
    BY <2>1, <2>4, <2>5, <2>7, <2>8, Zenon
<1>9. QED
  BY <1>5, <1>7, <1>8 DEF Sayable

-----------------------------------------------------------------------------
(* What a receiver makes of a message. *)

LEMMA WrittenPlain ==
  ASSUME NEW f, NEW v, Plain(v), v \in Seq(Alphabet)
  PROVE  Plain(Written(f, v)) /\ Written(f, v) \in Seq(Alphabet)
<1>1. PICK w : w = <<"1.17549e-38">>
  OBVIOUS
<1>2. w \in Seq(Alphabet) /\ Len(w) = 1 /\ w[1] = "1.17549e-38"
  BY <1>1 DEF Alphabet, Literals
<1>3. "1.17549e-38" \notin {COMMA, EQUALS, NEWLINE} /\ "1.17549e-38" \notin Blank
  BY DEF COMMA, EQUALS, NEWLINE, SPC, Blank
<1>4. trim(w) = w
  <2>1. Sound(w)
    BY <1>2, <1>3 DEF Sound
  <2>2. QED
    BY <1>2, <2>1, TrimSound
<1>5. Plain(w)
  BY <1>2, <1>3, <1>4 DEF Plain
<1>6. Written(f, v) = w \/ Written(f, v) = v
  BY <1>1, Zenon DEF Written
<1>7. QED
  BY <1>2, <1>5, <1>6, Zenon

LEMMA FieldsSpeakable ==
  ASSUME NEW type \in {"cooler", "vacuum"}, NEW p, Sayable(type, p),
         \A f \in Fields(type) : Plain(p[f]),
         NEW n, NEW names, Order(names, n, type, p), NEW words,
         \A i \in 1..n : words[i] = Written(names[i], p[names[i]])
  PROVE  Speakable(Alphabet, n, names, words)
<1>1. ASSUME NEW i \in 1..n
      PROVE  Pair(Alphabet, names[i], words[i])
  <2>1. PICK f : f = names[i]
    OBVIOUS
  <2>2. f \in Fields(type)
    BY <2>1, Zenon DEF Order
  <2>3. f \in Alphabet /\ Name(f)
    BY <2>2, FieldsAreNames
  <2>4. Plain(words[i]) /\ words[i] \in Seq(Alphabet)
    <3>1. words[i] = Written(f, p[f])
      BY <2>1, Zenon
    <3>2. Plain(p[f]) /\ p[f] \in Seq(Alphabet)
      BY <2>2, Zenon DEF Sayable
    <3>3. Plain(Written(f, p[f])) /\ Written(f, p[f]) \in Seq(Alphabet)
      BY <3>2, WrittenPlain, Zenon
    <3>4. QED
      BY <3>1, <3>3, Zenon
  <2>5. Signs \subseteq Alphabet
    BY DEF Alphabet, Literals
  <2>6. QED
    BY <2>1, <2>3, <2>4, <2>5, Zenon DEF Pair
<1>2. QED
  BY <1>1, Zenon DEF Speakable

Given(rest, f) ==
  {i \in Starts(rest, COMMA) : /\ Keyword(Stretch(rest, COMMA, i)) = <<f>>
                               /\ Value(Stretch(rest, COMMA, i)) # <<>>}

Found(rest, f, x) ==
  x = IF Given(rest, f) = {} THEN <<>>
      ELSE Value(Stretch(rest, COMMA, Max(Given(rest, f))))

\* A receiver finds for a name the word that was said, or nothing.
LEMMA FoundOnce ==
  ASSUME NEW rest, NEW n \in Nat, NEW names, NEW words, Reads(rest, n, names, words),
         \A i, j \in 1..n : names[i] = names[j] => i = j, NEW m \in 1..n
  PROVE  Found(rest, names[m], IF m = n THEN Kept(words[n]) ELSE words[m])
<1>1. PICK from \in [1..n -> Nat] :
        /\ Starts(rest, COMMA) = {from[i] : i \in 1..n}
        /\ \A i \in 1..n :
             /\ Keyword(Stretch(rest, COMMA, from[i])) = <<names[i]>>
             /\ Value(Stretch(rest, COMMA, from[i])) = IF i = n THEN Kept(words[n]) ELSE words[i]
  BY DEF Reads
<1>2. PICK x : x = IF m = n THEN Kept(words[n]) ELSE words[m]
  OBVIOUS
<1>3. Value(Stretch(rest, COMMA, from[m])) = x /\ Keyword(Stretch(rest, COMMA, from[m])) = <<names[m]>>
      /\ from[m] \in Starts(rest, COMMA)
  BY <1>1, <1>2, Zenon
<1>4. ASSUME NEW i \in Given(rest, names[m])
      PROVE  i = from[m] /\ x # <<>>
  <2>1. i \in Starts(rest, COMMA) /\ Keyword(Stretch(rest, COMMA, i)) = <<names[m]>>
        /\ Value(Stretch(rest, COMMA, i)) # <<>>
    BY Zenon DEF Given
  <2>2. PICK j \in 1..n : i = from[j]
    BY <1>1, <2>1, Zenon
  <2>3. <<names[j]>> = <<names[m]>>
    BY <1>1, <2>1, <2>2, Zenon
  <2>4. names[j] = names[m]
    BY <2>3
  <2>5. j = m
    BY <2>4, Zenon
  <2>6. QED
    BY <1>3, <2>1, <2>2, <2>5, Zenon
<1>5. CASE x = <<>>
  <2>1. Given(rest, names[m]) = {}
    BY <1>4, <1>5, Zenon
  <2>2. QED
    BY <1>2, <1>5, <2>1, Zenon DEF Found
<1>6. CASE x # <<>>
  <2>1. from[m] \in Given(rest, names[m])
    BY <1>3, <1>6, Zenon DEF Given
  <2>2. PICK G : G = Given(rest, names[m])
    OBVIOUS
  <2>3. from[m] \in G /\ \A i \in G : i = from[m]
    BY <1>4, <2>1, <2>2, Zenon
  <2>4. from[m] \in Int
    OBVIOUS
  <2>5. Max(G) = from[m]
    BY <2>3, <2>4, MaxIs
  <2>6. G # {}
    BY <2>3
  <2>7. QED
    BY <1>2, <1>3, <2>2, <2>5, <2>6, Zenon DEF Found
<1>7. QED
  BY <1>5, <1>6

LEMMA FoundNever ==
  ASSUME NEW rest, NEW n \in Nat, NEW names, NEW words, Reads(rest, n, names, words),
         NEW f, \A i \in 1..n : names[i] # f
  PROVE  Found(rest, f, <<>>)
<1>1. PICK from \in [1..n -> Nat] :
        /\ Starts(rest, COMMA) = {from[i] : i \in 1..n}
        /\ \A i \in 1..n : Keyword(Stretch(rest, COMMA, from[i])) = <<names[i]>>
  BY DEF Reads
<1>2. ASSUME NEW i \in Given(rest, f)
      PROVE  FALSE
  <2>1. i \in Starts(rest, COMMA) /\ Keyword(Stretch(rest, COMMA, i)) = <<f>>
    BY Zenon DEF Given
  <2>2. PICK j \in 1..n : i = from[j]
    BY <1>1, <2>1, Zenon
  <2>3. <<names[j]>> = <<f>>
    BY <1>1, <2>1, <2>2, Zenon
  <2>4. names[j] = f
    BY <2>3
  <2>5. QED
    BY <2>4
<1>3. QED
  BY <1>2, Zenon DEF Found

LEMMA ResolveFinds ==
  ASSUME NEW text, NEW type, text[1] = type, NEW f \in Fields(type), NEW x,
         Found(SubSeq(text, 3, Len(text)), f, x), x # <<>> \/ Fresh(type)[f] = <<>>
  PROVE  Same(Resolve(text)[f], x)
  BY Zenon DEF Resolve, Found, Given, Same

LEMMA HeardIs ==
  ASSUME NEW type \in {"cooler", "vacuum"}, NEW p, Sayable(type, p),
         \A f \in Fields(type) : Plain(p[f]), NEW f \in Fields(type)
  PROVE  Same(Resolve(Compact(type, p))[f],
              IF f = Last(Names[type]) THEN trim_right(Written(f, p[f]), PUNCT \cup {SPC})
              ELSE Written(f, p[f]))
<1>1. PICK n : Order(Said(type, p), n, type, p)
  BY OrderOfSaid
<1>2. PICK names : names = Said(type, p)
  OBVIOUS
<1>3. PICK last : last = Last(Names[type])
  OBVIOUS
<1>4. /\ n \in Nat \ {0} /\ n \in Nat /\ n # 0 /\ n \in 1..n /\ Len(names) = n
      /\ \A i \in 1..n : names[i] \in Fields(type)
      /\ names[n] = last
      /\ \A i, j \in 1..n : names[i] = names[j] => i = j
      /\ (\E i \in 1..n : f = names[i]) \/ (f = "time" /\ p["time"] = <<>>)
  <2>1. n \in Nat \ {0}
    BY <1>1 DEF Order
  <2>2. n \in Nat /\ n # 0 /\ n \in 1..n
    BY <2>1
  <2>3. QED
    BY <1>1, <1>2, <1>3, <2>1, <2>2, Zenon DEF Order
<1> DEFINE words == [i \in 1..n |-> Written(names[i], p[names[i]])]
<1>5. \A i \in 1..n : words[i] = Written(names[i], p[names[i]])
  BY Zenon
<1> HIDE DEF words
<1>6. PICK text : text = Message(type, n, names, words)
  OBVIOUS
<1>7. Compact(type, p) = text
  <2>1. Same(Compact(type, p), Message(type, n, names, words))
    BY <1>2, <1>4, <1>5, CompactIs, Zenon
  <2>2. QED
    BY <1>6, <2>1, Zenon DEF Same
<1>8. PICK rest : rest = SubSeq(text, 3, Len(text))
  OBVIOUS
<1>9. text[1] = type /\ Reads(rest, n, names, words)
  <2>1. Speakable(Alphabet, n, names, words)
    BY <1>1, <1>2, <1>5, FieldsSpeakable, Zenon
  <2>2. Signs \subseteq Alphabet /\ type \in Alphabet
    BY DEF Alphabet, Literals
  <2>3. Tells(Message(type, n, names, words), type, n, names, words)
    BY <1>4, <2>1, <2>2, MessageReads, Zenon
  <2>4. QED
    BY <1>6, <1>8, <2>3, Zenon DEF Tells
<1>10. f \in Numeric \/ Fresh(type)[f] = <<>>
  BY FreshIs, Zenon
<1> DEFINE x == IF f = last THEN Kept(Written(f, p[f])) ELSE Written(f, p[f])
<1>11. x # <<>> \/ f \notin Numeric
  <2>1. \A g \in Fields(type) \cap Numeric : Written(g, p[g]) # <<>>
    BY Zenon DEF Sayable
  <2>2. last \in Numeric => Kept(Written(last, p[last])) # <<>>
    BY <1>3, Zenon DEF Sayable
  <2>3. QED
    BY <2>1, <2>2, Zenon
<1>12. Found(rest, f, x)
  <2>1. ASSUME NEW m \in 1..n, f = names[m]
        PROVE  Found(rest, f, x)
    <3>1. Found(rest, names[m], IF m = n THEN Kept(words[n]) ELSE words[m])
      BY <1>4, <1>9, FoundOnce, Zenon
    <3>2. m = n <=> f = last
      BY <1>4, <2>1, Zenon
    <3>3. words[m] = Written(f, p[f])
      BY <1>5, <2>1, Zenon
    <3>4. x = IF m = n THEN Kept(words[n]) ELSE words[m]
      BY <3>2, <3>3, Zenon
    <3>5. QED
      BY <2>1, <3>1, <3>4, Zenon
  <2>2. ASSUME \A m \in 1..n : names[m] # f
        PROVE  Found(rest, f, x)
    <3>1. Found(rest, f, <<>>)
      BY <1>4, <1>9, <2>2, FoundNever, Zenon
    <3>2. f = "time" /\ p["time"] = <<>>
      BY <1>4, <2>2, Zenon
    <3>3. f # last
      BY <1>4, <2>2, Zenon
    <3>4. f \notin Numeric
      BY <3>2 DEF Numeric
    <3>5. Written(f, p[f]) = <<>>
      BY <3>2, <3>4, Zenon DEF Written
    <3>6. QED
      BY <3>1, <3>3, <3>5, Zenon
  <2>3. QED
    BY <2>1, <2>2, Zenon
<1> HIDE DEF x
<1>13. Same(Resolve(text)[f], x)
  <2>1. x # <<>> \/ Fresh(type)[f] = <<>>
    BY <1>10, <1>11, Zenon
  <2>2. Found(SubSeq(text, 3, Len(text)), f, x)
    BY <1>8, <1>12, Zenon
  <2>3. QED
    BY <1>9, <2>1, <2>2, ResolveFinds, Zenon
<1>14. QED
  BY <1>3, <1>7, <1>13, Zenon DEF x, Kept

-----------------------------------------------------------------------------
(* The buffers: the i-th last message is in the i-th buffer before the next. *)

Before(b, i) == IF i <= b THEN b - i ELSE (b + Slots) - i

Spoken == [type : {"cooler", "vacuum"},
           proto : Protos("cooler", "group_id") \cup Protos("vacuum", "pressure"),
           slot : 0..Slots - 1]

InBuffer(e, b, i, bs) ==
  /\ Sayable(e.type, e.proto) /\ e.slot = Before(b, i)
  /\ bs[e.slot] = Compact(e.type, e.proto)

TextInv ==
  /\ ibuf \in 0..Slots - 1 /\ DOMAIN buff = 0..Slots - 1
  /\ protos \in Seq(Spoken) /\ Len(protos) <= Slots
  /\ \A i \in 1..Len(protos) : InBuffer(protos[i], ibuf, i, buff)

LEMMA BufferBefore ==
  ASSUME NEW b \in 0..Slots - 1
  PROVE  /\ after(b) \in 0..Slots - 1 /\ Before(after(b), 1) = b
         /\ \A i \in 1..Slots - 1 : Before(b, i) = Before(after(b), i + 1) /\ Before(b, i) # b
  BY TextAssumption DEF after, Before

LEMMA SayKeeps ==
  ASSUME TextInv, NEW type \in {"cooler", "vacuum"}, NEW p, Sayable(type, p),
         p \in Protos("cooler", "group_id") \cup Protos("vacuum", "pressure"), Say(type, p)
  PROVE  TextInv'
<1>1. Slots \in Nat /\ Slots >= 1
  BY TextAssumption
<1>2. PICK n \in Nat : n = Len(protos)
  BY LenProperties DEF TextInv
<1>3. PICK k \in Nat : k = IF n < Slots THEN n ELSE Slots - 1
  BY <1>1
<1>4. k <= n /\ k <= Slots - 1 /\ n <= Slots
  BY <1>1, <1>2, <1>3 DEF TextInv
<1>5. PICK e : e = [type |-> type, proto |-> p, slot |-> ibuf]
  OBVIOUS
<1>6. e \in Spoken /\ e.type = type /\ e.proto = p /\ e.slot = ibuf
  BY <1>5 DEF Spoken, TextInv
<1>7. PICK r : r = SubSeq(protos, 1, k)
  OBVIOUS
<1>8. protos \in Seq(Spoken) /\ ibuf \in 0..Slots - 1
  BY DEF TextInv
<1>9. r \in Seq(Spoken) /\ Len(r) = k /\ \A i \in 1..k : r[i] = protos[i]
  <2>1. 1 \in Int /\ k \in Int /\ k - 1 + 1 = k /\ (1 <= k \/ k = 0)
        /\ \A i \in 1..k : protos[i] \in Spoken
    BY <1>2, <1>4, <1>8
  <2>2. /\ r \in Seq(Spoken) /\ Len(r) = (IF 1 <= k THEN k - 1 + 1 ELSE 0)
        /\ \A i \in 1..k - 1 + 1 : r[i] = protos[1 + i - 1]
    BY <1>7, <2>1, SubSeqProperties
  <2>3. \A i \in 1..k : 1 + i - 1 = i
    OBVIOUS
  <2>4. QED
    BY <2>1, <2>2, <2>3
<1>10. PICK q : q = <<e>> \o r
  OBVIOUS
<1>11. protos' = q
  <2>1. protos' = <<e>> \o SubSeq(protos, 1, IF n < Slots THEN n ELSE Slots - 1)
    BY <1>2, <1>5, Zenon DEF Say
  <2>2. QED
    BY <1>3, <1>7, <1>10, <2>1, Zenon
<1>12. q \in Seq(Spoken) /\ Concat(q, <<e>>, 1, r, k)
  <2>1. <<e>> \in Seq(Spoken) /\ Len(<<e>>) = 1
    BY <1>6
  <2>2. QED
    BY <1>9, <1>10, <2>1, JoinedAt
<1>13. Len(q) = k + 1 /\ q[1] = e /\ \A i \in 1..k : q[i + 1] = protos[i]
  <2>1. <<e>>[1] = e
    OBVIOUS
  <2>2. QED
    BY <1>9, <1>12, <2>1 DEF Concat
<1>14. PICK b : b = after(ibuf)
  OBVIOUS
<1>15. /\ b \in 0..Slots - 1 /\ Before(b, 1) = ibuf
       /\ \A i \in 1..Slots - 1 : Before(ibuf, i) = Before(b, i + 1) /\ Before(ibuf, i) # ibuf
  BY <1>8, <1>14, BufferBefore
<1>16. PICK bs : bs = buff'
  OBVIOUS
<1>17. /\ DOMAIN bs = 0..Slots - 1 /\ bs[ibuf] = Compact(type, p)
       /\ \A s \in 0..Slots - 1 : s # ibuf => bs[s] = buff[s]
  BY <1>8, <1>16 DEF Say, TextInv
<1>18. InBuffer(q[1], b, 1, bs)
  BY <1>6, <1>13, <1>15, <1>17, Zenon DEF InBuffer
<1>19. ASSUME NEW i \in 1..k
       PROVE  InBuffer(q[i + 1], b, i + 1, bs)
  <2>1. i \in 1..Slots - 1 /\ i \in 1..n
    BY <1>1, <1>4
  <2>2. InBuffer(protos[i], ibuf, i, buff)
    BY <1>2, <2>1, Zenon DEF TextInv
  <2>3. protos[i] \in Spoken
    BY <1>2, <1>8, <2>1
  <2>4. PICK o : o = protos[i]
    OBVIOUS
  <2>5. o.slot \in 0..Slots - 1
    BY <2>3, <2>4 DEF Spoken
  <2>6. o.slot = Before(ibuf, i) /\ buff[o.slot] = Compact(o.type, o.proto)
        /\ Sayable(o.type, o.proto)
    BY <2>2, <2>4, Zenon DEF InBuffer
  <2>7. o.slot = Before(b, i + 1) /\ o.slot # ibuf
    BY <1>15, <2>1, <2>6, Zenon
  <2>8. bs[o.slot] = Compact(o.type, o.proto)
    BY <1>17, <2>5, <2>6, <2>7, Zenon
  <2>9. q[i + 1] = o
    BY <1>13, <2>4, Zenon
  <2>10. QED
    BY <2>6, <2>7, <2>8, <2>9, Zenon DEF InBuffer
<1>20. ASSUME NEW i \in 1..Len(q)
       PROVE  InBuffer(q[i], b, i, bs)
  <2>1. CASE i = 1
    BY <1>18, <2>1, Zenon
  <2>2. CASE i # 1
    <3>1. i - 1 \in 1..k /\ (i - 1) + 1 = i
      BY <1>13, <2>2
    <3>2. QED
      BY <1>19, <3>1
  <2>3. QED
    BY <2>1, <2>2
<1>21. ibuf' = b
  BY <1>14 DEF Say
<1>22. Len(q) <= Slots
  BY <1>1, <1>4, <1>13
<1>23. QED
  BY <1>11, <1>12, <1>15, <1>16, <1>17, <1>20, <1>21, <1>22 DEF TextInv

LEMMA TextKeeps == TextInv /\ [TextNext]_textVars => TextInv'
<1> SUFFICES ASSUME TextInv, [TextNext]_textVars
             PROVE  TextInv'
  OBVIOUS
<1>1. CASE SayCooler
  <2>1. PICK p \in Protos("cooler", "group_id") : Say("cooler", p)
    BY <1>1, Zenon DEF SayCooler
  <2>2. Sayable("cooler", p)
    BY ProtosSayable
  <2>3. QED
    BY <2>1, <2>2, SayKeeps
<1>2. CASE SayVacuum
  <2>1. PICK p \in Protos("vacuum", "pressure") : Say("vacuum", p)
    BY <1>2, Zenon DEF SayVacuum
  <2>2. Sayable("vacuum", p)
    BY ProtosSayable
  <2>3. QED
    BY <2>1, <2>2, SayKeeps
<1>3. CASE UNCHANGED textVars
  BY <1>3 DEF textVars, TextInv
<1>4. QED
  BY <1>1, <1>2, <1>3 DEF TextNext

LEMMA TextInvImplies == TextInv => ReadBack
<1> SUFFICES ASSUME TextInv, NEW i \in 1..Len(protos),
                    \A f \in Fields(protos[i].type) : Plain(protos[i].proto[f]),
                    NEW f \in Fields(protos[i].type)
             PROVE  Same(Resolve(buff[protos[i].slot])[f],
                         IF f = Last(Names[protos[i].type])
                         THEN trim_right(Written(f, protos[i].proto[f]), PUNCT \cup {SPC})
                         ELSE Written(f, protos[i].proto[f]))
  BY Zenon DEF ReadBack, Same
<1>1. PICK type, p, s : type = protos[i].type /\ p = protos[i].proto /\ s = protos[i].slot
  OBVIOUS
<1>2. type \in {"cooler", "vacuum"}
  <2>1. protos[i] \in Spoken
    BY DEF TextInv
  <2>2. QED
    BY <1>1, <2>1 DEF Spoken
<1>3. Sayable(type, p) /\ buff[s] = Compact(type, p)
  BY <1>1, Zenon DEF TextInv, InBuffer
<1>4. Same(Resolve(Compact(type, p))[f],
           IF f = Last(Names[type]) THEN trim_right(Written(f, p[f]), PUNCT \cup {SPC})
           ELSE Written(f, p[f]))
  BY <1>1, <1>2, <1>3, HeardIs, Zenon
<1>5. QED
  BY <1>1, <1>3, <1>4, Zenon

\* A receiver makes of each of the last messages what was said, in the buffer that Say
\* returned: none has been overwritten, and a text without the protocol's separators, an
\* empty field and one that was never set all read back (Compact, Resolve).
THEOREM MessagesReadBack == TextSpec => []ReadBack
<1>1. TextInit => TextInv
  <2>1. SUFFICES ASSUME TextInit PROVE TextInv
    OBVIOUS
  <2>2. protos = <<>> /\ <<>> \in Seq(Spoken) /\ Len(<<>>) = 0
    BY <2>1 DEF TextInit
  <2>3. QED
    BY <2>1, <2>2, TextAssumption DEF TextInit, TextInv
<1>2. QED
  BY <1>1, TextKeeps, TextInvImplies, PTL DEF TextSpec
=============================================================================
