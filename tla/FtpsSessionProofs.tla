------------------------- MODULE FtpsSessionProofs --------------------------
(***************************************************************************)
(* Theorems about FtpsSession, for every set of calls of every kind, every *)
(* printer setting and every bound: one interaction at a time, the chain   *)
(* of promises is a queue, what a settled call reports is what happened,   *)
(* and nothing is left behind.                                             *)
(*                                                                         *)
(* The first two are about phase and queue only.  To those every step does *)
(* one of four things to one call - it joins the chain, starts, goes on,   *)
(* or leaves - or nothing; so one lemma says which, and one lemma per      *)
(* thing that is done says what it keeps and what SerialQueue makes of it. *)
(*                                                                         *)
(* The others need each call's conversation with the server: what may be   *)
(* under way at each of its phases (Dialogue), and what withFtpsRetry      *)
(* knows of the attempts so far (Attempting).  Every step is one call's:   *)
(* one lemma per action shows what it makes of that call, one that the     *)
(* other calls do not notice.                                              *)
(***************************************************************************)
EXTENDS FtpsSession, SequenceTheorems, TLAPS

InLine == {"queued"} \cup Running

(* The chain holds exactly the calls not settled, each once, and only its   *)
(* first may have begun.                                                    *)
ChainInv ==
  /\ phase \in [Calls -> Phases]
  /\ queue \in Seq(Calls)
  /\ \A i \in 1..Len(queue) : phase[queue[i]] \in InLine
  /\ \A i \in 1..Len(queue) : i > 1 => phase[queue[i]] = "queued"
  /\ \A i, j \in 1..Len(queue) : queue[i] = queue[j] => i = j
  /\ \A c \in Calls : phase[c] \in InLine => \E i \in 1..Len(queue) : queue[i] = c

Joins(c) ==
  /\ phase[c] \in {"idle", "sleeping"}
  /\ Enqueue(c)

Starts(c) ==
  /\ MyTurn(c)
  /\ phase' = [phase EXCEPT ![c] = "talking"]
  /\ queue' = queue

GoesOn(c) ==
  /\ phase[c] \in Running
  /\ \E p \in Running : phase' = [phase EXCEPT ![c] = p]
  /\ queue' = queue

Leaves(c) ==
  /\ MyTurn(c) \/ phase[c] \in Running
  /\ \E p \in {"settled", "sleeping"} : phase' = [phase EXCEPT ![c] = p]
  /\ Leave

Stays == phase' = phase /\ queue' = queue

-----------------------------------------------------------------------------
(* Every step is one of these                                               *)

LEMMA EndingLeaves ==
  ASSUME NEW c \in Calls, NEW err, Ends(c, err)
  PROVE  Leave /\ \E p \in {"settled", "sleeping"} : phase' = [phase EXCEPT ![c] = p]
BY DEF Ends

LEMMA StepsOnTheChain ==
  ASSUME ChainInv, [Next]_vars
  PROVE  Stays \/ \E c \in Calls : Joins(c) \/ Starts(c) \/ GoesOn(c) \/ Leaves(c)
<1>1. CASE \E c \in Calls : Request(c) \/ Wake(c)
  BY <1>1 DEF Request, Wake, Joins
<1>2. CASE \E c \in Calls : Connect(c)
  BY <1>2 DEF Connect, Starts
<1>3. CASE \E c \in Calls : ConnectFails(c) \/ SpawnFails(c)
  BY <1>3, EndingLeaves DEF ConnectFails, SpawnFails, Leaves
<1>4. CASE \E c \in Heard : Say(c) \/ SayQuit(c) \/ Serve(c) \/ OpenData(c) \/ EndData(c) \/ Settle(c)
  BY <1>4 DEF Say, SayQuit, Serve, OpenData, EndData, Settle, Stays, client
<1>5. CASE \E c \in Heard : Hear(c)
  <2>1. PICK c \in Heard : Hear(c)
    BY <1>5
  <2>2. c \in Calls /\ phase[c] \in Running /\ queue' = queue
    BY <2>1 DEF Hear, Heard, Running
  <2>3. \E p \in {"quitting", "sending"} : phase' = [phase EXCEPT ![c] = p] \/ phase' = phase
    BY <2>1 DEF Hear
  <2>4. QED
    BY <2>2, <2>3 DEF GoesOn, Running, Stays
<1>6. CASE \E c \in Heard : HearGoodbye(c)
  <2>1. PICK c \in Heard : HearGoodbye(c)
    BY <1>6
  <2>2. c \in Calls /\ phase[c] \in Running /\ Ends(c, error[c])
    BY <2>1 DEF HearGoodbye, Goodbye, Heard, Running
  <2>3. QED
    BY <2>2, EndingLeaves DEF Leaves
<1>7. CASE \E c \in Heard : Pump(c)
  BY <1>7 DEF Pump, Stays
<1>8. CASE \E c \in Heard : HearTransfer(c)
  BY <1>8 DEF HearTransfer, GoesOn, Running, Heard
<1>9. CASE \E c \in Calls : Silence(c) \/ AbortEarly(c)
  BY <1>9 DEF Silence, AbortEarly, Stays, client
<1>10. CASE \E c \in Calls : TimesOut(c)
  BY <1>10, EndingLeaves DEF TimesOut, Leaves
<1>11. CASE \E c \in Calls : Abort(c) \/ AbortedInTurn(c)
  BY <1>11 DEF Abort, AbortedInTurn, Leaves
<1>12. CASE Expire \/ Wedge \/ Reboot \/ ProbePort \/ ProbeCloses \/ UNCHANGED vars
  BY <1>12 DEF Expire, Wedge, Reboot, ProbePort, ProbeCloses, Stays, vars, client
<1>13. QED
  BY <1>1, <1>2, <1>3, <1>4, <1>5, <1>6, <1>7, <1>8, <1>9, <1>10, <1>11, <1>12 DEF Next

-----------------------------------------------------------------------------
(* What each of them keeps                                                  *)

(* Whoever begins or goes on is the first.                                  *)
LEMMA RunnerIsHead ==
  ASSUME ChainInv, NEW c \in Calls, MyTurn(c) \/ phase[c] \in Running
  PROVE  queue # <<>> /\ Head(queue) = c /\ phase[c] \in InLine
<1>1. CASE MyTurn(c)
  BY <1>1 DEF MyTurn, InLine
<1>2. CASE phase[c] \in Running
  <2>1. PICK i \in 1..Len(queue) : queue[i] = c
    BY <1>2 DEF ChainInv, InLine
  <2>2. i = 1
    BY <1>2, <2>1 DEF ChainInv, Running
  <2>3. QED
    BY <1>2, <2>1, <2>2 DEF ChainInv, InLine
<1>3. QED
  BY <1>1, <1>2

LEMMA JoiningKeeps ==
  ASSUME ChainInv, NEW c \in Calls, Joins(c)
  PROVE  ChainInv'
<1>1. queue' = Append(queue, c) /\ phase' = [phase EXCEPT ![c] = "queued"] /\ phase[c] \notin InLine
  BY DEF Joins, Enqueue, InLine, Running
<1>2. \A i \in 1..Len(queue) : queue[i] # c
  BY <1>1 DEF ChainInv
<1>3. /\ queue' \in Seq(Calls) /\ Len(queue') = Len(queue) + 1 /\ queue'[Len(queue) + 1] = c
      /\ \A i \in 1..Len(queue) : queue'[i] = queue[i]
  BY <1>1 DEF ChainInv
<1>4. phase' \in [Calls -> Phases] /\ phase'[c] = "queued" /\ \A d \in Calls \ {c} : phase'[d] = phase[d]
  BY <1>1 DEF ChainInv, Phases
<1>5. \A i \in 1..Len(queue) : phase'[queue'[i]] = phase[queue[i]]
  BY <1>2, <1>3, <1>4 DEF ChainInv
<1>6. \A i \in 1..Len(queue') : phase'[queue'[i]] \in InLine /\ (i > 1 => phase'[queue'[i]] = "queued")
  BY <1>3, <1>4, <1>5 DEF ChainInv, InLine
<1>7. \A i, j \in 1..Len(queue') : queue'[i] = queue'[j] => i = j
  BY <1>2, <1>3 DEF ChainInv
<1>8. ASSUME NEW d \in Calls, phase'[d] \in InLine
      PROVE  \E i \in 1..Len(queue') : queue'[i] = d
  <2>1. CASE d = c
    BY <1>3, <2>1 DEF ChainInv
  <2>2. CASE d # c
    <3>1. PICK i \in 1..Len(queue) : queue[i] = d
      BY <1>4, <1>8, <2>2 DEF ChainInv
    <3>2. QED
      BY <1>3, <3>1 DEF ChainInv
  <2>3. QED
    BY <2>1, <2>2
<1>9. QED
  BY <1>3, <1>4, <1>6, <1>7, <1>8 DEF ChainInv

LEMMA RunningKeeps ==
  ASSUME ChainInv, NEW c \in Calls, Starts(c) \/ GoesOn(c)
  PROVE  ChainInv'
<1>1. queue # <<>> /\ Head(queue) = c /\ phase[c] \in InLine /\ queue' = queue
  BY RunnerIsHead DEF Starts, GoesOn
<1>2. PICK p \in Running : phase' = [phase EXCEPT ![c] = p]
  BY DEF Starts, GoesOn, Running
<1>3. /\ phase' \in [Calls -> Phases] /\ phase'[c] \in InLine
      /\ \A d \in Calls \ {c} : phase'[d] = phase[d]
  BY <1>2 DEF ChainInv, Phases, Running, InLine
<1>4. \A i \in 1..Len(queue) : i > 1 => queue[i] # c
  BY <1>1 DEF ChainInv
<1>5. /\ \A i \in 1..Len(queue) : phase'[queue[i]] \in InLine /\ (i > 1 => phase'[queue[i]] = "queued")
      /\ \A d \in Calls : phase'[d] \in InLine => \E i \in 1..Len(queue) : queue[i] = d
  BY <1>1, <1>3, <1>4 DEF ChainInv
<1>6. QED
  BY <1>1, <1>3, <1>5 DEF ChainInv

LEMMA LeavingKeeps ==
  ASSUME ChainInv, NEW c \in Calls, Leaves(c)
  PROVE  ChainInv'
<1>1. queue # <<>> /\ Head(queue) = c /\ queue' = Tail(queue)
  BY RunnerIsHead DEF Leaves, Leave
<1>2. PICK p \in {"settled", "sleeping"} : phase' = [phase EXCEPT ![c] = p]
  BY DEF Leaves
<1>3. /\ phase' \in [Calls -> Phases] /\ phase'[c] \notin InLine
      /\ \A d \in Calls \ {c} : phase'[d] = phase[d]
  BY <1>2 DEF ChainInv, Phases, Running, InLine
<1>4. /\ queue' \in Seq(Calls) /\ Len(queue') = Len(queue) - 1 /\ Len(queue) \in Nat
      /\ \A i \in 1..Len(queue') : i + 1 \in 1..Len(queue) /\ queue'[i] = queue[i + 1]
  BY <1>1 DEF ChainInv
<1>5. \A i \in 1..Len(queue) : i > 1 => queue[i] # c
  BY <1>1 DEF ChainInv
<1>6. \A i \in 1..Len(queue') : queue'[i] \in Calls \ {c} /\ phase'[queue'[i]] = "queued"
  BY <1>3, <1>4, <1>5 DEF ChainInv
<1>7. ASSUME NEW i \in 1..Len(queue'), NEW j \in 1..Len(queue'), queue'[i] = queue'[j]
      PROVE  i = j
  <2>1. i + 1 \in 1..Len(queue) /\ j + 1 \in 1..Len(queue) /\ queue[i + 1] = queue[j + 1]
    BY <1>4, <1>7
  <2>2. i + 1 = j + 1
    BY <2>1 DEF ChainInv
  <2>3. QED
    BY <2>2
<1>8. ASSUME NEW d \in Calls, phase'[d] \in InLine
      PROVE  \E i \in 1..Len(queue') : queue'[i] = d
  <2>1. d # c /\ phase[d] \in InLine
    BY <1>3, <1>8
  <2>2. PICK i \in 1..Len(queue) : queue[i] = d
    BY <2>1 DEF ChainInv
  <2>3. i # 1
    BY <1>1, <2>1, <2>2
  <2>4. i - 1 \in 1..Len(queue') /\ queue'[i - 1] = d
    BY <1>4, <2>2, <2>3
  <2>5. QED
    BY <2>4
<1>9. QED
  BY <1>3, <1>4, <1>6, <1>7, <1>8 DEF ChainInv, InLine

LEMMA InitChain == Init => ChainInv
BY DEF Init, ChainInv, InLine, Running, Phases

LEMMA StepKeepsChain == ChainInv /\ [Next]_vars => ChainInv'
<1>1. SUFFICES ASSUME ChainInv, [Next]_vars PROVE ChainInv'
  OBVIOUS
<1>2. CASE Stays
  BY <1>1, <1>2 DEF Stays, ChainInv
<1>3. CASE \E c \in Calls : Joins(c) \/ Starts(c) \/ GoesOn(c) \/ Leaves(c)
  BY <1>1, <1>3, JoiningKeeps, RunningKeeps, LeavingKeeps
<1>4. QED
  BY <1>1, <1>2, <1>3, StepsOnTheChain

(* The chain holds every call that is not settled, once, and only its first *)
(* has begun (runSerialized).                                               *)
THEOREM ChainInvariant == Spec => []ChainInv
BY InitChain, StepKeepsChain, PTL DEF Spec

(* One FTPS interaction at a time, however many callers there are and       *)
(* however their attempts end (ftps-session.ts:30).                         *)
THEOREM InteractionsAreSerial == Spec => []OneInteraction
<1>1. ChainInv => OneInteraction
  BY RunnerIsHead DEF OneInteraction, Interacts
<1>2. QED
  BY <1>1, ChainInvariant, PTL

-----------------------------------------------------------------------------
(* What SerialQueue makes of them                                           *)

LEMMA HolderRuns ==
  ASSUME ChainInv
  PROVE  /\ queue # <<>> /\ phase[Head(queue)] \in Running => Holder = Head(queue) /\ Holder # Free
         /\ ~(queue # <<>> /\ phase[Head(queue)] \in Running) => Holder = Free
<1>1. queue # <<>> => Head(queue) \in Calls
  BY DEF ChainInv
<1>2. QED
  BY <1>1, CallsAssumption DEF Holder

LEMMA JoiningIsJoin ==
  ASSUME ChainInv, NEW c \in Calls, Joins(c)
  PROVE  Chain!Join(c)
<1>1. queue' = Append(queue, c) /\ phase' = [phase EXCEPT ![c] = "queued"] /\ phase[c] \notin InLine
  BY DEF Joins, Enqueue, InLine, Running
<1>2. CASE queue = <<>>
  <2>1. queue' = <<c>> /\ phase'[c] = "queued"
    BY <1>1, <1>2 DEF ChainInv
  <2>2. Holder = Free /\ Holder' = Free
    BY <1>2, <2>1 DEF Holder, Running
  <2>3. QED
    BY <1>2, <2>1, <2>2 DEF Chain!Join
<1>3. CASE queue # <<>>
  <2>1. Head(queue) \in Calls \ {c}
    BY <1>1, <1>3 DEF ChainInv
  <2>2. queue' # <<>> /\ Head(queue') = Head(queue) /\ Tail(queue') = Append(Tail(queue), c)
    BY <1>1, <1>3 DEF ChainInv
  <2>3. phase'[Head(queue')] = phase[Head(queue)]
    BY <1>1, <2>1, <2>2 DEF ChainInv
  <2>4. Holder' = Holder
    BY <1>3, <2>2, <2>3 DEF Holder
  <2>5. QED
    BY <1>1, <2>2, <2>4 DEF Chain!Join
<1>4. QED
  BY <1>2, <1>3

LEMMA StartingIsBegin ==
  ASSUME ChainInv, NEW c \in Calls, Starts(c)
  PROVE  Chain!Begin
<1>1. queue' = queue /\ queue # <<>> /\ Head(queue) = c /\ phase[c] = "queued" /\ phase'[c] = "talking"
  BY DEF Starts, MyTurn, ChainInv
<1>2. Holder = Free /\ Holder' = c /\ c # Free
  BY <1>1, CallsAssumption DEF Holder, Running
<1>3. QED
  BY <1>1, <1>2 DEF Chain!Begin

LEMMA GoingOnIsStuttering ==
  ASSUME ChainInv, NEW c \in Calls, GoesOn(c)
  PROVE  UNCHANGED Chain!vars
<1>1. queue # <<>> /\ Head(queue) = c /\ queue' = queue /\ phase[c] \in Running
  BY RunnerIsHead DEF GoesOn
<1>2. phase'[c] \in Running
  BY DEF GoesOn, ChainInv
<1>3. Holder' = Holder
  BY <1>1, <1>2 DEF Holder
<1>4. QED
  BY <1>1, <1>3 DEF Chain!vars

LEMMA LeavingIsEndOrFail ==
  ASSUME ChainInv, NEW c \in Calls, Leaves(c)
  PROVE  Chain!End \/ Chain!Fail
<1>1. queue # <<>> /\ Head(queue) = c /\ queue' = Tail(queue)
  BY RunnerIsHead DEF Leaves, Leave
<1>2. queue' # <<>> => phase'[Head(queue')] \notin Running
  <2>1. SUFFICES ASSUME queue' # <<>> PROVE phase'[Head(queue')] \notin Running
    OBVIOUS
  <2>2. Len(queue) > 1 /\ Head(queue') = queue[2] /\ 2 \in 1..Len(queue)
    BY <1>1, <2>1 DEF ChainInv
  <2>3. queue[2] \in Calls \ {c} /\ phase[queue[2]] = "queued"
    BY <1>1, <2>2 DEF ChainInv
  <2>4. phase'[queue[2]] = phase[queue[2]]
    BY <2>3 DEF Leaves, ChainInv
  <2>5. QED
    BY <2>2, <2>3, <2>4 DEF Running
<1>3. Holder' = Free
  BY <1>2 DEF Holder
<1>4. CASE phase[c] \in Running
  <2>1. Holder = c /\ c # Free
    BY <1>1, <1>4, CallsAssumption DEF Holder
  <2>2. QED
    BY <1>1, <1>3, <2>1 DEF Chain!End
<1>5. CASE phase[c] \notin Running
  <2>1. Holder = Free
    BY <1>1, <1>5 DEF Holder
  <2>2. QED
    BY <1>1, <1>3, <2>1 DEF Chain!Fail
<1>6. QED
  BY <1>4, <1>5

LEMMA StepsServeInOrder == ChainInv /\ [Next]_vars => [Chain!Next]_(Chain!vars)
<1>1. SUFFICES ASSUME ChainInv, [Next]_vars PROVE [Chain!Next]_(Chain!vars)
  OBVIOUS
<1>2. CASE Stays
  BY <1>2 DEF Stays, Chain!vars, Holder
<1>3. CASE \E c \in Calls : Joins(c) \/ Starts(c) \/ GoesOn(c) \/ Leaves(c)
  BY <1>1, <1>3, JoiningIsJoin, StartingIsBegin, GoingOnIsStuttering, LeavingIsEndOrFail
  DEF Chain!Next
<1>4. QED
  BY <1>1, <1>2, <1>3, StepsOnTheChain

LEMMA InitServesNobody == Init => Chain!Init
BY DEF Init, Chain!Init, Holder

(* The promise chain, with its retries, aborts, timeouts and failed spawns, *)
(* is a first-come-first-served queue (the safety half of ServesInOrder).   *)
THEOREM ChainIsAQueue == Spec => Chain!Spec
BY InitServesNobody, StepsServeInOrder, ChainInvariant, PTL DEF Spec, Chain!Spec
-----------------------------------------------------------------------------
(* What every call keeps of its dialogue, and of its attempts               *)

(* Only uploads take an AbortSignal.                                        *)
Abortable == {c \in Calls : Kind[c] = "curl"}

TypeOK ==
  /\ step \in [Calls -> 0..6] /\ sent \in [Calls -> Nat] /\ codes \in [Calls -> Seq(Nat)]
  /\ error \in [Calls -> {"none"} \cup Errors] /\ refused \in [Calls -> Nat]
  /\ tries \in [Calls -> Seq({"none"} \cup Errors)] /\ outcome \in [Calls -> Outcomes]
  /\ aborted \subseteq Abortable
  /\ credentials \subseteq Calls /\ silent \subseteq Calls
  /\ conn \in [Calls -> Connections] /\ stored \in [Calls -> Nat]
  /\ slot \in Calls \cup {Free, Abandoned, Wedged, Probe}
  /\ rawProbe \in {"no", "open", "over"}
  /\ setting \in Settings /\ faults \in Nat /\ wedges \in Nat

StoredAll(c) == stored[c] = setting.size /\ setting.size <= MaxChunks

(* Not in a session: the connection is gone, a new session starts over, and *)
(* an upload that resolved stays where it is.                               *)
Away(c) ==
  /\ conn[c] = Gone
  /\ codes[c] = <<>>
  /\ phase[c] # "settled" => step[c] = 0
  /\ Kind[c] = "curl" /\ outcome[c] = "ok" => StoredAll(c)

(* One command is under way at a time; only the reply to curl's STOR, its   *)
(* last, can be 150, and the server receives from then on.                  *)
Talking(c) ==
  /\ step[c] \in 0..5
  /\ conn[c].data \in {"none", "expected"} /\ conn[c].received = 0
  /\ conn[c].lines \in {<<>>, <<Script(c)[step[c] + 1]>>}
  /\ conn[c].lines # <<>> => codes[c] = <<>>
  /\ codes[c] = <<>> => ~conn[c].storing
  /\ conn[c].storing => conn[c].data = "expected"
  /\ codes[c] # <<>> =>
       /\ Len(codes[c]) = 1
       /\ Head(codes[c]) = 150 <=> conn[c].storing
       /\ conn[c].storing => Script(c)[step[c] + 1] = "STOR"
       /\ Script(c)[step[c] + 1] = "STOR" => Head(codes[c]) = 150 \/ ~Positive(Head(codes[c]))

(* The server has received what curl has sent, and says 226 only for all.   *)
Sending(c) ==
  /\ conn[c].lines = <<>>
  /\ \/ /\ conn[c].storing
        /\ codes[c] = <<>>
        /\ conn[c].data \in {"expected", "connected", "ended"}
        /\ conn[c].received = sent[c]
        /\ conn[c].data = "ended" => sent[c] = setting.size
     \/ /\ ~conn[c].storing
        /\ conn[c].data = "none"
        /\ \/ codes[c] = <<226>> /\ StoredAll(c)
           \/ codes[c] = <<550>>

(* Nothing is received any more, and the verdict is in.                     *)
Quitting(c) ==
  /\ ~conn[c].storing
  /\ conn[c].lines \in {<<>>, <<"QUIT">>}
  /\ Kind[c] = "curl" /\ error[c] = "none" => StoredAll(c)

Dialogue(c) ==
  /\ phase[c] \notin Running => Away(c)
  /\ phase[c] = "talking" => Talking(c)
  /\ phase[c] = "sending" => Sending(c)
  /\ phase[c] = "quitting" => Quitting(c)

(* withFtpsRetry goes on only after an error worth retrying, and remembers  *)
(* whether the last one was a refusal.                                      *)
Trying(c) ==
  /\ outcome[c] = "pending"
  /\ Kind[c] # "retry" => tries[c] = <<>>
  /\ Kind[c] = "retry" =>
       /\ Len(tries[c]) < Attempts
       /\ \A i \in 1..Len(tries[c]) : Transient(tries[c][i]) /\ ~RefusedTwice(tries[c], i)
       /\ refused[c] = IF Len(tries[c]) > 0 /\ tries[c][Len(tries[c])] = "refused" THEN 1 ELSE 0

Judged(c) ==
  LET n == Len(tries[c])
  IN  /\ Kind[c] # "retry" => n = 1
      /\ Kind[c] = "retry" =>
           /\ \A i \in 1..(n - 1) : Transient(tries[c][i]) /\ ~RefusedTwice(tries[c], i)
           /\ outcome[c] = "wedged" <=> RefusedTwice(tries[c], n)
           /\ outcome[c] = "ok" <=> tries[c][n] = "none"
           /\ outcome[c] \in {"refused", "timeout"} => n = Attempts

Attempting(c) == IF phase[c] = "settled" THEN Judged(c) ELSE Trying(c)

SessionKept == ChainInv /\ TypeOK /\ \A c \in Calls : Dialogue(c) /\ Attempting(c)

-----------------------------------------------------------------------------
(* The pieces of a dialogue                                                 *)

LEMMA OneElement ==
  \A x : /\ Append(<<>>, x) = <<x>> /\ <<x>> # <<>>
         /\ Head(<<x>>) = x /\ Tail(<<x>>) = <<>> /\ Len(<<x>>) = 1
OBVIOUS

LEMMA TailOfOne ==
  ASSUME NEW T, NEW s \in Seq(T), Len(s) = 1
  PROVE  Tail(s) = <<>> /\ Head(s) \in T
<1>1. s # <<>>
  <2>1. SUFFICES ASSUME s = <<>> PROVE FALSE
    OBVIOUS
  <2>2. Len(<<>>) = 0
    BY EmptySeq
  <2>3. Len(s) = 1
    OBVIOUS
  <2>4. QED
    BY <2>1, <2>2, <2>3
<1>2. Tail(s) \in Seq(T) /\ Len(Tail(s)) = 0 /\ Head(s) \in T
  BY <1>1, HeadTailProperties
<1>3. QED
  BY <1>2, EmptySeq

LEMMA ScriptSays ==
  ASSUME NEW c \in Calls, NEW n \in 1..6
  PROVE  /\ Script(c)[n] \in Commands \ {"QUIT"}
         /\ Script(c)[n] = "STOR" <=> Kind[c] = "curl" /\ n = 6
<1>1. n \in {1, 2, 3, 4, 5, 6}
  OBVIOUS
<1>2. QED
  BY <1>1 DEF Script, Commands

LEMMA FreshConnections == Gone \in Connections /\ Accepted \in Connections
<1>1. <<>> \in Seq(Commands)
  OBVIOUS
<1>2. 0 \in 0..(MaxChunks + 1)
  BY CapAssumption
<1>3. QED
  BY <1>1, <1>2 DEF Gone, Accepted, Connections

(* handleControl's dispatch, of a command that came alone.                  *)
LEMMA DispatchedAlone ==
  ASSUME NEW s \in Connections, NEW cmd \in Commands, Tail(s.lines) = <<>>,
         NEW codeOk \in BOOLEAN, NEW prots
  PROVE  /\ Dispatched(s, cmd, codeOk, prots) \in Connections
         /\ Dispatched(s, cmd, codeOk, prots).lines = <<>>
         /\ cmd # "STOR" /\ ~s.storing => ~Dispatched(s, cmd, codeOk, prots).storing
         /\ cmd = "STOR" => /\ Dispatched(s, cmd, codeOk, prots).storing <=> StorAccepted(s)
                            /\ Dispatched(s, cmd, codeOk, prots).data = s.data
         /\ cmd # "QUIT" /\ s.data \in {"none", "expected"} =>
              Dispatched(s, cmd, codeOk, prots).data \in {"none", "expected"}
         /\ s.received = 0 => Dispatched(s, cmd, codeOk, prots).received = 0
         /\ cmd = "QUIT" => Dispatched(s, cmd, codeOk, prots) = Gone
<1>1. s.lines \in Seq(Commands) /\ Tail(s.lines) = <<>> /\ <<>> \in Seq(Commands)
  BY DEF Connections
<1>2. StorAccepted(s) \in BOOLEAN /\ (s.user /\ codeOk) \in BOOLEAN
  BY DEF StorAccepted, Connections
<1>3. 0 \in 0..(MaxChunks + 1)
  BY CapAssumption
<1>4. [s EXCEPT !.lines = Tail(@)] \in Connections
  BY <1>1 DEF Connections
<1>5. CASE cmd = "STOR"
  BY <1>1, <1>2, <1>4, <1>5 DEF Dispatched, Connections
<1>6. CASE cmd = "PASV"
  BY <1>1, <1>3, <1>4, <1>6 DEF Dispatched, OpenPassive, Connections
<1>7. CASE cmd = "QUIT"
  BY <1>7, FreshConnections DEF Dispatched, Gone, Accepted
<1>8. CASE cmd \in {"USER", "PASS", "PBSZ", "PROT_P", "PROT_C"}
  <2>. DEFINE t == [s EXCEPT !.lines = Tail(@)]
              q == Dispatched(s, cmd, codeOk, prots)
  <2>1. /\ t \in Connections /\ t.lines = <<>> /\ t.storing = s.storing
        /\ t.data = s.data /\ t.received = s.received
    BY <1>1, <1>4 DEF Connections
  <2>2. \/ q = [t EXCEPT !.user = TRUE] \/ q = [t EXCEPT !.authed = s.user /\ codeOk]
        \/ q = [t EXCEPT !.prot = "P"] \/ q = [t EXCEPT !.prot = "C"] \/ q = t
    BY <1>8 DEF Dispatched
  <2>. HIDE DEF t, q
  <2>3. q \in Connections
    BY <1>2, <2>1, <2>2 DEF Connections
  <2>4. q.lines = t.lines /\ q.storing = t.storing /\ q.data = t.data /\ q.received = t.received
    BY <2>1, <2>2 DEF Connections
  <2>5. q.lines = <<>> /\ q.storing = s.storing /\ q.data = s.data /\ q.received = s.received
    BY <2>1, <2>4
  <2>6. QED
    BY <1>8, <2>3, <2>5 DEF q
<1>9. QED
  BY <1>5, <1>6, <1>7, <1>8 DEF Commands

LEMMA AnswersAre ==
  ASSUME NEW s \in Connections, NEW cmd \in Commands, NEW codeOk \in BOOLEAN, NEW prots
  PROVE  /\ Answer(s, cmd, codeOk, prots) \in Nat
         /\ Answer(s, cmd, codeOk, prots) = 150 <=> cmd = "STOR" /\ StorAccepted(s)
         /\ cmd = "STOR" =>
              Answer(s, cmd, codeOk, prots) = 150 \/ ~Positive(Answer(s, cmd, codeOk, prots))
<1>1. CASE cmd = "STOR"
  <2>1. /\ s.authed \in BOOLEAN
        /\ StorAccepted(s) <=> s.authed /\ s.data # "none"
    BY DEF Connections, StorAccepted
  <2>2. \/ ~s.authed /\ Answer(s, cmd, codeOk, prots) = 530
        \/ s.authed /\ s.data = "none" /\ Answer(s, cmd, codeOk, prots) = 425
        \/ s.authed /\ s.data # "none" /\ Answer(s, cmd, codeOk, prots) = 150
    BY <1>1, <2>1 DEF Answer
  <2>3. QED
    BY <1>1, <2>1, <2>2 DEF Positive
<1>2. CASE cmd = "PASS"
  BY <1>2 DEF Answer
<1>3. CASE cmd \in {"PROT_P", "PROT_C"}
  <2>1. Answer(s, cmd, codeOk, prots) \in {200, 536}
    BY <1>3 DEF Answer
  <2>2. QED
    BY <1>3, <2>1
<1>4. CASE cmd \in {"USER", "PBSZ", "PASV", "QUIT"}
  <2>1. Answer(s, cmd, codeOk, prots) \in {331, 200, 227, 221}
    BY <1>4 DEF Answer
  <2>2. QED
    BY <1>4, <2>1
<1>5. QED
  BY <1>1, <1>2, <1>3, <1>4 DEF Commands

-----------------------------------------------------------------------------
(* A step is one call's; what it does to that call's attempts               *)

Untouched(d) ==
  /\ phase'[d] = phase[d] /\ step'[d] = step[d] /\ sent'[d] = sent[d] /\ codes'[d] = codes[d]
  /\ error'[d] = error[d] /\ refused'[d] = refused[d] /\ tries'[d] = tries[d]
  /\ outcome'[d] = outcome[d] /\ conn'[d] = conn[d] /\ stored'[d] = stored[d]

(* What a step that concerns c has to keep.                                 *)
Keeps(c) ==
  /\ TypeOK' /\ setting' = setting
  /\ \A d \in Calls \ {c} : Untouched(d)
  /\ Dialogue(c)' /\ Attempting(c)'

LEMMA UntouchedKeeps ==
  ASSUME NEW d \in Calls, Untouched(d), setting' = setting, Dialogue(d), Attempting(d)
  PROVE  Dialogue(d)' /\ Attempting(d)'
<1>1. Dialogue(d)'
  BY DEF Untouched, Dialogue, Away, Talking, Sending, Quitting, StoredAll
<1>2. Attempting(d)'
  BY DEF Untouched, Attempting, Trying, Judged
<1>3. QED
  BY <1>1, <1>2

(* The attempt goes on.                                                     *)
LEMMA AttemptGoesOn ==
  ASSUME NEW c \in Calls, Attempting(c), phase[c] # "settled", phase'[c] # "settled",
         tries'[c] = tries[c], outcome'[c] = outcome[c], refused'[c] = refused[c]
  PROVE  Attempting(c)'
BY DEF Attempting, Trying

(* It is over, and withFtpsRetry judges it.                                 *)
LEMMA AttemptEnds ==
  ASSUME TypeOK, phase \in [Calls -> Phases], NEW c \in Calls, Attempting(c), phase[c] # "settled",
         NEW err \in {"none"} \cup Errors, Ends(c, err)
  PROVE  Attempting(c)'
<1>1. /\ Trying(c)
      /\ tries' = [tries EXCEPT ![c] = Append(@, err)]
      /\ refused' = [refused EXCEPT ![c] = Refusals(c, err)]
  BY DEF Attempting, Ends
<1>2. /\ tries[c] \in Seq({"none"} \cup Errors) /\ Len(tries[c]) \in Nat
      /\ refused[c] \in Nat /\ outcome[c] \in Outcomes
  BY DEF TypeOK
<1>3. /\ tries'[c] = Append(tries[c], err) /\ refused'[c] = Refusals(c, err)
      /\ Len(tries'[c]) = Len(tries[c]) + 1
      /\ tries'[c][Len(tries[c]) + 1] = err
      /\ \A i \in 1..Len(tries[c]) : tries'[c][i] = tries[c][i]
  BY <1>1, <1>2 DEF TypeOK
<1>4. CASE Kind[c] # "retry"
  <2>1. tries[c] = <<>>
    BY <1>1, <1>4 DEF Trying
  <2>2. Len(tries'[c]) = 1
    BY <1>3, <2>1
  <2>3. phase'[c] = "settled"
    BY <1>4 DEF Ends
  <2>4. QED
    BY <1>4, <2>2, <2>3 DEF Attempting, Judged
<1>5. CASE Kind[c] = "retry"
  <2>1. /\ Len(tries[c]) < Attempts
        /\ \A i \in 1..Len(tries[c]) : Transient(tries[c][i]) /\ ~RefusedTwice(tries[c], i)
        /\ refused[c] = IF Len(tries[c]) > 0 /\ tries[c][Len(tries[c])] = "refused" THEN 1 ELSE 0
    BY <1>1, <1>5 DEF Trying
  <2>2. \A i \in 1..Len(tries[c]) : Transient(tries'[c][i]) /\ ~RefusedTwice(tries'[c], i)
    BY <1>2, <1>3, <2>1 DEF RefusedTwice
  <2>3. RefusedTwice(tries'[c], Len(tries'[c])) <=> Refusals(c, err) >= 2
    BY <1>2, <1>3, <2>1 DEF RefusedTwice, Refusals
  <2>4. refused'[c] <= 1 =>
          refused'[c] = IF Len(tries'[c]) > 0 /\ tries'[c][Len(tries'[c])] = "refused" THEN 1 ELSE 0
    BY <1>2, <1>3, <2>1 DEF Refusals
  <2>5. CASE phase' = [phase EXCEPT ![c] = "settled"]
    <3>1. phase'[c] = "settled"
      BY <2>5
    <3>2. \/ err = "none" /\ outcome'[c] = "ok"
          \/ err # "none" /\ Refusals(c, err) >= 2 /\ outcome'[c] = "wedged"
          \/ /\ err # "none" /\ Refusals(c, err) < 2 /\ outcome'[c] = err
             /\ Len(tries[c]) + 1 >= Attempts \/ ~Transient(err)
      BY <1>5, <2>5 DEF Ends, TypeOK
    <3>3. Refusals(c, err) \in Nat /\ (err = "none" => Refusals(c, err) = 0)
      BY <1>2 DEF Refusals
    <3>4. outcome'[c] \in {"refused", "timeout"} => Len(tries'[c]) = Attempts
      BY <1>2, <1>3, <2>1, <3>2, BoundsAssumption DEF Transient
    <3>5. /\ outcome'[c] = "wedged" <=> RefusedTwice(tries'[c], Len(tries'[c]))
          /\ outcome'[c] = "ok" <=> err = "none"
      BY <2>3, <3>2, <3>3 DEF Errors
    <3>6. \A i \in 1..(Len(tries'[c]) - 1) : i \in 1..Len(tries[c])
      BY <1>2, <1>3
    <3>7. QED
      BY <1>3, <1>5, <2>2, <3>1, <3>4, <3>5, <3>6 DEF Attempting, Judged
  <2>6. CASE phase' = [phase EXCEPT ![c] = "sleeping"] /\ UNCHANGED outcome
    <3>1. phase'[c] = "sleeping" /\ outcome'[c] = "pending"
      BY <1>1, <2>6 DEF Trying
    <3>2. Len(tries[c]) + 1 < Attempts /\ Transient(err) /\ Refusals(c, err) < 2
      BY <1>5, <2>6 DEF Ends
    <3>3. \A i \in 1..Len(tries'[c]) : i \in 1..Len(tries[c]) \/ i = Len(tries'[c])
      BY <1>2, <1>3
    <3>4. Refusals(c, err) \in Nat
      BY <1>2 DEF Refusals
    <3>5. \A i \in 1..Len(tries'[c]) : Transient(tries'[c][i]) /\ ~RefusedTwice(tries'[c], i)
      BY <1>3, <2>2, <2>3, <3>2, <3>3, <3>4
    <3>6. refused'[c] <= 1
      BY <1>3, <3>2, <3>4
    <3>7. QED
      BY <1>3, <1>5, <2>4, <3>1, <3>2, <3>5, <3>6 DEF Attempting, Trying
  <2>7. QED
    BY <1>5, <2>5, <2>6 DEF Ends
<1>6. QED
  BY <1>4, <1>5

LEMMA EndingIsTyped ==
  ASSUME TypeOK, phase \in [Calls -> Phases], NEW c \in Calls,
         NEW err \in {"none"} \cup Errors, Ends(c, err)
  PROVE  /\ step' \in [Calls -> 0..6] /\ step'[c] = 0
         /\ error' \in [Calls -> {"none"} \cup Errors]
         /\ tries' \in [Calls -> Seq({"none"} \cup Errors)]
         /\ refused' \in [Calls -> Nat]
         /\ credentials' \subseteq Calls
         /\ outcome' \in [Calls -> Outcomes]
         /\ outcome'[c] = "ok" => outcome[c] = "ok" \/ err = "none"
         /\ phase'[c] \notin Running
         /\ \A d \in Calls \ {c} :
              /\ phase'[d] = phase[d] /\ step'[d] = step[d] /\ error'[d] = error[d]
              /\ tries'[d] = tries[d] /\ refused'[d] = refused[d] /\ outcome'[d] = outcome[d]
<1>1. /\ step' = [step EXCEPT ![c] = 0]
      /\ error' = [error EXCEPT ![c] = "none"]
      /\ tries' = [tries EXCEPT ![c] = Append(@, err)]
      /\ refused' = [refused EXCEPT ![c] = Refusals(c, err)]
      /\ credentials' = DropCredentials(c)
  BY DEF Ends
<1>2. Append(tries[c], err) \in Seq({"none"} \cup Errors) /\ Refusals(c, err) \in Nat
  BY DEF TypeOK, Refusals
<1>3. \/ /\ phase' = [phase EXCEPT ![c] = "settled"]
         /\ \E out \in Outcomes : outcome' = [outcome EXCEPT ![c] = out]
         /\ outcome'[c] = "ok" => err = "none"
      \/ phase' = [phase EXCEPT ![c] = "sleeping"] /\ outcome' = outcome
  <2>1. ASSUME NEW out \in Outcomes, outcome' = [outcome EXCEPT ![c] = out]
        PROVE  outcome'[c] = out
    BY <2>1 DEF TypeOK
  <2>2. err = "none" => outcome' = [outcome EXCEPT ![c] = "ok"]
    BY DEF Ends
  <2>3. err # "none" => err \in Outcomes /\ err # "ok"
    BY DEF Errors, Outcomes
  <2>4. QED
    BY <2>1, <2>2, <2>3 DEF Ends, Outcomes
<1>4. phase'[c] \notin Running
  BY <1>3 DEF Running
<1>5. /\ outcome' \in [Calls -> Outcomes]
      /\ outcome'[c] = "ok" => outcome[c] = "ok" \/ err = "none"
      /\ \A d \in Calls \ {c} : phase'[d] = phase[d] /\ outcome'[d] = outcome[d]
  BY <1>3 DEF TypeOK
<1>6. /\ step' \in [Calls -> 0..6] /\ step'[c] = 0
      /\ error' \in [Calls -> {"none"} \cup Errors]
      /\ \A d \in Calls \ {c} : step'[d] = step[d] /\ error'[d] = error[d]
  BY <1>1, SMTT(30) DEF TypeOK
<1>7. /\ tries' \in [Calls -> Seq({"none"} \cup Errors)]
      /\ refused' \in [Calls -> Nat]
      /\ \A d \in Calls \ {c} : tries'[d] = tries[d] /\ refused'[d] = refused[d]
  BY <1>1, <1>2 DEF TypeOK
<1>8. credentials' \subseteq Calls
  BY <1>1 DEF TypeOK, DropCredentials
<1>9. QED
  BY <1>4, <1>5, <1>6, <1>7, <1>8

-----------------------------------------------------------------------------
(* Each step keeps its call's dialogue                                      *)

(* Joining the chain; connecting.                                           *)
LEMMA JoiningConverses ==
  ASSUME SessionKept, NEW c \in Calls, Request(c) \/ Wake(c)
  PROVE  Keeps(c)
<1>1. /\ phase[c] \in {"idle", "sleeping"} /\ phase' = [phase EXCEPT ![c] = "queued"]
      /\ UNCHANGED <<step, sent, error, refused, tries, outcome, aborted, credentials, wire, world>>
  BY DEF Request, Wake, Enqueue
<1>2. phase'[c] = "queued" /\ \A d \in Calls \ {c} : phase'[d] = phase[d]
  BY <1>1 DEF SessionKept, ChainInv
<1>3. TypeOK' /\ \A d \in Calls \ {c} : Untouched(d)
  BY <1>1, <1>2 DEF SessionKept, TypeOK, Untouched, wire, world
<1>4. Dialogue(c)'
  BY <1>1, <1>2 DEF SessionKept, Dialogue, Away, StoredAll, Running, wire, world
<1>5. Attempting(c)'
  BY <1>1, <1>2, AttemptGoesOn DEF SessionKept
<1>6. QED
  BY <1>1, <1>3, <1>4, <1>5 DEF Keeps, world

LEMMA ConnectingConverses ==
  ASSUME SessionKept, NEW c \in Calls, Connect(c)
  PROVE  Keeps(c)
<1>1. /\ phase[c] = "queued" /\ phase' = [phase EXCEPT ![c] = "talking"]
      /\ conn' = [conn EXCEPT ![c] = Accepted] /\ slot' = c
      /\ credentials' \subseteq credentials \cup {c}
      /\ UNCHANGED <<step, sent, codes, error, refused, tries, outcome, aborted, stored, world>>
  BY DEF Connect, MyTurn
<1>2. /\ phase'[c] = "talking" /\ conn'[c] = Accepted
      /\ \A d \in Calls \ {c} : phase'[d] = phase[d] /\ conn'[d] = conn[d]
  BY <1>1 DEF SessionKept, ChainInv, TypeOK
<1>3. TypeOK' /\ \A d \in Calls \ {c} : Untouched(d)
  BY <1>1, <1>2, FreshConnections DEF SessionKept, TypeOK, Untouched, world
<1>4. Dialogue(c)'
  <2>1. codes'[c] = <<>> /\ step'[c] = 0
    BY <1>1 DEF SessionKept, Dialogue, Away, Running
  <2>2. QED
    BY <1>2, <2>1 DEF Dialogue, Talking, Accepted, Running
<1>5. Attempting(c)'
  BY <1>1, <1>2, AttemptGoesOn DEF SessionKept
<1>6. QED
  BY <1>1, <1>3, <1>4, <1>5 DEF Keeps, world

(* A call that never got a session ends, or is killed in its turn.          *)
LEMMA EndingAwayConverses ==
  ASSUME SessionKept, NEW c \in Calls, phase[c] \notin Running, phase[c] # "settled",
         NEW err \in Errors, Ends(c, err),
         UNCHANGED <<sent, aborted, wire, silent, rawProbe, setting, wedges>>, faults' \in Nat
  PROVE  Keeps(c)
<1>1. TypeOK /\ phase \in [Calls -> Phases] /\ Attempting(c) /\ Away(c) /\ outcome[c] = "pending"
  BY DEF SessionKept, ChainInv, Dialogue, Attempting, Trying
<1>2. TypeOK' /\ \A d \in Calls \ {c} : Untouched(d)
  BY <1>1, EndingIsTyped DEF TypeOK, Untouched, wire
<1>3. Dialogue(c)'
  <2>1. phase'[c] \notin Running /\ step'[c] = 0 /\ outcome'[c] # "ok"
    BY <1>1, EndingIsTyped DEF Errors
  <2>2. QED
    BY <1>1, <2>1 DEF Dialogue, Away, Running, wire
<1>4. Attempting(c)'
  BY <1>1, AttemptEnds
<1>5. QED
  BY <1>2, <1>3, <1>4 DEF Keeps

LEMMA FailingConverses ==
  ASSUME SessionKept, NEW c \in Calls, ConnectFails(c) \/ SpawnFails(c)
  PROVE  Keeps(c)
<1>1. phase[c] \notin Running /\ phase[c] # "settled"
  BY DEF ConnectFails, SpawnFails, MyTurn, Running
<1>2. PICK err \in Errors : Ends(c, err)
  BY DEF ConnectFails, SpawnFails, Errors
<1>3. UNCHANGED <<sent, aborted, wire, silent, rawProbe, setting, wedges>> /\ faults' \in Nat
  BY DEF ConnectFails, SpawnFails, Spend, world, SessionKept, TypeOK
<1>4. QED
  BY <1>1, <1>2, <1>3, EndingAwayConverses

LEMMA AbortedInTurnConverses ==
  ASSUME SessionKept, NEW c \in Calls, Kind[c] = "curl", AbortedInTurn(c)
  PROVE  Keeps(c)
<1>1. /\ phase[c] = "queued" /\ phase' = [phase EXCEPT ![c] = "settled"]
      /\ outcome' = [outcome EXCEPT ![c] = "aborted"]
      /\ tries' = [tries EXCEPT ![c] = Append(@, "hard")]
      /\ UNCHANGED <<step, sent, error, refused, aborted, credentials, wire, world>>
  BY DEF AbortedInTurn, MyTurn
<1>2. TypeOK /\ phase \in [Calls -> Phases] /\ Away(c) /\ tries[c] = <<>>
  BY <1>1 DEF SessionKept, ChainInv, Dialogue, Running, Attempting, Trying
<1>3. /\ phase'[c] = "settled" /\ outcome'[c] = "aborted" /\ Len(tries'[c]) = 1
      /\ \A d \in Calls \ {c} :
           phase'[d] = phase[d] /\ outcome'[d] = outcome[d] /\ tries'[d] = tries[d]
  BY <1>1, <1>2 DEF TypeOK
<1>4. TypeOK' /\ \A d \in Calls \ {c} : Untouched(d)
  <2>1. Append(tries[c], "hard") \in Seq({"none"} \cup Errors) /\ "aborted" \in Outcomes
    BY <1>2 DEF TypeOK, Errors, Outcomes
  <2>2. tries' \in [Calls -> Seq({"none"} \cup Errors)] /\ outcome' \in [Calls -> Outcomes]
    BY <1>1, <1>2, <2>1 DEF TypeOK
  <2>3. QED
    BY <1>1, <1>2, <1>3, <2>2 DEF TypeOK, Untouched, wire, world
<1>5. Dialogue(c)' /\ Attempting(c)'
  BY <1>1, <1>2, <1>3 DEF Dialogue, Away, Running, Attempting, Judged, wire
<1>6. QED
  BY <1>1, <1>4, <1>5 DEF Keeps, world

(* A step of the control connection or the transfer: the attempt goes on.   *)
LEMMA ConversationGoesOn ==
  ASSUME SessionKept, NEW c \in Calls, phase[c] \in Running, phase'[c] \in Running,
         \A d \in Calls \ {c} : phase'[d] = phase[d],
         UNCHANGED <<refused, tries, outcome, aborted, credentials, slot, world>>,
         /\ step' \in [Calls -> 0..6] /\ sent' \in [Calls -> Nat]
         /\ codes' \in [Calls -> Seq(Nat)] /\ error' \in [Calls -> {"none"} \cup Errors]
         /\ conn' \in [Calls -> Connections] /\ stored' \in [Calls -> Nat],
         \A d \in Calls \ {c} :
           /\ step'[d] = step[d] /\ sent'[d] = sent[d] /\ codes'[d] = codes[d]
           /\ error'[d] = error[d] /\ conn'[d] = conn[d] /\ stored'[d] = stored[d],
         Dialogue(c)'
  PROVE  Keeps(c)
<1>1. TypeOK' /\ \A d \in Calls \ {c} : Untouched(d)
  BY DEF SessionKept, TypeOK, Untouched, world
<1>2. Attempting(c)'
  BY AttemptGoesOn DEF SessionKept, Running
<1>3. QED
  BY <1>1, <1>2 DEF Keeps, world

LEMMA ReceivedAlone ==
  ASSUME NEW s \in Connections, NEW cmd \in Commands, s.lines = <<>>
  PROVE  /\ Received(s, cmd) \in Connections
         /\ Received(s, cmd).lines = <<cmd>>
         /\ Received(s, cmd).storing = s.storing
         /\ Received(s, cmd).data = s.data
         /\ Received(s, cmd).received = s.received
<1>1. Append(s.lines, cmd) = <<cmd>> /\ <<cmd>> \in Seq(Commands)
  BY OneElement
<1>2. QED
  BY <1>1 DEF Received, Connections

LEMMA SayingConverses ==
  ASSUME SessionKept, NEW c \in Calls, Say(c)
  PROVE  Keeps(c)
<1>1. /\ phase[c] = "talking" /\ conn[c].lines = <<>> /\ codes[c] = <<>>
      /\ conn' = [conn EXCEPT ![c] = Received(@, Script(c)[step[c] + 1])]
      /\ UNCHANGED <<client, codes, slot, stored, world>>
  BY DEF Say, Unsaid, Waits
<1>2. TypeOK /\ Talking(c) /\ conn[c] \in Connections
  BY <1>1 DEF SessionKept, Dialogue, TypeOK
<1>3. step[c] + 1 \in 1..6
  BY <1>2 DEF Talking
<1>4. DEFINE cmd == Script(c)[step[c] + 1]
<1>5. cmd \in Commands
  BY <1>3, ScriptSays
<1>6. conn'[c] = Received(conn[c], cmd)
  BY <1>1, <1>2 DEF TypeOK
<1>7. HIDE DEF cmd
<1>8. /\ conn'[c] \in Connections /\ conn'[c].lines = <<cmd>>
      /\ conn'[c].storing = conn[c].storing /\ conn'[c].data = conn[c].data
      /\ conn'[c].received = conn[c].received
  BY <1>1, <1>2, <1>5, <1>6, ReceivedAlone
<1>9. Dialogue(c)'
  <2>1. phase'[c] = "talking" /\ step'[c] = step[c] /\ codes'[c] = <<>>
    BY <1>1 DEF client
  <2>2. Talking(c)'
    BY <1>1, <1>2, <1>8, <2>1, ZenonT(60) DEF Talking, cmd, Script
  <2>3. QED
    BY <2>1, <2>2 DEF Dialogue, Running
<1>10. QED
  <2>1. conn' \in [Calls -> Connections] /\ \A d \in Calls \ {c} : conn'[d] = conn[d]
    BY <1>1, <1>2, <1>8 DEF TypeOK
  <2>2. phase[c] \in Running
    BY <1>1 DEF Running
  <2>3. QED
    BY <1>1, <1>2, <1>9, <2>1, <2>2, ConversationGoesOn DEF client, TypeOK

LEMMA HearingConverses ==
  ASSUME SessionKept, NEW c \in Calls, Hear(c)
  PROVE  Keeps(c)
<1>. DEFINE code == Head(codes[c])
            cmd == Script(c)[step[c] + 1]
<1>1. /\ phase[c] = "talking" /\ codes[c] # <<>>
      /\ codes' = [codes EXCEPT ![c] = Tail(@)]
      /\ step' = [step EXCEPT ![c] = step[c] + 1]
      /\ UNCHANGED <<queue, refused, tries, outcome, aborted, credentials, conn, slot, stored, world>>
  BY DEF Hear
<1>2. TypeOK /\ Talking(c) /\ phase \in [Calls -> Phases]
  BY <1>1 DEF SessionKept, Dialogue, ChainInv
<1>3. /\ step[c] \in 0..5 /\ step[c] + 1 \in 1..6
      /\ codes[c] \in Seq(Nat) /\ Len(codes[c]) = 1 /\ conn[c].lines = <<>>
      /\ code = 150 <=> conn[c].storing
      /\ conn[c].storing => cmd = "STOR"
      /\ cmd = "STOR" => code = 150 \/ ~Positive(code)
      /\ conn[c].data \in {"none", "expected"} /\ conn[c].received = 0
  BY <1>1, <1>2 DEF Talking, TypeOK
<1>4. Tail(codes[c]) = <<>> /\ code \in Nat
  BY <1>3, TailOfOne
<1>5. cmd = "STOR" <=> Kind[c] = "curl" /\ step[c] + 1 = 6
  BY <1>3, ScriptSays
<1>6. /\ step'[c] = step[c] + 1 /\ step' \in [Calls -> 0..6]
      /\ codes'[c] = <<>> /\ codes' \in [Calls -> Seq(Nat)]
      /\ \A d \in Calls \ {c} : step'[d] = step[d] /\ codes'[d] = codes[d]
  <2>1. step[c] + 1 \in 0..6 /\ <<>> \in Seq(Nat)
    BY <1>3
  <2>2. QED
    BY <1>1, <1>2, <1>4, <2>1 DEF TypeOK
<1>7. CASE /\ ~Positive(code) /\ ~Tolerated(c, cmd)
           /\ phase' = [phase EXCEPT ![c] = "quitting"]
           /\ error' = [error EXCEPT ![c] = "hard"]
           /\ UNCHANGED sent
  <2>1. phase'[c] = "quitting" /\ error'[c] = "hard"
    BY <1>2, <1>7 DEF TypeOK
  <2>2. ~conn[c].storing
    BY <1>3, <1>7 DEF Positive
  <2>3. Dialogue(c)'
    BY <1>1, <1>3, <2>1, <2>2 DEF Dialogue, Quitting, Running
  <2>4. /\ error' \in [Calls -> {"none"} \cup Errors]
        /\ \A d \in Calls \ {c} : phase'[d] = phase[d] /\ error'[d] = error[d]
    BY <1>2, <1>7 DEF TypeOK, Errors
  <2>5. phase[c] \in Running /\ phase'[c] \in Running
    BY <1>1, <2>1 DEF Running
  <2>6. QED
    BY <1>1, <1>2, <1>6, <1>7, <2>3, <2>4, <2>5, ConversationGoesOn DEF TypeOK
<1>8. CASE /\ UNCHANGED error /\ code = 150
           /\ phase' = [phase EXCEPT ![c] = "sending"]
           /\ sent' = [sent EXCEPT ![c] = 0]
  <2>1. /\ phase'[c] = "sending" /\ sent'[c] = 0 /\ sent' \in [Calls -> Nat]
        /\ \A d \in Calls \ {c} : phase'[d] = phase[d] /\ sent'[d] = sent[d]
    BY <1>2, <1>8 DEF TypeOK
  <2>2. conn[c].storing /\ conn[c].data = "expected"
    <3>1. conn[c].storing
      BY <1>3, <1>8
    <3>2. QED
      BY <1>2, <1>3, <3>1 DEF SessionKept, Dialogue, Talking
  <2>3. Dialogue(c)'
    BY <1>1, <1>3, <1>6, <2>1, <2>2 DEF Dialogue, Sending, Running
  <2>4. phase[c] \in Running /\ phase'[c] \in Running
    BY <1>1, <2>1 DEF Running
  <2>5. QED
    BY <1>1, <1>2, <1>6, <1>8, <2>1, <2>3, <2>4, ConversationGoesOn DEF TypeOK
<1>9. CASE /\ UNCHANGED error /\ BodyOver(c, step[c] + 1, code)
           /\ phase' = [phase EXCEPT ![c] = "quitting"]
           /\ UNCHANGED sent
  <2>1. phase'[c] = "quitting" /\ \A d \in Calls \ {c} : phase'[d] = phase[d]
    BY <1>2, <1>9
  <2>2. Kind[c] # "curl" /\ ~conn[c].storing
    BY <1>3, <1>5, <1>9 DEF BodyOver
  <2>3. Dialogue(c)'
    BY <1>1, <1>3, <2>1, <2>2 DEF Dialogue, Quitting, Running
  <2>4. phase[c] \in Running /\ phase'[c] \in Running
    BY <1>1, <2>1 DEF Running
  <2>5. QED
    BY <1>1, <1>2, <1>6, <1>9, <2>1, <2>3, <2>4, ConversationGoesOn DEF TypeOK
<1>10. CASE /\ Positive(code) \/ Tolerated(c, cmd)
            /\ UNCHANGED error
            /\ code # 150 /\ ~BodyOver(c, step[c] + 1, code)
            /\ UNCHANGED <<phase, sent>>
  <2>1. step[c] + 1 # 6
    <3>1. SUFFICES ASSUME step[c] + 1 = 6 PROVE FALSE
      OBVIOUS
    <3>2. Kind[c] = "curl"
      BY <1>10, <3>1 DEF BodyOver
    <3>3. cmd = "STOR" /\ ~Positive(code)
      BY <1>3, <1>5, <1>10, <3>1, <3>2
    <3>4. QED
      BY <1>10, <3>2, <3>3 DEF Tolerated
  <2>2. step'[c] \in 0..5
    BY <1>3, <1>6, <2>1
  <2>3. ~conn[c].storing
    BY <1>3, <1>10
  <2>4. Dialogue(c)'
    BY <1>1, <1>3, <1>6, <1>10, <2>2, <2>3 DEF Dialogue, Talking, Running
  <2>5. phase[c] \in Running
    BY <1>1 DEF Running
  <2>6. QED
    BY <1>1, <1>2, <1>6, <1>10, <2>4, <2>5, ConversationGoesOn DEF TypeOK
<1>11. QED
  BY <1>7, <1>8, <1>9, <1>10 DEF Hear

LEMMA ServingConverses ==
  ASSUME SessionKept, NEW c \in Calls, Serve(c)
  PROVE  Keeps(c)
<1>. DEFINE cmd == Head(conn[c].lines)
            reply == Answer(conn[c], cmd, setting.codeOk, setting.prots)
            after == Dispatched(conn[c], cmd, setting.codeOk, setting.prots)
<1>1. /\ conn[c].open /\ conn[c].lines # <<>> /\ ~conn[c].storing
      /\ codes' = [codes EXCEPT ![c] = Append(@, reply)]
      /\ conn' = [conn EXCEPT ![c] = after]
      /\ UNCHANGED <<client, slot, stored, world>>
  BY DEF Serve, MayDispatch
<1>2. TypeOK /\ Dialogue(c) /\ conn[c] \in Connections /\ setting.codeOk \in BOOLEAN
  BY BoundsAssumption DEF SessionKept, TypeOK, Setting
<1>3. CASE phase[c] = "talking"
  <2>1. Talking(c) /\ step[c] + 1 \in 1..6
    BY <1>2, <1>3 DEF Dialogue, Talking
  <2>2. /\ conn[c].lines = <<cmd>> /\ cmd = Script(c)[step[c] + 1]
        /\ codes[c] = <<>>
    BY <1>1, <2>1, OneElement DEF Talking
  <2>3. cmd \in Commands \ {"QUIT"} /\ (cmd = "STOR" <=> Kind[c] = "curl" /\ step[c] + 1 = 6)
    BY <2>1, <2>2, ScriptSays
  <2>4. conn[c].data \in {"none", "expected"} /\ conn[c].received = 0
    BY <2>1 DEF Talking
  <2>. HIDE DEF cmd
  <2>5. cmd \in Commands
    BY <2>3
  <2>6. Tail(conn[c].lines) = <<>>
    BY <2>2, OneElement
  <2>7. conn[c] \in Connections
    BY <1>2
  <2>8. setting.codeOk \in BOOLEAN
    BY <1>2
  <2>9. after = Dispatched(conn[c], cmd, setting.codeOk, setting.prots)
    OBVIOUS
  <2>. HIDE DEF after
  <2>10. /\ after \in Connections /\ after.lines = <<>>
         /\ cmd # "STOR" => ~after.storing
         /\ cmd = "STOR" => (after.storing <=> StorAccepted(conn[c])) /\ after.data = conn[c].data
         /\ after.data \in {"none", "expected"} /\ after.received = 0
    BY <1>1, <2>3, <2>4, <2>5, <2>6, <2>7, <2>8, <2>9, DispatchedAlone
  <2>11. /\ reply \in Nat
         /\ reply = 150 <=> cmd = "STOR" /\ StorAccepted(conn[c])
         /\ cmd = "STOR" => reply = 150 \/ ~Positive(reply)
    BY <1>2, <2>3, AnswersAre
  <2>12. HIDE DEF reply, after
  <2>13. codes'[c] = <<reply>> /\ conn'[c] = after
    BY <1>1, <1>2, <2>2, OneElement DEF TypeOK
  <2>14. codes'[c] # <<>> /\ Head(codes'[c]) = reply /\ Len(codes'[c]) = 1
    BY <2>13, OneElement
  <2>15. /\ after.storing => cmd = "STOR" /\ after.data = "expected" /\ reply = 150
         /\ reply = 150 => after.storing
    BY <2>4, <2>10, <2>11 DEF StorAccepted, Connections
  <2>16. Talking(c)'
    <3>1. step'[c] = step[c] /\ Script(c)[step'[c] + 1] = cmd
      BY <1>1, <2>2 DEF client
    <3>2. QED
      BY <2>1, <2>10, <2>11, <2>13, <2>14, <2>15, <3>1 DEF Talking
  <2>17. Dialogue(c)'
    BY <1>1, <1>3, <2>16 DEF Dialogue, Running, client
  <2>18. /\ codes' \in [Calls -> Seq(Nat)] /\ conn' \in [Calls -> Connections]
         /\ \A d \in Calls \ {c} : codes'[d] = codes[d] /\ conn'[d] = conn[d]
    <3>1. Append(codes[c], reply) \in Seq(Nat)
      BY <1>2, <2>11 DEF TypeOK
    <3>2. QED
      BY <1>1, <1>2, <2>10, <3>1 DEF TypeOK
  <2>19. phase[c] \in Running
    BY <1>3 DEF Running
  <2>20. QED
    BY <1>1, <1>2, <2>17, <2>18, <2>19, ConversationGoesOn DEF client, TypeOK
<1>4. CASE phase[c] = "quitting"
  <2>1. Tail(conn[c].lines) = <<>> /\ cmd = "QUIT" /\ cmd \in Commands
    BY <1>1, <1>2, <1>4, OneElement DEF Dialogue, Quitting, Commands
  <2>2. after = Gone /\ after \in Connections
    BY <1>2, <2>1, DispatchedAlone
  <2>3. reply \in Nat
    BY <1>2, <2>1, AnswersAre
  <2>4. HIDE DEF cmd, reply, after
  <2>5. conn'[c] = Gone
    BY <1>1, <1>2, <2>2 DEF TypeOK
  <2>6. Dialogue(c)'
    BY <1>1, <1>2, <1>4, <2>5 DEF Dialogue, Quitting, Running, StoredAll, Gone, Accepted, client, world
  <2>7. /\ codes' \in [Calls -> Seq(Nat)] /\ conn' \in [Calls -> Connections]
        /\ \A d \in Calls \ {c} : codes'[d] = codes[d] /\ conn'[d] = conn[d]
    <3>1. Append(codes[c], reply) \in Seq(Nat)
      BY <1>2, <2>3 DEF TypeOK
    <3>2. QED
      BY <1>1, <1>2, <2>2, <3>1 DEF TypeOK
  <2>8. phase[c] \in Running
    BY <1>4 DEF Running
  <2>9. QED
    BY <1>1, <1>2, <2>6, <2>7, <2>8, ConversationGoesOn DEF client, TypeOK
<1>5. CASE phase[c] \notin {"talking", "quitting"}
  <2>1. phase[c] \in Running => conn[c].lines = <<>>
    BY <1>2, <1>5 DEF Dialogue, Running, Sending
  <2>2. phase[c] \notin Running => ~conn[c].open
    BY <1>2 DEF Dialogue, Away, Gone, Accepted
  <2>3. QED
    BY <1>1, <2>1, <2>2
<1>6. QED
  BY <1>3, <1>4, <1>5

LEMMA SayingGoodbyeConverses ==
  ASSUME SessionKept, NEW c \in Calls, SayQuit(c)
  PROVE  Keeps(c)
<1>1. /\ phase[c] = "quitting" /\ conn[c].lines = <<>>
      /\ conn' = [conn EXCEPT ![c] = Received(@, "QUIT")]
      /\ UNCHANGED <<client, codes, slot, stored, world>>
  BY DEF SayQuit, Unsaid
<1>2. TypeOK /\ Quitting(c) /\ conn[c] \in Connections /\ "QUIT" \in Commands
  BY <1>1 DEF SessionKept, Dialogue, TypeOK, Commands
<1>3. /\ conn'[c] \in Connections /\ conn'[c].lines = <<"QUIT">>
      /\ conn'[c].storing = conn[c].storing
  BY <1>1, <1>2, ReceivedAlone DEF TypeOK
<1>4. conn' \in [Calls -> Connections] /\ \A d \in Calls \ {c} : conn'[d] = conn[d]
  BY <1>1, <1>2, <1>3 DEF TypeOK
<1>5. Dialogue(c)'
  BY <1>1, <1>2, <1>3 DEF Dialogue, Quitting, StoredAll, Running, client, world
<1>6. phase[c] \in Running
  BY <1>1 DEF Running
<1>7. QED
  BY <1>1, <1>2, <1>4, <1>5, <1>6, ConversationGoesOn DEF client, TypeOK

(* A transfer under way: connecting the data channel, a chunk, the end, the *)
(* server's verdict, and its hearing.                                       *)
LEMMA TransferringConverses ==
  ASSUME SessionKept, NEW c \in Calls, OpenData(c) \/ EndData(c) \/ Pump(c)
  PROVE  Keeps(c)
<1>1. /\ phase[c] = "sending" /\ conn[c].data \in {"expected", "connected"}
      /\ UNCHANGED <<phase, step, codes, error, stored>>
      /\ UNCHANGED <<refused, tries, outcome, aborted, credentials, slot, world>>
  BY DEF OpenData, EndData, Pump, client
<1>2. TypeOK /\ Sending(c) /\ conn[c] \in Connections /\ sent[c] \in Nat
  BY <1>1 DEF SessionKept, Dialogue, TypeOK
<1>3. /\ conn[c].lines = <<>> /\ conn[c].storing /\ codes[c] = <<>>
      /\ conn[c].received = sent[c]
  BY <1>1, <1>2 DEF Sending
<1>4. CASE OpenData(c) \/ EndData(c)
  <2>1. PICK data \in {"connected", "ended"} :
          /\ conn' = [conn EXCEPT ![c] = [conn[c] EXCEPT !.data = data]]
          /\ sent' = sent
          /\ data = "ended" => sent[c] = setting.size
    BY <1>4 DEF OpenData, EndData, DataConnected, DataEnded, client
  <2>2. /\ conn'[c] = [conn[c] EXCEPT !.data = data] /\ conn'[c] \in Connections
        /\ conn' \in [Calls -> Connections] /\ \A d \in Calls \ {c} : conn'[d] = conn[d]
    BY <1>2, <2>1 DEF TypeOK, Connections
  <2>3. /\ conn'[c].lines = <<>> /\ conn'[c].storing /\ conn'[c].data = data
        /\ conn'[c].received = sent[c]
    BY <1>2, <1>3, <2>2 DEF Connections
  <2>4. Dialogue(c)'
    BY <1>1, <1>3, <2>1, <2>3 DEF Dialogue, Sending, Running, world
  <2>5. phase[c] \in Running
    BY <1>1 DEF Running
  <2>6. QED
    BY <1>1, <1>2, <2>1, <2>2, <2>4, <2>5, ConversationGoesOn DEF TypeOK
<1>5. CASE Pump(c)
  <2>1. /\ conn[c].data = "connected" /\ ~StorSettles(conn[c])
        /\ sent' = [sent EXCEPT ![c] = sent[c] + 1]
        /\ conn' = [conn EXCEPT ![c] = [conn[c] EXCEPT !.received = conn[c].received + 1]]
    BY <1>5 DEF Pump, ChunkReceived
  <2>2. sent[c] + 1 \in 0..(MaxChunks + 1)
    BY <1>2, <1>3, <2>1, CapAssumption DEF StorSettles, OverCap
  <2>3. /\ conn'[c] = [conn[c] EXCEPT !.received = sent[c] + 1] /\ conn'[c] \in Connections
        /\ conn' \in [Calls -> Connections] /\ \A d \in Calls \ {c} : conn'[d] = conn[d]
    BY <1>2, <1>3, <2>1, <2>2 DEF TypeOK, Connections
  <2>4. /\ sent'[c] = sent[c] + 1
        /\ sent' \in [Calls -> Nat] /\ \A d \in Calls \ {c} : sent'[d] = sent[d]
    BY <1>2, <2>1, SMTT(30) DEF TypeOK
  <2>5. /\ conn'[c].lines = <<>> /\ conn'[c].storing /\ conn'[c].data = "connected"
        /\ conn'[c].received = sent'[c]
    BY <1>2, <1>3, <2>1, <2>3, <2>4 DEF Connections
  <2>6. Dialogue(c)'
    BY <1>1, <1>3, <2>5 DEF Dialogue, Sending, Running
  <2>7. phase[c] \in Running
    BY <1>1 DEF Running
  <2>8. QED
    BY <1>1, <1>2, <2>3, <2>4, <2>6, <2>7, ConversationGoesOn DEF TypeOK
<1>6. QED
  BY <1>4, <1>5

LEMMA SettlingConverses ==
  ASSUME SessionKept, NEW c \in Calls, Settle(c)
  PROVE  Keeps(c)
<1>1. /\ conn[c].storing
      /\ conn[c].data = "ended" \/ OverCap(conn[c])
      /\ codes' = [codes EXCEPT ![c] = Append(@, StorCode(conn[c]))]
      /\ stored' = IF StorCode(conn[c]) = 226
                   THEN [stored EXCEPT ![c] = conn[c].received]
                   ELSE stored
      /\ conn' = [conn EXCEPT ![c] = StorOver(conn[c])]
      /\ UNCHANGED <<client, slot, world>>
  BY DEF Settle, StorSettles
<1>2. /\ TypeOK /\ Dialogue(c) /\ conn[c] \in Connections /\ codes[c] \in Seq(Nat)
      /\ conn[c].received \in Nat
  <2>1. TypeOK /\ Dialogue(c)
    BY DEF SessionKept
  <2>2. conn[c] \in Connections /\ codes[c] \in Seq(Nat)
    BY <2>1 DEF TypeOK
  <2>3. conn[c].received \in Nat
    BY <2>2, CapAssumption DEF Connections
  <2>4. QED
    BY <2>1, <2>2, <2>3
<1>3. phase[c] = "sending"
  <2>1. ~conn[c].storing \/ phase[c] \in {"talking", "sending"}
    BY <1>2 DEF Dialogue, Away, Gone, Accepted, Quitting, Running
  <2>2. phase[c] # "talking"
    <3>1. SUFFICES ASSUME Talking(c) PROVE FALSE
      BY <1>2 DEF Dialogue
    <3>2. conn[c].data = "expected" /\ conn[c].received = 0
      BY <1>1, <3>1 DEF Talking
    <3>3. QED
      BY <1>1, <3>2, CapAssumption DEF OverCap
  <2>3. QED
    BY <1>1, <2>1, <2>2
<1>4. /\ conn[c].lines = <<>> /\ codes[c] = <<>> /\ conn[c].received = sent[c]
      /\ conn[c].data = "ended" => sent[c] = setting.size
  BY <1>1, <1>2, <1>3 DEF Dialogue, Sending
<1>5. StorCode(conn[c]) \in {226, 550}
  BY DEF StorCode
<1>6. StorCode(conn[c]) = 226 => conn[c].received = setting.size /\ setting.size <= MaxChunks
  <2>1. SUFFICES ASSUME ~OverCap(conn[c])
                 PROVE  conn[c].received = setting.size /\ setting.size <= MaxChunks
    BY DEF StorCode
  <2>2. QED
    BY <1>1, <1>2, <1>4, <2>1, CapAssumption DEF OverCap
<1>7. /\ codes'[c] = <<StorCode(conn[c])>>
      /\ codes' \in [Calls -> Seq(Nat)] /\ \A d \in Calls \ {c} : codes'[d] = codes[d]
  <2>1. Append(codes[c], StorCode(conn[c])) = <<StorCode(conn[c])>>
    BY <1>4, OneElement
  <2>2. Append(codes[c], StorCode(conn[c])) \in Seq(Nat)
    BY <1>2, <1>5
  <2>3. QED
    BY <1>1, <1>2, <2>1, <2>2 DEF TypeOK
<1>8. /\ stored' \in [Calls -> Nat] /\ \A d \in Calls \ {c} : stored'[d] = stored[d]
      /\ StorCode(conn[c]) = 226 => stored'[c] = conn[c].received
  BY <1>1, <1>2 DEF TypeOK
<1>9. /\ conn'[c] = StorOver(conn[c]) /\ conn' \in [Calls -> Connections]
      /\ \A d \in Calls \ {c} : conn'[d] = conn[d]
      /\ conn'[c].lines = <<>> /\ ~conn'[c].storing /\ conn'[c].data = "none"
  <2>1. /\ StorOver(conn[c]) \in Connections /\ StorOver(conn[c]).lines = conn[c].lines
        /\ ~StorOver(conn[c]).storing /\ StorOver(conn[c]).data = "none"
    BY <1>2 DEF StorOver, Connections
  <2>2. QED
    BY <1>1, <1>2, <1>4, <2>1 DEF TypeOK
<1>10. Dialogue(c)'
  <2>1. StoredAll(c)' \/ codes'[c] = <<550>>
    BY <1>1, <1>5, <1>6, <1>7, <1>8 DEF StoredAll, world
  <2>2. codes'[c] = <<226>> \/ codes'[c] = <<550>>
    BY <1>5, <1>7
  <2>3. Sending(c)'
    BY <1>9, <2>1, <2>2 DEF Sending
  <2>4. QED
    BY <1>1, <1>3, <2>3 DEF Dialogue, Running, client
<1>11. phase[c] \in Running
  BY <1>3 DEF Running
<1>12. QED
  BY <1>1, <1>2, <1>7, <1>8, <1>9, <1>10, <1>11, ConversationGoesOn DEF client, TypeOK

LEMMA VerdictConverses ==
  ASSUME SessionKept, NEW c \in Calls, HearTransfer(c)
  PROVE  Keeps(c)
<1>1. /\ phase[c] = "sending" /\ codes[c] # <<>>
      /\ codes' = [codes EXCEPT ![c] = Tail(@)]
      /\ phase' = [phase EXCEPT ![c] = "quitting"]
      /\ error' = [error EXCEPT ![c] = IF Head(codes[c]) = 226 THEN "none" ELSE "hard"]
      /\ UNCHANGED <<step, sent, conn, stored>>
      /\ UNCHANGED <<refused, tries, outcome, aborted, credentials, slot, world>>
  BY DEF HearTransfer
<1>2. /\ TypeOK /\ phase \in [Calls -> Phases] /\ codes[c] \in Seq(Nat)
      /\ ~conn[c].storing /\ conn[c].lines = <<>>
      /\ \/ codes[c] = <<226>> /\ StoredAll(c)
         \/ codes[c] = <<550>>
  <2>1. TypeOK /\ phase \in [Calls -> Phases] /\ Sending(c)
    BY <1>1 DEF SessionKept, ChainInv, Dialogue
  <2>2. codes[c] \in Seq(Nat)
    BY <2>1 DEF TypeOK
  <2>3. QED
    BY <1>1, <2>1, <2>2 DEF Sending
<1>3. Head(codes[c]) = 226 => StoredAll(c)
  BY <1>2, OneElement
<1>4. /\ phase'[c] = "quitting" /\ \A d \in Calls \ {c} : phase'[d] = phase[d]
      /\ error'[c] = "none" => Head(codes[c]) = 226
      /\ error' \in [Calls -> {"none"} \cup Errors] /\ \A d \in Calls \ {c} : error'[d] = error[d]
  BY <1>1, <1>2 DEF TypeOK, Errors
<1>5. codes' \in [Calls -> Seq(Nat)] /\ \A d \in Calls \ {c} : codes'[d] = codes[d]
  <2>1. Tail(codes[c]) \in Seq(Nat)
    BY <1>1, <1>2
  <2>2. QED
    BY <1>1, <1>2, <2>1 DEF TypeOK
<1>6. Dialogue(c)'
  BY <1>1, <1>2, <1>3, <1>4 DEF Dialogue, Quitting, StoredAll, Running, world
<1>7. phase[c] \in Running /\ phase'[c] \in Running
  BY <1>1, <1>4 DEF Running
<1>8. QED
  BY <1>1, <1>2, <1>4, <1>5, <1>6, <1>7, ConversationGoesOn DEF TypeOK

(* The session is over, with or without its goodbye: what an upload had     *)
(* stored when its body succeeded is still there.                           *)
LEMMA HangingUpConverses ==
  ASSUME SessionKept, NEW c \in Calls, phase[c] \in Running,
         conn' = [conn EXCEPT ![c] = Gone], codes' = [codes EXCEPT ![c] = <<>>],
         stored' = stored \/ (stored' = [stored EXCEPT ![c] = conn[c].received] /\ conn[c].storing),
         slot' \in {Free, Abandoned}, silent' \subseteq silent,
         NEW err \in {"none"} \cup Errors, Ends(c, err),
         Kind[c] = "curl" /\ err = "none" => phase[c] = "quitting" /\ error[c] = "none",
         UNCHANGED <<sent, aborted, rawProbe, setting, faults, wedges>>
  PROVE  Keeps(c)
<1>1. /\ TypeOK /\ phase \in [Calls -> Phases] /\ Attempting(c) /\ Dialogue(c)
      /\ phase[c] # "settled"
  BY DEF SessionKept, ChainInv, Running
<1>2. outcome[c] = "pending"
  BY <1>1 DEF Attempting, Trying
<1>3. /\ conn'[c] = Gone /\ codes'[c] = <<>>
      /\ conn' \in [Calls -> Connections] /\ codes' \in [Calls -> Seq(Nat)]
      /\ \A d \in Calls \ {c} : conn'[d] = conn[d] /\ codes'[d] = codes[d]
  <2>1. <<>> \in Seq(Nat)
    OBVIOUS
  <2>2. QED
    BY <1>1, <2>1, FreshConnections DEF TypeOK
<1>4. stored' \in [Calls -> Nat] /\ \A d \in Calls \ {c} : stored'[d] = stored[d]
  <2>1. conn[c].received \in Nat
    BY <1>1, CapAssumption DEF TypeOK, Connections
  <2>2. QED
    BY <1>1, <2>1 DEF TypeOK
<1>5. TypeOK'
  BY <1>1, <1>3, <1>4, EndingIsTyped DEF TypeOK
<1>6. \A d \in Calls \ {c} : Untouched(d)
  BY <1>1, <1>3, <1>4, EndingIsTyped DEF Untouched
<1>7. Dialogue(c)'
  <2>1. phase'[c] \notin Running /\ step'[c] = 0 /\ (outcome'[c] = "ok" => err = "none")
    BY <1>1, <1>2, EndingIsTyped
  <2>2. Kind[c] = "curl" /\ outcome'[c] = "ok" => StoredAll(c)'
    <3>1. SUFFICES ASSUME Kind[c] = "curl", err = "none" PROVE StoredAll(c)'
      BY <2>1
    <3>2. Quitting(c) /\ error[c] = "none"
      BY <1>1, <3>1 DEF Dialogue
    <3>3. StoredAll(c) /\ stored' = stored
      BY <3>1, <3>2 DEF Quitting
    <3>4. QED
      BY <3>3 DEF StoredAll
  <2>3. QED
    BY <1>3, <2>1, <2>2 DEF Dialogue, Away, Running
<1>8. Attempting(c)'
  BY <1>1, AttemptEnds
<1>9. QED
  BY <1>5, <1>6, <1>7, <1>8 DEF Keeps

LEMMA GoodbyeConverses ==
  ASSUME SessionKept, NEW c \in Calls, HearGoodbye(c)
  PROVE  Keeps(c)
<1>1. /\ phase[c] = "quitting" /\ slot' = Free
      /\ conn' = [conn EXCEPT ![c] = Gone] /\ codes' = [codes EXCEPT ![c] = <<>>]
      /\ Ends(c, error[c])
      /\ UNCHANGED <<sent, aborted, stored, world>>
  BY DEF HearGoodbye, Goodbye
<1>2. error[c] \in {"none"} \cup Errors
  BY DEF SessionKept, TypeOK
<1>3. phase[c] \in Running
  BY <1>1 DEF Running
<1>4. UNCHANGED <<sent, aborted, rawProbe, setting, faults, wedges>> /\ silent' \subseteq silent
  BY <1>1 DEF world
<1>5. QED
  BY <1>1, <1>2, <1>3, <1>4, HangingUpConverses

LEMMA TimingOutConverses ==
  ASSUME SessionKept, NEW c \in Calls, TimesOut(c)
  PROVE  Keeps(c)
<1>1. /\ phase[c] \in Running /\ slot' = Abandoned /\ silent' \subseteq silent
      /\ conn' = [conn EXCEPT ![c] = Gone] /\ codes' = [codes EXCEPT ![c] = <<>>]
      /\ stored' = stored \/ (stored' = [stored EXCEPT ![c] = conn[c].received] /\ conn[c].storing)
      /\ Ends(c, TimeoutSeen(c))
      /\ UNCHANGED <<sent, aborted, rawProbe, setting, faults, wedges>>
  BY DEF TimesOut, Breaks
<1>2. error[c] \in {"none"} \cup Errors
  BY DEF SessionKept, TypeOK
<1>3. TimeoutSeen(c) \in {"none"} \cup Errors
  BY <1>2 DEF TimeoutSeen, Errors
<1>4. Kind[c] = "curl" /\ TimeoutSeen(c) = "none" => phase[c] = "quitting" /\ error[c] = "none"
  BY DEF TimeoutSeen
<1>5. QED
  BY <1>1, <1>3, <1>4, HangingUpConverses

LEMMA AbortingConverses ==
  ASSUME SessionKept, NEW c \in Calls, Abort(c)
  PROVE  Keeps(c)
<1>1. /\ Kind[c] = "curl" /\ phase[c] \in Running
      /\ faults' = faults + 1 /\ slot' = Abandoned /\ silent' \subseteq silent
      /\ aborted' = aborted \cup {c} /\ credentials' \subseteq credentials
      /\ phase' = [phase EXCEPT ![c] = "settled"]
      /\ outcome' = [outcome EXCEPT ![c] = "aborted"]
      /\ tries' = [tries EXCEPT ![c] = Append(@, "hard")]
      /\ conn' = [conn EXCEPT ![c] = Gone] /\ codes' = [codes EXCEPT ![c] = <<>>]
      /\ stored' = stored \/ stored' = [stored EXCEPT ![c] = conn[c].received]
      /\ UNCHANGED <<step, sent, error, refused, rawProbe, setting, wedges>>
  BY DEF Abort, Breaks, DropCredentials, Spend
<1>2. /\ TypeOK /\ phase \in [Calls -> Phases] /\ tries[c] = <<>>
  BY <1>1 DEF SessionKept, ChainInv, Running, Attempting, Trying
<1>3. /\ conn'[c] = Gone /\ codes'[c] = <<>>
      /\ conn' \in [Calls -> Connections] /\ codes' \in [Calls -> Seq(Nat)]
      /\ \A d \in Calls \ {c} : conn'[d] = conn[d] /\ codes'[d] = codes[d]
  <2>1. <<>> \in Seq(Nat)
    OBVIOUS
  <2>2. QED
    BY <1>1, <1>2, <2>1, FreshConnections DEF TypeOK
<1>4. stored' \in [Calls -> Nat] /\ \A d \in Calls \ {c} : stored'[d] = stored[d]
  <2>1. conn[c].received \in Nat
    BY <1>2, CapAssumption DEF TypeOK, Connections
  <2>2. QED
    BY <1>1, <1>2, <2>1 DEF TypeOK
<1>5. /\ phase'[c] = "settled" /\ outcome'[c] = "aborted" /\ Len(tries'[c]) = 1
      /\ \A d \in Calls \ {c} :
           phase'[d] = phase[d] /\ outcome'[d] = outcome[d] /\ tries'[d] = tries[d]
  BY <1>1, <1>2 DEF TypeOK
<1>6. tries' \in [Calls -> Seq({"none"} \cup Errors)] /\ outcome' \in [Calls -> Outcomes]
  <2>1. Append(tries[c], "hard") \in Seq({"none"} \cup Errors) /\ "aborted" \in Outcomes
    BY <1>2 DEF TypeOK, Errors, Outcomes
  <2>2. QED
    BY <1>1, <1>2, <2>1 DEF TypeOK
<1>7. TypeOK' /\ \A d \in Calls \ {c} : Untouched(d)
  <2>1. c \in Abortable
    BY <1>1 DEF Abortable
  <2>2. QED
    BY <1>1, <1>2, <1>3, <1>4, <1>5, <1>6, <2>1, SMTT(30) DEF TypeOK, Untouched
<1>8. Dialogue(c)' /\ Attempting(c)'
  BY <1>1, <1>3, <1>5 DEF Dialogue, Away, Running, Attempting, Judged
<1>9. QED
  BY <1>1, <1>7, <1>8 DEF Keeps

(* Everything else that happens leaves the calls as they are.               *)
LEMMA NobodysStep ==
  ASSUME SessionKept,
         Expire \/ Wedge \/ Reboot \/ ProbePort \/ ProbeCloses \/ UNCHANGED vars
           \/ \E c \in Calls : Silence(c) \/ AbortEarly(c)
  PROVE  TypeOK' /\ setting' = setting /\ \A d \in Calls : Untouched(d)
<1>1. CASE Expire \/ Wedge \/ Reboot \/ ProbePort \/ ProbeCloses \/ UNCHANGED vars
  BY <1>1, SMTT(30) DEF SessionKept, TypeOK, Untouched, Expire, Wedge, Reboot, ProbePort, ProbeCloses,
              vars, client, wire, world
<1>2. CASE \E c \in Calls : Silence(c) \/ AbortEarly(c)
  <2>1. /\ UNCHANGED <<phase, step, sent, codes, error, refused, tries, outcome, credentials,
                       conn, slot, stored, rawProbe, setting, wedges>>
        /\ faults' = faults + 1
    BY <1>2 DEF Silence, AbortEarly, Spend, client, wire
  <2>2. /\ aborted' \subseteq Abortable
        /\ silent' \subseteq Calls
    BY <1>2 DEF SessionKept, TypeOK, Silence, AbortEarly, client, Abortable
  <2>3. TypeOK'
    BY <2>1, <2>2, SMTT(30) DEF SessionKept, TypeOK
  <2>4. QED
    BY <2>1, <2>3 DEF Untouched
<1>3. QED
  BY <1>1, <1>2

LEMMA StepKeepsDialogues ==
  ASSUME SessionKept, [Next]_vars
  PROVE  SessionKept'
<1>1. ChainInv'
  BY StepKeepsChain DEF SessionKept
<1>2. CASE \E c \in Calls : Keeps(c)
  <2>1. PICK c \in Calls : Keeps(c)
    BY <1>2
  <2>2. TypeOK' /\ setting' = setting /\ Dialogue(c)' /\ Attempting(c)'
    BY <2>1 DEF Keeps
  <2>3. ASSUME NEW d \in Calls \ {c} PROVE Dialogue(d)' /\ Attempting(d)'
    <3>1. Untouched(d) /\ Dialogue(d) /\ Attempting(d)
      BY <2>1 DEF Keeps, SessionKept
    <3>2. QED
      BY <2>2, <3>1, UntouchedKeeps
  <2>4. QED
    BY <1>1, <2>2, <2>3 DEF SessionKept
<1>3. CASE TypeOK' /\ setting' = setting /\ \A d \in Calls : Untouched(d)
  <2>1. ASSUME NEW d \in Calls PROVE Dialogue(d)' /\ Attempting(d)'
    <3>1. Untouched(d) /\ Dialogue(d) /\ Attempting(d) /\ setting' = setting
      BY <1>3 DEF SessionKept
    <3>2. QED
      BY <3>1, UntouchedKeeps
  <2>2. QED
    BY <1>1, <1>3, <2>1 DEF SessionKept
<1>4. CASE \E c \in Calls : AbortedInTurn(c)
  <2>1. PICK c \in Calls : AbortedInTurn(c)
    BY <1>4
  <2>2. Kind[c] = "curl"
    BY <2>1 DEF AbortedInTurn, SessionKept, TypeOK, Abortable
  <2>3. QED
    BY <1>2, <2>1, <2>2, AbortedInTurnConverses
<1>5. QED
  BY <1>2, <1>3, <1>4, JoiningConverses, ConnectingConverses, FailingConverses, SayingConverses,
     SayingGoodbyeConverses, ServingConverses, HearingConverses, GoodbyeConverses,
     TransferringConverses, SettlingConverses, VerdictConverses, TimingOutConverses,
     AbortingConverses, NobodysStep
  DEF Next, Heard

LEMMA InitConverses == Init => SessionKept
<1>1. SUFFICES ASSUME Init PROVE SessionKept
  OBVIOUS
<1>2. ChainInv
  BY <1>1, InitChain
<1>3. TypeOK
  <2>1. <<>> \in Seq({"none"} \cup Errors) /\ <<>> \in Seq(Nat) /\ "pending" \in Outcomes
    BY DEF Outcomes
  <2>2. QED
    BY <1>1, <2>1, FreshConnections DEF Init, TypeOK
<1>4. \A c \in Calls : Dialogue(c)
  BY <1>1 DEF Init, Dialogue, Away, Running
<1>5. ASSUME NEW c \in Calls PROVE Attempting(c)
  <2>1. /\ phase[c] = "idle" /\ tries[c] = <<>> /\ Len(tries[c]) = 0
        /\ outcome[c] = "pending" /\ refused[c] = 0
    BY <1>1 DEF Init
  <2>2. Trying(c)
    BY <2>1, BoundsAssumption DEF Trying
  <2>3. QED
    BY <2>1, <2>2 DEF Attempting
<1>6. QED
  BY <1>2, <1>3, <1>4, <1>5 DEF SessionKept

(* ftps-session.ts, ftps-curl.ts, ftps-server.ts: client and server agree   *)
(* on every conversation - one command under way at a time, what has been   *)
(* received is what was sent - and every call is judged by all its attempts.*)
THEOREM ConversationsAgree == Spec => []SessionKept
BY InitConverses, StepKeepsDialogues, PTL DEF Spec

LEMMA KeptIsTrue == SessionKept => OutcomesAreTrue
<1>1. SUFFICES ASSUME SessionKept PROVE RetriesAreJudged /\ ResolvedMeansStored
  BY DEF OutcomesAreTrue
<1>2. RetriesAreJudged
  BY <1>1 DEF SessionKept, Attempting, Judged, RetriesAreJudged
<1>3. ASSUME NEW c \in Calls, Kind[c] = "curl", outcome[c] = "ok" PROVE StoredAll(c)
  <2>1. phase[c] = "settled"
    BY <1>1, <1>3 DEF SessionKept, Attempting, Trying
  <2>2. QED
    BY <1>1, <1>3, <2>1 DEF SessionKept, Dialogue, Away, Running
<1>4. QED
  BY <1>2, <1>3 DEF ResolvedMeansStored, StoredAll

(* withFtpsRetry and uploadViaCurl: an upload that resolves is on the       *)
(* printer whole, "wedged" is said after two refusals in a row and never    *)
(* before, and other errors only when trying again is over.                 *)
THEOREM OutcomesAreAlwaysTrue == Spec => []OutcomesAreTrue
BY ConversationsAgree, KeptIsTrue, PTL

-----------------------------------------------------------------------------
(* What a call leaves behind                                                *)

(* A printer holds on to a dead session only after a fault or a bare probe, *)
(* and a call whose config file is on disk is running.                      *)
TidyInv == SessionKept /\ LeavesNothingBehind /\ (silent # {} => faults > 0)

LEMMA SlotStatesDiffer ==
  /\ Free # Abandoned /\ Wedged # Abandoned /\ Probe # Abandoned
  /\ \A c \in Calls : c # Abandoned
BY CallsAssumption

LEMMA StepKeepsSlot ==
  ASSUME TidyInv, [Next]_vars
  PROVE  SlotIsReturned' /\ (silent # {} => faults > 0)'
<1>1. faults \in Nat /\ rawProbe \in {"no", "open", "over"}
  BY DEF TidyInv, SessionKept, TypeOK
<1>2. Free # Abandoned /\ Wedged # Abandoned /\ Probe # Abandoned /\ \A c \in Calls : c # Abandoned
  BY SlotStatesDiffer
<1>3. ASSUME rawProbe # "no" => rawProbe' # "no",
             \/ /\ faults' = faults /\ silent' \subseteq silent
                /\ slot' # Abandoned \/ slot' = slot \/ silent # {} \/ rawProbe' # "no"
             \/ faults' = faults + 1
      PROVE  SlotIsReturned' /\ (silent # {} => faults > 0)'
  BY <1>1, <1>3 DEF TidyInv, LeavesNothingBehind, SlotIsReturned
<1>4. CASE \E c \in Calls : \/ Request(c) \/ Wake(c) \/ AbortedInTurn(c) \/ Connect(c)
                            \/ ConnectFails(c) \/ Hear(c) \/ HearTransfer(c)
  <2>1. UNCHANGED world /\ (slot' = slot \/ slot' # Abandoned)
    BY <1>2, <1>4
    DEF Request, Wake, AbortedInTurn, Connect, ConnectFails, Hear, HearTransfer, wire
  <2>2. QED
    BY <1>3, <2>1 DEF world
<1>5. CASE \E c \in Calls : \/ Say(c) \/ SayQuit(c) \/ Serve(c) \/ OpenData(c) \/ Pump(c)
                            \/ EndData(c) \/ Settle(c)
  <2>1. UNCHANGED world /\ slot' = slot
    BY <1>5 DEF Say, SayQuit, Serve, OpenData, Pump, EndData, Settle
  <2>2. QED
    BY <1>3, <2>1 DEF world
<1>6. CASE \E c \in Calls : HearGoodbye(c)
  <2>1. UNCHANGED world /\ slot' # Abandoned
    BY <1>2, <1>6 DEF HearGoodbye, Goodbye
  <2>2. QED
    BY <1>3, <2>1 DEF world
<1>7. CASE \E c \in Calls : SpawnFails(c) \/ Silence(c) \/ Abort(c) \/ AbortEarly(c)
  <2>1. faults' = faults + 1 /\ rawProbe' = rawProbe
    BY <1>7 DEF SpawnFails, Silence, Abort, AbortEarly, Spend
  <2>2. QED
    BY <1>3, <2>1
<1>8. CASE \E c \in Calls : TimesOut(c)
  <2>1. silent # {} /\ silent' \subseteq silent /\ UNCHANGED <<faults, rawProbe>>
    BY <1>8 DEF TimesOut
  <2>2. QED
    BY <1>3, <2>1
<1>9. CASE Expire \/ Wedge \/ Reboot \/ ProbePort \/ ProbeCloses
  <2>1. /\ UNCHANGED <<faults, silent>>
        /\ rawProbe # "no" => rawProbe' # "no"
        /\ slot' # Abandoned \/ slot' = slot \/ rawProbe' # "no"
    BY <1>2, <1>9 DEF Expire, Wedge, Reboot, ProbePort, ProbeCloses, world
  <2>2. QED
    BY <1>3, <2>1
<1>10. CASE UNCHANGED vars
  BY <1>3, <1>10 DEF vars, world, wire
<1>11. QED
  BY <1>4, <1>5, <1>6, <1>7, <1>8, <1>9, <1>10 DEF Next, Heard

(* Only runCurl writes a config file, for the call it runs, and done()      *)
(* removes it before anything else of that call's end is seen.              *)
LEMMA StepKeepsSecrets ==
  ASSUME TidyInv, [Next]_vars
  PROVE  SecretsAreUnlinked'
<1>1. /\ phase \in [Calls -> Phases] /\ credentials \subseteq Calls
      /\ \A c \in credentials : phase[c] \in Running
  BY DEF TidyInv, SessionKept, ChainInv, TypeOK, LeavesNothingBehind, SecretsAreUnlinked
<1>2. CASE UNCHANGED <<phase, credentials>>
  BY <1>1, <1>2 DEF SecretsAreUnlinked
<1>3. CASE \E c \in Calls : /\ phase[c] \notin Running
                            /\ \E p \in Phases : phase' = [phase EXCEPT ![c] = p]
                            /\ credentials' \subseteq credentials \ {c}
  BY <1>1, <1>3 DEF SecretsAreUnlinked
<1>4. CASE \E c \in Calls : /\ \E p \in Running : phase' = [phase EXCEPT ![c] = p]
                            /\ credentials' \subseteq credentials \cup {c}
  BY <1>1, <1>4 DEF SecretsAreUnlinked, Phases, Running
<1>5. CASE \E c \in Calls : /\ \E p \in Phases : phase' = [phase EXCEPT ![c] = p]
                            /\ credentials' \subseteq credentials \ {c}
  BY <1>1, <1>5 DEF SecretsAreUnlinked
<1>6. \A c \in Calls : \A err : Ends(c, err) =>
        /\ \E p \in Phases : phase' = [phase EXCEPT ![c] = p]
        /\ credentials' \subseteq credentials \ {c}
  BY EndingLeaves DEF Ends, DropCredentials, Phases
<1>7. CASE \E c \in Calls : Request(c) \/ Wake(c) \/ AbortedInTurn(c)
  BY <1>1, <1>3, <1>7
  DEF Request, Wake, AbortedInTurn, Enqueue, MyTurn, Phases, Running
<1>8. CASE \E c \in Calls : Connect(c) \/ Hear(c) \/ HearTransfer(c)
  BY <1>2, <1>4, <1>8 DEF Connect, Hear, HearTransfer, Running
<1>9. CASE \E c \in Calls : ConnectFails(c) \/ SpawnFails(c) \/ HearGoodbye(c) \/ TimesOut(c)
                              \/ Abort(c)
  BY <1>5, <1>6, <1>9
  DEF ConnectFails, SpawnFails, HearGoodbye, Goodbye, TimesOut, Abort, DropCredentials, Phases
<1>10. CASE \/ \E c \in Calls : Say(c) \/ SayQuit(c) \/ Serve(c) \/ OpenData(c) \/ Pump(c)
                                 \/ EndData(c) \/ Settle(c) \/ Silence(c) \/ AbortEarly(c)
            \/ Expire \/ Wedge \/ Reboot \/ ProbePort \/ ProbeCloses \/ UNCHANGED vars
  BY <1>2, <1>10
  DEF Say, SayQuit, Serve, OpenData, Pump, EndData, Settle, Silence, AbortEarly, Expire, Wedge,
      Reboot, ProbePort, ProbeCloses, vars, client
<1>11. QED
  BY <1>7, <1>8, <1>9, <1>10 DEF Next, Heard

LEMMA InitTidy == Init => TidyInv
BY InitConverses, SlotStatesDiffer
DEF Init, TidyInv, LeavesNothingBehind, SlotIsReturned, SecretsAreUnlinked

LEMMA StepKeepsTidy == TidyInv /\ [Next]_vars => TidyInv'
<1>1. SUFFICES ASSUME TidyInv, [Next]_vars PROVE TidyInv'
  OBVIOUS
<1>2. SessionKept'
  BY <1>1, StepKeepsDialogues DEF TidyInv
<1>3. QED
  BY <1>1, <1>2, StepKeepsSlot, StepKeepsSecrets DEF TidyInv, LeavesNothingBehind

(* ftps-session.ts:17, ftps-curl.ts:20: however a call ends, the printer's  *)
(* only slot is given back unless the connection died under it, and the     *)
(* file with the access code does not outlive its curl.                     *)
THEOREM NothingIsLeftBehind == Spec => []LeavesNothingBehind
<1>1. TidyInv => LeavesNothingBehind
  BY DEF TidyInv
<1>2. QED
  BY <1>1, InitTidy, StepKeepsTidy, PTL DEF Spec

=============================================================================
