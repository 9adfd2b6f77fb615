--------------------------- MODULE PrintFarmProofs --------------------------
(***************************************************************************)
(* Theorems about PrintFarm, for every set of jobs and any number of       *)
(* disturbances.                                                           *)
(*                                                                         *)
(* The calls of the printer port are counted where they wait - in the FTPS *)
(* queue, for a status, for their continuation - and every action moves,   *)
(* makes or settles one (FarmInv).  From that follow the types, and that   *)
(* each step is one of Dispatcher's.  The statuses on their way from the   *)
(* printer to the Monitor are then shown to tell the truth about finished  *)
(* plates, and to be datable by the plates lost.                           *)
(*                                                                         *)
(* Then each row is shown to keep step with its plate while nothing times  *)
(* out, is aborted, crashes or is retried while it prints or when it has   *)
(* printed, and the stops to be ahead of the files they could end; and the *)
(* farm that nobody disturbs to do one thing at a time, which keeps the    *)
(* stocker's count.  Last, with no such restriction, the rows are shown to *)
(* follow JobLifecycle.                                                    *)
(***************************************************************************)
EXTENDS PrintFarm, DispatchLogicProofs, FiniteSetTheorems, SequenceTheorems

-----------------------------------------------------------------------------
(* How often an element occurs in a sequence                                *)

Places(seq, x) == {i \in DOMAIN seq : seq[i] = x}

Count(seq, x) == Cardinality(Places(seq, x))

Once(x, y) == IF x = y THEN 1 ELSE 0

LEMMA PlacesAreFinite ==
  ASSUME NEW T, NEW seq \in Seq(T), NEW x
  PROVE  /\ Places(seq, x) \subseteq 1 .. Len(seq)
         /\ IsFiniteSet(Places(seq, x))
         /\ Count(seq, x) \in Nat
<1>1. Len(seq) \in Nat /\ Places(seq, x) \subseteq 1 .. Len(seq)
  BY LenProperties DEF Places
<1>2. IsFiniteSet(1 .. Len(seq))
  BY <1>1, FS_Interval
<1>3. IsFiniteSet(Places(seq, x))
  BY <1>1, <1>2, FS_Subset
<1>4. QED
  BY <1>1, <1>3, FS_CardinalityType DEF Count

LEMMA CountNone ==
  ASSUME NEW x
  PROVE  Count(<<>>, x) = 0
<1>1. Places(<<>>, x) = {}
  BY DEF Places
<1>2. QED
  BY <1>1, FS_EmptySet DEF Count

LEMMA CountPositive ==
  ASSUME NEW T, NEW seq \in Seq(T), NEW x
  PROVE  Count(seq, x) > 0 <=> \E i \in DOMAIN seq : seq[i] = x
<1>1. Count(seq, x) = 0 <=> Places(seq, x) = {}
  BY PlacesAreFinite, FS_EmptySet DEF Count
<1>2. Count(seq, x) \in Nat
  BY PlacesAreFinite
<1>3. QED
  BY <1>1, <1>2 DEF Places

LEMMA CountAppend ==
  ASSUME NEW T, NEW seq \in Seq(T), NEW y \in T, NEW x
  PROVE  Count(Append(seq, y), x) = Count(seq, x) + Once(x, y)
<1>. DEFINE n == Len(seq) + 1
<1>1. /\ n \in Nat /\ n \notin Places(seq, x)
      /\ IsFiniteSet(Places(seq, x)) /\ Count(seq, x) \in Nat
  BY PlacesAreFinite, LenProperties
<1>2. /\ DOMAIN Append(seq, y) = 1 .. n
      /\ DOMAIN seq = 1 .. Len(seq)
      /\ \A i \in 1 .. Len(seq) : Append(seq, y)[i] = seq[i]
      /\ Append(seq, y)[n] = y
  BY AppendProperties, LenProperties
<1>3. Places(Append(seq, y), x) = IF x = y THEN Places(seq, x) \cup {n} ELSE Places(seq, x)
  BY <1>1, <1>2 DEF Places
<1>4. Cardinality(Places(seq, x) \cup {n}) = Cardinality(Places(seq, x)) + 1
  BY <1>1, FS_AddElement
<1>5. QED
  BY <1>1, <1>3, <1>4 DEF Count, Once

LEMMA CountConcat ==
  ASSUME NEW T, NEW s \in Seq(T), NEW t \in Seq(T), NEW x
  PROVE  Count(s \o t, x) = Count(s, x) + Count(t, x)
<1>. DEFINE m == Len(s)
            front == Places(s, x)
            back  == {i \in m + 1 .. m + Len(t) : t[i - m] = x}
            f == [i \in Places(t, x) |-> m + i]
<1>1. /\ m \in Nat /\ Len(t) \in Nat
      /\ DOMAIN s = 1 .. m /\ DOMAIN t = 1 .. Len(t)
      /\ DOMAIN (s \o t) = 1 .. m + Len(t)
      /\ \A i \in 1 .. m + Len(t) : (s \o t)[i] = IF i <= m THEN s[i] ELSE t[i - m]
  BY ConcatProperties, LenProperties
<1>2. Places(s \o t, x) = front \cup back
  BY <1>1 DEF Places
<1>3. front \cap back = {}
  BY <1>1 DEF Places
<1>4. IsFiniteSet(back) /\ Cardinality(back) = Count(t, x)
  <2>1. \A i \in Places(t, x) : m + i \in back
    BY <1>1 DEF Places
  <2>2. f \in [Places(t, x) -> back]
    BY <2>1
  <2>3. \A i, k \in Places(t, x) : f[i] = f[k] => i = k
    BY <1>1 DEF Places
  <2>4. \A b \in back : \E i \in Places(t, x) : f[i] = b
    <3>1. TAKE b \in back
    <3>2. b - m \in Places(t, x) /\ m + (b - m) = b
      BY <1>1 DEF Places
    <3>3. QED
      BY <3>2
  <2>5. f \in Bijection(Places(t, x), back)
    BY <2>2, <2>3, <2>4 DEF Bijection, Injection, Surjection, IsInjective
  <2>6. QED
    BY <2>5, PlacesAreFinite, FS_Bijection DEF ExistsBijection, Count
<1>5. Cardinality(front \cup back) = Cardinality(front) + Cardinality(back)
  <2>1. IsFiniteSet(front) /\ Cardinality(front) \in Nat
    BY PlacesAreFinite DEF Count
  <2>2. Cardinality(back) \in Nat
    BY <1>4, PlacesAreFinite
  <2>3. Cardinality(front \cap back) = 0
    BY <1>3, FS_EmptySet
  <2>4. Cardinality(front \cup back)
          = Cardinality(front) + Cardinality(back) - Cardinality(front \cap back)
    BY <1>4, <2>1, FS_Union
  <2>. HIDE DEF front, back
  <2>5. QED
    BY <2>1, <2>2, <2>3, <2>4
<1>6. QED
  BY <1>2, <1>4, <1>5 DEF Count

LEMMA CountTail ==
  ASSUME NEW T, NEW seq \in Seq(T), seq # <<>>, NEW x
  PROVE  Count(seq, x) = Count(Tail(seq), x) + Once(x, Head(seq))
<1>1. Head(seq) \in T /\ Tail(seq) \in Seq(T)
  BY HeadTailProperties
<1>2. <<Head(seq)>> \in Seq(T) /\ seq = <<Head(seq)>> \o Tail(seq)
  BY <1>1
<1>3. <<Head(seq)>> = Append(<<>>, Head(seq)) /\ <<>> \in Seq(T)
  BY <1>1
<1>4. Count(<<Head(seq)>>, x) = Count(<<>>, x) + Once(x, Head(seq))
  BY <1>1, <1>3, CountAppend
<1>5. Count(<<Head(seq)>>, x) = Once(x, Head(seq))
  BY <1>4, CountNone DEF Once
<1>6. Count(seq, x) = Count(<<Head(seq)>>, x) + Count(Tail(seq), x)
  <2>. DEFINE h == <<Head(seq)>>
              t == Tail(seq)
  <2>1. h \in Seq(T) /\ t \in Seq(T) /\ seq = h \o t
    BY <1>1, <1>2
  <2>. HIDE DEF h, t
  <2>2. Count(h \o t, x) = Count(h, x) + Count(t, x)
    BY <2>1, CountConcat
  <2>3. QED
    BY <2>1, <2>2 DEF h, t
<1>7. Count(Tail(seq), x) \in Nat
  BY <1>1, PlacesAreFinite
<1>8. QED
  BY <1>5, <1>6, <1>7 DEF Once

LEMMA CountOfThree ==
  ASSUME NEW T, NEW s \in Seq(T), NEW t \in Seq(T), NEW u \in Seq(T), NEW x
  PROVE  /\ Count(s \o t \o u, x) = Count(s, x) + Count(t, x) + Count(u, x)
         /\ Count(s, x) \in Nat /\ Count(t, x) \in Nat /\ Count(u, x) \in Nat
<1>1. s \o t \in Seq(T)
  BY ConcatProperties
<1>2. Count(s \o t, x) = Count(s, x) + Count(t, x)
  BY CountConcat
<1>3. Count((s \o t) \o u, x) = Count(s \o t, x) + Count(u, x)
  BY <1>1, CountConcat
<1>4. QED
  BY <1>2, <1>3, PlacesAreFinite

-----------------------------------------------------------------------------
(* The calls of the printer port that have not settled                      *)

States == {"IDLE", "RUNNING", "FINISH", "FAILED"}
Tasks == Jobs \union {Eject, Dry, NoTask}
Statuses == [state : States, task : Tasks]
Commands == [cmd : {"project_file", "stop", "pushall"}, task : Tasks]

JobCalls == [kind : {"start", "eject"}, job : Jobs, owner : {"monitor", "request"}]
StartCalls == {c \in JobCalls : c.kind = "start"}

CallsTyped ==
  /\ uploads \in Seq(Calls)
  /\ awaiting \in Seq(StartCalls)
  /\ resumed \in Seq(StartCalls)

Outstanding(c) == Count(UnderWay, c)

(* dispatchNext on d sends for a start.                                     *)
Sends(d, owner, c) == IF \E j \in Started(d) : c = Call("start", j, owner) THEN 1 ELSE 0

LEMMA CallsAreCalls ==
  /\ StartCalls \subseteq Calls /\ JobCalls \subseteq Calls
  /\ WizardEject \in Calls /\ Rehearsal \in Calls
  /\ \A j \in Jobs, o \in {"monitor", "request"} :
       /\ Call("start", j, o) \in StartCalls
       /\ Call("eject", j, o) \in JobCalls
BY DEF StartCalls, JobCalls, Calls, Call

LEMMA StartCallsAreCalls ==
  ASSUME NEW s \in Seq(StartCalls)
  PROVE  s \in Seq(Calls)
BY CallsAreCalls, SeqMonotonic

LEMMA OutstandingIs ==
  ASSUME CallsTyped, NEW c
  PROVE  /\ Outstanding(c) = Count(uploads, c) + Count(awaiting, c) + Count(resumed, c)
         /\ Count(uploads, c) \in Nat
         /\ Count(awaiting, c) \in Nat
         /\ Count(resumed, c) \in Nat
         /\ Outstanding(c) \in Nat
<1>1. uploads \in Seq(Calls) /\ awaiting \in Seq(Calls) /\ resumed \in Seq(Calls)
  BY StartCallsAreCalls DEF CallsTyped
<1>2. /\ Count(uploads, c) \in Nat /\ Count(awaiting, c) \in Nat /\ Count(resumed, c) \in Nat
      /\ Count(uploads \o awaiting \o resumed, c)
           = Count(uploads, c) + Count(awaiting, c) + Count(resumed, c)
  BY <1>1, CountOfThree
<1>3. QED
  BY <1>2 DEF Outstanding, UnderWay

LEMMA OutstandingIsNext ==
  ASSUME CallsTyped', NEW c
  PROVE  /\ Outstanding(c)' = Count(uploads', c) + Count(awaiting', c) + Count(resumed', c)
         /\ Count(uploads', c) \in Nat
         /\ Count(awaiting', c) \in Nat
         /\ Count(resumed', c) \in Nat
         /\ Outstanding(c)' \in Nat
<1>1. uploads' \in Seq(Calls) /\ awaiting' \in Seq(Calls) /\ resumed' \in Seq(Calls)
  BY StartCallsAreCalls DEF CallsTyped
<1>2. /\ Count(uploads', c) \in Nat /\ Count(awaiting', c) \in Nat /\ Count(resumed', c) \in Nat
      /\ Count(uploads' \o awaiting' \o resumed', c)
           = Count(uploads', c) + Count(awaiting', c) + Count(resumed', c)
  BY <1>1, CountOfThree
<1>3. QED
  BY <1>2 DEF Outstanding, UnderWay

LEMMA AdvanceSends ==
  ASSUME NEW d \in DB, NEW calls \in Seq(Calls), NEW o \in {"monitor", "request"},
         Advance(d, calls, o)
  PROVE  /\ uploads' \in Seq(Calls)
         /\ \A c : Count(uploads', c) = Count(calls, c) + Sends(d, o, c)
<1>1. CASE Started(d) = {} /\ uploads' = calls
  BY <1>1, PlacesAreFinite DEF Sends
<1>2. ASSUME NEW j \in Started(d), uploads' = Append(calls, Call("start", j, o))
      PROVE  /\ uploads' \in Seq(Calls)
             /\ \A c : Count(uploads', c) = Count(calls, c) + Sends(d, o, c)
  <2>1. j \in Jobs /\ Call("start", j, o) \in Calls
    BY <1>2, StartedInJobs, CallsAreCalls
  <2>2. \A k \in Started(d) : k = j
    BY <1>2, FirstCandidateUnique DEF Started
  <2>3. \A c : Sends(d, o, c) = Once(c, Call("start", j, o))
    BY <1>2, <2>2 DEF Sends, Once
  <2>4. QED
    BY <1>2, <2>1, <2>3, CountAppend, AppendProperties
<1>3. QED
  BY <1>1, <1>2 DEF Advance

-----------------------------------------------------------------------------
(* What the actions make of them                                            *)

Settled(k) == \A c : Outstanding(c) = Outstanding(c)' + Once(c, k)
Made(k) == \A c : Outstanding(c)' = Outstanding(c) + Once(c, k)
Kept == \A c : Outstanding(c)' = Outstanding(c)

LEMMA UploadSettles ==
  ASSUME CallsTyped, uploads # <<>>, uploads' = Tail(uploads), UNCHANGED <<awaiting, resumed>>
  PROVE  CallsTyped' /\ Settled(Head(uploads))
<1>1. CallsTyped'
  BY HeadTailProperties DEF CallsTyped
<1>2. \A c : Count(uploads, c) = Count(uploads', c) + Once(c, Head(uploads))
  BY CountTail DEF CallsTyped
<1>3. ASSUME NEW c
      PROVE  Outstanding(c) = Outstanding(c)' + Once(c, Head(uploads))
  <2>1. /\ Outstanding(c) = Count(uploads, c) + Count(awaiting, c) + Count(resumed, c)
        /\ Count(uploads, c) \in Nat /\ Count(awaiting, c) \in Nat /\ Count(resumed, c) \in Nat
    BY OutstandingIs
  <2>2. Outstanding(c)' = Count(uploads', c) + Count(awaiting', c) + Count(resumed', c)
    BY <1>1, OutstandingIsNext
  <2>3. Count(uploads', c) \in Nat /\ Count(awaiting', c) \in Nat /\ Count(resumed', c) \in Nat
    BY <1>1, OutstandingIsNext
  <2>4. QED
    BY <1>2, <2>1, <2>2, <2>3 DEF Once
<1>4. QED
  BY <1>1, <1>3 DEF Settled

LEMMA WaitSettles ==
  ASSUME CallsTyped, awaiting # <<>>, awaiting' = Tail(awaiting), UNCHANGED <<uploads, resumed>>
  PROVE  CallsTyped' /\ Settled(Head(awaiting)) /\ Head(awaiting) \in StartCalls
<1>1. CallsTyped' /\ Head(awaiting) \in StartCalls
  BY HeadTailProperties DEF CallsTyped
<1>2. \A c : Count(awaiting, c) = Count(awaiting', c) + Once(c, Head(awaiting))
  BY CountTail DEF CallsTyped
<1>3. ASSUME NEW c
      PROVE  Outstanding(c) = Outstanding(c)' + Once(c, Head(awaiting))
  <2>1. /\ Outstanding(c) = Count(uploads, c) + Count(awaiting, c) + Count(resumed, c)
        /\ Count(uploads, c) \in Nat /\ Count(awaiting, c) \in Nat /\ Count(resumed, c) \in Nat
    BY OutstandingIs
  <2>2. Outstanding(c)' = Count(uploads', c) + Count(awaiting', c) + Count(resumed', c)
    BY <1>1, OutstandingIsNext
  <2>3. Count(uploads', c) \in Nat /\ Count(awaiting', c) \in Nat /\ Count(resumed', c) \in Nat
    BY <1>1, OutstandingIsNext
  <2>4. QED
    BY <1>2, <2>1, <2>2, <2>3 DEF Once
<1>4. QED
  BY <1>1, <1>3 DEF Settled

LEMMA StartSettles ==
  ASSUME CallsTyped, resumed # <<>>, resumed' = Tail(resumed), UNCHANGED <<uploads, awaiting>>
  PROVE  CallsTyped' /\ Settled(Head(resumed)) /\ Head(resumed) \in StartCalls
<1>1. CallsTyped' /\ Head(resumed) \in StartCalls
  BY HeadTailProperties DEF CallsTyped
<1>2. \A c : Count(resumed, c) = Count(resumed', c) + Once(c, Head(resumed))
  BY CountTail DEF CallsTyped
<1>3. ASSUME NEW c
      PROVE  Outstanding(c) = Outstanding(c)' + Once(c, Head(resumed))
  <2>1. /\ Outstanding(c) = Count(uploads, c) + Count(awaiting, c) + Count(resumed, c)
        /\ Count(uploads, c) \in Nat /\ Count(awaiting, c) \in Nat /\ Count(resumed, c) \in Nat
    BY OutstandingIs
  <2>2. Outstanding(c)' = Count(uploads', c) + Count(awaiting', c) + Count(resumed', c)
    BY <1>1, OutstandingIsNext
  <2>3. Count(uploads', c) \in Nat /\ Count(awaiting', c) \in Nat /\ Count(resumed', c) \in Nat
    BY <1>1, OutstandingIsNext
  <2>4. QED
    BY <1>2, <2>1, <2>2, <2>3 DEF Once
<1>4. QED
  BY <1>1, <1>3 DEF Settled

LEMMA StartWaits ==
  ASSUME CallsTyped, StartUploaded
  PROVE  CallsTyped' /\ Kept
<1>1. /\ uploads # <<>> /\ uploads' = Tail(uploads) /\ UNCHANGED resumed
      /\ awaiting' = Append(awaiting, Head(uploads)) /\ Head(uploads).kind = "start"
  BY DEF StartUploaded
<1>2. Head(uploads) \in StartCalls /\ uploads' \in Seq(Calls)
  <2>1. Head(uploads) \in Calls /\ Tail(uploads) \in Seq(Calls)
    BY <1>1, HeadTailProperties DEF CallsTyped
  <2>2. QED
    BY <1>1, <2>1 DEF Calls, StartCalls, JobCalls, WizardEject, Rehearsal, Call
<1>3. CallsTyped'
  BY <1>1, <1>2, AppendProperties DEF CallsTyped
<1>4. \A c : Count(uploads, c) = Count(uploads', c) + Once(c, Head(uploads))
  BY <1>1, CountTail DEF CallsTyped
<1>5. \A c : Count(awaiting', c) = Count(awaiting, c) + Once(c, Head(uploads))
  BY <1>1, <1>2, CountAppend DEF CallsTyped
<1>6. ASSUME NEW c
      PROVE  Outstanding(c)' = Outstanding(c)
  <2>1. /\ Outstanding(c) = Count(uploads, c) + Count(awaiting, c) + Count(resumed, c)
        /\ Count(uploads, c) \in Nat /\ Count(awaiting, c) \in Nat /\ Count(resumed, c) \in Nat
    BY OutstandingIs
  <2>2. /\ Outstanding(c)' = Count(uploads', c) + Count(awaiting', c) + Count(resumed', c)
        /\ Count(uploads', c) \in Nat /\ Count(awaiting', c) \in Nat /\ Count(resumed', c) \in Nat
    BY <1>3, OutstandingIsNext
  <2>3. Count(resumed', c) = Count(resumed, c)
    BY <1>1
  <2>4. QED
    BY <1>4, <1>5, <2>1, <2>2, <2>3 DEF Once
<1>7. QED
  BY <1>3, <1>6 DEF Kept

LEMMA WaitsResolve ==
  ASSUME CallsTyped, UNCHANGED uploads,
         \/ UNCHANGED <<awaiting, resumed>>
         \/ awaiting' = <<>> /\ resumed' = resumed \o awaiting
  PROVE  CallsTyped' /\ Kept
<1>1. CASE UNCHANGED <<awaiting, resumed>>
  BY <1>1 DEF CallsTyped, Kept, Outstanding, UnderWay
<1>2. CASE awaiting' = <<>> /\ resumed' = resumed \o awaiting
  <2>1. CallsTyped'
    BY <1>2, ConcatProperties, EmptySeq DEF CallsTyped
  <2>2. \A c : Count(resumed', c) = Count(resumed, c) + Count(awaiting, c)
    BY <1>2, CountConcat DEF CallsTyped
  <2>3. \A c : Count(awaiting', c) = 0
    BY <1>2, CountNone
  <2>4. QED
    BY <2>1, <2>2, <2>3, OutstandingIs, OutstandingIsNext DEF Kept
<1>3. QED
  BY <1>1, <1>2

LEMMA CallIsMade ==
  ASSUME CallsTyped, NEW k \in Calls, uploads' = Append(uploads, k),
         UNCHANGED <<awaiting, resumed>>
  PROVE  CallsTyped' /\ Made(k)
<1>1. CallsTyped'
  BY AppendProperties DEF CallsTyped
<1>2. \A c : Count(uploads', c) = Count(uploads, c) + Once(c, k)
  BY CountAppend DEF CallsTyped
<1>3. QED
  BY <1>1, <1>2, OutstandingIs, OutstandingIsNext DEF Made, Once

LEMMA QueueAdvances ==
  ASSUME CallsTyped, NEW d \in DB, NEW o \in {"monitor", "request"},
         Advance(d, uploads, o), UNCHANGED <<awaiting, resumed>>
  PROVE  CallsTyped' /\ \A c : Outstanding(c)' = Outstanding(c) + Sends(d, o, c)
<1>1. /\ uploads' \in Seq(Calls)
      /\ \A c : Count(uploads', c) = Count(uploads, c) + Sends(d, o, c)
  BY AdvanceSends DEF CallsTyped
<1>2. CallsTyped'
  BY <1>1 DEF CallsTyped
<1>3. QED
  BY <1>1, <1>2, OutstandingIs, OutstandingIsNext, SMTT(30) DEF Sends

LEMMA QueueAdvancesAfter ==
  ASSUME CallsTyped, uploads # <<>>, NEW d \in DB, NEW o \in {"monitor", "request"},
         Advance(d, Tail(uploads), o), UNCHANGED <<awaiting, resumed>>
  PROVE  /\ CallsTyped'
         /\ \A c : Outstanding(c)' + Once(c, Head(uploads)) = Outstanding(c) + Sends(d, o, c)
<1>1. Tail(uploads) \in Seq(Calls)
  BY HeadTailProperties DEF CallsTyped
<1>2. /\ uploads' \in Seq(Calls)
      /\ \A c : Count(uploads', c) = Count(Tail(uploads), c) + Sends(d, o, c)
  BY <1>1, AdvanceSends
<1>3. CallsTyped'
  BY <1>2 DEF CallsTyped
<1>4. \A c : Count(uploads, c) = Count(Tail(uploads), c) + Once(c, Head(uploads))
  BY CountTail DEF CallsTyped
<1>5. \A c : Count(Tail(uploads), c) \in Nat
  BY <1>1, PlacesAreFinite
<1>6. ASSUME NEW c
      PROVE  Outstanding(c)' + Once(c, Head(uploads)) = Outstanding(c) + Sends(d, o, c)
  <2>1. /\ Outstanding(c) = Count(uploads, c) + Count(awaiting, c) + Count(resumed, c)
        /\ Count(uploads, c) \in Nat /\ Count(awaiting, c) \in Nat /\ Count(resumed, c) \in Nat
    BY OutstandingIs
  <2>2. Outstanding(c)' = Count(uploads', c) + Count(awaiting', c) + Count(resumed', c)
    BY <1>3, OutstandingIsNext
  <2>3. Count(awaiting', c) = Count(awaiting, c) /\ Count(resumed', c) = Count(resumed, c)
    OBVIOUS
  <2>4. Once(c, Head(uploads)) \in Nat /\ Sends(d, o, c) \in Nat
    BY DEF Once, Sends
  <2>5. QED
    BY <1>2, <1>4, <1>5, <2>1, <2>2, <2>3, <2>4, SMTT(30)
<1>7. QED
  BY <1>3, <1>6

LEMMA ProcessDies ==
  ASSUME awaiting' = <<>>, resumed' = <<>>, uploads' \in Seq(Calls)
  PROVE  CallsTyped' /\ \A c : Outstanding(c)' = Count(uploads', c)
<1>1. CallsTyped'
  BY EmptySeq DEF CallsTyped
<1>2. QED
  BY <1>1, OutstandingIsNext, CountNone, PlacesAreFinite

LEMMA HeadOfUploads ==
  ASSUME CallsTyped, uploads # <<>>
  PROVE  /\ Head(uploads).kind = "start" => Head(uploads) \in StartCalls
         /\ Head(uploads).kind = "eject" /\ Head(uploads).owner # "wizard"
              => Head(uploads) \in JobCalls
         /\ Head(uploads).owner # "monitor"
              => \A c \in JobCalls : c.owner = "monitor" => c # Head(uploads)
<1>1. Head(uploads) \in Calls
  BY HeadTailProperties DEF CallsTyped
<1>2. QED
  BY <1>1 DEF Calls, StartCalls, JobCalls, WizardEject, Rehearsal, Call

-----------------------------------------------------------------------------
(* The Monitor's handler is suspended in the one call it has under way      *)

Waiting(c) == [task |-> c.kind, job |-> c.job]

MonitorTyped ==
  monitor \in {Idle} \union {Ejecting(j) : j \in Jobs} \union {Starting(j) : j \in Jobs}

MonitorAccounted ==
  \A c \in JobCalls : c.owner = "monitor" => Outstanding(c) = Once(monitor, Waiting(c))

LEMMA MonitorAwaitsItsCall ==
  ASSUME CallsTyped, CallsTyped', MonitorAccounted, NEW k \in JobCalls, k.owner = "monitor",
         Settled(k)
  PROVE  monitor = Waiting(k)
<1>1. Outstanding(k) = Outstanding(k)' + 1
  BY DEF Settled, Once
<1>2. Outstanding(k)' \in Nat
  BY OutstandingIsNext
<1>3. Outstanding(k) = Once(monitor, Waiting(k))
  BY DEF MonitorAccounted
<1>4. QED
  BY <1>1, <1>2, <1>3 DEF Once

LEMMA IdleWaitsForNothing ==
  ASSUME NEW c \in JobCalls
  PROVE  Once(Idle, Waiting(c)) = 0
BY DEF Once, Idle, Waiting, JobCalls

LEMMA SettlingAccounts ==
  ASSUME CallsTyped, CallsTyped', MonitorAccounted, NEW k \in JobCalls, Settled(k),
         monitor' = IF k.owner = "monitor" THEN Idle ELSE monitor
  PROVE  MonitorAccounted'
<1>. SUFFICES ASSUME NEW c \in JobCalls, c.owner = "monitor"
              PROVE  Outstanding(c)' = Once(monitor', Waiting(c))
  BY DEF MonitorAccounted
<1>1. /\ Outstanding(c) = Outstanding(c)' + Once(c, k)
      /\ Outstanding(c)' \in Nat
      /\ Outstanding(c) = Once(monitor, Waiting(c))
  BY OutstandingIsNext DEF Settled, MonitorAccounted
<1>2. CASE k.owner # "monitor"
  BY <1>1, <1>2 DEF Once
<1>3. CASE k.owner = "monitor"
  <2>1. monitor = Waiting(k)
    BY <1>3, MonitorAwaitsItsCall
  <2>2. c # k => Waiting(c) # Waiting(k)
    BY <1>3 DEF JobCalls, Waiting
  <2>3. Outstanding(c)' = 0
    BY <1>1, <2>1, <2>2 DEF Once
  <2>4. QED
    BY <1>3, <2>3, IdleWaitsForNothing
<1>4. QED
  BY <1>2, <1>3

LEMMA OthersAccount ==
  ASSUME MonitorAccounted, UNCHANGED monitor,
         \A c \in JobCalls : c.owner = "monitor" => Outstanding(c)' = Outstanding(c)
  PROVE  MonitorAccounted'
BY DEF MonitorAccounted, Once

LEMMA RequestsSendNone ==
  ASSUME NEW d, NEW c \in JobCalls, c.owner = "monitor"
  PROVE  Sends(d, "request", c) = 0
BY DEF Sends, Call

LEMMA HandlerSuspends ==
  ASSUME CallsTyped, MonitorAccounted, monitor = Idle, NEW k \in JobCalls, k.owner = "monitor",
         Made(k), monitor' = Waiting(k)
  PROVE  MonitorAccounted'
<1>. SUFFICES ASSUME NEW c \in JobCalls, c.owner = "monitor"
              PROVE  Outstanding(c)' = Once(monitor', Waiting(c))
  BY DEF MonitorAccounted
<1>1. Outstanding(c) = 0
  BY IdleWaitsForNothing DEF MonitorAccounted
<1>2. Outstanding(c)' = Once(c, k)
  BY <1>1 DEF Made, Once
<1>3. c # k => Waiting(c) # Waiting(k)
  BY DEF JobCalls, Waiting
<1>4. QED
  BY <1>2, <1>3 DEF Once

LEMMA HandlerSends ==
  ASSUME CallsTyped, MonitorAccounted, monitor = Idle, NEW d \in DB,
         \A c : Outstanding(c)' = Outstanding(c) + Sends(d, "monitor", c),
         \/ Started(d) = {} /\ UNCHANGED monitor
         \/ \E j \in Started(d) : monitor' = Starting(j)
  PROVE  MonitorAccounted'
<1>1. CASE Started(d) = {} /\ UNCHANGED monitor
  <2>1. \A c : Sends(d, "monitor", c) = 0
    BY <1>1 DEF Sends
  <2>2. QED
    BY <1>1, <2>1, OthersAccount, OutstandingIs
<1>2. ASSUME NEW j \in Started(d), monitor' = Starting(j)
      PROVE  MonitorAccounted'
  <2>1. j \in Jobs /\ \A i \in Started(d) : i = j
    BY <1>2, StartedInJobs, FirstCandidateUnique DEF Started
  <2>. DEFINE k == Call("start", j, "monitor")
  <2>2. k \in JobCalls /\ k.owner = "monitor" /\ monitor' = Waiting(k)
    BY <1>2, <2>1 DEF JobCalls, Call, Waiting, Starting
  <2>3. Made(k)
    BY <2>1 DEF Made, Sends, Once
  <2>. HIDE DEF k
  <2>4. QED
    BY <2>2, <2>3, HandlerSuspends
<1>3. QED
  BY <1>1, <1>2

-----------------------------------------------------------------------------
(* Every step leaves the calls accounted for, and either stores a prepared  *)
(* database or runs dispatchNext on it.                                     *)

CallsInv == CallsTyped /\ MonitorTyped /\ MonitorAccounted

Stores(e) == Prepares(db, e) /\ (db' = e \/ db' = DispatchNext(e))

StepPrepares == \E e : Stores(e)

LEMMA StoredUnchanged ==
  ASSUME Sound(db), UNCHANGED db
  PROVE  StepPrepares
BY PreparesReflexive DEF StepPrepares, Stores

LEMMA Reverted ==
  ASSUME Sound(db), NEW j \in Jobs, db' = RevertStart(db, j)
  PROVE  StepPrepares
BY UpdateStatusPrepares DEF RevertStart, StepPrepares, Stores, Status, RowStatus

LEMMA SettlesInv ==
  ASSUME CallsInv, CallsTyped', NEW k \in JobCalls, Settled(k),
         monitor' = IF k.owner = "monitor" THEN Idle ELSE monitor
  PROVE  CallsInv'
BY SettlingAccounts DEF CallsInv, MonitorTyped

LEMMA KeptInv ==
  ASSUME CallsInv, CallsTyped', UNCHANGED monitor,
         \A c \in JobCalls : c.owner = "monitor" => Outstanding(c)' = Outstanding(c)
  PROVE  CallsInv'
BY OthersAccount DEF CallsInv, MonitorTyped

LEMMA StartsEnd ==
  ASSUME Sound(db), CallsInv, StartUploadFails \/ StartTimesOut \/ StartResumes
  PROVE  CallsInv' /\ StepPrepares
<1>1. ASSUME NEW k \in StartCalls, CallsTyped', Settled(k),
             monitor' = IF k.owner = "monitor" THEN Idle ELSE monitor
      PROVE  CallsInv'
  BY <1>1, SettlesInv DEF StartCalls
<1>2. CASE StartUploadFails
  <2>1. CallsTyped' /\ Settled(Head(uploads)) /\ Head(uploads) \in StartCalls
    BY <1>2, UploadSettles, HeadOfUploads DEF StartUploadFails, CallsInv
  <2>2. CallsInv'
    BY <1>1, <1>2, <2>1 DEF StartUploadFails, StartFails
  <2>3. StepPrepares
    BY <1>2, <2>1, Reverted DEF StartUploadFails, StartFails, StartCalls, JobCalls
  <2>4. QED
    BY <2>2, <2>3
<1>3. CASE StartTimesOut
  <2>1. CallsTyped' /\ Settled(Head(awaiting)) /\ Head(awaiting) \in StartCalls
    BY <1>3, WaitSettles DEF StartTimesOut, CallsInv
  <2>2. CallsInv'
    BY <1>1, <1>3, <2>1 DEF StartTimesOut, StartFails
  <2>3. StepPrepares
    BY <1>3, <2>1, Reverted DEF StartTimesOut, StartFails, StartCalls, JobCalls
  <2>4. QED
    BY <2>2, <2>3
<1>4. CASE StartResumes
  <2>1. CallsTyped' /\ Settled(Head(resumed)) /\ Head(resumed) \in StartCalls
    BY <1>4, StartSettles DEF StartResumes, CallsInv
  <2>2. CallsInv'
    BY <1>1, <1>4, <2>1 DEF StartResumes
  <2>3. StepPrepares
    BY <1>4, StoredUnchanged DEF StartResumes
  <2>4. QED
    BY <2>2, <2>3
<1>5. QED
  BY <1>2, <1>3, <1>4

LEMMA OtherUploadsEnd ==
  ASSUME Sound(db), CallsInv,
         StartUploaded \/ EjectUploadFails \/ RehearsalUploaded \/ RehearsalUploadFails
  PROVE  CallsInv' /\ StepPrepares
<1>1. StepPrepares
  BY StoredUnchanged
  DEF StartUploaded, EjectUploadFails, RehearsalUploaded, RehearsalUploadFails
<1>2. CASE StartUploaded
  <2>1. UNCHANGED monitor
    BY <1>2 DEF StartUploaded
  <2>2. QED
    BY <1>1, <1>2, <2>1, StartWaits, KeptInv DEF CallsInv, Kept
<1>3. CASE EjectUploadFails
  <2>1. CallsTyped' /\ Settled(Head(uploads)) /\ uploads # <<>>
    BY <1>3, UploadSettles DEF EjectUploadFails, CallsInv
  <2>2. CASE Head(uploads).owner = "wizard"
    <3>1. UNCHANGED monitor
      BY <1>3, <2>2 DEF EjectUploadFails
    <3>2. \A c \in JobCalls : c.owner = "monitor" => Once(c, Head(uploads)) = 0
      BY <2>1, <2>2, HeadOfUploads DEF CallsInv, Once
    <3>3. \A c : Outstanding(c)' \in Nat
      BY <2>1, OutstandingIsNext
    <3>4. QED
      BY <1>1, <2>1, <3>1, <3>2, <3>3, KeptInv DEF Settled
  <2>3. CASE Head(uploads).owner # "wizard"
    <3>1. Head(uploads) \in JobCalls
      BY <1>3, <2>1, <2>3, HeadOfUploads DEF EjectUploadFails, CallsInv
    <3>2. QED
      BY <1>1, <1>3, <2>1, <3>1, SettlesInv DEF EjectUploadFails
  <2>4. QED
    BY <2>2, <2>3
<1>4. CASE RehearsalUploaded \/ RehearsalUploadFails
  <2>1. /\ uploads # <<>> /\ Head(uploads) = Rehearsal
        /\ uploads' = Tail(uploads) /\ UNCHANGED <<awaiting, resumed, monitor>>
    BY <1>4 DEF RehearsalUploaded, RehearsalUploadFails
  <2>2. CallsTyped' /\ Settled(Head(uploads))
    BY <2>1, UploadSettles DEF CallsInv
  <2>3. \A c \in JobCalls : Once(c, Head(uploads)) = 0
    BY <2>1 DEF JobCalls, Rehearsal, Call, Once
  <2>4. \A c : Outstanding(c)' \in Nat
    BY <2>2, OutstandingIsNext
  <2>5. QED
    BY <1>1, <2>1, <2>2, <2>3, <2>4, KeptInv DEF Settled
<1>5. QED
  BY <1>2, <1>3, <1>4

LEMMA EjectEnds ==
  ASSUME Sound(db), CallsInv, EjectUploaded
  PROVE  CallsInv' /\ StepPrepares
<1>. DEFINE k == Head(uploads)
<1>1. uploads # <<>> /\ k.kind = "eject" /\ UNCHANGED <<awaiting, resumed>>
  BY DEF EjectUploaded
<1>2. k.owner # "wizard" => k \in JobCalls /\ k.job \in Jobs
  BY <1>1, HeadOfUploads DEF CallsInv, JobCalls
<1>3. uploads' = Tail(uploads) => CallsTyped' /\ Settled(k)
  BY <1>1, UploadSettles DEF CallsInv
<1>4. k.owner # "monitor" => \A c \in JobCalls : c.owner = "monitor" => Once(c, k) = 0
  BY <1>1, HeadOfUploads DEF CallsInv, Once
<1>5. CASE k.owner = "monitor" /\ db' = FailEnd(db, k.job) /\ monitor' = Idle
           /\ uploads' = Tail(uploads)
  <2>1. StepPrepares
    BY <1>2, <1>5, FailEndPrepares DEF StepPrepares, Stores
  <2>2. QED
    BY <1>2, <1>3, <1>5, <2>1, SettlesInv
<1>6. CASE k.owner = "request" /\ AbortThrows(db) /\ db' = MarkAborted(db, k.job)
           /\ uploads' = Tail(uploads) /\ UNCHANGED monitor
  <2>1. StepPrepares
    BY <1>2, <1>6, AbortedPrepares DEF StepPrepares, Stores
  <2>2. QED
    BY <1>2, <1>3, <1>6, <2>1, SettlesInv
<1>7. CASE k.owner = "request" /\ ~AbortThrows(db) /\ UNCHANGED monitor
           /\ Advance(Aborted(db, k.job), Tail(uploads), "request")
  <2>1. Prepares(db, Aborted(db, k.job))
    BY <1>2, <1>7, AbortedPrepares
  <2>2. StepPrepares
    BY <1>7, <2>1 DEF Advance, StepPrepares, Stores
  <2>3. /\ CallsTyped'
        /\ \A c : Outstanding(c)' + Once(c, k)
                    = Outstanding(c) + Sends(Aborted(db, k.job), "request", c)
    BY <1>1, <1>7, <2>1, QueueAdvancesAfter DEF CallsInv, Prepares, Sound
  <2>4. \A c : Outstanding(c)' \in Nat /\ Outstanding(c) \in Nat
    BY <2>3, OutstandingIs, OutstandingIsNext DEF CallsInv
  <2>5. \A c \in JobCalls : c.owner = "monitor" => Outstanding(c)' = Outstanding(c)
    BY <1>4, <1>7, <2>3, <2>4, RequestsSendNone
  <2>6. QED
    BY <1>7, <2>2, <2>3, <2>5, KeptInv
<1>8. CASE k.owner = "wizard" /\ uploads' = Tail(uploads) /\ UNCHANGED <<db, monitor>>
  <2>1. StepPrepares
    BY <1>8, StoredUnchanged
  <2>2. \A c : Outstanding(c)' \in Nat
    BY <1>3, <1>8, OutstandingIsNext
  <2>3. QED
    BY <1>3, <1>4, <1>8, <2>1, <2>2, KeptInv DEF Settled
<1>9. QED
  BY <1>5, <1>6, <1>7, <1>8 DEF EjectUploaded

LEMMA CurrentJobIsPrinting ==
  ASSUME NEW s, NEW j \in CurrentJob(s)
  PROVE  j \in Jobs /\ db.status[j] = "printing" /\ s.task = j
BY DEF CurrentJob, ByStatus

LEMMA Handled ==
  ASSUME Sound(db), CallsInv, Handle
  PROVE  CallsInv' /\ StepPrepares
<1>. DEFINE s == Head(chain)
            ended == IF Repeated(s) THEN {} ELSE CurrentJob(s)
<1>1. monitor = Idle /\ UNCHANGED <<awaiting, resumed>>
  BY DEF Handle, HandlerFree
<1>2. \A j \in ended : j \in Jobs
  BY CurrentJobIsPrinting
<1>3. CASE UNCHANGED <<db, uploads, monitor>>
  BY <1>1, <1>3, StoredUnchanged, WaitsResolve, KeptInv DEF CallsInv, Kept
<1>4. ASSUME NEW j \in ended, db' = MarkSuccess(db, j), UNCHANGED <<uploads, monitor>>
      PROVE  CallsInv' /\ StepPrepares
  <2>1. StepPrepares
    BY <1>2, <1>4, UpdateStatusPrepares DEF MarkSuccess, StepPrepares, Stores, Status, RowStatus
  <2>2. QED
    BY <1>1, <1>4, <2>1, WaitsResolve, KeptInv DEF CallsInv, Kept
<1>5. ASSUME NEW j \in ended, ~FinishThrows(db),
             Advance(Finished(db, j), uploads, "monitor"),
             \/ Started(Finished(db, j)) = {} /\ UNCHANGED monitor
             \/ \E k \in Started(Finished(db, j)) : monitor' = Starting(k)
      PROVE  CallsInv' /\ StepPrepares
  <2>. DEFINE d == Finished(db, j)
  <2>1. Prepares(db, d)
    BY <1>2, <1>5, FinishedPrepares
  <2>2. d \in DB /\ Started(d) \subseteq Jobs
    BY <2>1, StartedInJobs DEF Prepares, Sound
  <2>3. StepPrepares
    BY <1>5, <2>1 DEF Advance, StepPrepares, Stores
  <2>. HIDE DEF d
  <2>4. CallsTyped' /\ \A c : Outstanding(c)' = Outstanding(c) + Sends(d, "monitor", c)
    BY <1>1, <1>5, <2>2, QueueAdvances DEF CallsInv, d
  <2>5. MonitorAccounted'
    BY <1>1, <1>5, <2>2, <2>4, HandlerSends DEF CallsInv, d
  <2>6. MonitorTyped'
    BY <1>5, <2>2 DEF CallsInv, MonitorTyped, d
  <2>7. QED
    BY <2>3, <2>4, <2>5, <2>6 DEF CallsInv
<1>6. ASSUME NEW j \in ended, db' = FailBegin(db, j), monitor' = Ejecting(j),
             uploads' = Append(uploads, Call("eject", j, "monitor"))
      PROVE  CallsInv' /\ StepPrepares
  <2>. DEFINE k == Call("eject", j, "monitor")
  <2>1. StepPrepares
    BY <1>2, <1>6, FailBeginPrepares DEF StepPrepares, Stores
  <2>2. k \in JobCalls /\ k \in Calls /\ k.owner = "monitor" /\ monitor' = Waiting(k)
    BY <1>2, <1>6 DEF JobCalls, Calls, Call, Waiting, Ejecting
  <2>. HIDE DEF k
  <2>3. CallsTyped' /\ Made(k)
    BY <1>1, <1>6, <2>2, CallIsMade DEF CallsInv, k
  <2>4. MonitorAccounted'
    BY <1>1, <2>2, <2>3, HandlerSuspends DEF CallsInv
  <2>5. MonitorTyped'
    BY <1>2, <1>6 DEF MonitorTyped
  <2>6. QED
    BY <2>1, <2>3, <2>4, <2>5 DEF CallsInv
<1>7. QED
  BY <1>3, <1>4, <1>5, <1>6 DEF Handle

LEMMA RequestAdvances ==
  ASSUME Sound(db), CallsInv, NEW d, Prepares(db, d), Advance(d, uploads, "request"),
         UNCHANGED <<awaiting, resumed, monitor>>
  PROVE  CallsInv' /\ StepPrepares
<1>1. StepPrepares
  BY DEF Advance, StepPrepares, Stores
<1>2. CallsTyped' /\ \A c : Outstanding(c)' = Outstanding(c) + Sends(d, "request", c)
  BY QueueAdvances DEF CallsInv, Prepares, Sound
<1>3. \A c \in JobCalls : c.owner = "monitor" => Outstanding(c)' = Outstanding(c)
  BY <1>2, RequestsSendNone, OutstandingIs DEF CallsInv
<1>4. QED
  BY <1>1, <1>2, <1>3, KeptInv

LEMMA RequestCalls ==
  ASSUME Sound(db), CallsInv, NEW k \in Calls, k.owner # "monitor",
         uploads' = Append(uploads, k), UNCHANGED <<db, awaiting, resumed, monitor>>
  PROVE  CallsInv' /\ StepPrepares
<1>1. CallsTyped' /\ Made(k)
  BY CallIsMade DEF CallsInv
<1>2. \A c \in JobCalls : c.owner = "monitor" => Outstanding(c)' = Outstanding(c)
  BY <1>1, OutstandingIs DEF Made, Once, CallsInv
<1>3. QED
  BY <1>1, <1>2, KeptInv, StoredUnchanged

LEMMA Requested ==
  ASSUME Sound(db), CallsInv, Requests
  PROVE  CallsInv' /\ StepPrepares
<1>1. ASSUME NEW j \in Jobs, Abort(j)
      PROVE  CallsInv' /\ StepPrepares
  <2>1. Call("eject", j, "request") \in Calls /\ Call("eject", j, "request").owner = "request"
    BY DEF Call, Calls
  <2>2. QED
    BY <1>1, <2>1, RequestCalls DEF Abort
<1>2. ASSUME NEW j \in Jobs, Retry(j)
      PROVE  CallsInv' /\ StepPrepares
  BY <1>2, RequeuedPrepares, RequestAdvances DEF Retry
<1>3. CASE Refill
  BY <1>3, RefillPrepares, RequestAdvances DEF Refill
<1>4. CASE Rehearse
  <2>1. Rehearsal \in Calls /\ Rehearsal.owner = "wizard"
    BY DEF Calls, Rehearsal, Call
  <2>2. QED
    BY <1>4, <2>1, RequestCalls DEF Rehearse
<1>5. CASE WizardEjects
  <2>1. WizardEject \in Calls /\ WizardEject.owner = "wizard"
    BY DEF Calls, WizardEject, Call
  <2>2. QED
    BY <1>5, <2>1, RequestCalls DEF WizardEjects
<1>6. QED
  BY <1>1, <1>2, <1>3, <1>4, <1>5 DEF Requests

LEMMA RequeuePrepares ==
  ASSUME NEW d, Sound(d), NEW js
  PROVE  Prepares(d, Requeue(d, js))
BY DEF Requeue, DB, Status, RowStatus, Prepares, StartsNothing, Sound, StockerOK

LEMMA Rebooted ==
  ASSUME Sound(db), CallsInv, Crash \/ Reconcile
  PROVE  CallsInv' /\ StepPrepares
<1>1. CASE Reconcile
  BY <1>1, PreparesReflexive, RequeuePrepares, RequestAdvances DEF Reconcile
<1>2. CASE Crash
  <2>1. MonitorTyped' /\ monitor' = Idle
    BY <1>2 DEF Crash, MonitorTyped
  <2>2. CASE uploads' = <<>> /\ UNCHANGED db
    <3>1. CallsTyped' /\ \A c : Outstanding(c)' = 0
      BY <1>2, <2>2, ProcessDies, EmptySeq, CountNone DEF Crash
    <3>2. QED
      BY <2>1, <2>2, <3>1, IdleWaitsForNothing, StoredUnchanged DEF CallsInv, MonitorAccounted
  <2>3. CASE Advance(db, <<>>, "request")
    <3>1. /\ uploads' \in Seq(Calls)
          /\ \A c : Count(uploads', c) = Count(<<>>, c) + Sends(db, "request", c)
      BY <2>3, AdvanceSends, EmptySeq DEF Sound
    <3>2. CallsTyped' /\ \A c : Outstanding(c)' = Count(uploads', c)
      BY <1>2, <3>1, ProcessDies DEF Crash
    <3>3. \A c \in JobCalls : c.owner = "monitor" => Outstanding(c)' = 0
      BY <3>1, <3>2, RequestsSendNone, CountNone
    <3>4. StepPrepares
      BY <2>3, PreparesReflexive DEF Advance, StepPrepares, Stores
    <3>5. QED
      BY <2>1, <3>2, <3>3, <3>4, IdleWaitsForNothing DEF CallsInv, MonitorAccounted
  <2>4. QED
    BY <1>2, <2>2, <2>3 DEF Crash
<1>3. QED
  BY <1>1, <1>2

LEMMA NetworkMoves ==
  ASSUME Sound(db), CallsInv,
         Deliver \/ BootTimesOut \/ Drop \/ Reconnect \/ Hardware \/ UNCHANGED vars
  PROVE  CallsInv' /\ StepPrepares
<1>1. UNCHANGED <<db, uploads, monitor>>
  BY DEF Deliver, BootTimesOut, Drop, Reconnect, Hardware, Receive, Refuse, Finish, Fail,
         Repeat, vars, process
<1>2. \/ UNCHANGED <<awaiting, resumed>>
      \/ awaiting' = <<>> /\ resumed' = resumed \o awaiting
  BY DEF Deliver, BootTimesOut, Drop, Reconnect, Hardware, Receive, Refuse, Finish, Fail,
         Repeat, vars, process
<1>3. CallsTyped' /\ Kept
  BY <1>1, <1>2, WaitsResolve DEF CallsInv
<1>4. QED
  BY <1>1, <1>3, StoredUnchanged, KeptInv DEF Kept

LEMMA StepsPrepare ==
  ASSUME Sound(db), CallsInv, [Next]_vars
  PROVE  CallsInv' /\ StepPrepares
BY StartsEnd, OtherUploadsEnd, EjectEnds, Handled, Requested, Rebooted, NetworkMoves
DEF Next, Microtask, Transfers, Faults

-----------------------------------------------------------------------------
(* The queue on its real printer                                            *)

FarmInv == Sound(db) /\ OnePrinting(db) /\ CallsInv

LEMMA InitialQueue == Sound(InitDB) /\ OnePrinting(InitDB)
<1>1. Plates \in Nat /\ \A j \in Jobs : j \in Nat
  BY FarmAssumption, JobsAssumption
<1>2. InitDB \in DB
  BY <1>1 DEF InitDB, FreshDB, Queued, DB, Status, RowStatus, Policy
<1>3. StockerOK(InitDB) /\ OnePrinting(InitDB)
  BY <1>1 DEF InitDB, FreshDB, Queued, StockerOK, OnePrinting, ByStatus
<1>4. QED
  BY <1>2, <1>3 DEF Sound

LEMMA FarmInvInitially == Init => FarmInv
<1>. SUFFICES ASSUME Init PROVE FarmInv
  OBVIOUS
<1>1. Sound(db) /\ OnePrinting(db)
  BY InitialQueue, DispatchNextSound, DispatchNextKeepsOnePrinting DEF Init, Sound
<1>2. uploads \in Seq(Calls) /\ \A c \in JobCalls : c.owner = "monitor" => Count(uploads, c) = 0
  <2>1. CASE uploads = <<>>
    BY <2>1, EmptySeq, CountNone
  <2>2. ASSUME NEW j \in Started(InitDB), uploads = <<Call("start", j, "request")>>
        PROVE  /\ uploads \in Seq(Calls)
               /\ \A c \in JobCalls : c.owner = "monitor" => Count(uploads, c) = 0
    <3>1. Call("start", j, "request") \in Calls
      BY <2>2, StartedInJobs DEF Calls, Call
    <3>2. uploads = Append(<<>>, Call("start", j, "request")) /\ <<>> \in Seq(Calls)
      BY <2>2, <3>1
    <3>3. \A c : Count(uploads, c) = Count(<<>>, c) + Once(c, Call("start", j, "request"))
      BY <3>1, <3>2, CountAppend
    <3>4. \A c \in JobCalls : c.owner = "monitor" => Once(c, Call("start", j, "request")) = 0
      BY DEF Once, Call
    <3>5. QED
      BY <3>1, <3>2, <3>3, <3>4, CountNone, AppendProperties
  <2>3. QED
    BY <2>1, <2>2 DEF Init
<1>3. CallsTyped
  BY <1>2, EmptySeq DEF Init, CallsTyped
<1>4. \A c \in JobCalls : c.owner = "monitor" => Outstanding(c) = 0
  BY <1>2, <1>3, OutstandingIs, CountNone DEF Init
<1>5. MonitorTyped /\ MonitorAccounted
  BY <1>4, IdleWaitsForNothing DEF Init, MonitorTyped, MonitorAccounted
<1>6. QED
  BY <1>1, <1>3, <1>5 DEF FarmInv, CallsInv

LEMMA FarmInvInductive == FarmInv /\ [Next]_vars => FarmInv'
<1>. SUFFICES ASSUME FarmInv, [Next]_vars PROVE FarmInv'
  OBVIOUS
<1>1. CallsInv' /\ StepPrepares
  BY StepsPrepare DEF FarmInv
<1>2. PICK e : Stores(e)
  BY <1>1 DEF StepPrepares
<1>3. Sound(e) /\ OnePrinting(e)
  BY <1>2 DEF Stores, Prepares, StartsNothing, FarmInv, OnePrinting, ByStatus
<1>4. Sound(db') /\ OnePrinting(db')
  BY <1>2, <1>3, DispatchNextSound, DispatchNextKeepsOnePrinting DEF Stores, Sound
<1>5. QED
  BY <1>1, <1>4 DEF FarmInv

LEMMA FarmInvAlways == Spec => []FarmInv
BY FarmInvInitially, FarmInvInductive, PTL DEF Spec

-----------------------------------------------------------------------------
(* Records                                                                  *)

RecordsTyped ==
  /\ chain \in Seq(Statuses) /\ reports \in Seq(Statuses)
  /\ lastKey \in Statuses \union {NoKey}
  /\ commands \in Seq(Commands)
  /\ printer \in Statuses
  /\ made \in [Jobs -> Nat] /\ lost \in [Jobs -> Nat]
  /\ spent \in [Events -> Nat]

LEMMA PublishTyped ==
  ASSUME commands \in Seq(Commands), NEW c \in Commands, Publish(<<c>>)
  PROVE  commands' \in Seq(Commands)
<1>1. <<c>> \in Seq(Commands)
  OBVIOUS
<1>2. QED
  BY <1>1, ConcatProperties DEF Publish

LEMMA CommandsTyped ==
  /\ Stop \in Commands /\ PushAll \in Commands /\ WizardStop \in Commands
  /\ File(Eject) \in Commands /\ File(Dry) \in Commands
  /\ \A j \in Jobs : File(j) \in Commands
BY DEF Stop, PushAll, WizardStop, File, Commands, Tasks

LEMMA SpendTyped ==
  ASSUME spent \in [Events -> Nat], NEW e, Spend(e)
  PROVE  spent' \in [Events -> Nat]
<1>1. e \in Events => spent[e] + 1 \in Nat
  OBVIOUS
<1>2. QED
  BY <1>1 DEF Spend

LEMMA BecomesTyped ==
  ASSUME reports \in Seq(Statuses), NEW s \in States, NEW t \in Tasks, Becomes(s, t)
  PROVE  printer' \in Statuses /\ reports' \in Seq(Statuses) /\ printer' = Report(s, t)
<1>1. Report(s, t) \in Statuses
  BY DEF Report, Statuses
<1>2. QED
  BY <1>1, AppendProperties DEF Becomes, Emit

LEMMA OneMoreTyped ==
  ASSUME NEW count \in [Jobs -> Nat]
  PROVE  OneMore(count) \in [Jobs -> Nat]
BY DEF OneMore

LEMMA RecordsInitially == Init => RecordsTyped
BY EmptySeq, CommandsTyped, PublishTyped
DEF Init, RecordsTyped, NoKey, Report, Statuses, States, Tasks

LEMMA ProcessKeepsRecords ==
  ASSUME RecordsTyped, CallsTyped,
         Microtask \/ Transfers \/ StartTimesOut \/ BootTimesOut \/ Deliver \/ Faults \/ Requests
           \/ Reconnect \/ UNCHANGED vars
  PROVE  RecordsTyped'
<1>1. UNCHANGED machine /\ printer' \in Statuses /\ made' \in [Jobs -> Nat] /\ lost' \in [Jobs -> Nat]
  BY DEF Microtask, Handle, StartResumes, Reconcile, Transfers, StartUploaded, EjectUploaded,
         RehearsalUploaded, StartTimesOut, BootTimesOut, Deliver, Faults, StartUploadFails,
         EjectUploadFails, RehearsalUploadFails, Drop, Crash, Requests, Abort, Retry, Refill,
         Rehearse, WizardEjects, Reconnect, vars, machine, RecordsTyped
<1>2. spent' \in [Events -> Nat]
  BY SpendTyped
  DEF Microtask, Handle, StartResumes, Reconcile, Transfers, StartUploaded, EjectUploaded,
         RehearsalUploaded, StartTimesOut, BootTimesOut, Deliver, Faults, StartUploadFails,
         EjectUploadFails, RehearsalUploadFails, Drop, Crash, Requests, Abort, Retry, Refill,
         Rehearse, WizardEjects, Reconnect, vars, RecordsTyped
<1>3. reports' \in Seq(Statuses)
  BY EmptySeq, HeadTailProperties
  DEF Microtask, Handle, StartResumes, Reconcile, Transfers, StartUploaded, EjectUploaded,
         RehearsalUploaded, StartTimesOut, BootTimesOut, Deliver, Faults, StartUploadFails,
         EjectUploadFails, RehearsalUploadFails, Drop, Crash, Requests, Abort, Retry, Refill,
         Rehearse, WizardEjects, Reconnect, vars, network, RecordsTyped
<1>4. chain' \in Seq(Statuses) /\ lastKey' \in Statuses \union {NoKey}
  <2>1. CASE Handle
    BY <2>1, HeadTailProperties DEF Handle, RecordsTyped
  <2>2. CASE Deliver
    BY <2>2, HeadTailProperties, AppendProperties DEF Deliver, RecordsTyped
  <2>3. CASE Crash
    BY <2>3, EmptySeq DEF Crash
  <2>4. CASE UNCHANGED <<chain, lastKey>>
    BY <2>4 DEF RecordsTyped
  <2>5. Handle \/ Deliver \/ Crash \/ UNCHANGED <<chain, lastKey>>
    BY DEF Microtask, StartResumes, Reconcile, Transfers, StartUploaded, EjectUploaded,
           RehearsalUploaded, StartTimesOut, BootTimesOut, Faults, StartUploadFails,
           EjectUploadFails, RehearsalUploadFails, Drop, Requests, Abort, Retry, Refill,
           Rehearse, WizardEjects, Reconnect, vars, process
  <2>6. QED
    BY <2>1, <2>2, <2>3, <2>4, <2>5
<1>5. commands' \in Seq(Commands)
  <2>1. StartUploaded => Head(uploads).job \in Jobs
    BY HeadOfUploads DEF StartUploaded, StartCalls, JobCalls
  <2>2. \A c \in Commands : Publish(<<c>>) => commands' \in Seq(Commands)
    BY PublishTyped DEF RecordsTyped
  <2>3. <<PushAll>> \in Seq(Commands)
    BY CommandsTyped
  <2>4. QED
    BY <2>1, <2>2, <2>3, EmptySeq, CommandsTyped
    DEF Microtask, Handle, StartResumes, Reconcile, Transfers, StartUploaded, EjectUploaded,
         RehearsalUploaded, StartTimesOut, BootTimesOut, Deliver, Faults, StartUploadFails,
         EjectUploadFails, RehearsalUploadFails, Drop, Crash, Requests, Abort, Retry, Refill,
         Rehearse, WizardEjects, Reconnect, vars, network, RecordsTyped
<1>6. QED
  BY <1>1, <1>2, <1>3, <1>4, <1>5 DEF RecordsTyped

(* What a step of the printer does to it.                                   *)
PrinterSteps ==
  \/ \E t \in Tasks : Becomes("RUNNING", t) /\ UNCHANGED <<made, lost>>
  \/ printer.state = "RUNNING" /\ Spoil /\ UNCHANGED made
  \/ printer.state = "RUNNING" /\ Becomes("FINISH", printer.task)
       /\ made' = OneMore(made) /\ UNCHANGED lost
  \/ Becomes(printer.state, printer.task) /\ UNCHANGED <<made, lost>>
  \/ UNCHANGED <<printer, reports, made, lost>>

LEMMA HardwareSteps ==
  ASSUME RecordsTyped, Hardware
  PROVE  /\ PrinterSteps
         /\ UNCHANGED <<chain, lastKey, db>>
         /\ commands' \in Seq(Commands)
         /\ spent' \in [Events -> Nat]
<1>1. CASE Receive
  <2>1. Head(commands) \in Commands /\ Tail(commands) \in Seq(Commands)
    BY <1>1, HeadTailProperties DEF Receive, RecordsTyped
  <2>2. Head(commands).task \in Tasks
    BY <2>1 DEF Commands
  <2>3. QED
    BY <1>1, <2>1, <2>2 DEF Receive, PrinterSteps, process, RecordsTyped
<1>2. CASE Refuse
  BY <1>2, HeadTailProperties, SpendTyped
  DEF Refuse, PrinterSteps, process, machine, RecordsTyped
<1>3. CASE Finish
  BY <1>3 DEF Finish, PrinterSteps, process, RecordsTyped
<1>4. CASE Fail
  BY <1>4, SpendTyped DEF Fail, PrinterSteps, process, RecordsTyped
<1>5. CASE Repeat
  <2>1. printer = Report(printer.state, printer.task)
    BY DEF RecordsTyped, Statuses, Report
  <2>2. QED
    BY <1>5, <2>1 DEF Repeat, Becomes, PrinterSteps, process, machine, RecordsTyped
<1>6. QED
  BY <1>1, <1>2, <1>3, <1>4, <1>5 DEF Hardware

LEMMA HardwareKeepsRecords ==
  ASSUME RecordsTyped, Hardware
  PROVE  RecordsTyped'
<1>1. printer.state \in States /\ printer.task \in Tasks /\ {"RUNNING", "FINISH", "FAILED"} \subseteq States
  BY DEF RecordsTyped, Statuses, States
<1>2. \A s \in States, t \in Tasks :
        Becomes(s, t) => printer' \in Statuses /\ reports' \in Seq(Statuses)
  BY BecomesTyped DEF RecordsTyped
<1>3. printer' \in Statuses /\ reports' \in Seq(Statuses)
  BY <1>1, <1>2, HardwareSteps DEF PrinterSteps, Spoil, RecordsTyped
<1>4. made' \in [Jobs -> Nat] /\ lost' \in [Jobs -> Nat]
  BY HardwareSteps, OneMoreTyped DEF PrinterSteps, Spoil, RecordsTyped
<1>5. QED
  BY <1>3, <1>4, HardwareSteps DEF RecordsTyped

LEMMA RecordsInductive == RecordsTyped /\ CallsTyped /\ [Next]_vars => RecordsTyped'
BY ProcessKeepsRecords, HardwareKeepsRecords DEF Next

(* TypeOK: the records and the calls keep their types, and the Monitor's    *)
(* handler is suspended exactly while one call of its own has not settled.  *)
LEMMA RecordsAlways == Spec => []RecordsTyped
<1>1. FarmInv => CallsTyped
  BY DEF FarmInv, CallsInv
<1>2. QED
  BY <1>1, FarmInvAlways, RecordsInitially, RecordsInductive, PTL DEF Spec

LEMMA UnderWayIsCalls ==
  ASSUME CallsTyped
  PROVE  UnderWay \in Seq(Calls)
<1>1. uploads \in Seq(Calls) /\ awaiting \in Seq(Calls) /\ resumed \in Seq(Calls)
  BY StartCallsAreCalls DEF CallsTyped
<1>2. uploads \o awaiting \in Seq(Calls)
  BY <1>1, ConcatProperties
<1>3. QED
  BY <1>1, <1>2, ConcatProperties DEF UnderWay

LEMMA TypesFollow == FarmInv /\ RecordsTyped => TypeOK
<1>. SUFFICES ASSUME FarmInv, RecordsTyped PROVE TypeOK
  OBVIOUS
<1>1. CallsTyped /\ MonitorTyped /\ MonitorAccounted /\ db \in DB
  BY DEF FarmInv, CallsInv, Sound
<1>2. UnderWay \in Seq(Calls) /\ \A i \in DOMAIN UnderWay : UnderWay[i] \in Calls
  BY <1>1, UnderWayIsCalls, ElementOfSeq
<1>3. \A c : Outstanding(c) > 0 <=> \E i \in DOMAIN UnderWay : UnderWay[i] = c
  BY <1>2, CountPositive DEF Outstanding
<1>4. ASSUME monitor = Idle, NEW i \in DOMAIN UnderWay, UnderWay[i].owner = "monitor"
      PROVE  FALSE
  <2>1. UnderWay[i] \in JobCalls
    BY <1>2, <1>4 DEF Calls, JobCalls, WizardEject, Rehearsal, Call
  <2>2. Outstanding(UnderWay[i]) = 0
    BY <1>1, <1>4, <2>1, IdleWaitsForNothing DEF MonitorAccounted
  <2>3. QED
    BY <1>3, <2>2
<1>5. ASSUME monitor # Idle
      PROVE  \E i \in DOMAIN UnderWay : UnderWay[i] = Call(monitor.task, monitor.job, "monitor")
  <2>. DEFINE c == Call(monitor.task, monitor.job, "monitor")
  <2>1. c \in JobCalls /\ c.owner = "monitor" /\ Waiting(c) = monitor
    BY <1>1, <1>5 DEF MonitorTyped, JobCalls, Call, Waiting, Starting, Ejecting
  <2>2. Outstanding(c) = 1
    BY <1>1, <2>1 DEF MonitorAccounted, Once
  <2>3. QED
    BY <1>3, <2>2
<1>6. uploads \in Seq(Calls) /\ awaiting \in Seq(Calls) /\ resumed \in Seq(Calls)
  BY <1>1, StartCallsAreCalls DEF CallsTyped
<1>7. printer.state \in {"IDLE", "RUNNING", "FINISH", "FAILED"}
  BY DEF RecordsTyped, Statuses, States
<1>8. QED
  BY <1>1, <1>4, <1>5, <1>6, <1>7 DEF TypeOK

(* Everything the process keeps - rows, monitor, calls under way, uploads,  *)
(* statuses waited for, starts resolved - is of its type in every state,    *)
(* whatever the printer and the link do.                                    *)
THEOREM FarmTyped == Spec => []TypeOK
BY FarmInvAlways, RecordsAlways, TypesFollow, PTL

-----------------------------------------------------------------------------
(* Only a report the Monitor handles ends a row or counts an attempt.       *)

Ends(j, state) ==
  /\ Handle
  /\ Head(chain).state = state
  /\ Head(chain).task = j
  /\ Head(chain) # lastKey

RowMoves(j) ==
  /\ db'.status[j] = "success" => db.status[j] = "success" \/ Ends(j, "FINISH")
  /\ \/ db'.attempts[j] = db.attempts[j]
     \/ Ends(j, "FAILED") /\ db'.attempts[j] = db.attempts[j] + 1

LEMMA AdvanceIsQuiet ==
  ASSUME NEW e \in DB, Quiet(db, e), db' = e \/ db' = DispatchNext(e)
  PROVE  Quiet(db, db')
BY DispatchIsQuiet DEF Quiet

LEMMA RequeueIsQuiet ==
  ASSUME NEW d, Sound(d), NEW js
  PROVE  Quiet(d, Requeue(d, js)) /\ Requeue(d, js) \in DB
<1>1. Requeue(d, js) \in DB
  BY RequeuePrepares DEF Prepares, Sound
<1>2. QED
  BY <1>1 DEF Quiet, Requeue, Sound, DB

LEMMA OtherStepsAreQuiet ==
  ASSUME FarmInv, [Next]_vars, ~Handle
  PROVE  Quiet(db, db')
<1>1. Sound(db) /\ db \in DB /\ CallsTyped
  BY DEF FarmInv, Sound, CallsInv
<1>2. ASSUME UNCHANGED db PROVE Quiet(db, db')
  BY <1>2 DEF Quiet
<1>3. CASE StartUploadFails \/ StartTimesOut
  <2>1. PICK k \in StartCalls : db' = RevertStart(db, k.job)
    <3>1. StartUploadFails => Head(uploads) \in StartCalls
      BY <1>1, HeadOfUploads DEF StartUploadFails
    <3>2. StartTimesOut => Head(awaiting) \in StartCalls
      BY <1>1, HeadTailProperties DEF StartTimesOut, CallsTyped
    <3>3. QED
      BY <1>3, <3>1, <3>2 DEF StartUploadFails, StartTimesOut, StartFails
  <2>2. k.job \in Jobs
    BY DEF StartCalls, JobCalls
  <2>3. QED
    BY <1>1, <2>1, <2>2, RevertsAreQuiet DEF RevertStart
<1>4. CASE EjectUploaded
  <2>. DEFINE k == Head(uploads)
  <2>1. k.owner # "wizard" => k.job \in Jobs
    BY <1>1, <1>4, HeadOfUploads DEF EjectUploaded, JobCalls
  <2>2. CASE k.owner = "monitor" /\ db' = FailEnd(db, k.job)
    BY <1>1, <2>1, <2>2, EndingsAreQuiet
  <2>3. CASE k.owner = "request" /\ db' = MarkAborted(db, k.job)
    BY <1>1, <2>1, <2>3, EndingsAreQuiet
  <2>4. CASE k.owner = "request" /\ ~AbortThrows(db) /\ db' = DispatchNext(Aborted(db, k.job))
    <3>1. Aborted(db, k.job) \in DB /\ Quiet(db, Aborted(db, k.job))
      BY <1>1, <2>1, <2>4, AbortedPrepares, EndingsAreQuiet DEF Prepares, Sound
    <3>2. QED
      BY <2>4, <3>1, AdvanceIsQuiet
  <2>5. QED
    BY <1>2, <1>4, <2>2, <2>3, <2>4 DEF EjectUploaded, Advance
<1>5. ASSUME NEW j \in Jobs, Retry(j) PROVE Quiet(db, db')
  <2>1. Requeued(db, j) \in DB /\ Quiet(db, Requeued(db, j))
    BY <1>1, <1>5, RequeuedPrepares, EndingsAreQuiet DEF Prepares, Sound
  <2>2. QED
    BY <1>5, <2>1, AdvanceIsQuiet DEF Retry, Advance
<1>6. CASE Refill
  <2>. DEFINE e == ResolveStockerRefills(RefillStocker(db))
  <2>1. e \in DB
    BY <1>1, RefillPrepares DEF Prepares, Sound
  <2>2. Quiet(db, e)
    BY <1>1, QueueUntouched DEF Quiet, RefillStocker, ResolveStockerRefills, DB
  <2>. HIDE DEF e
  <2>3. QED
    BY <1>6, <2>1, <2>2, AdvanceIsQuiet DEF Refill, Advance, e
<1>7. CASE Crash \/ Reconcile
  <2>1. db' = db \/ \E e \in {db} \union {Requeue(db, js) : js \in SUBSET Jobs} : db' = DispatchNext(e)
    <3>1. PrintingAtBoot \in SUBSET Jobs
      BY DEF PrintingAtBoot, Rows
    <3>2. QED
      BY <1>7, <3>1 DEF Crash, Reconcile, Advance
  <2>2. QED
    BY <1>1, <1>2, <2>1, RequeueIsQuiet, AdvanceIsQuiet, DispatchIsQuiet
<1>8. CASE UNCHANGED db
  BY <1>2, <1>8
<1>9. \/ StartUploadFails \/ StartTimesOut \/ EjectUploaded \/ Refill \/ Crash \/ Reconcile
      \/ \E j \in Jobs : Retry(j)
      \/ UNCHANGED db
  <2>1. StartResumes \/ StartUploaded \/ RehearsalUploaded \/ BootTimesOut \/ Deliver
          \/ EjectUploadFails \/ RehearsalUploadFails \/ Drop \/ Reconnect \/ UNCHANGED vars
          => UNCHANGED db
    BY DEF StartResumes, StartUploaded, RehearsalUploaded, BootTimesOut, Deliver,
           EjectUploadFails, RehearsalUploadFails, Drop, Reconnect, vars, process
  <2>2. Hardware => UNCHANGED db
    BY DEF Hardware, Receive, Refuse, Finish, Fail, Repeat, process
  <2>3. Rehearse \/ WizardEjects \/ (\E j \in Jobs : Abort(j)) => UNCHANGED db
    BY DEF Rehearse, WizardEjects, Abort
  <2>4. QED
    BY <2>1, <2>2, <2>3 DEF Next, Microtask, Transfers, Faults, Requests
<1>10. QED
  BY <1>3, <1>4, <1>5, <1>6, <1>7, <1>8, <1>9

LEMMA RowsMove ==
  ASSUME FarmInv, [Next]_vars, NEW k \in Jobs
  PROVE  RowMoves(k)
<1>1. CASE ~Handle
  BY <1>1, OtherStepsAreQuiet DEF RowMoves, Quiet
<1>2. CASE Handle
  <2>. DEFINE s == Head(chain)
              ended == IF Repeated(s) THEN {} ELSE CurrentJob(s)
  <2>1. \A j \in ended : j \in Jobs /\ s.task = j /\ s # lastKey
    BY CurrentJobIsPrinting DEF Repeated
  <2>2. Sound(db) /\ db \in DB
    BY DEF FarmInv, Sound
  <2>3. CASE UNCHANGED db
    BY <2>3 DEF RowMoves
  <2>4. ASSUME NEW j \in ended, s.state = "FINISH", db' = MarkSuccess(db, j)
        PROVE  RowMoves(k)
    BY <1>2, <2>1, <2>2, <2>4, FinishedEndsOne DEF RowMoves, Ends
  <2>5. ASSUME NEW j \in ended, s.state = "FINISH", ~FinishThrows(db),
               db' = DispatchNext(Finished(db, j))
        PROVE  RowMoves(k)
    <3>. DEFINE e == Finished(db, j)
    <3>1. e \in DB
      BY <2>1, <2>2, <2>5, FinishedPrepares DEF Prepares, Sound
    <3>2. /\ e.attempts = db.attempts
          /\ \A i \in Jobs : e.status[i] = "success" => db.status[i] = "success" \/ i = j
      BY <2>1, <2>2, FinishedEndsOne
    <3>. HIDE DEF e
    <3>3. Quiet(e, db')
      BY <2>5, <3>1, DispatchIsQuiet DEF e
    <3>4. QED
      BY <1>2, <2>1, <2>5, <3>2, <3>3 DEF RowMoves, Ends, Quiet
  <2>6. ASSUME NEW j \in ended, s.state = "FAILED", db' = FailBegin(db, j)
        PROVE  RowMoves(k)
    BY <1>2, <2>1, <2>2, <2>6, FailureCountsOne DEF RowMoves, Ends
  <2>7. QED
    BY <1>2, <2>3, <2>4, <2>5, <2>6 DEF Handle, Advance
<1>3. QED
  BY <1>1, <1>2

-----------------------------------------------------------------------------
(* Where a step takes the statuses on their way from the printer            *)

Handles ==
  /\ chain # <<>> /\ chain' = Tail(chain) /\ lastKey' = Head(chain)
  /\ UNCHANGED <<reports, machine, spent>>

Delivers ==
  /\ reports # <<>> /\ reports' = Tail(reports) /\ chain' = Append(chain, Head(reports))
  /\ UNCHANGED <<lastKey, machine, spent>>

Drops ==
  reports' = <<>> /\ UNCHANGED <<chain, lastKey, machine>>

Forgets ==
  /\ chain' = <<>> /\ lastKey' = NoKey /\ reports' = <<>>
  /\ spent'["crash"] = spent["crash"] + 1
  /\ UNCHANGED machine

LEMMA SpendGrows ==
  ASSUME spent \in [Events -> Nat], NEW e \in Events, Spend(e)
  PROVE  spent'["crash"] = IF e = "crash" THEN spent["crash"] + 1 ELSE spent["crash"]
BY DEF Spend, Events

LEMMA StatusesMove ==
  ASSUME RecordsTyped, [Next]_vars
  PROVE  /\ \/ Handles \/ Delivers \/ Drops \/ Forgets
            \/ PrinterSteps /\ UNCHANGED <<chain, lastKey>>
            \/ UNCHANGED <<chain, lastKey, reports, machine>>
         /\ Handle => Handles
         /\ spent'["crash"] >= spent["crash"]
<1>1. spent \in [Events -> Nat] /\ spent["crash"] \in Nat
  BY DEF RecordsTyped, Events
<1>2. \A e \in Events : Spend(e) => spent'["crash"] >= spent["crash"]
  BY <1>1, SpendGrows
<1>3. Events = {"abort", "retry", "rerun", "refill", "fail", "drop", "crash", "ftps", "refuse",
                "timeout", "rehearse", "eject"}
  BY DEF Events
<1>4. ASSUME UNCHANGED spent PROVE spent'["crash"] >= spent["crash"]
  BY <1>1, <1>4
<1>5. Handle => Handles
  BY DEF Handle, Handles
<1>6. CASE Handle
  BY <1>4, <1>5, <1>6 DEF Handles
<1>7. CASE Deliver
  BY <1>4, <1>5, <1>7 DEF Deliver, Delivers
<1>8. CASE Drop
  <2>1. Drops
    BY <1>8 DEF Drop, Drops, process
  <2>2. Spend("drop")
    BY <1>8 DEF Drop
  <2>3. QED
    BY <1>2, <1>3, <1>5, <2>1, <2>2
<1>9. CASE Crash
  <2>1. Spend("crash") /\ spent'["crash"] = spent["crash"] + 1
    BY <1>1, <1>3, <1>9, SpendGrows DEF Crash
  <2>2. Forgets
    BY <1>9, <2>1 DEF Crash, Forgets
  <2>3. QED
    BY <1>2, <1>3, <1>5, <2>1, <2>2
<1>10. CASE Hardware
  <2>1. PrinterSteps /\ UNCHANGED <<chain, lastKey>>
    BY <1>10, HardwareSteps
  <2>2. UNCHANGED spent \/ Spend("refuse") \/ Spend("fail")
    BY <1>10 DEF Hardware, Receive, Refuse, Finish, Fail, Repeat
  <2>3. QED
    BY <1>2, <1>3, <1>4, <1>5, <2>1, <2>2
<1>11. CASE Requests \/ Reconnect \/ UNCHANGED vars
  <2>1. UNCHANGED <<chain, lastKey, reports, machine>>
    BY <1>11 DEF Requests, Abort, Retry, Refill, Rehearse, WizardEjects, Reconnect, process,
                 network, vars
  <2>2. UNCHANGED spent \/ Spend("abort") \/ Spend("retry") \/ Spend("rerun") \/ Spend("refill")
          \/ Spend("rehearse") \/ Spend("eject")
    BY <1>11
    DEF Requests, Abort, Retry, RetryKind, Refill, Rehearse, WizardEjects, Reconnect, vars
  <2>3. QED
    BY <1>2, <1>3, <1>4, <1>5, <2>1, <2>2
<1>12. CASE StartResumes \/ Reconcile \/ Transfers \/ StartTimesOut \/ BootTimesOut
             \/ StartUploadFails \/ EjectUploadFails \/ RehearsalUploadFails
  <2>1. UNCHANGED <<chain, lastKey, reports, machine>>
    BY <1>12 DEF StartResumes, Reconcile, Transfers, StartUploaded, EjectUploaded,
                 RehearsalUploaded, StartTimesOut, BootTimesOut, StartUploadFails,
                 EjectUploadFails, RehearsalUploadFails, process, network
  <2>2. UNCHANGED spent \/ Spend("timeout") \/ Spend("ftps")
    BY <1>12 DEF StartResumes, Reconcile, Transfers, StartUploaded, EjectUploaded,
                 RehearsalUploaded, StartTimesOut, BootTimesOut, StartUploadFails,
                 EjectUploadFails, RehearsalUploadFails
  <2>3. QED
    BY <1>2, <1>3, <1>4, <1>5, <2>1, <2>2
<1>13. QED
  BY <1>6, <1>7, <1>8, <1>9, <1>10, <1>11, <1>12 DEF Next, Microtask, Faults

-----------------------------------------------------------------------------
(* SuccessWasPrinted: a FINISH of job j is only ever on its way after the   *)
(* printer has finished j, a FAILED of it after the printer has spoiled j.  *)

TrueReports ==
  {s \in Statuses : /\ s.state = "FINISH" /\ s.task \in Jobs => made[s.task] > 0
                    /\ s.state = "FAILED" /\ s.task \in Jobs => lost[s.task] > 0}

ReportsAreTrue ==
  /\ printer \in TrueReports
  /\ chain \in Seq(TrueReports)
  /\ reports \in Seq(TrueReports)
  /\ lastKey \in TrueReports \union {NoKey}

LEMMA OneMoreGrows ==
  ASSUME NEW count \in [Jobs -> Nat], NEW j \in Jobs
  PROVE  OneMore(count)[j] >= count[j] /\ count[j] \in Nat /\ OneMore(count)[j] \in Nat
<1>1. OneMore(count)[j] = IF j = printer.task THEN count[j] + 1 ELSE count[j]
  BY DEF OneMore
<1>2. QED
  BY <1>1

LEMMA PlatesGrow ==
  ASSUME RecordsTyped, [Next]_vars, NEW j \in Jobs
  PROVE  /\ made[j] \in Nat /\ made'[j] \in Nat /\ made'[j] >= made[j]
         /\ lost[j] \in Nat /\ lost'[j] \in Nat /\ lost'[j] >= lost[j]
<1>1. made \in [Jobs -> Nat] /\ lost \in [Jobs -> Nat]
  BY DEF RecordsTyped
<1>2. /\ UNCHANGED made \/ made' = OneMore(made)
      /\ UNCHANGED lost \/ lost' = OneMore(lost)
  BY StatusesMove DEF Handles, Delivers, Drops, Forgets, PrinterSteps, Spoil, machine
<1>3. QED
  BY <1>1, <1>2, OneMoreGrows

LEMMA TrueReportsStayTrue ==
  ASSUME RecordsTyped, [Next]_vars
  PROVE  TrueReports \subseteq TrueReports'
<1>1. \A j \in Jobs : (made[j] > 0 => made'[j] > 0) /\ (lost[j] > 0 => lost'[j] > 0)
  BY PlatesGrow
<1>2. QED
  BY <1>1 DEF TrueReports

LEMMA PrinterReportsTruly ==
  ASSUME RecordsTyped, ReportsAreTrue, PrinterSteps, TrueReports \subseteq TrueReports'
  PROVE  printer' \in TrueReports' /\ reports' \in Seq(TrueReports')
<1>1. printer.state \in States /\ printer.task \in Tasks /\ printer \in TrueReports
      /\ printer = Report(printer.state, printer.task)
  BY DEF RecordsTyped, Statuses, ReportsAreTrue, Report
<1>2. TrueReports \subseteq TrueReports'
  OBVIOUS
<1>3. reports \in Seq(TrueReports')
  BY <1>2, SeqMonotonic DEF ReportsAreTrue
<1>4. \A s \in TrueReports' : Append(reports, s) \in Seq(TrueReports')
  BY <1>3, AppendProperties
<1>5. ASSUME NEW s \in States, NEW t \in Tasks, Becomes(s, t), Report(s, t) \in TrueReports'
      PROVE  printer' \in TrueReports' /\ reports' \in Seq(TrueReports')
  BY <1>3, <1>4, <1>5 DEF Becomes, Emit
<1>6. ASSUME NEW t \in Tasks
      PROVE  Report("RUNNING", t) \in TrueReports'
  BY DEF Report, TrueReports, Statuses, States
<1>7. lost' = OneMore(lost) => Report("FAILED", printer.task) \in TrueReports'
  BY <1>1 DEF Report, TrueReports, Statuses, States, OneMore, RecordsTyped
<1>8. made' = OneMore(made) => Report("FINISH", printer.task) \in TrueReports'
  BY <1>1 DEF Report, TrueReports, Statuses, States, OneMore, RecordsTyped
<1>9. {"RUNNING", "FINISH", "FAILED"} \subseteq States
  BY DEF States
<1>10. CASE \E t \in Tasks : Becomes("RUNNING", t)
  BY <1>5, <1>6, <1>9, <1>10
<1>11. CASE Spoil
  BY <1>1, <1>7, <1>5, <1>9, <1>11 DEF Spoil
<1>12. CASE Becomes("FINISH", printer.task) /\ made' = OneMore(made)
  BY <1>1, <1>5, <1>8, <1>9, <1>12
<1>13. CASE Becomes(printer.state, printer.task)
  BY <1>1, <1>2, <1>5, <1>13
<1>14. CASE UNCHANGED <<printer, reports>>
  BY <1>1, <1>2, <1>3, <1>14
<1>15. QED
  BY <1>10, <1>11, <1>12, <1>13, <1>14 DEF PrinterSteps

LEMMA ReportsStayTrue ==
  ASSUME RecordsTyped, ReportsAreTrue, [Next]_vars
  PROVE  ReportsAreTrue'
<1>1. TrueReports \subseteq TrueReports'
  BY TrueReportsStayTrue
<1>2. /\ chain \in Seq(TrueReports') /\ reports \in Seq(TrueReports') /\ printer \in TrueReports'
      /\ lastKey \in TrueReports' \union {NoKey}
  BY <1>1, SeqMonotonic DEF ReportsAreTrue
<1>3. CASE Handles
  BY <1>2, <1>3, HeadTailProperties DEF Handles, ReportsAreTrue, machine
<1>4. CASE Delivers
  BY <1>2, <1>4, HeadTailProperties, AppendProperties DEF Delivers, ReportsAreTrue, machine
<1>5. CASE Drops \/ Forgets
  BY <1>2, <1>5, EmptySeq DEF Drops, Forgets, ReportsAreTrue, machine
<1>6. CASE PrinterSteps /\ UNCHANGED <<chain, lastKey>>
  BY <1>1, <1>2, <1>6, PrinterReportsTruly DEF ReportsAreTrue
<1>7. CASE UNCHANGED <<chain, lastKey, reports, machine>>
  BY <1>2, <1>7 DEF ReportsAreTrue, machine
<1>8. QED
  BY <1>3, <1>4, <1>5, <1>6, <1>7, StatusesMove

LEMMA SuccessInitially == Init => SuccessWasPrinted /\ ReportsAreTrue
<1>. SUFFICES ASSUME Init PROVE SuccessWasPrinted /\ ReportsAreTrue
  OBVIOUS
<1>1. Quiet(InitDB, db)
  BY InitialQueue, DispatchIsQuiet DEF Init, Sound
<1>2. SuccessWasPrinted
  BY <1>1 DEF SuccessWasPrinted, Quiet, InitDB, FreshDB, Queued
<1>3. printer \in TrueReports
  BY DEF Init, TrueReports, Report, Statuses, States, Tasks
<1>4. QED
  BY <1>2, <1>3, EmptySeq DEF Init, ReportsAreTrue

LEMMA SuccessInductive ==
  FarmInv /\ RecordsTyped /\ ReportsAreTrue /\ SuccessWasPrinted /\ [Next]_vars
    => ReportsAreTrue' /\ SuccessWasPrinted'
<1>. SUFFICES ASSUME FarmInv, RecordsTyped, ReportsAreTrue, SuccessWasPrinted, [Next]_vars,
                     NEW j \in Jobs, db'.status[j] = "success"
              PROVE  made'[j] > 0
  BY ReportsStayTrue DEF SuccessWasPrinted
<1>1. db.status[j] = "success" \/ Ends(j, "FINISH")
  BY RowsMove DEF RowMoves
<1>2. made[j] \in Nat /\ made'[j] >= made[j] /\ made'[j] \in Nat
  BY PlatesGrow
<1>3. Ends(j, "FINISH") => made[j] > 0
  <2>1. Ends(j, "FINISH") => Head(chain) \in TrueReports
    BY HeadTailProperties DEF Ends, Handle, ReportsAreTrue
  <2>2. QED
    BY <2>1 DEF Ends, TrueReports
<1>4. QED
  BY <1>1, <1>2, <1>3 DEF SuccessWasPrinted

(* monitor.ts and printing.ts: no job is marked done without a plate of it  *)
(* having come off this printer, however statuses are lost, repeated or     *)
(* handled late, and whatever restarts come between.                        *)
THEOREM SuccessIsPrinted == Spec => []SuccessWasPrinted
BY FarmInvAlways, RecordsAlways, SuccessInitially, SuccessInductive, PTL DEF Spec

-----------------------------------------------------------------------------
(* Dating a sequence t of n statuses: dates never decrease, and a status x  *)
(* is younger than whatever came before it and was not x.                   *)

Dates(t, n, x, f) ==
  /\ f \in [1 .. n -> Int]
  /\ \A i, k \in 1 .. n :
       i < k => f[i] <= f[k] /\ (t[k] = x /\ t[i] # x => f[i] < f[k])

LEMMA DatesOfTail ==
  ASSUME NEW n \in Nat, n > 1, NEW t, NEW u, NEW x, NEW f, Dates(t, n, x, f),
         \A i \in 1 .. n - 1 : u[i] = t[i + 1]
  PROVE  Dates(u, n - 1, x, [i \in 1 .. n - 1 |-> f[i + 1]])
<1>. DEFINE g == [i \in 1 .. n - 1 |-> f[i + 1]]
<1>1. \A i \in 1 .. n - 1 : i + 1 \in 1 .. n /\ g[i] = f[i + 1] /\ f[i + 1] \in Int
  BY DEF Dates
<1>2. g \in [1 .. n - 1 -> Int]
  BY <1>1
<1>. HIDE DEF g
<1>3. ASSUME NEW i \in 1 .. n - 1, NEW k \in 1 .. n - 1, i < k
      PROVE  g[i] <= g[k] /\ (u[k] = x /\ u[i] # x => g[i] < g[k])
  <2>1. i + 1 < k + 1 /\ i + 1 \in 1 .. n /\ k + 1 \in 1 .. n
    BY <1>3
  <2>2. f[i + 1] <= f[k + 1] /\ (t[k + 1] = x /\ t[i + 1] # x => f[i + 1] < f[k + 1])
    BY <2>1 DEF Dates
  <2>3. QED
    BY <1>1, <2>2
<1>4. QED
  BY <1>2, <1>3 DEF Dates, g

LEMMA DatesOfCut ==
  ASSUME NEW n \in Nat, NEW m \in 1 .. n, NEW t, NEW u, NEW x, NEW f, Dates(t, n, x, f),
         \A i \in 1 .. m - 1 : u[i] = t[i],
         u[m] = t[n]
  PROVE  Dates(u, m, x, [i \in 1 .. m |-> IF i < m THEN f[i] ELSE f[n]])
<1>. DEFINE g == [i \in 1 .. m |-> IF i < m THEN f[i] ELSE f[n]]
<1>1. \A i \in 1 .. n : f[i] \in Int
  BY DEF Dates
<1>2. g \in [1 .. m -> Int]
  BY <1>1
<1>3. \A i \in 1 .. m : g[i] = IF i < m THEN f[i] ELSE f[n]
  OBVIOUS
<1>. HIDE DEF g
<1>4. ASSUME NEW i \in 1 .. m, NEW k \in 1 .. m, i < k
      PROVE  g[i] <= g[k] /\ (u[k] = x /\ u[i] # x => g[i] < g[k])
  <2>1. i \in 1 .. n /\ i < m /\ i \in 1 .. m - 1 /\ i < n
    BY <1>4
  <2>2. CASE k = m
    <3>1. f[i] <= f[n] /\ (t[n] = x /\ t[i] # x => f[i] < f[n])
      BY <2>1 DEF Dates
    <3>2. QED
      BY <1>3, <2>1, <2>2, <3>1
  <2>3. CASE k # m
    <3>1. k \in 1 .. n /\ k < m /\ k \in 1 .. m - 1
      BY <2>3
    <3>2. f[i] <= f[k] /\ (t[k] = x /\ t[i] # x => f[i] < f[k])
      BY <1>4, <2>1, <3>1 DEF Dates
    <3>3. QED
      BY <1>3, <2>1, <3>1, <3>2
  <2>4. QED
    BY <2>2, <2>3
<1>5. QED
  BY <1>2, <1>4 DEF Dates, g

LEMMA DatesOfChange ==
  ASSUME NEW n \in Nat, n > 0, NEW t, NEW u, NEW x, NEW f, Dates(t, n, x, f),
         \A i \in 1 .. n - 1 : u[i] = t[i]
  PROVE  /\ u[n] # x \/ t[n] = x => Dates(u, n, x, f)
         /\ Dates(u, n, x, [i \in 1 .. n |-> IF i = n THEN f[n] + 1 ELSE f[i]])
<1>. DEFINE g == [i \in 1 .. n |-> IF i = n THEN f[n] + 1 ELSE f[i]]
<1>1. \A i \in 1 .. n : f[i] \in Int
  BY DEF Dates
<1>2. \A i \in 1 .. n : g[i] = IF i = n THEN f[n] + 1 ELSE f[i]
  OBVIOUS
<1>3. g \in [1 .. n -> Int]
  BY <1>1
<1>. HIDE DEF g
<1>4. ASSUME NEW i \in 1 .. n, NEW k \in 1 .. n, i < k
      PROVE  /\ i \in 1 .. n - 1 /\ i # n /\ u[i] = t[i]
             /\ f[i] <= f[k] /\ (t[k] = x /\ t[i] # x => f[i] < f[k])
  <2>1. i \in 1 .. n - 1 /\ i # n
    BY <1>4
  <2>2. QED
    BY <1>4, <2>1 DEF Dates
<1>5. ASSUME u[n] # x \/ t[n] = x
      PROVE  Dates(u, n, x, f)
  <2>1. ASSUME NEW i \in 1 .. n, NEW k \in 1 .. n, i < k
        PROVE  f[i] <= f[k] /\ (u[k] = x /\ u[i] # x => f[i] < f[k])
    <3>1. k # n => k \in 1 .. n - 1
      OBVIOUS
    <3>2. k # n => u[k] = t[k]
      BY <3>1
    <3>3. QED
      BY <1>4, <1>5, <2>1, <3>2
  <2>2. f \in [1 .. n -> Int]
    BY DEF Dates
  <2>3. QED
    BY <2>1, <2>2 DEF Dates
<1>6. ASSUME NEW i \in 1 .. n, NEW k \in 1 .. n, i < k
      PROVE  g[i] <= g[k] /\ (u[k] = x /\ u[i] # x => g[i] < g[k])
  <2>1. CASE k = n
    BY <1>1, <1>2, <1>4, <1>6, <2>1
  <2>2. CASE k # n
    <3>1. k \in 1 .. n - 1
      BY <2>2
    <3>2. u[k] = t[k]
      BY <3>1
    <3>3. QED
      BY <1>2, <1>4, <1>6, <2>2, <3>2
  <2>3. QED
    BY <2>1, <2>2
<1>7. QED
  BY <1>3, <1>5, <1>6 DEF Dates, g

LEMMA DatesOfRepeat ==
  ASSUME NEW n \in Nat, n > 0, NEW t, NEW u, NEW x, NEW f, Dates(t, n, x, f),
         \A i \in 1 .. n : u[i] = t[i],
         u[n + 1] = t[n]
  PROVE  Dates(u, n + 1, x, [i \in 1 .. n + 1 |-> IF i = n + 1 THEN f[n] ELSE f[i]])
<1>. DEFINE g == [i \in 1 .. n + 1 |-> IF i = n + 1 THEN f[n] ELSE f[i]]
<1>1. \A i \in 1 .. n : f[i] \in Int
  BY DEF Dates
<1>2. \A i \in 1 .. n + 1 : g[i] = IF i = n + 1 THEN f[n] ELSE f[i]
  OBVIOUS
<1>3. g \in [1 .. n + 1 -> Int]
  BY <1>1
<1>. HIDE DEF g
<1>4. ASSUME NEW i \in 1 .. n + 1, NEW k \in 1 .. n + 1, i < k
      PROVE  g[i] <= g[k] /\ (u[k] = x /\ u[i] # x => g[i] < g[k])
  <2>1. i \in 1 .. n /\ i # n + 1 /\ n \in 1 .. n
    BY <1>4
  <2>2. CASE k = n + 1 /\ i = n
    BY <1>1, <1>2, <2>1, <2>2
  <2>3. CASE k = n + 1 /\ i # n
    <3>1. i < n
      BY <2>1, <2>3
    <3>2. f[i] <= f[n] /\ (t[n] = x /\ t[i] # x => f[i] < f[n])
      BY <2>1, <3>1 DEF Dates
    <3>3. QED
      BY <1>2, <2>1, <2>3, <3>2
  <2>4. CASE k # n + 1
    <3>1. k \in 1 .. n
      BY <2>4
    <3>2. f[i] <= f[k] /\ (t[k] = x /\ t[i] # x => f[i] < f[k])
      BY <1>4, <2>1, <3>1 DEF Dates
    <3>3. QED
      BY <1>2, <2>1, <2>4, <3>1, <3>2
  <2>5. QED
    BY <2>2, <2>3, <2>4
<1>5. QED
  BY <1>3, <1>4 DEF Dates, g

-----------------------------------------------------------------------------
(* The statuses a report passes through: the Monitor's last key, its chain, *)
(* the link and the printer.                                                *)

LengthOf(c, r) == Len(c) + Len(r) + 2

TrailOf(key, c, r, p) ==
  [i \in 1 .. LengthOf(c, r) |->
     IF i = 1 THEN key
     ELSE IF i <= Len(c) + 1 THEN c[i - 1]
     ELSE IF i <= Len(c) + Len(r) + 1 THEN r[i - 1 - Len(c)]
     ELSE p]

LEMMA TrailIs ==
  ASSUME NEW T, NEW c \in Seq(T), NEW r \in Seq(T), NEW key, NEW p
  PROVE  /\ Len(c) \in Nat /\ Len(r) \in Nat
         /\ LengthOf(c, r) = Len(c) + Len(r) + 2 /\ LengthOf(c, r) \in Nat
         /\ \A i \in 1 .. LengthOf(c, r) :
              TrailOf(key, c, r, p)[i]
                = IF i = 1 THEN key
                  ELSE IF i <= Len(c) + 1 THEN c[i - 1]
                  ELSE IF i <= Len(c) + Len(r) + 1 THEN r[i - 1 - Len(c)]
                  ELSE p
         /\ TrailOf(key, c, r, p)[1] = key
         /\ TrailOf(key, c, r, p)[LengthOf(c, r)] = p
<1>1. Len(c) \in Nat /\ Len(r) \in Nat
  BY LenProperties
<1>2. LengthOf(c, r) = Len(c) + Len(r) + 2 /\ LengthOf(c, r) \in Nat
  BY <1>1 DEF LengthOf
<1>3. \A i \in 1 .. LengthOf(c, r) :
        TrailOf(key, c, r, p)[i]
          = IF i = 1 THEN key
            ELSE IF i <= Len(c) + 1 THEN c[i - 1]
            ELSE IF i <= Len(c) + Len(r) + 1 THEN r[i - 1 - Len(c)]
            ELSE p
  BY DEF TrailOf
<1>4. /\ 1 \in 1 .. LengthOf(c, r) /\ LengthOf(c, r) \in 1 .. LengthOf(c, r)
      /\ LengthOf(c, r) # 1 /\ ~(LengthOf(c, r) <= Len(c) + 1)
      /\ ~(LengthOf(c, r) <= Len(c) + Len(r) + 1)
  BY <1>1, <1>2
<1>5. QED
  BY <1>1, <1>2, <1>3, <1>4

LEMMA TrailHandled ==
  ASSUME NEW T, NEW c \in Seq(T), NEW r \in Seq(T), c # <<>>, NEW key, NEW p
  PROVE  /\ LengthOf(Tail(c), r) = LengthOf(c, r) - 1 /\ LengthOf(c, r) > 2
         /\ TrailOf(key, c, r, p)[2] = Head(c)
         /\ \A i \in 1 .. LengthOf(c, r) - 1 :
              TrailOf(Head(c), Tail(c), r, p)[i] = TrailOf(key, c, r, p)[i + 1]
<1>. DEFINE t == TrailOf(key, c, r, p)
            u == TrailOf(Head(c), Tail(c), r, p)
            m == Len(c)
            n == Len(r)
<1>1. /\ Tail(c) \in Seq(T) /\ Len(Tail(c)) = m - 1 /\ m \in Nat /\ n \in Nat /\ m > 0
      /\ Head(c) = c[1] /\ \A i \in 1 .. m - 1 : Tail(c)[i] = c[i + 1]
  BY HeadTailProperties, LenProperties, EmptySeq
<1>2. /\ LengthOf(c, r) = m + n + 2
      /\ \A i \in 1 .. m + n + 2 :
           t[i] = IF i = 1 THEN key ELSE IF i <= m + 1 THEN c[i - 1]
                  ELSE IF i <= m + n + 1 THEN r[i - 1 - m] ELSE p
  BY TrailIs
<1>3. /\ LengthOf(Tail(c), r) = m + n + 1
      /\ \A i \in 1 .. m + n + 1 :
           u[i] = IF i = 1 THEN Head(c) ELSE IF i <= m THEN Tail(c)[i - 1]
                  ELSE IF i <= m + n THEN r[i - 1 - (m - 1)] ELSE p
  <2>. DEFINE b == Tail(c)
              h == Head(c)
  <2>1. b \in Seq(T) /\ Len(b) = m - 1
    BY <1>1
  <2>2. /\ LengthOf(b, r) = (m - 1) + n + 2
        /\ \A i \in 1 .. LengthOf(b, r) :
             u[i] = IF i = 1 THEN h ELSE IF i <= (m - 1) + 1 THEN b[i - 1]
                    ELSE IF i <= (m - 1) + n + 1 THEN r[i - 1 - (m - 1)] ELSE p
    <3>. HIDE DEF b, h
    <3>1. /\ LengthOf(b, r) = Len(b) + Len(r) + 2
          /\ \A i \in 1 .. LengthOf(b, r) :
               TrailOf(h, b, r, p)[i]
                 = IF i = 1 THEN h ELSE IF i <= Len(b) + 1 THEN b[i - 1]
                   ELSE IF i <= Len(b) + Len(r) + 1 THEN r[i - 1 - Len(b)] ELSE p
      <4>1. b \in Seq(T)
        BY <2>1
      <4>2. QED
        BY <4>1, TrailIs
    <3>2. QED
      BY <2>1, <3>1 DEF b, h
  <2>. HIDE DEF u, m, n
  <2>3. (m - 1) + n + 2 = m + n + 1 /\ (m - 1) + 1 = m /\ (m - 1) + n + 1 = m + n
    BY <1>1
  <2>4. QED
    BY <2>2, <2>3
<1>. HIDE DEF t, u, m, n
<1>4. t[2] = Head(c)
  BY <1>1, <1>2
<1>5. ASSUME NEW i \in 1 .. m + n + 1
      PROVE  u[i] = t[i + 1]
  <2>1. i + 1 \in 1 .. m + n + 2 /\ i + 1 # 1 /\ (i + 1) - 1 = i
    BY <1>1
  <2>2. CASE i = 1
    BY <1>1, <1>2, <1>3, <2>1, <2>2
  <2>3. CASE i # 1 /\ i <= m
    <3>1. i - 1 \in 1 .. m - 1 /\ (i - 1) + 1 = i /\ i + 1 <= m + 1
      BY <1>1, <2>3
    <3>2. u[i] = Tail(c)[i - 1] /\ Tail(c)[i - 1] = c[i]
      BY <1>1, <1>3, <2>3, <3>1
    <3>3. t[i + 1] = c[i]
      BY <1>2, <2>1, <3>1
    <3>4. QED
      BY <3>2, <3>3
  <2>4. CASE i # 1 /\ ~(i <= m) /\ i <= m + n
    <3>1. i - 1 - (m - 1) = (i + 1) - 1 - m /\ ~(i + 1 <= m + 1) /\ i + 1 <= m + n + 1
      BY <1>1, <2>4
    <3>2. QED
      BY <1>2, <1>3, <2>1, <2>4, <3>1
  <2>5. CASE i # 1 /\ ~(i <= m + n)
    <3>1. ~(i <= m) /\ ~(i + 1 <= m + 1) /\ ~(i + 1 <= m + n + 1)
      BY <1>1, <2>5
    <3>2. QED
      BY <1>2, <1>3, <2>1, <2>5, <3>1
  <2>6. QED
    BY <1>1, <2>2, <2>3, <2>4, <2>5
<1>6. LengthOf(c, r) - 1 = m + n + 1 /\ LengthOf(c, r) > 2
  BY <1>1, <1>2
<1>7. QED
  BY <1>3, <1>4, <1>5, <1>6 DEF t, u

LEMMA TrailDelivered ==
  ASSUME NEW T, NEW c \in Seq(T), NEW r \in Seq(T), r # <<>>, NEW key, NEW p
  PROVE  /\ LengthOf(Append(c, Head(r)), Tail(r)) = LengthOf(c, r)
         /\ TrailOf(key, Append(c, Head(r)), Tail(r), p) = TrailOf(key, c, r, p)
<1>. DEFINE m == Len(c)
            n == Len(r)
            a == Append(c, Head(r))
<1>1. /\ Tail(r) \in Seq(T) /\ Len(Tail(r)) = n - 1 /\ m \in Nat /\ n \in Nat /\ n > 0
      /\ Head(r) = r[1] /\ Head(r) \in T /\ \A i \in 1 .. n - 1 : Tail(r)[i] = r[i + 1]
  BY HeadTailProperties, LenProperties, EmptySeq
<1>2. /\ Len(a) = m + 1 /\ a[m + 1] = r[1]
      /\ \A i \in 1 .. m : a[i] = c[i]
  BY <1>1, AppendProperties, LenProperties
<1>3. LengthOf(a, Tail(r)) = LengthOf(c, r) /\ LengthOf(c, r) = m + n + 2
  <2>1. (m + 1) + (n - 1) + 2 = m + n + 2
    BY <1>1
  <2>2. QED
    BY <1>1, <1>2, <2>1 DEF LengthOf
<1>. HIDE DEF m, n, a
<1>4. ASSUME NEW i \in 1 .. m + n + 2
      PROVE  (IF i = 1 THEN key ELSE IF i <= (m + 1) + 1 THEN a[i - 1]
              ELSE IF i <= (m + 1) + (n - 1) + 1 THEN Tail(r)[i - 1 - (m + 1)] ELSE p)
             = (IF i = 1 THEN key ELSE IF i <= m + 1 THEN c[i - 1]
                ELSE IF i <= m + n + 1 THEN r[i - 1 - m] ELSE p)
  <2>1. CASE i = 1
    BY <2>1
  <2>2. CASE i # 1 /\ i <= m + 1
    <3>1. i - 1 \in 1 .. m /\ i <= (m + 1) + 1
      BY <1>1, <2>2
    <3>2. QED
      BY <1>2, <2>2, <3>1
  <2>3. CASE i = m + 2
    <3>1. i # 1 /\ ~(i <= m + 1) /\ i <= (m + 1) + 1 /\ i <= m + n + 1 /\ i - 1 = m + 1 /\ i - 1 - m = 1
      BY <1>1, <2>3
    <3>2. QED
      BY <1>2, <3>1
  <2>4. CASE i > m + 2 /\ i <= m + n + 1
    <3>1. /\ i # 1 /\ ~(i <= m + 1) /\ ~(i <= (m + 1) + 1) /\ i <= (m + 1) + (n - 1) + 1
          /\ i - 1 - (m + 1) \in 1 .. n - 1 /\ (i - 1 - (m + 1)) + 1 = i - 1 - m
      BY <1>1, <2>4
    <3>2. QED
      BY <1>1, <2>4, <3>1
  <2>5. CASE i > m + n + 1
    <3>1. /\ i # 1 /\ ~(i <= m + 1) /\ ~(i <= (m + 1) + 1) /\ ~(i <= (m + 1) + (n - 1) + 1)
          /\ ~(i <= m + n + 1)
      BY <1>1, <2>5
    <3>2. QED
      BY <3>1
  <2>6. QED
    BY <1>1, <2>1, <2>2, <2>3, <2>4, <2>5
<1>5. TrailOf(key, a, Tail(r), p)
        = [i \in 1 .. m + n + 2 |->
             IF i = 1 THEN key ELSE IF i <= (m + 1) + 1 THEN a[i - 1]
             ELSE IF i <= (m + 1) + (n - 1) + 1 THEN Tail(r)[i - 1 - (m + 1)] ELSE p]
  BY <1>1, <1>2, <1>3 DEF TrailOf
<1>6. TrailOf(key, c, r, p)
        = [i \in 1 .. m + n + 2 |->
             IF i = 1 THEN key ELSE IF i <= m + 1 THEN c[i - 1]
             ELSE IF i <= m + n + 1 THEN r[i - 1 - m] ELSE p]
  BY <1>3 DEF TrailOf, m, n
<1>7. QED
  BY <1>3, <1>4, <1>5, <1>6 DEF a

LEMMA TrailDropped ==
  ASSUME NEW T, NEW c \in Seq(T), NEW r \in Seq(T), NEW key, NEW p
  PROVE  /\ LengthOf(c, <<>>) \in 1 .. LengthOf(c, r)
         /\ \A i \in 1 .. LengthOf(c, <<>>) - 1 :
              TrailOf(key, c, <<>>, p)[i] = TrailOf(key, c, r, p)[i]
<1>. DEFINE m == Len(c)
            n == Len(r)
            e == <<>>
<1>1. m \in Nat /\ n \in Nat /\ Len(e) = 0 /\ e \in Seq(T)
  BY LenProperties, EmptySeq
<1>. HIDE DEF e
<1>2. /\ LengthOf(c, r) = m + n + 2
      /\ \A i \in 1 .. LengthOf(c, r) :
           TrailOf(key, c, r, p)[i]
             = IF i = 1 THEN key ELSE IF i <= m + 1 THEN c[i - 1]
               ELSE IF i <= m + n + 1 THEN r[i - 1 - m] ELSE p
  BY TrailIs
<1>3. /\ LengthOf(c, e) = m + Len(e) + 2
      /\ \A i \in 1 .. LengthOf(c, e) :
           TrailOf(key, c, e, p)[i]
             = IF i = 1 THEN key ELSE IF i <= m + 1 THEN c[i - 1]
               ELSE IF i <= m + Len(e) + 1 THEN e[i - 1 - m] ELSE p
  <2>1. e \in Seq(T)
    BY <1>1
  <2>2. QED
    BY <2>1, TrailIs
<1>. HIDE DEF m, n
<1>4. LengthOf(c, e) = m + 2
  BY <1>1, <1>3
<1>5. ASSUME NEW i \in 1 .. m + 1
      PROVE  /\ i \in 1 .. m + 2 /\ i \in 1 .. m + n + 2 /\ i <= m + 1
  BY <1>1
<1>6. \A i \in 1 .. m + 1 : TrailOf(key, c, e, p)[i] = TrailOf(key, c, r, p)[i]
  BY <1>2, <1>3, <1>4, <1>5
<1>7. LengthOf(c, e) - 1 = m + 1 /\ LengthOf(c, e) \in 1 .. LengthOf(c, r)
  BY <1>1, <1>2, <1>4
<1>8. QED
  BY <1>6, <1>7 DEF e

LEMMA TrailChanged ==
  ASSUME NEW T, NEW c \in Seq(T), NEW r \in Seq(T), NEW key, NEW p, NEW q
  PROVE  \A i \in 1 .. LengthOf(c, r) - 1 : TrailOf(key, c, r, q)[i] = TrailOf(key, c, r, p)[i]
<1>. DEFINE n == LengthOf(c, r)
<1>1. n = Len(c) + Len(r) + 2 /\ n \in Nat /\ Len(c) \in Nat /\ Len(r) \in Nat
  BY TrailIs
<1>2. ASSUME NEW i \in 1 .. n - 1
      PROVE  i \in 1 .. n /\ i <= Len(c) + Len(r) + 1
  BY <1>1
<1>3. \A i \in 1 .. n : TrailOf(key, c, r, q)[i] =
        IF i = 1 THEN key ELSE IF i <= Len(c) + 1 THEN c[i - 1]
        ELSE IF i <= Len(c) + Len(r) + 1 THEN r[i - 1 - Len(c)] ELSE q
  BY TrailIs
<1>4. \A i \in 1 .. n : TrailOf(key, c, r, p)[i] =
        IF i = 1 THEN key ELSE IF i <= Len(c) + 1 THEN c[i - 1]
        ELSE IF i <= Len(c) + Len(r) + 1 THEN r[i - 1 - Len(c)] ELSE p
  BY TrailIs
<1>5. QED
  BY <1>2, <1>3, <1>4

LEMMA TrailEmitted ==
  ASSUME NEW T, NEW c \in Seq(T), NEW r \in Seq(T), NEW key, NEW q \in T
  PROVE  /\ LengthOf(c, Append(r, q)) = LengthOf(c, r) + 1
         /\ \A i \in 1 .. LengthOf(c, r) :
              TrailOf(key, c, Append(r, q), q)[i] = TrailOf(key, c, r, q)[i]
         /\ TrailOf(key, c, Append(r, q), q)[LengthOf(c, r) + 1] = q
<1>. DEFINE m == Len(c)
            n == Len(r)
            a == Append(r, q)
<1>1. /\ m \in Nat /\ n \in Nat /\ a \in Seq(T) /\ Len(a) = n + 1 /\ a[n + 1] = q
      /\ \A i \in 1 .. n : a[i] = r[i]
  BY AppendProperties, LenProperties
<1>. HIDE DEF a
<1>2. /\ LengthOf(c, r) = m + n + 2
      /\ \A i \in 1 .. LengthOf(c, r) :
           TrailOf(key, c, r, q)[i]
             = IF i = 1 THEN key ELSE IF i <= m + 1 THEN c[i - 1]
               ELSE IF i <= m + n + 1 THEN r[i - 1 - m] ELSE q
  BY TrailIs, SMTT(30)
<1>3. /\ LengthOf(c, a) = m + (n + 1) + 2
      /\ \A i \in 1 .. LengthOf(c, a) :
           TrailOf(key, c, a, q)[i]
             = IF i = 1 THEN key ELSE IF i <= m + 1 THEN c[i - 1]
               ELSE IF i <= m + (n + 1) + 1 THEN a[i - 1 - m] ELSE q
      /\ TrailOf(key, c, a, q)[LengthOf(c, a)] = q
  <2>1. /\ LengthOf(c, a) = Len(c) + Len(a) + 2
        /\ \A i \in 1 .. LengthOf(c, a) :
             TrailOf(key, c, a, q)[i]
               = IF i = 1 THEN key ELSE IF i <= Len(c) + 1 THEN c[i - 1]
                 ELSE IF i <= Len(c) + Len(a) + 1 THEN a[i - 1 - Len(c)] ELSE q
        /\ TrailOf(key, c, a, q)[LengthOf(c, a)] = q
    <3>1. a \in Seq(T)
      BY <1>1
    <3>2. QED
      BY <3>1, TrailIs
  <2>2. QED
    BY <1>1, <2>1
<1>. HIDE DEF m, n
<1>4. m + (n + 1) + 2 = m + n + 2 + 1 /\ m + (n + 1) + 1 = m + n + 2
  BY <1>1
<1>5. ASSUME NEW i \in 1 .. m + n + 2
      PROVE  TrailOf(key, c, a, q)[i] = TrailOf(key, c, r, q)[i]
  <2>1. i \in 1 .. m + (n + 1) + 2 /\ i <= m + (n + 1) + 1
    BY <1>1
  <2>2. CASE i = 1 \/ i <= m + 1
    BY <1>2, <1>3, <2>1, <2>2
  <2>3. CASE i # 1 /\ ~(i <= m + 1) /\ i <= m + n + 1
    <3>1. i - 1 - m \in 1 .. n
      BY <1>1, <2>3
    <3>2. a[i - 1 - m] = r[i - 1 - m]
      BY <1>1, <3>1
    <3>3. QED
      BY <1>2, <1>3, <2>1, <2>3, <3>2
  <2>4. CASE i = m + n + 2
    <3>1. i # 1 /\ ~(i <= m + 1) /\ ~(i <= m + n + 1) /\ i - 1 - m = n + 1
      BY <1>1, <2>4
    <3>2. QED
      BY <1>1, <1>2, <1>3, <2>1, <3>1
  <2>5. QED
    BY <1>1, <2>2, <2>3, <2>4
<1>6. QED
  BY <1>2, <1>3, <1>4, <1>5 DEF a

-----------------------------------------------------------------------------
(* FailuresAreCountedOnce: the trail can be dated by the plates of job j    *)
(* lost so far, so that a FAILED of j the Monitor takes for new is one that *)
(* cost another plate.                                                      *)

Length == LengthOf(chain, reports)

Trail == TrailOf(lastKey, chain, reports, printer)

FailedOn(j) == Report("FAILED", j)

Dated(j, f) ==
  /\ Dates(Trail, Length, FailedOn(j), f)
  /\ f[Length] = lost[j]
  /\ db.attempts[j] <= f[1] + spent["crash"]

FailuresAreDated == \A j \in Jobs : \E f : Dated(j, f)

LEMMA DatesAreOrdered ==
  ASSUME NEW n \in Nat, n > 0, NEW t, NEW x, NEW f, Dates(t, n, x, f)
  PROVE  f[1] \in Int /\ f[n] \in Int /\ f[1] <= f[n]
<1>1. f[1] \in Int /\ f[n] \in Int /\ 1 \in 1 .. n /\ n \in 1 .. n
  BY DEF Dates
<1>2. CASE n = 1
  BY <1>1, <1>2
<1>3. CASE 1 < n
  BY <1>1, <1>3 DEF Dates
<1>4. QED
  BY <1>1, <1>2, <1>3

LEMMA PrinterFails ==
  ASSUME RecordsTyped, PrinterSteps, NEW j \in Jobs
  PROVE  /\ \/ lost'[j] = lost[j] /\ (printer' # FailedOn(j) \/ printer = FailedOn(j))
            \/ lost'[j] = lost[j] + 1 /\ printer # FailedOn(j)
         /\ reports' = reports \/ reports' = Append(reports, printer')
<1>1. printer = Report(printer.state, printer.task) /\ lost \in [Jobs -> Nat]
  BY DEF RecordsTyped, Statuses, Report
<1>2. \A s, t : Becomes(s, t) =>
        /\ printer' = Report(s, t)
        /\ reports' = reports \/ reports' = Append(reports, printer')
  BY DEF Becomes, Emit
<1>3. \A t : Report("RUNNING", t) # FailedOn(j) /\ Report("FINISH", t) # FailedOn(j)
  BY DEF Report, FailedOn
<1>4. CASE \E t \in Tasks : Becomes("RUNNING", t) /\ UNCHANGED <<made, lost>>
  BY <1>2, <1>3, <1>4
<1>5. CASE printer.state = "RUNNING" /\ Spoil
  <2>1. printer # FailedOn(j)
    BY <1>5 DEF FailedOn, Report
  <2>2. lost'[j] = IF j = printer.task THEN lost[j] + 1 ELSE lost[j]
    BY <1>5 DEF Spoil, OneMore
  <2>3. j # printer.task => printer' # FailedOn(j)
    BY <1>2, <1>5 DEF Spoil, FailedOn, Report
  <2>4. QED
    BY <1>2, <1>5, <2>1, <2>2, <2>3 DEF Spoil
<1>6. CASE Becomes("FINISH", printer.task) /\ UNCHANGED lost
  BY <1>2, <1>3, <1>6
<1>7. CASE Becomes(printer.state, printer.task) /\ UNCHANGED <<made, lost>>
  BY <1>1, <1>2, <1>7
<1>8. CASE UNCHANGED <<printer, reports, made, lost>>
  BY <1>8
<1>9. QED
  BY <1>4, <1>5, <1>6, <1>7, <1>8 DEF PrinterSteps

LEMMA StatusesInOne ==
  ASSUME RecordsTyped
  PROVE  /\ chain \in Seq(Statuses) /\ reports \in Seq(Statuses)
         /\ Length \in Nat /\ Length > 1
         /\ Trail[1] = lastKey /\ Trail[Length] = printer
<1>1. chain \in Seq(Statuses) /\ reports \in Seq(Statuses)
  BY DEF RecordsTyped
<1>2. QED
  BY <1>1, TrailIs DEF Length, Trail

LEMMA HandlingDates ==
  ASSUME RecordsTyped, Handles, NEW j \in Jobs, NEW f, Dated(j, f),
         \/ db'.attempts[j] = db.attempts[j]
         \/ Head(chain) = FailedOn(j) /\ Head(chain) # lastKey
              /\ db'.attempts[j] = db.attempts[j] + 1,
         db.attempts[j] \in Nat, spent["crash"] \in Nat
  PROVE  \E g : Dated(j, g)'
<1>. DEFINE n == Length
            g == [i \in 1 .. n - 1 |-> f[i + 1]]
<1>1. /\ Length' = n - 1 /\ n > 2 /\ n \in Nat /\ Trail[2] = Head(chain)
      /\ \A i \in 1 .. n - 1 : Trail'[i] = Trail[i + 1]
  BY StatusesInOne, TrailHandled DEF Handles, machine, Length, Trail
<1>2. Trail[1] = lastKey
  BY StatusesInOne
<1>3. Dates(Trail, n, FailedOn(j), f) /\ f \in [1 .. n -> Int]
  BY DEF Dated, Dates
<1>. HIDE DEF n
<1>4. Dates(Trail', n - 1, FailedOn(j), g)
  <2>1. n > 1
    BY <1>1
  <2>2. n \in Nat /\ \A i \in 1 .. n - 1 : Trail'[i] = Trail[i + 1]
    BY <1>1
  <2>3. Dates(Trail, n, FailedOn(j), f)
    BY <1>3
  <2>4. QED
    BY <2>1, <2>2, <2>3, DatesOfTail
<1>5. g[n - 1] = f[n] /\ g[1] = f[2] /\ f[1] \in Int /\ f[2] \in Int
  <2>1. n - 1 \in 1 .. n - 1 /\ (n - 1) + 1 = n /\ 1 \in 1 .. n - 1 /\ 1 \in 1 .. n /\ 2 \in 1 .. n
    BY <1>1
  <2>2. QED
    BY <1>3, <2>1
<1>6. f[1] <= f[2] /\ (Trail[2] = FailedOn(j) /\ Trail[1] # FailedOn(j) => f[1] < f[2])
  <2>1. 1 \in 1 .. n /\ 2 \in 1 .. n /\ 1 < 2
    BY <1>1
  <2>2. QED
    BY <1>3, <2>1 DEF Dates
<1>7. UNCHANGED <<lost, spent>> /\ db.attempts[j] <= f[1] + spent["crash"] /\ f[n] = lost[j]
  BY DEF Handles, machine, Dated, n
<1>8. db'.attempts[j] <= g[1] + spent'["crash"]
  <2>1. CASE db'.attempts[j] = db.attempts[j]
    BY <1>5, <1>6, <1>7, <2>1
  <2>2. CASE Head(chain) = FailedOn(j) /\ Head(chain) # lastKey
              /\ db'.attempts[j] = db.attempts[j] + 1
    <3>1. f[1] < f[2]
      BY <1>1, <1>2, <1>6, <2>2
    <3>2. QED
      BY <1>5, <1>7, <2>2, <3>1
  <2>3. QED
    BY <2>1, <2>2
<1>. HIDE DEF g
<1>9. Dates(Trail', Length', FailedOn(j), g) /\ g[Length'] = lost'[j]
  BY <1>1, <1>4, <1>5, <1>7
<1>10. QED
  BY <1>8, <1>9 DEF Dated, FailedOn, Report

LEMMA DeliveryDates ==
  ASSUME RecordsTyped, Delivers, NEW j \in Jobs, NEW f, Dated(j, f),
         db'.attempts[j] = db.attempts[j]
  PROVE  Dated(j, f)'
<1>1. Length' = Length /\ Trail' = Trail
  BY StatusesInOne, TrailDelivered DEF Delivers, machine, Length, Trail
<1>2. UNCHANGED <<lost, spent>>
  BY DEF Delivers, machine
<1>3. QED
  BY <1>1, <1>2 DEF Dated, FailedOn, Report

LEMMA DropDates ==
  ASSUME RecordsTyped, Drops, NEW j \in Jobs, NEW f, Dated(j, f),
         db'.attempts[j] = db.attempts[j], db.attempts[j] \in Nat,
         spent["crash"] \in Nat, spent'["crash"] \in Nat, spent'["crash"] >= spent["crash"]
  PROVE  \E g : Dated(j, g)'
<1>. DEFINE n == Length
            m == Length'
            g == [i \in 1 .. m |-> IF i < m THEN f[i] ELSE f[n]]
<1>1. /\ m \in 1 .. n /\ n \in Nat /\ m > 1
      /\ \A i \in 1 .. m - 1 : Trail'[i] = Trail[i]
      /\ Trail'[m] = Trail[n]
  <2>. DEFINE e == <<>>
  <2>1. chain \in Seq(Statuses) /\ reports \in Seq(Statuses) /\ e \in Seq(Statuses)
    BY StatusesInOne, EmptySeq
  <2>2. /\ LengthOf(chain, e) \in 1 .. LengthOf(chain, reports)
        /\ \A i \in 1 .. LengthOf(chain, e) - 1 :
             TrailOf(lastKey, chain, e, printer)[i] = TrailOf(lastKey, chain, reports, printer)[i]
    BY <2>1, TrailDropped, SMTT(30)
  <2>. HIDE DEF e
  <2>3. /\ LengthOf(chain, e) = Len(chain) + Len(e) + 2
        /\ Len(chain) \in Nat /\ Len(e) \in Nat
        /\ TrailOf(lastKey, chain, e, printer)[LengthOf(chain, e)] = printer
    BY <2>1, TrailIs
  <2>4. /\ LengthOf(chain, reports) \in Nat
        /\ TrailOf(lastKey, chain, reports, printer)[LengthOf(chain, reports)] = printer
    BY <2>1, TrailIs
  <2>5. m = LengthOf(chain, e) /\ Trail' = TrailOf(lastKey, chain, e, printer)
    BY DEF Drops, machine, Length, Trail, e
  <2>6. QED
    BY <2>2, <2>3, <2>4, <2>5 DEF Length, Trail
<1>2. Dates(Trail, n, FailedOn(j), f) /\ f \in [1 .. n -> Int]
  BY DEF Dated, Dates
<1>. HIDE DEF n, m
<1>3. Dates(Trail', m, FailedOn(j), g)
  <2>. DEFINE t == Trail
              u == Trail'
              x == FailedOn(j)
  <2>1. /\ n \in Nat /\ m \in 1 .. n /\ m > 1 /\ Dates(t, n, x, f)
        /\ \A i \in 1 .. m - 1 : u[i] = t[i]
        /\ u[m] = t[n]
    BY <1>1, <1>2
  <2>. HIDE DEF t, u, x
  <2>2. Dates(u, m, x, g)
    BY <2>1, DatesOfCut, SMTT(30)
  <2>3. QED
    BY <2>2 DEF u, x
<1>4. g[m] = f[n] /\ g[1] = f[1]
  BY <1>1
<1>5. lost' = lost /\ db.attempts[j] <= f[1] + spent["crash"] /\ f[n] = lost[j]
  BY DEF Drops, machine, Dated, n
<1>6. f[1] \in Int
  BY <1>1, <1>2
<1>. HIDE DEF g
<1>7. db'.attempts[j] <= g[1] + spent'["crash"] /\ g[m] = lost'[j]
  BY <1>4, <1>5, <1>6
<1>8. QED
  BY <1>3, <1>7 DEF Dated, FailedOn, Report, m

LEMMA RestartDates ==
  ASSUME RecordsTyped, Forgets, NEW j \in Jobs, NEW f, Dated(j, f),
         db'.attempts[j] = db.attempts[j], db.attempts[j] \in Nat, spent["crash"] \in Nat
  PROVE  \E g : Dated(j, g)'
<1>. DEFINE g == [i \in 1 .. 2 |-> IF i = 1 THEN lost[j] - 1 ELSE lost[j]]
            e == <<>>
<1>1. lost[j] \in Int /\ Length \in Nat /\ Length > 1
  BY StatusesInOne DEF RecordsTyped
<1>2. f[1] \in Int /\ f[1] <= lost[j] /\ db.attempts[j] <= f[1] + spent["crash"]
  <2>1. Length > 0
    BY <1>1
  <2>2. f[1] \in Int /\ f[1] <= f[Length]
    BY <1>1, <2>1, DatesAreOrdered DEF Dated
  <2>3. QED
    BY <2>2 DEF Dated
<1>3. Length' = 2 /\ Trail' = TrailOf(NoKey, e, e, printer)
  <2>1. e \in Seq(Statuses) /\ Len(e) = 0
    BY EmptySeq
  <2>2. Length' = LengthOf(e, e) /\ Trail' = TrailOf(NoKey, e, e, printer)
    BY DEF Forgets, machine, Length, Trail
  <2>3. LengthOf(e, e) = 2
    BY <2>1 DEF LengthOf
  <2>4. QED
    BY <2>2, <2>3
<1>4. Trail'[1] = NoKey
  <2>1. e \in Seq(Statuses)
    BY EmptySeq
  <2>. HIDE DEF e
  <2>2. TrailOf(NoKey, e, e, printer)[1] = NoKey
    BY <2>1, TrailIs
  <2>3. QED
    BY <1>3, <2>2
<1>5. Trail'[1] # FailedOn(j)
  BY <1>4 DEF NoKey, FailedOn, Report
<1>6. Dates(Trail', 2, FailedOn(j), g)
  <2>1. g \in [1 .. 2 -> Int] /\ g[1] = lost[j] - 1 /\ g[2] = lost[j]
    BY <1>1
  <2>. HIDE DEF g
  <2>2. ASSUME NEW i \in 1 .. 2, NEW k \in 1 .. 2, i < k
        PROVE  g[i] <= g[k] /\ g[i] < g[k]
    <3>1. i = 1 /\ k = 2
      BY <2>2
    <3>2. QED
      BY <1>1, <2>1, <3>1
  <2>3. QED
    BY <2>1, <2>2 DEF Dates
<1>7. g[1] = lost[j] - 1 /\ g[2] = lost[j]
  OBVIOUS
<1>. HIDE DEF g
<1>8. g[2] = lost'[j] /\ db'.attempts[j] <= g[1] + spent'["crash"]
  BY <1>1, <1>2, <1>7 DEF Forgets, machine
<1>9. QED
  BY <1>3, <1>6, <1>8 DEF Dated, FailedOn, Report

LEMMA PrinterDates ==
  ASSUME RecordsTyped, RecordsTyped', PrinterSteps, UNCHANGED <<chain, lastKey>>,
         NEW j \in Jobs, NEW f, Dated(j, f),
         db'.attempts[j] = db.attempts[j], db.attempts[j] \in Nat,
         spent["crash"] \in Nat, spent'["crash"] \in Nat, spent'["crash"] >= spent["crash"]
  PROVE  \E g : Dated(j, g)'
<1>. DEFINE n == Length
            x == FailedOn(j)
            t == TrailOf(lastKey, chain, reports, printer')
<1>1. /\ chain \in Seq(Statuses) /\ reports \in Seq(Statuses) /\ printer' \in Statuses
      /\ n \in Nat /\ n > 1 /\ Trail[n] = printer /\ lost[j] \in Nat
  BY StatusesInOne DEF RecordsTyped
<1>2. t[n] = printer' /\ \A i \in 1 .. n - 1 : t[i] = Trail[i]
  BY <1>1, TrailIs, TrailChanged, SMTT(30) DEF Length, Trail
<1>3. Dates(Trail, n, x, f) /\ f \in [1 .. n -> Int] /\ f[n] = lost[j]
      /\ db.attempts[j] <= f[1] + spent["crash"]
  BY DEF Dated, Dates
<1>. HIDE DEF n, x
<1>4. n > 0
  BY <1>1
<1>5. \E g : Dates(t, n, x, g) /\ g[n] = lost'[j] /\ g[1] = f[1]
  <2>1. CASE lost'[j] = lost[j] /\ (printer' # x \/ printer = x)
    <3>1. t[n] # x \/ Trail[n] = x
      BY <1>1, <1>2, <2>1
    <3>2. Dates(t, n, x, f)
      BY <1>1, <1>2, <1>3, <1>4, <3>1, DatesOfChange
    <3>3. QED
      BY <1>3, <2>1, <3>2
  <2>2. CASE lost'[j] = lost[j] + 1 /\ printer # x
    <3>. DEFINE g == [i \in 1 .. n |-> IF i = n THEN f[n] + 1 ELSE f[i]]
    <3>1. Dates(t, n, x, g)
      BY <1>1, <1>2, <1>3, <1>4, DatesOfChange
    <3>2. g[n] = f[n] + 1 /\ g[1] = f[1]
      BY <1>1
    <3>. HIDE DEF g
    <3>3. QED
      BY <1>3, <2>2, <3>1, <3>2
  <2>3. QED
    BY <2>1, <2>2, PrinterFails DEF x
<1>6. PICK g : Dates(t, n, x, g) /\ g[n] = lost'[j] /\ g[1] = f[1]
  BY <1>5
<1>7. f[1] \in Int /\ 1 \in 1 .. n
  BY <1>1, <1>3
<1>8. db'.attempts[j] <= f[1] + spent'["crash"]
  BY <1>3, <1>7
<1>9. CASE reports' = reports
  <2>1. Length' = n /\ Trail' = t
    BY <1>9 DEF Length, Trail, n
  <2>2. Dated(j, g)'
    BY <1>6, <1>8, <2>1 DEF Dated, x, FailedOn, Report
  <2>3. QED
    BY <2>2
<1>10. CASE reports' = Append(reports, printer')
  <2>. DEFINE h == [i \in 1 .. n + 1 |-> IF i = n + 1 THEN g[n] ELSE g[i]]
  <2>1. /\ Length' = n + 1
        /\ \A i \in 1 .. n : Trail'[i] = t[i]
        /\ Trail'[n + 1] = t[n]
    <3>1. /\ Length' = LengthOf(chain, Append(reports, printer'))
          /\ Trail' = TrailOf(lastKey, chain, Append(reports, printer'), printer')
      BY <1>10 DEF Length, Trail
    <3>2. QED
      BY <1>1, <1>2, <3>1, TrailEmitted DEF Length, n
  <2>. HIDE DEF t
  <2>2. Dates(Trail', n + 1, x, h)
    <3>. DEFINE u == Trail'
    <3>1. /\ n \in Nat /\ n > 0 /\ Dates(t, n, x, g)
          /\ \A i \in 1 .. n : u[i] = t[i]
          /\ u[n + 1] = t[n]
      BY <1>1, <1>4, <1>6, <2>1
    <3>. HIDE DEF u
    <3>2. Dates(u, n + 1, x, h)
      BY <3>1, DatesOfRepeat, SMTT(30)
    <3>3. QED
      BY <3>2 DEF u
  <2>3. h[n + 1] = g[n] /\ h[1] = g[1]
    BY <1>1
  <2>. HIDE DEF h
  <2>4. Dates(Trail', Length', x, h) /\ h[Length'] = lost'[j] /\ db'.attempts[j] <= h[1] + spent'["crash"]
    BY <1>6, <1>8, <2>1, <2>2, <2>3
  <2>5. QED
    BY <2>4 DEF Dated, x, FailedOn, Report
<1>11. QED
  BY <1>9, <1>10, PrinterFails

LEMMA FailuresInitially == Init => FailuresAreDated
<1>. SUFFICES ASSUME Init, NEW j \in Jobs PROVE \E f : Dated(j, f)
  BY DEF FailuresAreDated
<1>. DEFINE f == [i \in 1 .. 2 |-> 0]
<1>1. Length = 2 /\ Trail[1] = NoKey /\ Trail[2] = printer
  <2>1. Length = 2
    BY EmptySeq DEF Init, Length, LengthOf
  <2>2. Trail[1] = lastKey /\ Trail[Length] = printer
    BY RecordsInitially, StatusesInOne
  <2>3. QED
    BY <2>1, <2>2 DEF Init
<1>2. \A i \in 1 .. 2 : Trail[i] # FailedOn(j)
  BY <1>1 DEF Init, NoKey, FailedOn, Report
<1>3. f \in [1 .. 2 -> Int] /\ \A i \in 1 .. 2 : f[i] = 0
  OBVIOUS
<1>. HIDE DEF f
<1>4. Dates(Trail, 2, FailedOn(j), f)
  BY <1>2, <1>3 DEF Dates
<1>5. db.attempts[j] = 0
  <2>1. Quiet(InitDB, db)
    BY InitialQueue, DispatchIsQuiet DEF Init, Sound
  <2>2. QED
    BY <2>1 DEF Quiet, InitDB, FreshDB
<1>6. lost[j] = 0 /\ spent["crash"] = 0
  BY DEF Init, Events
<1>7. Dates(Trail, Length, FailedOn(j), f) /\ f[Length] = lost[j]
      /\ db.attempts[j] <= f[1] + spent["crash"]
  BY <1>1, <1>3, <1>4, <1>5, <1>6
<1>8. QED
  BY <1>7 DEF Dated

LEMMA FailuresInductive ==
  FarmInv /\ RecordsTyped /\ RecordsTyped' /\ FailuresAreDated /\ [Next]_vars => FailuresAreDated'
<1>. SUFFICES ASSUME FarmInv, RecordsTyped, RecordsTyped', FailuresAreDated, [Next]_vars,
                     NEW j \in Jobs
              PROVE  \E g : Dated(j, g)'
  BY DEF FailuresAreDated
<1>1. PICK f : Dated(j, f)
  BY DEF FailuresAreDated
<1>2. /\ db.attempts[j] \in Nat /\ spent["crash"] \in Nat /\ spent'["crash"] \in Nat
      /\ spent'["crash"] >= spent["crash"]
  BY StatusesMove DEF FarmInv, Sound, DB, RecordsTyped, Events
<1>3. RowMoves(j)
  BY RowsMove
<1>4. CASE Handles
  <2>1. Ends(j, "FAILED") => Head(chain) = FailedOn(j) /\ Head(chain) # lastKey
    <3>1. Head(chain) \in Statuses
      BY <1>4, HeadTailProperties DEF Handles, RecordsTyped
    <3>2. QED
      BY <3>1 DEF Ends, Statuses, FailedOn, Report
  <2>2. \/ db'.attempts[j] = db.attempts[j]
        \/ Head(chain) = FailedOn(j) /\ Head(chain) # lastKey
             /\ db'.attempts[j] = db.attempts[j] + 1
    BY <1>3, <2>1 DEF RowMoves
  <2>3. QED
    BY <1>1, <1>2, <1>4, <2>2, HandlingDates
<1>5. CASE ~Handles
  <2>1. db'.attempts[j] = db.attempts[j]
    BY <1>3, <1>5, StatusesMove DEF RowMoves, Ends
  <2>2. CASE Delivers
    BY <1>1, <2>1, <2>2, DeliveryDates
  <2>3. CASE Drops
    BY <1>1, <1>2, <2>1, <2>3, DropDates
  <2>4. CASE Forgets
    BY <1>1, <1>2, <2>1, <2>4, RestartDates
  <2>5. CASE PrinterSteps /\ UNCHANGED <<chain, lastKey>>
    BY <1>1, <1>2, <2>1, <2>5, PrinterDates
  <2>6. CASE UNCHANGED <<chain, lastKey, reports, machine>>
    <3>1. Trail' = Trail /\ Length' = Length /\ lost' = lost
      BY <2>6 DEF Trail, Length, machine
    <3>2. f[1] \in Int
      <4>1. Length \in Nat /\ Length > 0
        BY StatusesInOne
      <4>2. QED
        BY <1>1, <4>1, DatesAreOrdered DEF Dated
    <3>3. Dates(Trail', Length', FailedOn(j), f) /\ f[Length'] = lost'[j]
      BY <1>1, <3>1 DEF Dated
    <3>4. db'.attempts[j] <= f[1] + spent'["crash"]
      BY <1>1, <1>2, <2>1, <3>2 DEF Dated
    <3>5. QED
      BY <3>3, <3>4 DEF Dated, FailedOn, Report
  <2>7. QED
    BY <1>5, <2>2, <2>3, <2>4, <2>5, <2>6, StatusesMove
<1>6. QED
  BY <1>4, <1>5

LEMMA DatedIsCounted ==
  FarmInv /\ RecordsTyped /\ FailuresAreDated => FailuresAreCountedOnce
<1>. SUFFICES ASSUME FarmInv, RecordsTyped, FailuresAreDated, NEW j \in Jobs
              PROVE  db.attempts[j] <= lost[j] + spent["crash"]
  BY DEF FailuresAreCountedOnce
<1>1. PICK f : Dated(j, f)
  BY DEF FailuresAreDated
<1>2. Length \in Nat /\ Length > 0
  BY StatusesInOne
<1>3. f[1] \in Int /\ f[Length] \in Int /\ f[1] <= f[Length]
  BY <1>1, <1>2, DatesAreOrdered DEF Dated
<1>4. db.attempts[j] \in Nat /\ spent["crash"] \in Nat
  BY DEF FarmInv, Sound, DB, RecordsTyped, Events
<1>5. QED
  BY <1>1, <1>3, <1>4 DEF Dated

(* monitor.ts, lastKey: however often a failure is reported, and whatever   *)
(* the link loses or a restart forgets, no job fails more often than the    *)
(* printer spoiled a plate of it, but for one failure per restart.          *)
THEOREM FailuresCountedOnce == Spec => []FailuresAreCountedOnce
<1>1. FarmInv => CallsTyped
  BY DEF FarmInv, CallsInv
<1>2. FarmInv /\ RecordsTyped /\ [Next]_vars => RecordsTyped'
  BY <1>1, RecordsInductive
<1>3. QED
  BY <1>2, FarmInvAlways, RecordsAlways, FailuresInitially, FailuresInductive, DatedIsCounted, PTL
  DEF Spec

-----------------------------------------------------------------------------
(* ImplementsDispatcher: what a step of the farm is to the Dispatcher       *)

StartOf(j) == Call("start", j, "request")
AbortOf(j) == Call("eject", j, "request")

LEMMA RequestsOutstanding ==
  ASSUME CallsTyped
  PROVE  /\ Starts \in [Jobs -> Nat] /\ Aborts \in [Jobs -> Nat]
         /\ \A j \in Jobs : Starts[j] = Outstanding(StartOf(j))
         /\ \A j \in Jobs : Aborts[j] = Outstanding(AbortOf(j))
<1>1. \A j, k, o : CallsOf(UnderWay, j, k, o) = Outstanding(Call(k, j, o))
  BY DEF CallsOf, Outstanding, Count, Places
<1>2. \A c : Outstanding(c) \in Nat
  BY OutstandingIs
<1>3. QED
  BY <1>1, <1>2 DEF Starts, Aborts, StartOf, AbortOf

LEMMA RequestsOutstandingNext ==
  ASSUME CallsTyped'
  PROVE  /\ Starts' \in [Jobs -> Nat] /\ Aborts' \in [Jobs -> Nat]
         /\ \A j \in Jobs : Starts'[j] = Outstanding(StartOf(j))'
         /\ \A j \in Jobs : Aborts'[j] = Outstanding(AbortOf(j))'
<1>1. \A j, k, o : CallsOf(UnderWay', j, k, o) = Outstanding(Call(k, j, o))'
  BY DEF CallsOf, Outstanding, Count, Places, Call
<1>2. \A c : Outstanding(c)' \in Nat
  BY OutstandingIsNext
<1>3. QED
  BY <1>1, <1>2 DEF Starts, Aborts, StartOf, AbortOf

LEMMA RequestsAreDistinct ==
  ASSUME NEW i \in Jobs, NEW j \in Jobs
  PROVE  /\ Once(StartOf(i), StartOf(j)) = IF i = j THEN 1 ELSE 0
         /\ Once(AbortOf(i), AbortOf(j)) = IF i = j THEN 1 ELSE 0
         /\ Once(StartOf(i), AbortOf(j)) = 0
         /\ Once(AbortOf(i), StartOf(j)) = 0
         /\ \A k : k.owner # "request" => Once(StartOf(i), k) = 0 /\ Once(AbortOf(i), k) = 0
BY DEF Once, StartOf, AbortOf, Call

(* What becomes of Dispatcher's two counters.                               *)
LEMMA RequestsKept ==
  ASSUME CallsTyped, CallsTyped',
         \A c : c.owner = "request" => Outstanding(c)' = Outstanding(c)
  PROVE  UNCHANGED <<Starts, Aborts>>
<1>1. \A j \in Jobs : StartOf(j).owner = "request" /\ AbortOf(j).owner = "request"
  BY DEF StartOf, AbortOf, Call
<1>2. \A j \in Jobs : Starts'[j] = Starts[j] /\ Aborts'[j] = Aborts[j]
  BY <1>1, RequestsOutstanding, RequestsOutstandingNext
<1>3. QED
  BY <1>2, RequestsOutstanding, RequestsOutstandingNext

LEMMA OthersSettle ==
  ASSUME CallsTyped, CallsTyped', NEW k, k.owner # "request", Settled(k)
  PROVE  UNCHANGED <<Starts, Aborts>>
<1>1. \A c : c.owner = "request" => Once(c, k) = 0
  BY DEF Once
<1>2. \A c : Outstanding(c)' \in Nat
  BY OutstandingIsNext
<1>3. QED
  BY <1>1, <1>2, RequestsKept DEF Settled

LEMMA RequestedStartSettles ==
  ASSUME CallsTyped, CallsTyped', NEW j \in Jobs, Settled(StartOf(j))
  PROVE  /\ Starts[j] > 0
         /\ Starts' = [Starts EXCEPT ![j] = @ - 1]
         /\ UNCHANGED Aborts
<1>1. ASSUME NEW i \in Jobs
      PROVE  /\ Starts[i] = Starts'[i] + (IF i = j THEN 1 ELSE 0)
             /\ Aborts[i] = Aborts'[i]
             /\ Starts'[i] \in Nat /\ Starts[i] \in Nat
  <2>1. /\ Outstanding(StartOf(i)) = Outstanding(StartOf(i))' + Once(StartOf(i), StartOf(j))
        /\ Outstanding(AbortOf(i)) = Outstanding(AbortOf(i))' + Once(AbortOf(i), StartOf(j))
    BY DEF Settled
  <2>2. Aborts'[i] \in Nat /\ Starts'[i] \in Nat /\ Starts[i] \in Nat
    BY RequestsOutstanding, RequestsOutstandingNext
  <2>3. QED
    BY <2>1, <2>2, RequestsOutstanding, RequestsOutstandingNext, RequestsAreDistinct
<1>2. Starts \in [Jobs -> Nat] /\ Starts' \in [Jobs -> Nat]
      /\ Aborts \in [Jobs -> Nat] /\ Aborts' \in [Jobs -> Nat]
  BY RequestsOutstanding, RequestsOutstandingNext
<1>3. \A i \in Jobs : Starts'[i] = IF i = j THEN Starts[i] - 1 ELSE Starts[i]
  BY <1>1
<1>4. QED
  BY <1>1, <1>2, <1>3

LEMMA RequestedEjectSettles ==
  ASSUME CallsTyped, CallsTyped', NEW j \in Jobs, Settled(AbortOf(j))
  PROVE  /\ Aborts[j] > 0
         /\ Aborts' = [Aborts EXCEPT ![j] = @ - 1]
         /\ UNCHANGED Starts
<1>1. ASSUME NEW i \in Jobs
      PROVE  /\ Aborts[i] = Aborts'[i] + (IF i = j THEN 1 ELSE 0)
             /\ Starts[i] = Starts'[i]
             /\ Aborts'[i] \in Nat /\ Aborts[i] \in Nat
  <2>1. /\ Outstanding(StartOf(i)) = Outstanding(StartOf(i))' + Once(StartOf(i), AbortOf(j))
        /\ Outstanding(AbortOf(i)) = Outstanding(AbortOf(i))' + Once(AbortOf(i), AbortOf(j))
    BY DEF Settled
  <2>2. Aborts'[i] \in Nat /\ Starts'[i] \in Nat /\ Aborts[i] \in Nat
    BY RequestsOutstanding, RequestsOutstandingNext
  <2>3. QED
    BY <2>1, <2>2, RequestsOutstanding, RequestsOutstandingNext, RequestsAreDistinct
<1>2. Starts \in [Jobs -> Nat] /\ Starts' \in [Jobs -> Nat]
      /\ Aborts \in [Jobs -> Nat] /\ Aborts' \in [Jobs -> Nat]
  BY RequestsOutstanding, RequestsOutstandingNext
<1>3. \A i \in Jobs : Aborts'[i] = IF i = j THEN Aborts[i] - 1 ELSE Aborts[i]
  BY <1>1
<1>4. QED
  BY <1>1, <1>2, <1>3

LEMMA EjectIsRequested ==
  ASSUME CallsTyped, CallsTyped', NEW j \in Jobs, Made(AbortOf(j))
  PROVE  Aborts' = [Aborts EXCEPT ![j] = @ + 1] /\ UNCHANGED Starts
<1>1. ASSUME NEW i \in Jobs
      PROVE  /\ Aborts'[i] = Aborts[i] + (IF i = j THEN 1 ELSE 0)
             /\ Starts'[i] = Starts[i]
             /\ Aborts[i] \in Nat
  <2>1. /\ Outstanding(StartOf(i))' = Outstanding(StartOf(i)) + Once(StartOf(i), AbortOf(j))
        /\ Outstanding(AbortOf(i))' = Outstanding(AbortOf(i)) + Once(AbortOf(i), AbortOf(j))
    BY DEF Made
  <2>2. Aborts[i] \in Nat /\ Starts[i] \in Nat
    BY RequestsOutstanding
  <2>3. QED
    BY <2>1, <2>2, RequestsOutstanding, RequestsOutstandingNext, RequestsAreDistinct
<1>2. Starts \in [Jobs -> Nat] /\ Starts' \in [Jobs -> Nat]
      /\ Aborts \in [Jobs -> Nat] /\ Aborts' \in [Jobs -> Nat]
  BY RequestsOutstanding, RequestsOutstandingNext
<1>3. \A i \in Jobs : Aborts'[i] = IF i = j THEN Aborts[i] + 1 ELSE Aborts[i]
  BY <1>1
<1>4. QED
  BY <1>1, <1>2, <1>3

LEMMA SendsForRequests ==
  ASSUME NEW d, NEW i \in Jobs
  PROVE  /\ Sends(d, "request", StartOf(i)) = IF i \in Started(d) THEN 1 ELSE 0
         /\ Sends(d, "request", AbortOf(i)) = 0
         /\ \A c : c.owner = "request" => Sends(d, "monitor", c) = 0
<1>1. \A j : StartOf(i) = Call("start", j, "request") => j = i
  BY DEF StartOf, Call
<1>2. StartOf(i) = Call("start", i, "request")
  BY DEF StartOf
<1>3. (\E j \in Started(d) : StartOf(i) = Call("start", j, "request")) <=> i \in Started(d)
  BY <1>1, <1>2
<1>4. \A j : AbortOf(i) # Call("start", j, "request")
  BY DEF AbortOf, Call
<1>5. \A c, j : c.owner = "request" => c # Call("start", j, "monitor")
  BY DEF Call
<1>6. QED
  BY <1>3, <1>4, <1>5 DEF Sends

LEMMA RequestDispatches ==
  ASSUME CallsTyped, CallsTyped', NEW d,
         \A c : Outstanding(c)' = Outstanding(c) + Sends(d, "request", c)
  PROVE  /\ Starts' = [i \in Jobs |-> IF i \in Started(d) THEN Starts[i] + 1 ELSE Starts[i]]
         /\ UNCHANGED Aborts
<1>1. ASSUME NEW i \in Jobs
      PROVE  /\ Starts'[i] = IF i \in Started(d) THEN Starts[i] + 1 ELSE Starts[i]
             /\ Aborts'[i] = Aborts[i]
  <2>1. /\ Outstanding(StartOf(i))' = Outstanding(StartOf(i)) + Sends(d, "request", StartOf(i))
        /\ Outstanding(AbortOf(i))' = Outstanding(AbortOf(i)) + Sends(d, "request", AbortOf(i))
    OBVIOUS
  <2>2. Aborts[i] \in Nat /\ Starts[i] \in Nat
    BY RequestsOutstanding
  <2>3. QED
    BY <2>1, <2>2, RequestsOutstanding, RequestsOutstandingNext, SendsForRequests
<1>2. Starts' \in [Jobs -> Nat] /\ Aborts \in [Jobs -> Nat] /\ Aborts' \in [Jobs -> Nat]
  BY RequestsOutstanding, RequestsOutstandingNext
<1>3. QED
  BY <1>1, <1>2

LEMMA AbortDispatches ==
  ASSUME CallsTyped, CallsTyped', NEW d, NEW j \in Jobs,
         \A c : Outstanding(c)' + Once(c, AbortOf(j)) = Outstanding(c) + Sends(d, "request", c)
  PROVE  /\ Aborts[j] > 0
         /\ Aborts' = [Aborts EXCEPT ![j] = @ - 1]
         /\ Starts' = [i \in Jobs |-> IF i \in Started(d) THEN Starts[i] + 1 ELSE Starts[i]]
<1>1. ASSUME NEW i \in Jobs
      PROVE  /\ Starts'[i] = IF i \in Started(d) THEN Starts[i] + 1 ELSE Starts[i]
             /\ Aborts'[i] + (IF i = j THEN 1 ELSE 0) = Aborts[i]
             /\ Aborts'[i] \in Nat /\ Aborts[i] \in Nat
  <2>1. /\ Outstanding(StartOf(i))' + Once(StartOf(i), AbortOf(j))
             = Outstanding(StartOf(i)) + Sends(d, "request", StartOf(i))
        /\ Outstanding(AbortOf(i))' + Once(AbortOf(i), AbortOf(j))
             = Outstanding(AbortOf(i)) + Sends(d, "request", AbortOf(i))
    OBVIOUS
  <2>2. Aborts[i] \in Nat /\ Starts[i] \in Nat /\ Aborts'[i] \in Nat /\ Starts'[i] \in Nat
    BY RequestsOutstanding, RequestsOutstandingNext
  <2>3. QED
    BY <2>1, <2>2, RequestsOutstanding, RequestsOutstandingNext, SendsForRequests,
       RequestsAreDistinct
<1>2. Starts' \in [Jobs -> Nat] /\ Aborts \in [Jobs -> Nat] /\ Aborts' \in [Jobs -> Nat]
  BY RequestsOutstanding, RequestsOutstandingNext
<1>3. \A i \in Jobs : Aborts'[i] = IF i = j THEN Aborts[i] - 1 ELSE Aborts[i]
  BY <1>1
<1>4. QED
  BY <1>1, <1>2, <1>3

(* Dispatcher decides with the same operators.                              *)
LEMMA SameDecisions ==
  ASSUME NEW d, NEW j, NEW s
  PROVE  /\ D!DispatchNext(d) = DispatchNext(d) /\ D!Started(d) = Started(d)
         /\ D!UpdateStatus(d, j, s) = UpdateStatus(d, j, s)
         /\ D!RevertStart(d, j) = RevertStart(d, j)
         /\ D!ByStatus(d, s) = ByStatus(d, s) /\ D!Rows(d) = Rows(d)
<1>1. D!ByStatus(d, s) = ByStatus(d, s) /\ D!Rows(d) = Rows(d)
  BY DEF D!ByStatus, ByStatus, D!Rows, Rows, D!RowStatus, RowStatus
<1>2. D!UpdateStatus(d, j, s) = UpdateStatus(d, j, s) /\ D!RevertStart(d, j) = RevertStart(d, j)
  BY DEF D!UpdateStatus, UpdateStatus, D!RevertStart, RevertStart, D!Rows, Rows,
         D!RowStatus, RowStatus
<1>3. D!Started(d) = Started(d)
  BY DEF D!Started, Started, D!MayStart, MayStart, D!Busy, Busy, D!QueueBlocked, QueueBlocked,
         D!StockerEmpty, StockerEmpty, D!FirstCandidate, FirstCandidate, D!Candidates, Candidates,
         D!ProjectPaused, ProjectPaused, D!Precedes, Precedes, D!ByStatus, ByStatus
<1>4. D!DispatchNext(d) = DispatchNext(d)
  BY <1>3 DEF D!DispatchNext, DispatchNext, D!Busy, Busy, D!QueueBlocked, QueueBlocked,
         D!StockerEmpty, StockerEmpty, D!ByStatus, ByStatus, D!MarkPrinting, MarkPrinting,
         D!EnsureStockerRefillPending, EnsureStockerRefillPending, D!CreateStockerRefill,
         CreateStockerRefill
<1>5. QED
  BY <1>1, <1>2, <1>3, <1>4

LEMMA SameEndings ==
  ASSUME NEW d, NEW j
  PROVE  /\ D!FailEnd(d, j) = FailEnd(d, j) /\ D!FailBegin(d, j) = FailBegin(d, j)
         /\ D!MarkAborted(d, j) = MarkAborted(d, j) /\ D!Aborted(d, j) = Aborted(d, j)
         /\ D!AbortThrows(d) = AbortThrows(d) /\ D!FinishThrows(d) = FinishThrows(d)
         /\ D!MarkSuccess(d, j) = MarkSuccess(d, j) /\ D!Finished(d, j) = Finished(d, j)
         /\ D!Requeued(d, j) = Requeued(d, j)
         /\ D!RetryExhausted(d, j) = RetryExhausted(d, j)
         /\ D!Abortable(d, j) = Abortable(d, j)
         /\ D!ResolveStockerRefills(D!RefillStocker(d)) = ResolveStockerRefills(RefillStocker(d))
         /\ \A js : D!Requeue(d, js) = Requeue(d, js)
<1>. USE DEF D!UpdateStatus, UpdateStatus, D!Rows, Rows, D!RowStatus, RowStatus,
             D!DecrementPermitted, DecrementPermitted, D!DecrementStocker, DecrementStocker
<1>1. D!FailEnd(d, j) = FailEnd(d, j) /\ D!FailBegin(d, j) = FailBegin(d, j)
  BY DEF D!FailEnd, FailEnd, D!FailBegin, FailBegin, D!CreateRetryDecision, CreateRetryDecision,
         D!IncrementAttempts, IncrementAttempts
<1>2. /\ D!MarkAborted(d, j) = MarkAborted(d, j) /\ D!Aborted(d, j) = Aborted(d, j)
      /\ D!AbortThrows(d) = AbortThrows(d) /\ D!FinishThrows(d) = FinishThrows(d)
      /\ D!MarkSuccess(d, j) = MarkSuccess(d, j)
  BY DEF D!MarkAborted, MarkAborted, D!Aborted, Aborted, D!AbortThrows, AbortThrows,
         D!FinishThrows, FinishThrows, D!MarkSuccess, MarkSuccess
<1>3. D!Finished(d, j) = Finished(d, j)
  BY DEF D!Finished, Finished, D!MarkSuccess, MarkSuccess, D!ApplyColorConsistency,
         ApplyColorConsistency, D!ColorConsistencyApplies, ColorConsistencyApplies,
         D!SetSubstitution, SetSubstitution, D!Siblings, Siblings, D!ByStatus, ByStatus,
         D!CreateColorDecision, CreateColorDecision
<1>4. /\ D!Requeued(d, j) = Requeued(d, j)
      /\ D!RetryExhausted(d, j) = RetryExhausted(d, j)
      /\ D!Abortable(d, j) = Abortable(d, j)
      /\ D!ResolveStockerRefills(D!RefillStocker(d)) = ResolveStockerRefills(RefillStocker(d))
      /\ \A js : D!Requeue(d, js) = Requeue(d, js)
  BY DEF D!Requeued, Requeued, D!ResolveRetryDecisions, ResolveRetryDecisions,
         D!RetryExhausted, RetryExhausted, D!Abortable, Abortable, D!ResolveStockerRefills,
         ResolveStockerRefills, D!RefillStocker, RefillStocker, D!Requeue, Requeue
<1>5. QED
  BY <1>1, <1>2, <1>3, <1>4

Simulated == D!Next \/ UNCHANGED <<db, Starts, Aborts, Confirms, monitor, Booting, snapshot>>

LEMMA RestUntouched ==
  /\ UNCHANGED Confirms
  /\ UNCHANGED boot => UNCHANGED Booting
BY DEF Confirms, Booting

LEMMA StartEndSimulated ==
  ASSUME CallsInv, CallsTyped', NEW k \in StartCalls, Settled(k),
         monitor' = IF k.owner = "monitor" THEN Idle ELSE monitor,
         UNCHANGED <<boot, snapshot>>,
         UNCHANGED db \/ db' = RevertStart(db, k.job)
  PROVE  Simulated
<1>. DEFINE j == k.job
<1>1. j \in Jobs /\ k \in JobCalls /\ k.owner \in {"monitor", "request"} /\ k.kind = "start"
  BY DEF StartCalls, JobCalls
<1>2. UNCHANGED <<Confirms, Booting>>
  BY RestUntouched
<1>3. CASE k.owner = "request"
  <2>1. k = StartOf(j)
    BY <1>3 DEF StartCalls, JobCalls, StartOf, Call
  <2>2. Starts[j] > 0 /\ Starts' = [Starts EXCEPT ![j] = @ - 1] /\ UNCHANGED Aborts
    BY <1>1, <2>1, RequestedStartSettles DEF CallsInv
  <2>. HIDE DEF j
  <2>3. D!StartSettles(j) \/ D!StartThrows(j)
    BY <1>2, <1>3, <2>2, SameDecisions
    DEF D!StartSettles, D!StartThrows, D!requests, D!bootVars, j
  <2>4. QED
    BY <1>1, <2>3 DEF Simulated, D!Next, D!Continuation, D!Settles, D!Throws
<1>4. CASE k.owner = "monitor"
  <2>1. monitor = Waiting(k)
    BY <1>1, <1>4, MonitorAwaitsItsCall DEF CallsInv
  <2>2. monitor.task = "start" /\ monitor.job = j
    BY <1>1, <2>1 DEF Waiting
  <2>3. UNCHANGED <<Starts, Aborts>>
    BY <1>4, OthersSettle DEF CallsInv
  <2>4. monitor' = D!Idle
    BY <1>4 DEF D!Idle, Idle, D!NoJob, NoJob
  <2>. HIDE DEF j
  <2>5. D!MonitorStartSettles \/ D!MonitorStartThrows
    BY <1>2, <2>2, <2>3, <2>4, SameDecisions
    DEF D!MonitorStartSettles, D!MonitorStartThrows, D!requests, D!bootVars, j
  <2>6. QED
    BY <2>5 DEF Simulated, D!Next, D!Continuation, D!Settles, D!Throws
<1>5. QED
  BY <1>1, <1>3, <1>4

LEMMA StartsEndSimulated ==
  ASSUME FarmInv, StartUploadFails \/ StartTimesOut \/ StartResumes
  PROVE  Simulated
<1>0. CallsInv /\ CallsTyped
  BY DEF FarmInv, CallsInv
<1>1. CASE StartUploadFails
  <2>1. CallsTyped' /\ Settled(Head(uploads)) /\ Head(uploads) \in StartCalls
    BY <1>0, <1>1, UploadSettles, HeadOfUploads DEF StartUploadFails
  <2>2. QED
    BY <1>0, <1>1, <2>1, StartEndSimulated DEF StartUploadFails, StartFails, bootVars
<1>2. CASE StartTimesOut
  <2>1. CallsTyped' /\ Settled(Head(awaiting)) /\ Head(awaiting) \in StartCalls
    BY <1>0, <1>2, WaitSettles DEF StartTimesOut
  <2>2. QED
    BY <1>0, <1>2, <2>1, StartEndSimulated DEF StartTimesOut, StartFails, bootVars
<1>3. CASE StartResumes
  <2>1. CallsTyped' /\ Settled(Head(resumed)) /\ Head(resumed) \in StartCalls
    BY <1>0, <1>3, StartSettles DEF StartResumes
  <2>2. QED
    BY <1>0, <1>3, <2>1, StartEndSimulated DEF StartResumes, bootVars
<1>4. QED
  BY <1>1, <1>2, <1>3

LEMMA EjectsEndSimulated ==
  ASSUME FarmInv, EjectUploaded \/ EjectUploadFails
  PROVE  Simulated
<1>. DEFINE k == Head(uploads)
            j == k.job
<1>0. CallsInv /\ CallsTyped /\ db \in DB /\ Sound(db)
  BY DEF FarmInv, CallsInv, Sound
<1>1. /\ uploads # <<>> /\ k.kind = "eject" /\ UNCHANGED <<awaiting, resumed, boot, snapshot>>
  BY DEF EjectUploaded, EjectUploadFails, bootVars
<1>2. UNCHANGED <<Confirms, Booting>>
  BY <1>1, RestUntouched
<1>3. uploads' = Tail(uploads) => CallsTyped' /\ Settled(k)
  BY <1>0, <1>1, UploadSettles
<1>4. k.owner # "wizard" => k \in JobCalls /\ j \in Jobs
  BY <1>0, <1>1, HeadOfUploads DEF JobCalls
<1>5. k \in Calls /\ k.owner \in {"monitor", "request", "wizard"}
  <2>1. k \in Calls
    BY <1>0, <1>1, HeadTailProperties DEF CallsTyped
  <2>2. QED
    BY <2>1 DEF Calls, WizardEject, Rehearsal, Call
<1>6. CASE k.owner = "wizard"
  <2>1. uploads' = Tail(uploads) /\ UNCHANGED <<db, monitor>>
    BY <1>6 DEF EjectUploaded, EjectUploadFails
  <2>2. UNCHANGED <<Starts, Aborts>>
    BY <1>0, <1>3, <1>6, <2>1, OthersSettle
  <2>3. QED
    BY <1>1, <1>2, <2>1, <2>2 DEF Simulated
<1>7. CASE k.owner = "monitor"
  <2>1. /\ uploads' = Tail(uploads) /\ monitor' = Idle
        /\ UNCHANGED db \/ db' = FailEnd(db, j)
    BY <1>7 DEF EjectUploaded, EjectUploadFails
  <2>2. UNCHANGED <<Starts, Aborts>>
    BY <1>0, <1>3, <1>7, <2>1, OthersSettle
  <2>3. monitor = Waiting(k)
    BY <1>0, <1>3, <1>4, <1>7, <2>1, MonitorAwaitsItsCall DEF CallsInv
  <2>4. monitor.task = "eject" /\ monitor.job = j /\ monitor' = D!Idle
    BY <1>1, <2>1, <2>3 DEF Waiting, D!Idle, Idle, D!NoJob, NoJob
  <2>. HIDE DEF j
  <2>5. D!MonitorEjectSettles \/ D!MonitorEjectThrows
    BY <1>1, <1>2, <2>1, <2>2, <2>4, SameEndings
    DEF D!MonitorEjectSettles, D!MonitorEjectThrows, D!requests, D!bootVars
  <2>6. QED
    BY <2>5 DEF Simulated, D!Next, D!Continuation, D!Settles, D!Throws
<1>8. CASE k.owner = "request"
  <2>1. k = AbortOf(j)
    BY <1>1, <1>4, <1>8 DEF JobCalls, AbortOf, Call
  <2>2. /\ UNCHANGED monitor
        /\ \/ uploads' = Tail(uploads) /\ UNCHANGED db
           \/ uploads' = Tail(uploads) /\ AbortThrows(db) /\ db' = MarkAborted(db, j)
           \/ ~AbortThrows(db) /\ Advance(Aborted(db, j), Tail(uploads), "request")
    BY <1>8 DEF EjectUploaded, EjectUploadFails
  <2>3. CASE uploads' = Tail(uploads) /\ (UNCHANGED db \/ (AbortThrows(db) /\ db' = MarkAborted(db, j)))
    <3>1. Aborts[j] > 0 /\ Aborts' = [Aborts EXCEPT ![j] = @ - 1] /\ UNCHANGED Starts
      BY <1>0, <1>3, <1>4, <1>8, <2>1, <2>3, RequestedEjectSettles
    <3>. HIDE DEF j
    <3>2. D!AbortEjectThrows(j) \/ D!AbortSettles(j)
      BY <1>1, <1>2, <2>2, <2>3, <3>1, SameEndings
      DEF D!AbortEjectThrows, D!AbortSettles, D!bootVars
    <3>3. QED
      BY <1>4, <1>8, <3>2 DEF Simulated, D!Next, D!Continuation, D!Settles, D!Throws
  <2>4. CASE ~AbortThrows(db) /\ Advance(Aborted(db, j), Tail(uploads), "request")
    <3>. DEFINE d == Aborted(db, j)
    <3>1. d \in DB
      BY <1>0, <1>4, <1>8, <2>4, AbortedPrepares DEF Prepares, Sound
    <3>2. /\ CallsTyped'
          /\ \A c : Outstanding(c)' + Once(c, k) = Outstanding(c) + Sends(d, "request", c)
      BY <1>0, <1>1, <2>4, <3>1, QueueAdvancesAfter
    <3>. HIDE DEF d
    <3>3. db' = DispatchNext(d)
      BY <2>4 DEF Advance, d
    <3>4. j \in Jobs /\ \A c : Outstanding(c)' + Once(c, AbortOf(j)) = Outstanding(c) + Sends(d, "request", c)
      BY <1>4, <1>8, <2>1, <3>2
    <3>. HIDE DEF j
    <3>5. /\ Aborts[j] > 0 /\ Aborts' = [Aborts EXCEPT ![j] = @ - 1]
          /\ Starts' = [i \in Jobs |-> IF i \in Started(d) THEN Starts[i] + 1 ELSE Starts[i]]
      BY <1>0, <3>2, <3>4, AbortDispatches
    <3>6. D!Advance(d)
      BY <3>3, <3>5, SameDecisions DEF D!Advance
    <3>7. D!AbortSettles(j)
      BY <1>1, <1>2, <2>2, <2>4, <3>5, <3>6, SameEndings DEF D!AbortSettles, D!bootVars, d
    <3>8. QED
      BY <1>4, <1>8, <3>7 DEF Simulated, D!Next, D!Continuation, D!Settles
  <2>5. QED
    BY <2>2, <2>3, <2>4
<1>9. QED
  BY <1>5, <1>6, <1>7, <1>8

LEMMA HandledSimulated ==
  ASSUME FarmInv, Handle
  PROVE  Simulated
<1>. DEFINE s == Head(chain)
            ended == IF Repeated(s) THEN {} ELSE CurrentJob(s)
<1>0. CallsInv /\ CallsTyped /\ db \in DB /\ Sound(db)
  BY DEF FarmInv, CallsInv, Sound
<1>1. monitor = Idle /\ monitor = D!Idle /\ UNCHANGED <<awaiting, resumed, boot, snapshot>>
  BY DEF Handle, HandlerFree, bootVars, Idle, D!Idle, NoJob, D!NoJob
<1>2. UNCHANGED <<Confirms, Booting>>
  BY <1>1, RestUntouched
<1>3. \A j \in ended : j \in Jobs /\ db.status[j] = "printing"
  BY CurrentJobIsPrinting
<1>4. UNCHANGED uploads => UNCHANGED <<Starts, Aborts>>
  BY <1>0, <1>1, WaitsResolve, RequestsKept DEF Kept
<1>5. \A n : D!Within(n, NoBound)
  BY DEF D!Within, NoBound, D!NoBound
<1>6. CASE UNCHANGED <<db, uploads, monitor>>
  BY <1>1, <1>2, <1>4, <1>6 DEF Simulated
<1>7. ASSUME NEW j \in ended, FinishThrows(db), db' = MarkSuccess(db, j),
             UNCHANGED <<uploads, monitor>>
      PROVE  Simulated
  <2>1. D!MonitorFinish(j)
    BY <1>1, <1>2, <1>3, <1>4, <1>5, <1>7, SameEndings
    DEF D!MonitorFinish, D!requests, D!bootVars
  <2>2. QED
    BY <1>3, <1>7, <2>1 DEF Simulated, D!Next, D!Printer
<1>8. ASSUME NEW j \in ended, ~FinishThrows(db),
             Advance(Finished(db, j), uploads, "monitor"),
             \/ Started(Finished(db, j)) = {} /\ UNCHANGED monitor
             \/ \E k \in Started(Finished(db, j)) : monitor' = Starting(k)
      PROVE  Simulated
  <2>. DEFINE d == Finished(db, j)
  <2>1. d \in DB
    BY <1>0, <1>3, <1>8, FinishedPrepares DEF Prepares, Sound
  <2>2. CallsTyped' /\ \A c : Outstanding(c)' = Outstanding(c) + Sends(d, "monitor", c)
    BY <1>0, <1>1, <1>8, <2>1, QueueAdvances
  <2>. HIDE DEF d
  <2>3. UNCHANGED <<Starts, Aborts>>
    <3>1. \A c : c.owner = "request" => Outstanding(c)' = Outstanding(c)
      <4>1. \A c : c.owner = "request" => Sends(d, "monitor", c) = 0
        BY DEF Sends, Call
      <4>2. \A c : Outstanding(c) \in Nat
        BY <1>0, OutstandingIs
      <4>3. QED
        BY <2>2, <4>1, <4>2
    <3>2. QED
      BY <1>0, <2>2, <3>1, RequestsKept
  <2>4. db' = DispatchNext(d)
    BY <1>8 DEF Advance, d
  <2>5. /\ D!Finished(db, j) = d /\ D!FinishThrows(db) = FinishThrows(db)
        /\ D!DispatchNext(d) = DispatchNext(d) /\ D!Started(d) = Started(d)
        /\ \A k : D!Starting(k) = Starting(k)
    BY SameEndings, SameDecisions DEF d, D!Starting, Starting
  <2>6. \/ D!Started(d) = {} /\ UNCHANGED monitor
        \/ \E k \in D!Started(d) : monitor' = D!Starting(k)
    BY <1>8, <2>5 DEF d
  <2>7. D!MonitorFinish(j)
    BY <1>1, <1>2, <1>3, <1>5, <1>8, <2>3, <2>4, <2>5, <2>6
    DEF D!MonitorFinish, D!requests, D!bootVars
  <2>8. QED
    BY <1>3, <1>8, <2>7 DEF Simulated, D!Next, D!Printer
<1>9. ASSUME NEW j \in ended, db' = FailBegin(db, j), monitor' = Ejecting(j),
             uploads' = Append(uploads, Call("eject", j, "monitor"))
      PROVE  Simulated
  <2>. DEFINE k == Call("eject", j, "monitor")
  <2>1. k \in Calls /\ \A c : c.owner = "request" => Once(c, k) = 0
    BY <1>3, <1>9 DEF Calls, Call, Once
  <2>. HIDE DEF k
  <2>2. CallsTyped' /\ Made(k)
    BY <1>0, <1>1, <1>9, <2>1, CallIsMade DEF k
  <2>3. UNCHANGED <<Starts, Aborts>>
    <3>1. \A c : Outstanding(c) \in Nat
      BY <1>0, OutstandingIs
    <3>2. QED
      BY <1>0, <2>1, <2>2, <3>1, RequestsKept DEF Made
  <2>4. D!MonitorFail(j)
    BY <1>1, <1>2, <1>3, <1>5, <1>9, <2>3, SameEndings
    DEF D!MonitorFail, D!requests, D!bootVars, D!Ejecting, Ejecting
  <2>5. QED
    BY <1>3, <1>9, <2>4 DEF Simulated, D!Next, D!Printer
<1>10. QED
  BY <1>6, <1>7, <1>8, <1>9 DEF Handle

LEMMA RequestsSimulated ==
  ASSUME FarmInv, Requests
  PROVE  Simulated
<1>0. CallsInv /\ CallsTyped /\ db \in DB /\ Sound(db)
  BY DEF FarmInv, CallsInv, Sound
<1>1. /\ UNCHANGED <<awaiting, resumed, boot, snapshot, monitor>>
      /\ boot = "up" /\ ~Booting /\ D!Serving
  BY DEF Requests, Abort, Retry, Refill, Rehearse, WizardEjects, bootVars, Booting, D!Serving
<1>2. UNCHANGED <<Confirms, Booting>>
  BY <1>1, RestUntouched
<1>3. \A n : D!Within(n, NoBound)
  BY DEF D!Within, NoBound, D!NoBound
<1>4. ASSUME NEW d \in DB, Advance(d, uploads, "request")
      PROVE  D!Advance(d) /\ UNCHANGED Aborts
  <2>1. CallsTyped' /\ \A c : Outstanding(c)' = Outstanding(c) + Sends(d, "request", c)
    BY <1>0, <1>1, <1>4, QueueAdvances
  <2>2. /\ Starts' = [i \in Jobs |-> IF i \in Started(d) THEN Starts[i] + 1 ELSE Starts[i]]
        /\ UNCHANGED Aborts
    BY <1>0, <2>1, RequestDispatches
  <2>3. QED
    BY <1>4, <2>2, SameDecisions DEF Advance, D!Advance
<1>5. ASSUME NEW j \in Jobs, Abort(j)
      PROVE  Simulated
  <2>1. AbortOf(j) \in Calls /\ uploads' = Append(uploads, AbortOf(j)) /\ UNCHANGED db
    BY <1>5 DEF Abort, AbortOf, Calls, Call
  <2>2. CallsTyped' /\ Made(AbortOf(j))
    BY <1>0, <1>1, <2>1, CallIsMade
  <2>3. Aborts' = [Aborts EXCEPT ![j] = @ + 1] /\ UNCHANGED Starts
    BY <1>0, <2>2, EjectIsRequested
  <2>4. D!AbortBegin(j)
    BY <1>1, <1>2, <1>3, <1>5, <2>1, <2>3, SameEndings DEF Abort, D!AbortBegin, D!bootVars
  <2>5. QED
    BY <2>4 DEF Simulated, D!Next, D!Operator, D!QueueOps
<1>6. ASSUME NEW j \in Jobs, Retry(j)
      PROVE  Simulated
  <2>. DEFINE d == Requeued(db, j)
  <2>1. d \in DB
    BY <1>0, RequeuedPrepares DEF Prepares, Sound
  <2>2. D!Advance(d) /\ UNCHANGED Aborts
    BY <1>4, <1>6, <2>1 DEF Retry
  <2>. HIDE DEF d
  <2>3. j \in D!Rows(db)
    BY <1>6 DEF Retry, Rows, RowStatus, D!Rows, D!RowStatus
  <2>4. D!Retry(j)
    BY <1>1, <1>2, <1>3, <1>6, <2>2, <2>3, SameEndings
    DEF Retry, D!Retry, D!requests, D!bootVars, d
  <2>5. QED
    BY <2>4 DEF Simulated, D!Next
<1>7. CASE Refill
  <2>. DEFINE d == ResolveStockerRefills(RefillStocker(db))
  <2>1. d \in DB
    BY <1>0, RefillPrepares DEF Prepares, Sound
  <2>2. D!Advance(d) /\ UNCHANGED Aborts
    BY <1>4, <1>7, <2>1 DEF Refill
  <2>. HIDE DEF d
  <2>3. D!Refill
    BY <1>1, <1>2, <2>2, SameEndings DEF D!Refill, D!requests, D!bootVars, d
  <2>4. QED
    BY <2>3 DEF Simulated, D!Next, D!Operator, D!StockerOps
<1>8. ASSUME NEW k \in {Rehearsal, WizardEject}, uploads' = Append(uploads, k), UNCHANGED db
      PROVE  Simulated
  <2>1. k \in Calls /\ \A c : c.owner = "request" => Once(c, k) = 0
    BY <1>8 DEF Calls, Rehearsal, WizardEject, Call, Once
  <2>2. CallsTyped' /\ Made(k)
    BY <1>0, <1>1, <1>8, <2>1, CallIsMade
  <2>3. UNCHANGED <<Starts, Aborts>>
    <3>1. \A c : Outstanding(c) \in Nat
      BY <1>0, OutstandingIs
    <3>2. QED
      BY <1>0, <2>1, <2>2, <3>1, RequestsKept DEF Made
  <2>4. QED
    BY <1>1, <1>2, <1>8, <2>3 DEF Simulated
<1>9. QED
  BY <1>5, <1>6, <1>7, <1>8 DEF Requests, Rehearse, WizardEjects

LEMMA CrashSimulated ==
  ASSUME FarmInv, Crash
  PROVE  D!Restart
<1>0. CallsInv /\ CallsTyped /\ db \in DB /\ Sound(db)
  BY DEF FarmInv, CallsInv, Sound
<1>1. /\ awaiting' = <<>> /\ resumed' = <<>> /\ monitor' = D!Idle
      /\ snapshot' = D!ByStatus(db, "printing")
  BY SameDecisions DEF Crash, Idle, D!Idle, NoJob, D!NoJob
<1>2. Confirms' = D!None
  BY DEF Confirms, D!None
<1>3. CASE uploads' = <<>> /\ UNCHANGED db /\ snapshot' # {} /\ boot' = "waiting"
  <2>1. CallsTyped' /\ \A c : Outstanding(c)' = 0
    BY <1>1, <1>3, ProcessDies, EmptySeq, CountNone
  <2>2. Starts' = D!None /\ Aborts' = D!None
    BY <2>1, RequestsOutstandingNext DEF D!None
  <2>3. Booting'
    BY <1>3 DEF Booting
  <2>4. Booting' = (snapshot' # {})
    BY <1>3, <2>3
  <2>5. QED
    BY <1>1, <1>2, <1>3, <2>2, <2>3, <2>4 DEF D!Restart
<1>4. CASE snapshot' = {} /\ boot' = "up" /\ Advance(db, <<>>, "request")
  <2>1. /\ uploads' \in Seq(Calls)
        /\ \A c : Count(uploads', c) = Count(<<>>, c) + Sends(db, "request", c)
    BY <1>0, <1>4, AdvanceSends, EmptySeq
  <2>2. CallsTyped' /\ \A c : Outstanding(c)' = Sends(db, "request", c)
    <3>1. CallsTyped' /\ \A c : Outstanding(c)' = Count(uploads', c)
      BY <1>1, <2>1, ProcessDies
    <3>2. \A c : Sends(db, "request", c) \in Nat
      BY DEF Sends
    <3>3. QED
      BY <2>1, <3>1, <3>2, CountNone
  <2>3. Starts' = [j \in Jobs |-> IF j \in Started(db) THEN 1 ELSE 0] /\ Aborts' = D!None
    <3>1. \A j \in Jobs : Starts'[j] = (IF j \in Started(db) THEN 1 ELSE 0) /\ Aborts'[j] = 0
      BY <2>2, RequestsOutstandingNext, SendsForRequests
    <3>2. QED
      BY <2>2, <3>1, RequestsOutstandingNext DEF D!None
  <2>4. ~Booting'
    BY <1>4 DEF Booting
  <2>5. Booting' = (snapshot' # {})
    BY <1>4 DEF Booting
  <2>6. db' = D!DispatchNext(db) /\ D!Started(db) = Started(db)
    BY <1>4, SameDecisions DEF Advance
  <2>7. QED
    BY <1>1, <1>2, <2>3, <2>4, <2>5, <2>6 DEF D!Restart
<1>5. QED
  BY <1>3, <1>4 DEF Crash

LEMMA ReconcileSimulated ==
  ASSUME FarmInv, Reconcile
  PROVE  Simulated
<1>0. CallsInv /\ CallsTyped /\ db \in DB /\ Sound(db)
  BY DEF FarmInv, CallsInv, Sound
<1>. DEFINE d == IF firstState = "RUNNING" THEN db ELSE Requeue(db, PrintingAtBoot)
<1>1. d \in DB
  BY <1>0, RequeueIsQuiet
<1>2. CallsTyped' /\ \A c : Outstanding(c)' = Outstanding(c) + Sends(d, "request", c)
  BY <1>0, <1>1, QueueAdvances DEF Reconcile
<1>3. db' = DispatchNext(d)
  BY DEF Reconcile, Advance
<1>4. d = IF firstState = "RUNNING" THEN db
          ELSE D!Requeue(db, snapshot \intersect D!Rows(db))
  BY SameEndings, SameDecisions DEF PrintingAtBoot
<1>. HIDE DEF d
<1>5. /\ Starts' = [i \in Jobs |-> IF i \in Started(d) THEN Starts[i] + 1 ELSE Starts[i]]
      /\ UNCHANGED Aborts
  BY <1>0, <1>2, RequestDispatches
<1>6. D!Advance(d)
  BY <1>3, <1>5, SameDecisions DEF D!Advance
<1>7. Booting /\ Booting' = FALSE /\ snapshot' = {} /\ UNCHANGED <<monitor, Confirms>>
  BY RestUntouched DEF Reconcile, Booting
<1>8. CASE firstState = "RUNNING"
  <2>1. D!Advance(db)
    BY <1>4, <1>6, <1>8
  <2>2. D!BootReconcile(TRUE)
    BY <1>5, <1>7, <2>1 DEF D!BootReconcile, D!requests
  <2>3. QED
    BY <2>2 DEF Simulated, D!Next, D!Continuation
<1>9. CASE firstState # "RUNNING"
  <2>1. D!Advance(D!Requeue(db, snapshot \intersect D!Rows(db)))
    BY <1>4, <1>6, <1>9
  <2>2. D!BootReconcile(FALSE)
    BY <1>5, <1>7, <2>1 DEF D!BootReconcile, D!requests
  <2>3. QED
    BY <2>2 DEF Simulated, D!Next, D!Continuation
<1>10. QED
  BY <1>8, <1>9

LEMMA NetworkSimulated ==
  ASSUME FarmInv,
         StartUploaded \/ RehearsalUploaded \/ RehearsalUploadFails
           \/ Deliver \/ BootTimesOut \/ Drop \/ Reconnect \/ Hardware \/ UNCHANGED vars
  PROVE  Simulated
<1>0. CallsTyped
  BY DEF FarmInv, CallsInv
<1>1. UNCHANGED <<db, monitor, snapshot>>
  BY DEF StartUploaded, RehearsalUploaded, RehearsalUploadFails, Deliver, BootTimesOut, Drop,
         Reconnect, Hardware, Receive, Refuse, Finish, Fail, Repeat, vars, process, bootVars
<1>2. UNCHANGED <<Confirms, Booting>>
  <2>1. UNCHANGED boot \/ (boot # "up" /\ boot' # "up")
    BY DEF StartUploaded, RehearsalUploaded, RehearsalUploadFails, Deliver, BootTimesOut, Drop,
           Reconnect, Hardware, Receive, Refuse, Finish, Fail, Repeat, vars, bootVars
  <2>2. QED
    BY <2>1, RestUntouched DEF Booting
<1>3. UNCHANGED <<Starts, Aborts>>
  <2>1. CASE StartUploaded
    BY <1>0, <2>1, StartWaits, RequestsKept DEF Kept
  <2>2. CASE RehearsalUploaded \/ RehearsalUploadFails
    <3>1. /\ uploads # <<>> /\ Head(uploads) = Rehearsal
          /\ uploads' = Tail(uploads) /\ UNCHANGED <<awaiting, resumed>>
      BY <2>2 DEF RehearsalUploaded, RehearsalUploadFails
    <3>2. CallsTyped' /\ Settled(Rehearsal)
      BY <1>0, <3>1, UploadSettles
    <3>3. Rehearsal.owner # "request"
      BY DEF Rehearsal, Call
    <3>4. QED
      BY <1>0, <3>2, <3>3, OthersSettle
  <2>3. CASE Deliver \/ BootTimesOut \/ Drop \/ Reconnect \/ Hardware \/ UNCHANGED vars
    <3>1. UNCHANGED uploads
      BY <2>3 DEF Deliver, BootTimesOut, Drop, Reconnect, Hardware, Receive, Refuse, Finish,
                  Fail, Repeat, vars, process
    <3>2. \/ UNCHANGED <<awaiting, resumed>>
          \/ awaiting' = <<>> /\ resumed' = resumed \o awaiting
      BY <2>3 DEF Deliver, BootTimesOut, Drop, Reconnect, Hardware, Receive, Refuse, Finish,
                  Fail, Repeat, vars, process
    <3>3. QED
      BY <1>0, <3>1, <3>2, WaitsResolve, RequestsKept DEF Kept
  <2>4. QED
    BY <2>1, <2>2, <2>3
<1>4. QED
  BY <1>1, <1>2, <1>3 DEF Simulated

LEMMA StepsSimulated ==
  ASSUME FarmInv, [Next]_vars
  PROVE  [D!Next]_(D!vars)
<1>1. Crash => Simulated
  BY CrashSimulated DEF Simulated, D!Next
<1>2. Simulated
  BY <1>1, StartsEndSimulated, EjectsEndSimulated, HandledSimulated, RequestsSimulated,
     ReconcileSimulated, NetworkSimulated
  DEF Next, Microtask, Transfers, Faults
<1>3. QED
  BY <1>2 DEF Simulated, D!vars

(* The process in front of a real printer - one FTPS slot, a status to wait *)
(* for, statuses lost and repeated - takes no step the Dispatcher does not  *)
(* take in front of a printer that may do anything.                         *)
THEOREM FarmImplementsDispatcher == Spec => ImplementsDispatcher
<1>1. FarmInv /\ [Next]_vars => [D!Next]_(D!vars)
  BY StepsSimulated
<1>2. QED
  BY <1>1, FarmInvAlways, PTL DEF Spec, ImplementsDispatcher

(* A step of the farm that starts a job starts the right one: it ends with  *)
(* dispatchNext over some sound database.                                   *)
LEMMA FarmStartsLegally == FarmInv /\ [Next]_vars => D!StartIsLegal
<1>. SUFFICES ASSUME FarmInv, [Next]_vars PROVE D!StartIsLegal
  OBVIOUS
<1>1. PICK e : Stores(e)
  BY StepsPrepare DEF FarmInv, StepPrepares
<1>2. ASSUME NEW j \in Jobs, db.status[j] # "printing", db'.status[j] = "printing"
      PROVE  /\ db'.refill = 0
             /\ db'.remaining > 0
             /\ ~ProjectPaused(db', j)
             /\ \A k \in Candidates(db') : Precedes(db', j, k)
  <2>1. Sound(e) /\ e.status[j] # "printing"
    BY <1>1, <1>2 DEF Stores, Prepares, StartsNothing
  <2>2. db' = DispatchNext(e) /\ db'.status[j] = "printing"
    BY <1>1, <1>2, <2>1 DEF Stores
  <2>3. QED
    BY <2>1, <2>2, DispatchNextStartsLegally
<1>3. \A d : D!Candidates(d) = Candidates(d)
  BY DEF D!Candidates, Candidates, D!ByStatus, ByStatus, D!ProjectPaused, ProjectPaused
<1>4. ASSUME NEW j \in D!NewlyPrinting
      PROVE  /\ db'.refill = 0
             /\ db'.remaining > 0
             /\ ~D!ProjectPaused(db', j)
             /\ \A k \in D!Candidates(db') : D!Precedes(db', j, k)
  <2>1. j \in Jobs /\ db.status[j] # "printing" /\ db'.status[j] = "printing"
    BY <1>4 DEF D!NewlyPrinting
  <2>2. /\ db'.refill = 0
        /\ db'.remaining > 0
        /\ ~ProjectPaused(db', j)
        /\ \A k \in Candidates(db') : Precedes(db', j, k)
    BY <1>2, <2>1
  <2>3. D!Candidates(db') = Candidates(db')
    BY <1>3
  <2>4. D!ProjectPaused(db', j) <=> ProjectPaused(db', j)
    BY DEF D!ProjectPaused, ProjectPaused
  <2>5. ASSUME NEW k PROVE D!Precedes(db', j, k) <=> Precedes(db', j, k)
    BY DEF D!Precedes, Precedes
  <2>6. QED
    BY <2>2, <2>3, <2>4, <2>5
<1>5. QED
  BY <1>4 DEF D!StartIsLegal

(* What Dispatcher promises in front of any printer (INV-DISPATCH-01..04,   *)
(* INV-STOCKER-04/05) holds in front of this one: the rows, the stocker and *)
(* its refill agree, and every start is the right one.                      *)
THEOREM FarmKeepsDispatchersPromises ==
  Spec => [](D!AtMostOnePrinting /\ D!RefillOnlyWhenEmpty) /\ D!StartsAreLegal
<1>1. FarmInv => D!AtMostOnePrinting /\ D!RefillOnlyWhenEmpty
  BY DEF FarmInv, OnePrinting, Sound, StockerOK, ByStatus, D!AtMostOnePrinting,
         D!RefillOnlyWhenEmpty, D!ByStatus
<1>2. FarmInv /\ [Next]_vars => [D!StartIsLegal]_(D!vars)
  BY FarmStartsLegally
<1>3. QED
  BY <1>1, <1>2, FarmInvAlways, PTL DEF Spec, D!StartsAreLegal

-----------------------------------------------------------------------------
(* Errands: how often the plate of j is on its way to be printed - its      *)
(* start in the FTPS queue, its file on the link, the print itself.         *)

PostsIn(calls, j) ==
  Count(calls, Call("start", j, "monitor")) + Count(calls, Call("start", j, "request"))

Posts(j) == PostsIn(uploads, j)
Files(j) == Count(commands, File(j))
Runs(j) == IF Running(j) THEN 1 ELSE 0
Errands(j) == Posts(j) + Files(j) + Runs(j)

Posting(c, j) == IF c.kind = "start" /\ c.job = j THEN 1 ELSE 0

LEMMA PostingIs ==
  ASSUME NEW c \in Calls, NEW j \in Jobs
  PROVE  Once(Call("start", j, "monitor"), c) + Once(Call("start", j, "request"), c)
           = Posting(c, j)
<1>1. CASE c \in JobCalls
  BY <1>1 DEF Posting, Once, Call, JobCalls
<1>2. CASE c \notin JobCalls
  BY <1>2 DEF Posting, Once, Call, Calls, JobCalls, WizardEject, Rehearsal
<1>3. QED
  BY <1>1, <1>2

LEMMA PostsInNat ==
  ASSUME NEW calls \in Seq(Calls), NEW j
  PROVE  PostsIn(calls, j) \in Nat
BY PlacesAreFinite DEF PostsIn

LEMMA PostsInAppend ==
  ASSUME NEW calls \in Seq(Calls), NEW c \in Calls, NEW j \in Jobs
  PROVE  PostsIn(Append(calls, c), j) = PostsIn(calls, j) + Posting(c, j)
<1>. DEFINE m == Call("start", j, "monitor")
            r == Call("start", j, "request")
<1>1. /\ Count(Append(calls, c), m) = Count(calls, m) + Once(m, c)
      /\ Count(Append(calls, c), r) = Count(calls, r) + Once(r, c)
  BY CountAppend
<1>2. Count(calls, m) \in Nat /\ Count(calls, r) \in Nat
  BY PlacesAreFinite
<1>3. Once(m, c) + Once(r, c) = Posting(c, j)
  BY PostingIs
<1>4. Once(m, c) \in Nat /\ Once(r, c) \in Nat
  BY DEF Once
<1>. HIDE DEF m, r
<1>5. QED
  BY <1>1, <1>2, <1>3, <1>4 DEF PostsIn, m, r

LEMMA PostsInTail ==
  ASSUME NEW calls \in Seq(Calls), calls # <<>>, NEW j \in Jobs
  PROVE  PostsIn(calls, j) = PostsIn(Tail(calls), j) + Posting(Head(calls), j)
<1>. DEFINE m == Call("start", j, "monitor")
            r == Call("start", j, "request")
            h == Head(calls)
            t == Tail(calls)
<1>1. /\ Count(calls, m) = Count(t, m) + Once(m, h)
      /\ Count(calls, r) = Count(t, r) + Once(r, h)
  BY CountTail
<1>2. h \in Calls /\ t \in Seq(Calls)
  BY HeadTailProperties
<1>. HIDE DEF h, t
<1>3. Count(t, m) \in Nat /\ Count(t, r) \in Nat
  BY <1>2, PlacesAreFinite
<1>4. Once(m, h) + Once(r, h) = Posting(h, j)
  BY <1>2, PostingIs
<1>5. Once(m, h) \in Nat /\ Once(r, h) \in Nat
  BY DEF Once
<1>. HIDE DEF m, r
<1>6. PostsIn(calls, j) = PostsIn(t, j) + Posting(h, j)
  BY <1>1, <1>3, <1>4, <1>5 DEF PostsIn, m, r
<1>7. QED
  BY <1>6 DEF h, t

LEMMA AdvanceRows ==
  ASSUME NEW e \in DB, NEW calls \in Seq(Calls), NEW o \in {"monitor", "request"},
         Advance(e, calls, o), NEW k \in Jobs
  PROVE  /\ db'.attempts[k] = e.attempts[k]
         /\ k \in Started(e) =>
              e.status[k] = "queued" /\ db'.status[k] = "printing" /\ Posts(k)' = PostsIn(calls, k) + 1
         /\ k \notin Started(e) =>
              db'.status[k] = e.status[k] /\ Posts(k)' = PostsIn(calls, k)
<1>1. db' = DispatchNext(e)
  BY DEF Advance
<1>2. db'.attempts[k] = e.attempts[k]
  BY <1>1, DispatchIsQuiet DEF Quiet
<1>3. /\ k \in Started(e) => e.status[k] = "queued" /\ db'.status[k] = "printing"
      /\ k \notin Started(e) => db'.status[k] = e.status[k]
  BY <1>1, DispatchStatus
<1>4. Posts(k)' = PostsIn(calls, k) + IF k \in Started(e) THEN 1 ELSE 0
  <2>1. CASE Started(e) = {} /\ uploads' = calls
    BY <2>1, PostsInNat DEF Posts, PostsIn
  <2>2. ASSUME NEW j \in Started(e), uploads' = Append(calls, Call("start", j, o))
        PROVE  Posts(k)' = PostsIn(calls, k) + IF k \in Started(e) THEN 1 ELSE 0
    <3>1. j \in Jobs /\ Call("start", j, o) \in Calls
      BY <2>2, StartedInJobs, CallsAreCalls
    <3>2. \A i \in Started(e) : i = j
      BY <2>2, FirstCandidateUnique DEF Started
    <3>3. Posting(Call("start", j, o), k) = IF k \in Started(e) THEN 1 ELSE 0
      BY <2>2, <3>2 DEF Posting, Call
    <3>4. PostsIn(Append(calls, Call("start", j, o)), k)
            = PostsIn(calls, k) + Posting(Call("start", j, o), k)
      BY <3>1, PostsInAppend
    <3>5. Posts(k)' = PostsIn(Append(calls, Call("start", j, o)), k)
      BY <2>2 DEF Posts, PostsIn
    <3>6. QED
      BY <3>3, <3>4, <3>5
  <2>3. QED
    BY <2>1, <2>2 DEF Advance
<1>5. PostsIn(calls, k) \in Nat
  BY PostsInNat
<1>6. QED
  BY <1>2, <1>3, <1>4, <1>5

LEMMA PublishCounts ==
  ASSUME commands \in Seq(Commands), NEW c \in Commands, Publish(<<c>>), NEW x
  PROVE  Count(commands', x) = Count(commands, x) + Once(x, c)
<1>1. commands' = Append(commands, c)
  BY DEF Publish
<1>2. QED
  BY <1>1, CountAppend

LEMMA ErrandsAreCounted ==
  ASSUME CallsTyped, RecordsTyped, NEW j
  PROVE  Posts(j) \in Nat /\ Files(j) \in Nat /\ Runs(j) \in Nat /\ Errands(j) \in Nat
<1>1. Posts(j) \in Nat
  BY PostsInNat DEF Posts, CallsTyped
<1>2. Files(j) \in Nat
  BY PlacesAreFinite DEF Files, RecordsTyped
<1>3. QED
  BY <1>1, <1>2 DEF Errands, Runs

-----------------------------------------------------------------------------
(* A row keeps step with its plate                                          *)

(* Status s, a attempts, m plates made, l lost, n errands under way.        *)
InStep(s, a, m, l, n) ==
  /\ s \in {"queued", "printing", "success", "failed"}
  /\ n <= 1
  /\ n = 1 => s = "printing"
  /\ s # "printing" \/ n = 1 => l = a
  /\ s \in {"queued", "failed"} \/ n = 1 => m = 0
  /\ m <= 1
  /\ s = "printing" => l <= a + 1 /\ (m = 0 \/ l = a)

RowInStep(j) == InStep(db.status[j], db.attempts[j], made[j], lost[j], Errands(j))

(* Nothing aborts: no request ejects, and the boot is over.                 *)
CalmCalls == {c \in Calls : c.owner = "request" => c.kind = "start"}

RowsInStep ==
  /\ boot = "up"
  /\ uploads \in Seq(CalmCalls)
  /\ \A j \in Jobs : RowInStep(j)

(* What a step makes of a row ...                                           *)
Turns(j, from, to) == db.status[j] \in from /\ db'.status[j] = to

Keeps(j) == db'.status[j] = db.status[j]

(* ... and of the plates counted for it.                                    *)
SamePlates(j) == made'[j] = made[j] /\ lost'[j] = lost[j]

Uncounted(j) == db'.attempts[j] = db.attempts[j]

Stays(j) == Keeps(j) /\ Uncounted(j) /\ SamePlates(j) /\ Errands(j)' = Errands(j)

Launches(j) ==
  /\ Turns(j, {"queued"}, "printing") /\ Uncounted(j) /\ SamePlates(j)
  /\ Errands(j)' = Errands(j) + 1

Relaunches(j) ==
  /\ Turns(j, {"failed"}, "printing") /\ Uncounted(j) /\ SamePlates(j)
  /\ Errands(j)' = Errands(j) + 1

(* Its file is lost with the connection, refused, or comes at a bad time.   *)
Misses(j) ==
  /\ Keeps(j) /\ Uncounted(j) /\ SamePlates(j) /\ Errands(j)' < Errands(j)
  /\ Drop \/ Refuse \/ (Sent(j) /\ printer.state = "RUNNING")

Requeues(j) ==
  /\ Turns(j, {"failed"}, "queued") /\ Uncounted(j) /\ SamePlates(j)
  /\ Errands(j)' = Errands(j)

Reverts(j) ==
  /\ Turns(j, {"printing"}, "queued") /\ Uncounted(j) /\ SamePlates(j)
  /\ Errands(j) = Errands(j)' + 1

Succeeds(j) ==
  /\ Turns(j, {"printing"}, "success") /\ Uncounted(j) /\ SamePlates(j)
  /\ Errands(j)' = Errands(j)
  /\ made[j] > 0

Fails(j) ==
  /\ Turns(j, {"printing"}, "failed") /\ db'.attempts[j] = db.attempts[j] + 1 /\ SamePlates(j)
  /\ Errands(j)' = Errands(j)
  /\ lost[j] > db.attempts[j]

FinishOf(j) == Report("FINISH", j)

Lands(j) ==
  /\ Keeps(j) /\ Uncounted(j)
  /\ Errands(j) = Errands(j)' + 1
  /\ \/ printer' = FinishOf(j) /\ made'[j] = made[j] + 1 /\ lost'[j] = lost[j]
     \/ printer' = FailedOn(j) /\ made'[j] = made[j] /\ lost'[j] = lost[j] + 1

OwnStep(j) ==
  Stays(j) \/ Launches(j) \/ Reverts(j) \/ Succeeds(j) \/ Fails(j) \/ Lands(j)

RowStep(j) == OwnStep(j) \/ Misses(j) \/ Requeues(j) \/ Relaunches(j)

LEMMA RowStepsKeepStep ==
  ASSUME FarmInv, RecordsTyped, CallsTyped', RecordsTyped', NEW j \in Jobs, RowInStep(j), RowStep(j)
  PROVE  RowInStep(j)'
<1>. DEFINE n == Errands(j)
            q == Errands(j)'
            m == made[j]
            l == lost[j]
            a == db.attempts[j]
            s == db.status[j]
<1>1. n \in Nat
  BY ErrandsAreCounted DEF FarmInv, CallsInv
<1>2. /\ Posts(j)' \in Nat /\ Files(j)' \in Nat /\ Runs(j)' \in Nat
  <2>1. uploads' \in Seq(Calls) /\ commands' \in Seq(Commands)
    BY DEF CallsTyped, RecordsTyped
  <2>2. PostsIn(uploads', j) \in Nat /\ Count(commands', File(j)) \in Nat
    BY <2>1, PostsInNat, PlacesAreFinite
  <2>3. QED
    BY <2>2 DEF Posts, Files, Runs, PostsIn
<1>3. q \in Nat
  BY <1>2 DEF Errands
<1>4. m \in Nat /\ l \in Nat /\ a \in Nat
  BY DEF RecordsTyped, FarmInv, Sound, DB
<1>5. InStep(s, a, m, l, n)
  BY DEF RowInStep
<1>6. InStep(db'.status[j], db'.attempts[j], made'[j], lost'[j], q)
  <2>. HIDE DEF n, q, m, l, a, s
  <2>1. CASE Stays(j) \/ Misses(j)
    BY <1>1, <1>3, <1>4, <1>5, <2>1
    DEF Stays, Misses, Keeps, Uncounted, SamePlates, InStep, n, q, m, l, a, s
  <2>2. CASE Launches(j) \/ Relaunches(j)
    BY <1>1, <1>3, <1>4, <1>5, <2>2
    DEF Launches, Relaunches, Turns, Uncounted, SamePlates, InStep, n, q, m, l, a, s
  <2>3. CASE Requeues(j) \/ Reverts(j)
    BY <1>1, <1>3, <1>4, <1>5, <2>3
    DEF Requeues, Reverts, Turns, Uncounted, SamePlates, InStep, n, q, m, l, a, s
  <2>4. CASE Succeeds(j)
    BY <1>1, <1>3, <1>4, <1>5, <2>4 DEF Succeeds, Turns, Uncounted, SamePlates, InStep, n, q, m, l, a, s
  <2>5. CASE Fails(j)
    BY <1>1, <1>3, <1>4, <1>5, <2>5 DEF Fails, Turns, SamePlates, InStep, n, q, m, l, a, s
  <2>6. CASE Lands(j)
    BY <1>1, <1>3, <1>4, <1>5, <2>6 DEF Lands, Keeps, Uncounted, InStep, n, q, m, l, a, s
  <2>7. QED
    BY <2>1, <2>2, <2>3, <2>4, <2>5, <2>6 DEF RowStep, OwnStep
<1>7. QED
  BY <1>6 DEF RowInStep

(* The farm as its rows are found before a step.                            *)
FarmInStep ==
  /\ FarmInv /\ RecordsTyped /\ ReportsAreTrue /\ FailuresAreDated
  /\ Calm /\ RowsInStep

LEMMA FarmInStepTypes ==
  ASSUME FarmInStep
  PROVE  /\ Sound(db) /\ db \in DB /\ CallsTyped /\ uploads \in Seq(Calls) /\ uploads \in Seq(CalmCalls)
         /\ commands \in Seq(Commands)
         /\ made \in [Jobs -> Nat] /\ lost \in [Jobs -> Nat]
         /\ \A j \in Jobs : /\ Posts(j) \in Nat /\ Files(j) \in Nat /\ Runs(j) \in Nat
                            /\ db.attempts[j] \in Nat
                            /\ db.status[j] \in {"queued", "printing", "success", "failed"}
                            /\ Errands(j) > 0 => db.status[j] = "printing"
<1>1. /\ Sound(db) /\ db \in DB /\ CallsTyped /\ uploads \in Seq(Calls) /\ uploads \in Seq(CalmCalls)
      /\ RecordsTyped
  BY DEF FarmInStep, FarmInv, CallsInv, Sound, CallsTyped, RowsInStep
<1>2. \A j \in Jobs : Posts(j) \in Nat /\ Files(j) \in Nat /\ Runs(j) \in Nat /\ Errands(j) \in Nat
  BY <1>1, ErrandsAreCounted
<1>3. \A j \in Jobs : db.attempts[j] \in Nat
  BY <1>1 DEF DB
<1>4. ASSUME NEW j \in Jobs
      PROVE  /\ db.status[j] \in {"queued", "printing", "success", "failed"}
             /\ Errands(j) > 0 => db.status[j] = "printing"
  <2>1. RowInStep(j) /\ Errands(j) \in Nat
    BY <1>2 DEF FarmInStep, RowsInStep
  <2>. DEFINE n == Errands(j)
  <2>. HIDE DEF n
  <2>2. InStep(db.status[j], db.attempts[j], made[j], lost[j], n) /\ n \in Nat
    BY <2>1 DEF RowInStep, n
  <2>3. db.status[j] \in {"queued", "printing", "success", "failed"} /\ (n > 0 => db.status[j] = "printing")
    BY <2>2 DEF InStep
  <2>4. QED
    BY <2>3 DEF n
<1>5. QED
  BY <1>1, <1>2, <1>3, <1>4 DEF RecordsTyped

LEMMA FailuresAreDue ==
  ASSUME FarmInStep, Handle, NEW j \in Jobs, Head(chain) = FailedOn(j), Head(chain) # lastKey
  PROVE  lost[j] > db.attempts[j]
<1>1. RecordsTyped /\ chain # <<>> /\ spent["crash"] = 0
  BY DEF FarmInStep, Handle, Calm
<1>2. PICK f : Dated(j, f)
  BY DEF FarmInStep, FailuresAreDated
<1>3. Length \in Nat /\ Length > 2 /\ Trail[1] = lastKey /\ Trail[2] = Head(chain)
  BY <1>1, StatusesInOne, TrailHandled DEF Length, Trail
<1>4. f[1] < f[2] /\ f[2] <= f[Length]
  <2>. DEFINE n == Length
  <2>1. n \in Nat /\ n > 2
    BY <1>3
  <2>. HIDE DEF n
  <2>2. 1 \in 1 .. n /\ 2 \in 1 .. n /\ n \in 1 .. n /\ 2 < n /\ 1 < 2
    BY <2>1
  <2>3. Dates(Trail, n, FailedOn(j), f)
    BY <1>2 DEF Dated, n
  <2>4. QED
    BY <1>3, <2>2, <2>3 DEF Dates, n
<1>5. /\ f[1] \in Int /\ f[2] \in Int /\ f[Length] \in Int
  BY <1>2, <1>3 DEF Dated, Dates
<1>6. f[Length] = lost[j] /\ db.attempts[j] <= f[1]
  <2>1. f[Length] = lost[j] /\ db.attempts[j] <= f[1] + 0
    BY <1>1, <1>2 DEF Dated
  <2>2. QED
    BY <1>5, <2>1
<1>7. lost[j] \in Int /\ db.attempts[j] \in Int
  BY FarmInStepTypes
<1>8. QED
  BY <1>4, <1>5, <1>6, <1>7

LEMMA SuccessIsDue ==
  ASSUME FarmInStep, Handle, Head(chain).state = "FINISH", NEW j \in Jobs, Head(chain).task = j
  PROVE  made[j] > 0
<1>1. Head(chain) \in TrueReports
  BY HeadTailProperties DEF FarmInStep, Handle, ReportsAreTrue
<1>2. QED
  BY <1>1 DEF TrueReports

(* The files on the link after one more command.                            *)
LEMMA FilesPublished ==
  ASSUME FarmInStep, NEW c \in Commands, Publish(<<c>>), NEW j
  PROVE  Files(j)' = Files(j) + Once(File(j), c)
BY PublishCounts DEF Files, FarmInStep, RecordsTyped

LEMMA OtherCommands ==
  ASSUME NEW j \in Jobs
  PROVE  /\ Once(File(j), Stop) = 0 /\ Once(File(j), PushAll) = 0 /\ Once(File(j), WizardStop) = 0
         /\ Once(File(j), File(Eject)) = 0 /\ Once(File(j), File(Dry)) = 0
         /\ \A k : Once(File(j), File(k)) = IF j = k THEN 1 ELSE 0
<1>1. j # Eject /\ j # Dry
  BY FarmAssumption
<1>2. QED
  BY <1>1 DEF Once, File, Stop, PushAll, WizardStop

LEMMA PostsInKept ==
  ASSUME UNCHANGED uploads, NEW j
  PROVE  Posts(j)' = Posts(j)
BY DEF Posts, PostsIn

LEMMA FilesKept ==
  ASSUME UNCHANGED commands, NEW j
  PROVE  Files(j)' = Files(j)
BY DEF Files

LEMMA RunsKept ==
  ASSUME UNCHANGED printer, NEW j
  PROVE  Runs(j)' = Runs(j)
BY DEF Runs, Running

LEMMA PostsTaken ==
  ASSUME FarmInStep, uploads # <<>>, uploads' = Tail(uploads), NEW j \in Jobs
  PROVE  Posts(j) = Posts(j)' + Posting(Head(uploads), j) /\ Posts(j)' \in Nat
<1>1. uploads \in Seq(Calls) /\ Tail(uploads) \in Seq(Calls)
  BY FarmInStepTypes, HeadTailProperties
<1>2. PostsIn(uploads, j) = PostsIn(Tail(uploads), j) + Posting(Head(uploads), j)
  BY <1>1, PostsInTail
<1>3. PostsIn(Tail(uploads), j) \in Nat
  BY <1>1, PostsInNat
<1>4. QED
  BY <1>2, <1>3 DEF Posts, PostsIn

LEMMA PostsAdded ==
  ASSUME FarmInStep, NEW c \in Calls, uploads' = Append(uploads, c), NEW j \in Jobs
  PROVE  Posts(j)' = Posts(j) + Posting(c, j)
<1>1. PostsIn(Append(uploads, c), j) = PostsIn(uploads, j) + Posting(c, j)
  BY FarmInStepTypes, PostsInAppend
<1>2. QED
  BY <1>1 DEF Posts, PostsIn

LEMMA QuietStep ==
  ASSUME FarmInStep, NEW j \in Jobs, Keeps(j), Uncounted(j), UNCHANGED machine,
         Posts(j)' + Files(j)' = Posts(j) + Files(j), Posts(j)' \in Nat, Files(j)' \in Nat
  PROVE  Stays(j)
<1>1. SamePlates(j) /\ Runs(j)' = Runs(j)
  BY RunsKept DEF SamePlates, machine
<1>2. Posts(j)' + Files(j)' + Runs(j)' = Posts(j) + Files(j) + Runs(j)
  BY <1>1
<1>3. QED
  BY <1>1, <1>2 DEF Stays, Errands

LEMMA SameErrands ==
  ASSUME NEW j, Posts(j)' = Posts(j), Files(j)' = Files(j), Runs(j)' = Runs(j)
  PROVE  Errands(j)' = Errands(j)
BY DEF Errands

(* A dispatch launches a queued row, and leaves the others alone.           *)
LEMMA AdvanceSteps ==
  ASSUME FarmInStep, NEW e \in DB, NEW o \in {"monitor", "request"}, Advance(e, uploads, o),
         UNCHANGED <<commands, machine>>, NEW k \in Jobs, e.attempts[k] = db.attempts[k],
         e.status[k] = db.status[k] \/ (e.status[k] = "queued" /\ db.status[k] = "failed")
  PROVE  IF e.status[k] = db.status[k] THEN Stays(k) \/ Launches(k)
                                     ELSE Requeues(k) \/ Relaunches(k)
<1>1. /\ db'.attempts[k] = e.attempts[k]
      /\ k \in Started(e) => e.status[k] = "queued" /\ db'.status[k] = "printing"
                             /\ Posts(k)' = Posts(k) + 1
      /\ k \notin Started(e) => db'.status[k] = e.status[k] /\ Posts(k)' = Posts(k)
  BY FarmInStepTypes, AdvanceRows DEF Posts
<1>2. SamePlates(k) /\ Runs(k)' = Runs(k) /\ Files(k)' = Files(k)
  BY RunsKept, FilesKept DEF SamePlates, machine
<1>3. Posts(k) \in Nat /\ Files(k) \in Nat /\ Runs(k) \in Nat
  BY FarmInStepTypes
<1>4. CASE k \in Started(e)
  <2>1. Errands(k)' = Errands(k) + 1
    <3>. DEFINE p == Posts(k) f == Files(k) r == Runs(k)
    <3>1. Errands(k)' = p + 1 + f + r /\ Errands(k) = p + f + r
      BY <1>1, <1>2, <1>4 DEF Errands
    <3>2. p \in Nat /\ f \in Nat /\ r \in Nat
      BY <1>3
    <3>. HIDE DEF p, f, r
    <3>3. p + 1 + f + r = (p + f + r) + 1
      BY <3>2
    <3>4. QED
      BY <3>1, <3>3
  <2>2. QED
    BY <1>1, <1>2, <1>4, <2>1 DEF Launches, Relaunches, Turns, Uncounted
<1>5. CASE k \notin Started(e)
  <2>1. Errands(k)' = Errands(k)
    BY <1>1, <1>2, <1>5, SameErrands
  <2>2. CASE e.status[k] = db.status[k]
    BY <1>1, <1>2, <1>3, <1>5, <2>2, QuietStep DEF Keeps, Uncounted
  <2>3. CASE e.status[k] = "queued" /\ db.status[k] = "failed"
    BY <1>1, <1>2, <1>5, <2>1, <2>3 DEF Requeues, Turns, Uncounted
  <2>4. QED
    BY <2>2, <2>3
<1>6. QED
  BY <1>4, <1>5

LEMMA HandleSteps ==
  ASSUME FarmInStep, Handle, NEW k \in Jobs
  PROVE  OwnStep(k)
<1>. DEFINE s == Head(chain)
            ended == IF Repeated(s) THEN {} ELSE CurrentJob(s)
<1>1. /\ Sound(db) /\ db \in DB /\ Posts(k) \in Nat /\ Files(k) \in Nat /\ k # Eject
      /\ db.status[k] \in {"queued", "printing", "success", "failed"}
      /\ UNCHANGED machine
  BY FarmInStepTypes, FarmAssumption DEF Handle
<1>2. \A j \in ended : j \in Jobs /\ db.status[j] = "printing" /\ j \in Rows(db) /\ s.task = j /\ s # lastKey
  BY CurrentJobIsPrinting DEF Repeated, Rows, RowStatus
<1>3. SamePlates(k) /\ Runs(k)' = Runs(k)
  BY <1>1, RunsKept DEF SamePlates, machine
<1>4. CASE UNCHANGED <<db, uploads, commands>>
  <2>1. Posts(k)' = Posts(k) /\ Files(k)' = Files(k)
    BY <1>4, PostsInKept, FilesKept
  <2>2. Stays(k)
    BY <1>1, <1>4, <2>1, QuietStep DEF Keeps, Uncounted
  <2>3. QED
    BY <2>2 DEF OwnStep
<1>5. ASSUME NEW j \in ended, s.state = "FINISH", db' = MarkSuccess(db, j),
             UNCHANGED <<uploads, commands>>
      PROVE  OwnStep(k)
  <2>1. /\ db'.status[k] = IF k = j THEN "success" ELSE db.status[k]
        /\ db'.attempts[k] = db.attempts[k]
    BY <1>1, <1>2, <1>5, UpdatedStatus, AttemptsUntouched DEF MarkSuccess
  <2>2. Posts(k)' = Posts(k) /\ Files(k)' = Files(k) /\ Errands(k)' = Errands(k)
    BY <1>3, <1>5, PostsInKept, FilesKept, SameErrands
  <2>3. CASE k = j
    <3>1. made[k] > 0
      BY <1>2, <1>5, <2>3, SuccessIsDue
    <3>2. Succeeds(k)
      BY <1>2, <1>3, <2>1, <2>2, <2>3, <3>1 DEF Succeeds, Turns, Uncounted
    <3>3. QED
      BY <3>2 DEF OwnStep
  <2>4. CASE k # j
    <3>1. Stays(k)
      BY <1>1, <2>1, <2>2, <2>4, QuietStep DEF Keeps, Uncounted
    <3>2. QED
      BY <3>1 DEF OwnStep
  <2>5. QED
    BY <2>3, <2>4
<1>6. ASSUME NEW j \in ended, s.state = "FINISH", ~FinishThrows(db),
             Advance(Finished(db, j), uploads, "monitor"), UNCHANGED commands
      PROVE  OwnStep(k)
  <2>. DEFINE e == Finished(db, j)
  <2>1. e \in DB
    BY <1>1, <1>2, <1>6, FinishedPrepares DEF Prepares, Sound
  <2>2. e.attempts[k] = db.attempts[k]
    BY <1>1, <1>2, FinishedEndsOne
  <2>3. e.status[k] = IF k = j THEN "success" ELSE db.status[k]
    BY <1>1, <1>2, FinishedStatus, UpdatedStatus DEF MarkSuccess
  <2>. HIDE DEF e
  <2>4. CASE k = j
    <3>1. /\ db'.attempts[k] = e.attempts[k]
          /\ k \notin Started(e)
          /\ db'.status[k] = e.status[k] /\ Posts(k)' = Posts(k)
      BY <1>6, <2>1, <2>3, <2>4, FarmInStepTypes, AdvanceRows DEF Posts, e
    <3>2. Errands(k)' = Errands(k)
      BY <1>3, <1>6, <3>1, FilesKept, SameErrands
    <3>3. made[k] > 0
      BY <1>2, <1>6, <2>4, SuccessIsDue
    <3>4. Succeeds(k)
      BY <1>2, <1>3, <2>2, <2>3, <2>4, <3>1, <3>2, <3>3 DEF Succeeds, Turns, Uncounted
    <3>5. QED
      BY <3>4 DEF OwnStep
  <2>5. CASE k # j
    <3>1. Stays(k) \/ Launches(k)
      BY <1>1, <1>6, <2>1, <2>2, <2>3, <2>5, AdvanceSteps DEF e
    <3>2. QED
      BY <3>1 DEF OwnStep
  <2>6. QED
    BY <2>4, <2>5
<1>7. ASSUME NEW j \in ended, s.state = "FAILED", db' = FailBegin(db, j), Publish(<<Stop>>),
             uploads' = Append(uploads, Call("eject", j, "monitor"))
      PROVE  OwnStep(k)
  <2>1. Files(k)' = Files(k)
    <3>1. Files(k)' = Files(k) + Once(File(k), Stop)
      BY <1>7, FilesPublished, CommandsTyped
    <3>2. QED
      BY <1>1, <3>1, OtherCommands
  <2>2. Posts(k)' = Posts(k)
    <3>1. Posts(k)' = Posts(k) + Posting(Call("eject", j, "monitor"), k)
      BY <1>2, <1>7, CallsAreCalls, PostsAdded
    <3>2. Posting(Call("eject", j, "monitor"), k) = 0
      BY DEF Posting, Call
    <3>3. QED
      BY <1>1, <3>1, <3>2
  <2>3. Errands(k)' = Errands(k)
    BY <1>3, <2>1, <2>2, SameErrands
  <2>. DEFINE e == UpdateStatus(db, j, "failed")
  <2>4. e \in DB /\ e.attempts = db.attempts
    BY <1>1, <1>2, UpdatedRows, AttemptsUntouched
  <2>5. \A i \in Jobs : e.status[i] = IF i = j THEN "failed" ELSE db.status[i]
    BY <1>1, <1>2, UpdatedStatus
  <2>6. db'.status = e.status /\ db' = IncrementAttempts(e, j)
    BY <1>1, <1>2, <1>7, EndedStatus DEF FailBegin
  <2>. HIDE DEF e
  <2>7. j \in Rows(e)
    BY <1>2, <2>5 DEF Rows, RowStatus
  <2>8. db'.attempts[k] = IF k = j THEN db.attempts[k] + 1 ELSE db.attempts[k]
    BY <2>4, <2>6, <2>7 DEF IncrementAttempts, DB
  <2>9. CASE k = j
    <3>1. s \in Statuses
      BY HeadTailProperties DEF FarmInStep, RecordsTyped, Handle
    <3>2. s = FailedOn(k) /\ s # lastKey
      BY <1>2, <1>7, <2>9, <3>1 DEF FailedOn, Report, Statuses
    <3>3. lost[k] > db.attempts[k]
      BY <3>2, FailuresAreDue
    <3>4. Fails(k)
      BY <1>2, <1>3, <2>3, <2>5, <2>6, <2>8, <2>9, <3>3 DEF Fails, Turns
    <3>5. QED
      BY <3>4 DEF OwnStep
  <2>10. CASE k # j
    <3>1. Stays(k)
      BY <1>1, <2>1, <2>2, <2>5, <2>6, <2>8, <2>10, QuietStep DEF Keeps, Uncounted
    <3>2. QED
      BY <3>1 DEF OwnStep
  <2>11. QED
    BY <2>9, <2>10
<1>8. QED
  BY <1>4, <1>5, <1>6, <1>7 DEF Handle

LEMMA HeadsAreCalm ==
  ASSUME FarmInStep, uploads # <<>>
  PROVE  /\ Head(uploads) \in CalmCalls /\ Tail(uploads) \in Seq(CalmCalls)
         /\ Head(uploads).kind = "start" =>
              /\ Head(uploads) \in StartCalls /\ Head(uploads).job \in Jobs
              /\ \A j \in Jobs : Posting(Head(uploads), j) = IF j = Head(uploads).job THEN 1 ELSE 0
         /\ Head(uploads).kind # "start" => \A j \in Jobs : Posting(Head(uploads), j) = 0
         /\ Head(uploads).kind = "eject" => Head(uploads).owner # "request"
         /\ Head(uploads).owner = "monitor" => Head(uploads).job \in Jobs
<1>1. CallsTyped /\ Head(uploads) \in CalmCalls /\ Tail(uploads) \in Seq(CalmCalls)
  BY FarmInStepTypes, HeadTailProperties
<1>2. Head(uploads).kind = "start" => Head(uploads) \in StartCalls
  BY <1>1, HeadOfUploads
<1>3. Head(uploads).owner = "monitor" => Head(uploads).job \in Jobs
  BY <1>1 DEF CalmCalls, Calls, WizardEject, Rehearsal, Call
<1>4. QED
  BY <1>1, <1>2, <1>3 DEF CalmCalls, StartCalls, JobCalls, Posting

(* A call leaves the FTPS queue, with at most its own file published.       *)
LEMMA UploadSteps ==
  ASSUME FarmInStep, NEW k \in Jobs,
         StartUploaded \/ EjectUploaded \/ RehearsalUploaded
           \/ StartUploadFails \/ EjectUploadFails \/ RehearsalUploadFails
  PROVE  OwnStep(k)
<1>. DEFINE h == Head(uploads)
<1>1. /\ uploads # <<>> /\ UNCHANGED machine
      /\ Sound(db) /\ db \in DB /\ Posts(k) \in Nat /\ Files(k) \in Nat /\ Runs(k) \in Nat
  BY FarmInStepTypes
  DEF StartUploaded, EjectUploaded, RehearsalUploaded, StartUploadFails, EjectUploadFails,
      RehearsalUploadFails
<1>2. /\ h \in CalmCalls
      /\ h.kind = "start" =>
              /\ h \in StartCalls /\ h.job \in Jobs
              /\ \A j \in Jobs : Posting(h, j) = IF j = h.job THEN 1 ELSE 0
      /\ h.kind # "start" => \A j \in Jobs : Posting(h, j) = 0
      /\ h.kind = "eject" => h.owner # "request"
      /\ h.owner = "monitor" => h.job \in Jobs
  BY <1>1, HeadsAreCalm
<1>3. uploads' = Tail(uploads) => Posts(k) = Posts(k)' + Posting(h, k) /\ Posts(k)' \in Nat
  BY <1>1, PostsTaken
<1>4. SamePlates(k) /\ Runs(k)' = Runs(k)
  BY <1>1, RunsKept DEF SamePlates, machine
<1>5. CASE StartUploaded
  <2>1. h.kind = "start" /\ uploads' = Tail(uploads) /\ UNCHANGED db /\ Publish(<<File(h.job)>>)
    BY <1>5 DEF StartUploaded
  <2>2. Files(k)' = Files(k) + Once(File(k), File(h.job))
    BY <1>2, <2>1, FilesPublished, CommandsTyped
  <2>3. Once(File(k), File(h.job)) = Posting(h, k) /\ Posting(h, k) \in {0, 1}
    BY <1>2, <2>1, OtherCommands
  <2>4. Posts(k)' + Files(k)' = Posts(k) + Files(k) /\ Files(k)' \in Nat
    BY <1>1, <1>3, <2>1, <2>2, <2>3
  <2>5. Stays(k)
    BY <1>1, <1>3, <2>1, <2>4, QuietStep DEF Keeps, Uncounted
  <2>6. QED
    BY <2>5 DEF OwnStep
<1>6. CASE StartUploadFails
  <2>1. /\ h.kind = "start" /\ uploads' = Tail(uploads) /\ UNCHANGED commands
        /\ db' = UpdateStatus(db, h.job, "queued")
    BY <1>6 DEF StartUploadFails, StartFails, RevertStart, network
  <2>2. Files(k)' = Files(k)
    BY <2>1, FilesKept
  <2>3. /\ db'.status[k] = IF k = h.job /\ h.job \in Rows(db) THEN "queued" ELSE db.status[k]
        /\ db'.attempts[k] = db.attempts[k]
    BY <1>1, <1>2, <2>1, UpdatedStatus, AttemptsUntouched
  <2>4. CASE k = h.job
    <3>1. Posts(k) = Posts(k)' + 1 /\ Posts(k)' \in Nat
      BY <1>2, <1>3, <2>1, <2>4
    <3>2. Errands(k) = Errands(k)' + 1 /\ Errands(k) > 0
      <4>. DEFINE pp == Posts(k)' f == Files(k) r == Runs(k)
      <4>1. Errands(k)' = pp + f + r /\ Errands(k) = (pp + 1) + f + r
        BY <1>4, <2>2, <3>1 DEF Errands
      <4>2. pp \in Nat /\ f \in Nat /\ r \in Nat
        BY <1>1, <3>1
      <4>. HIDE DEF pp, f, r
      <4>3. (pp + 1) + f + r = (pp + f + r) + 1 /\ (pp + 1) + f + r > 0
        BY <4>2
      <4>4. QED
        BY <4>1, <4>3
    <3>3. db.status[k] = "printing"
      BY <3>2, FarmInStepTypes
    <3>4. k \in Rows(db)
      BY <3>3 DEF Rows, RowStatus
    <3>5. Reverts(k)
      BY <1>4, <2>3, <2>4, <3>2, <3>3, <3>4 DEF Reverts, Turns, Uncounted
    <3>6. QED
      BY <3>5 DEF OwnStep
  <2>5. CASE k # h.job
    <3>1. Posts(k) = Posts(k)' /\ Posts(k)' \in Nat
      BY <1>1, <1>2, <1>3, <2>1, <2>5
    <3>2. Stays(k)
      BY <1>1, <2>2, <2>3, <2>5, <3>1, QuietStep DEF Keeps, Uncounted
    <3>3. QED
      BY <3>2 DEF OwnStep
  <2>6. QED
    BY <2>4, <2>5
<1>7. CASE EjectUploaded \/ RehearsalUploaded \/ EjectUploadFails \/ RehearsalUploadFails
  <2>1. h.kind # "start" /\ uploads' = Tail(uploads)
    BY <1>2, <1>7
    DEF EjectUploaded, RehearsalUploaded, EjectUploadFails, RehearsalUploadFails, Rehearsal, Call
  <2>2. Posts(k)' = Posts(k)
    BY <1>1, <1>2, <1>3, <2>1
  <2>3. Publish(<<File(Eject)>>) \/ Publish(<<File(Dry)>>) \/ UNCHANGED commands
    BY <1>7
    DEF EjectUploaded, RehearsalUploaded, EjectUploadFails, RehearsalUploadFails, network
  <2>4. Files(k)' = Files(k)
    <3>1. \A c \in Commands : Publish(<<c>>) => Files(k)' = Files(k) + Once(File(k), c)
      BY FilesPublished
    <3>2. QED
      BY <1>1, <2>3, <3>1, CommandsTyped, OtherCommands, FilesKept
  <2>5. UNCHANGED db \/ (h.job \in Jobs /\ db' = FailEnd(db, h.job))
    BY <1>2, <1>7
    DEF EjectUploaded, RehearsalUploaded, EjectUploadFails, RehearsalUploadFails
  <2>6. Keeps(k) /\ Uncounted(k)
    BY <1>1, <2>5, FailEndStatus, EndingsAreQuiet DEF Keeps, Uncounted, Quiet
  <2>7. Stays(k)
    BY <1>1, <2>2, <2>4, <2>6, QuietStep
  <2>8. QED
    BY <2>7 DEF OwnStep
<1>8. QED
  BY <1>5, <1>6, <1>7

LEMMA SpentCounts ==
  ASSUME spent \in [Events -> Nat], NEW e \in Events, Spend(e)
  PROVE  spent'[e] > 0 /\ \A x \in Events : spent'[x] >= spent[x]
<1>1. \A x \in Events : spent'[x] = IF x = e THEN spent[x] + 1 ELSE spent[x]
  BY DEF Spend
<1>2. \A x \in Events : spent[x] \in Nat
  OBVIOUS
<1>3. QED
  BY <1>1, <1>2

LEMMA RequestSteps ==
  ASSUME FarmInStep, NEW k \in Jobs, Requests, Calm'
  PROVE  RowStep(k)
<1>1. /\ Sound(db) /\ db \in DB /\ Posts(k) \in Nat /\ Files(k) \in Nat
      /\ \A j \in Jobs : db.status[j] \in {"queued", "printing", "success", "failed"}
      /\ UNCHANGED machine
  BY FarmInStepTypes DEF Requests, Abort, Retry, Refill, Rehearse, WizardEjects
<1>2. ASSUME NEW j \in Jobs, Abort(j) PROVE FALSE
  <2>1. spent["abort"] \in Nat /\ spent'["abort"] = spent["abort"] + 1
    BY <1>2 DEF Abort, Spend, FarmInStep, RecordsTyped, Events
  <2>2. spent'["abort"] = 0
    BY DEF Calm
  <2>3. QED
    BY <2>1, <2>2
<1>3. ASSUME NEW j \in Jobs, Retry(j) PROVE RowStep(k)
  <2>. DEFINE e == Requeued(db, j)
  <2>1. e \in DB /\ e.attempts[k] = db.attempts[k]
    BY <1>1, RequeuedPrepares, EndingsAreQuiet DEF Prepares, Sound, Quiet
  <2>2. e.status[k] = IF k = j /\ j \in Rows(db) THEN "queued" ELSE db.status[k]
    BY <1>1, EndedStatus, UpdatedStatus
  <2>3. db.status[j] \in {"failed", "queued"}
    <3>1. ~Spend("rerun")
      <4>1. spent \in [Events -> Nat] /\ "rerun" \in Events
        BY DEF FarmInStep, RecordsTyped, Events
      <4>2. spent'["rerun"] = 0
        BY DEF Calm
      <4>3. QED
        BY <4>1, <4>2, SpentCounts
    <3>2. QED
      BY <1>1, <1>3, <3>1 DEF Retry, RetryKind
  <2>4. Advance(e, uploads, "request") /\ UNCHANGED <<commands, machine>>
    BY <1>3 DEF Retry, network
  <2>. HIDE DEF e
  <2>5. Stays(k) \/ Launches(k) \/ Requeues(k) \/ Relaunches(k)
    BY <2>1, <2>2, <2>3, <2>4, AdvanceSteps
  <2>6. QED
    BY <2>5 DEF RowStep, OwnStep
<1>4. CASE Refill
  <2>. DEFINE e == ResolveStockerRefills(RefillStocker(db))
  <2>1. e \in DB /\ e.attempts[k] = db.attempts[k] /\ e.status[k] = db.status[k]
    BY <1>1, RefillPrepares, AttemptsUntouched, QueueUntouched DEF Prepares, Sound
  <2>2. Advance(e, uploads, "request") /\ UNCHANGED <<commands, machine>>
    BY <1>4 DEF Refill, network
  <2>. HIDE DEF e
  <2>3. Stays(k) \/ Launches(k)
    BY <2>1, <2>2, AdvanceSteps
  <2>4. QED
    BY <2>3 DEF RowStep, OwnStep
<1>5. CASE Rehearse \/ WizardEjects
  <2>1. UNCHANGED db /\ (UNCHANGED commands \/ Publish(<<WizardStop>>))
        /\ \E c \in {Rehearsal, WizardEject} : uploads' = Append(uploads, c)
    BY <1>5 DEF Rehearse, WizardEjects, network
  <2>2. Files(k)' = Files(k)
    <3>1. Publish(<<WizardStop>>) => Files(k)' = Files(k) + Once(File(k), WizardStop)
      BY FilesPublished, CommandsTyped
    <3>2. QED
      BY <1>1, <2>1, <3>1, OtherCommands, FilesKept
  <2>3. Posts(k)' = Posts(k)
    <3>1. PICK c \in {Rehearsal, WizardEject} : uploads' = Append(uploads, c)
      BY <2>1
    <3>2. c \in Calls /\ Posting(c, k) = 0
      BY CallsAreCalls DEF Posting, Rehearsal, WizardEject, Call
    <3>3. QED
      BY <1>1, <3>1, <3>2, PostsAdded
  <2>4. Stays(k)
    BY <1>1, <2>1, <2>2, <2>3, QuietStep DEF Keeps, Uncounted
  <2>5. QED
    BY <2>4 DEF RowStep, OwnStep
<1>6. QED
  BY <1>2, <1>3, <1>4, <1>5 DEF Requests

LEMMA NetworkSteps ==
  ASSUME FarmInStep, NEW k \in Jobs, StartResumes \/ Deliver \/ Drop \/ Reconnect \/ UNCHANGED vars
  PROVE  Stays(k) \/ Misses(k)
<1>1. /\ UNCHANGED <<db, uploads, machine>>
      /\ UNCHANGED commands \/ (Drop /\ commands' = <<>>) \/ Publish(<<PushAll>>)
  BY DEF StartResumes, Deliver, Drop, Reconnect, vars, process, network
<1>2. Posts(k) \in Nat /\ Files(k) \in Nat /\ Runs(k) \in Nat
  BY FarmInStepTypes
<1>3. Posts(k)' = Posts(k) /\ Runs(k)' = Runs(k) /\ SamePlates(k) /\ Keeps(k) /\ Uncounted(k)
  BY <1>1, PostsInKept, RunsKept DEF SamePlates, machine, Keeps, Uncounted
<1>4. CASE Drop /\ commands' = <<>>
  <2>1. Files(k)' = 0
    BY <1>4, CountNone DEF Files
  <2>2. Errands(k)' = Errands(k) \/ Errands(k)' < Errands(k)
    <3>. DEFINE p == Posts(k) f == Files(k) r == Runs(k)
    <3>1. Errands(k)' = p + 0 + r /\ Errands(k) = p + f + r /\ p \in Nat /\ f \in Nat /\ r \in Nat
      BY <1>2, <1>3, <2>1 DEF Errands
    <3>. HIDE DEF p, f, r
    <3>2. p + 0 + r = p + f + r \/ p + 0 + r < p + f + r
      BY <3>1
    <3>3. QED
      BY <3>1, <3>2
  <2>3. QED
    BY <1>3, <1>4, <2>2 DEF Stays, Misses
<1>5. CASE UNCHANGED commands \/ Publish(<<PushAll>>)
  <2>1. Publish(<<PushAll>>) => Files(k)' = Files(k) + 0
    BY FilesPublished, CommandsTyped, OtherCommands
  <2>2. Files(k)' = Files(k)
    BY <1>2, <1>5, <2>1, FilesKept
  <2>3. QED
    BY <1>3, <2>2, SameErrands DEF Stays
<1>6. QED
  BY <1>1, <1>4, <1>5

(* The printer takes a command: a file it can print becomes the print.      *)
LEMMA CommandTaken ==
  ASSUME FarmInStep, commands # <<>>, commands' = Tail(commands), NEW k
  PROVE  Files(k) = Files(k)' + Once(File(k), Head(commands)) /\ Files(k)' \in Nat
<1>1. commands \in Seq(Commands) /\ Tail(commands) \in Seq(Commands)
  BY FarmInStepTypes, HeadTailProperties
<1>2. Count(commands, File(k)) = Count(Tail(commands), File(k)) + Once(File(k), Head(commands))
  BY <1>1, CountTail
<1>3. Count(Tail(commands), File(k)) \in Nat
  BY <1>1, PlacesAreFinite
<1>4. QED
  BY <1>2, <1>3 DEF Files

(* A print ends: the plate is made or lost.                                 *)
LEMMA PrintLands ==
  ASSUME FarmInStep, NEW k \in Jobs, printer.state = "RUNNING", UNCHANGED <<db, uploads>>,
         Files(k)' = Files(k),
         \/ Becomes("FINISH", printer.task) /\ made' = OneMore(made) /\ UNCHANGED lost
         \/ Spoil /\ UNCHANGED made
  PROVE  OwnStep(k)
<1>1. /\ Posts(k) \in Nat /\ Files(k) \in Nat /\ made \in [Jobs -> Nat] /\ lost \in [Jobs -> Nat]
      /\ printer = Report(printer.state, printer.task)
  BY FarmInStepTypes DEF FarmInStep, RecordsTyped, Statuses, Report
<1>2. Posts(k)' = Posts(k)
  BY PostsInKept
<1>3. Runs(k)' = 0
  BY DEF Becomes, Spoil, Runs, Running, Report
<1>4. Runs(k) = IF printer.task = k THEN 1 ELSE 0
  BY <1>1 DEF Runs, Running, Report
<1>5. Keeps(k) /\ Uncounted(k)
  BY DEF Keeps, Uncounted
<1>6. CASE printer.task = k
  <2>1. \/ printer' = FinishOf(k) /\ made'[k] = made[k] + 1 /\ lost'[k] = lost[k]
        \/ printer' = FailedOn(k) /\ made'[k] = made[k] /\ lost'[k] = lost[k] + 1
    BY <1>6 DEF Spoil, OneMore, Becomes, FinishOf, FailedOn
  <2>2. Errands(k) = Errands(k)' + 1
    <3>. DEFINE p == Posts(k) f == Files(k)
    <3>1. Errands(k)' = p + f + 0 /\ Errands(k) = p + f + 1 /\ p \in Nat /\ f \in Nat
      BY <1>1, <1>2, <1>3, <1>4, <1>6 DEF Errands
    <3>. HIDE DEF p, f
    <3>2. p + f + 1 = (p + f + 0) + 1
      BY <3>1
    <3>3. QED
      BY <3>1, <3>2
  <2>3. QED
    BY <1>5, <2>1, <2>2 DEF OwnStep, Lands
<1>7. CASE printer.task # k
  <2>1. SamePlates(k)
    BY <1>1, <1>7 DEF Spoil, OneMore, SamePlates
  <2>2. Errands(k)' = Errands(k) /\ Errands(k) \in Int
    BY <1>1, <1>2, <1>3, <1>4, <1>7, SameErrands DEF Errands
  <2>3. QED
    BY <1>5, <2>1, <2>2 DEF OwnStep, Stays
<1>8. QED
  BY <1>6, <1>7

LEMMA PrinterRowSteps ==
  ASSUME FarmInStep, NEW k \in Jobs, Hardware
  PROVE  OwnStep(k) \/ Misses(k)
<1>1. /\ Posts(k) \in Nat /\ Files(k) \in Nat /\ Runs(k) \in Nat
      /\ printer = Report(printer.state, printer.task)
      /\ UNCHANGED <<db, uploads>>
  BY FarmInStepTypes
  DEF FarmInStep, RecordsTyped, Statuses, Report, Hardware, Receive, Refuse, Finish, Fail, Repeat, process
<1>2. Posts(k)' = Posts(k)
  BY <1>1, PostsInKept
<1>3. Keeps(k) /\ Uncounted(k)
  BY <1>1 DEF Keeps, Uncounted
<1>4. CASE Receive
  <2>. DEFINE c == Head(commands)
  <2>1. Files(k) = Files(k)' + Once(File(k), c) /\ Files(k)' \in Nat
    BY <1>4, CommandTaken DEF Receive
  <2>2. CASE c.cmd = "project_file" /\ printer.state # "RUNNING" /\ Becomes("RUNNING", c.task)
             /\ UNCHANGED <<made, lost>>
    <3>1. c \in Commands
      BY <1>4, FarmInStepTypes, HeadTailProperties DEF Receive
    <3>2. Runs(k) = 0 /\ Runs(k)' = Once(File(k), c)
      BY <2>2, <3>1 DEF Runs, Running, Becomes, Report, Once, File, Commands
    <3>3. Errands(k)' = Errands(k) /\ Errands(k) \in Int
      <4>. DEFINE p == Posts(k) ff == Files(k)' o == Once(File(k), c)
      <4>1. Errands(k)' = p + ff + o /\ Errands(k) = p + (ff + o) + 0 /\ p \in Nat /\ ff \in Nat
        BY <1>1, <1>2, <2>1, <3>2 DEF Errands
      <4>2. o \in Nat
        BY DEF Once
      <4>. HIDE DEF p, ff, o
      <4>3. p + ff + o = p + (ff + o) + 0 /\ p + ff + o \in Int
        BY <4>1, <4>2
      <4>4. QED
        BY <4>1, <4>3
    <3>4. SamePlates(k)
      BY <2>2 DEF SamePlates
    <3>5. QED
      BY <1>3, <3>3, <3>4 DEF OwnStep, Stays
  <2>3. CASE c.cmd = "stop" /\ printer.state = "RUNNING" /\ Spoil /\ UNCHANGED made
    <3>1. Once(File(k), c) = 0
      BY <2>3 DEF Once, File
    <3>2. Files(k)' = Files(k)
      BY <1>1, <2>1, <3>1
    <3>3. QED
      BY <1>1, <2>3, <3>2, PrintLands
  <2>4. CASE UNCHANGED <<printer, made, lost>>
    <3>1. Runs(k)' = Runs(k) /\ SamePlates(k)
      BY <2>4, RunsKept DEF SamePlates
    <3>2. CASE c # File(k)
      <4>1. Once(File(k), c) = 0
        BY <3>2 DEF Once
      <4>2. Files(k)' = Files(k)
        BY <1>1, <2>1, <4>1
      <4>3. QED
        BY <1>2, <1>3, <3>1, <4>2, SameErrands DEF OwnStep, Stays
    <3>3. CASE c = File(k)
      <4>1. /\ printer.state = "RUNNING" /\ Sent(k)
        <5>1. 1 \in DOMAIN commands /\ c = commands[1]
          BY <1>4, FarmInStepTypes, HeadTailProperties, LenProperties, EmptySeq DEF Receive
        <5>2. printer.state = "RUNNING" \/ Becomes("RUNNING", k)
          BY <1>4, <3>3 DEF Receive, File
        <5>3. Becomes("RUNNING", k) => printer.state = "RUNNING"
          BY <2>4 DEF Becomes, Report
        <5>4. QED
          BY <3>3, <5>1, <5>2, <5>3 DEF Sent
      <4>2. Files(k) = Files(k)' + 1
        BY <2>1, <3>3 DEF Once
      <4>3. Errands(k)' < Errands(k)
        <5>. DEFINE p == Posts(k) ff == Files(k)' r == Runs(k)
        <5>1. /\ Errands(k)' = p + ff + r /\ Errands(k) = p + (ff + 1) + r
              /\ p \in Nat /\ ff \in Nat /\ r \in Nat
          BY <1>1, <1>2, <2>1, <3>1, <4>2 DEF Errands
        <5>. HIDE DEF p, ff, r
        <5>2. p + ff + r < p + (ff + 1) + r
          BY <5>1
        <5>3. QED
          BY <5>1, <5>2
      <4>4. QED
        BY <1>3, <3>1, <4>1, <4>3 DEF Misses
    <3>4. QED
      BY <3>2, <3>3
  <2>5. QED
    BY <1>1, <1>4, <2>2, <2>3, <2>4 DEF Receive, Becomes
<1>5. CASE Refuse
  <2>1. Files(k) = Files(k)' + Once(File(k), Head(commands)) /\ Files(k)' \in Nat
    BY <1>5, CommandTaken DEF Refuse
  <2>2. Runs(k)' = Runs(k) /\ SamePlates(k)
    BY <1>5, RunsKept DEF Refuse, SamePlates, machine
  <2>3. Errands(k)' = Errands(k) \/ Errands(k)' < Errands(k)
    <3>. DEFINE p == Posts(k) ff == Files(k)' o == Once(File(k), Head(commands)) r == Runs(k)
    <3>1. /\ Errands(k)' = p + ff + r /\ Errands(k) = p + (ff + o) + r
          /\ p \in Nat /\ ff \in Nat /\ r \in Nat
      BY <1>1, <1>2, <2>1, <2>2 DEF Errands
    <3>2. o \in Nat
      BY DEF Once
    <3>. HIDE DEF p, ff, o, r
    <3>3. p + ff + r = p + (ff + o) + r \/ p + ff + r < p + (ff + o) + r
      BY <3>1, <3>2
    <3>4. QED
      BY <3>1, <3>3
  <2>4. QED
    BY <1>3, <1>5, <2>2, <2>3 DEF OwnStep, Stays, Misses
<1>6. CASE Finish \/ Fail
  <2>1. Files(k)' = Files(k)
    BY <1>6, FilesKept DEF Finish, Fail
  <2>2. QED
    BY <1>1, <1>6, <2>1, PrintLands DEF Finish, Fail
<1>7. CASE Repeat
  <2>1. Files(k)' = Files(k) /\ UNCHANGED machine
    BY <1>7, FilesKept DEF Repeat
  <2>2. Stays(k)
    BY <1>1, <1>2, <1>3, <2>1, QuietStep
  <2>3. QED
    BY <2>2 DEF OwnStep
<1>8. QED
  BY <1>4, <1>5, <1>6, <1>7 DEF Hardware

-----------------------------------------------------------------------------
(* What has been spent is not given back                                    *)

LEMMA SpentOrNot ==
  ASSUME [Next]_vars
  PROVE  UNCHANGED spent \/ \E e \in Events : Spend(e)
BY DEF Next, Microtask, Handle, StartResumes, Reconcile, Transfers, StartUploaded, EjectUploaded,
       RehearsalUploaded, StartTimesOut, BootTimesOut, Deliver, Faults, StartUploadFails,
       EjectUploadFails, RehearsalUploadFails, Drop, Crash, Requests, Abort, Retry, Refill,
       Rehearse, WizardEjects, Reconnect, Hardware, Receive, Refuse, Finish, Fail, Repeat, vars,
       Events, RetryKind

LEMMA SpentGrows ==
  ASSUME RecordsTyped, [Next]_vars, NEW x \in Events, spent'[x] = 0
  PROVE  spent[x] = 0 /\ ~Spend(x)
<1>1. spent \in [Events -> Nat] /\ spent[x] \in Nat
  BY DEF RecordsTyped
<1>2. \A e \in Events : Spend(e) => spent'[e] > 0 /\ spent'[x] >= spent[x]
  BY <1>1, SpentCounts
<1>3. spent'[x] >= spent[x]
  BY <1>1, <1>2, SpentOrNot
<1>4. spent[x] = 0
  BY <1>1, <1>3
<1>5. QED
  BY <1>2, <1>4

LEMMA CalmBefore ==
  ASSUME RecordsTyped, [Next]_vars, Calm'
  PROVE  Calm /\ ~Spend("timeout") /\ ~Spend("abort") /\ ~Spend("crash") /\ ~Spend("rerun")
<1>1. {"timeout", "abort", "crash", "rerun"} \subseteq Events
  BY DEF Events
<1>2. QED
  BY <1>1, SpentGrows DEF Calm

(* What is left of the next-state relation while the farm is calm.          *)
LEMMA CalmMoves ==
  ASSUME FarmInStep, [Next]_vars, Calm'
  PROVE  \/ Handle \/ StartResumes
         \/ StartUploaded \/ EjectUploaded \/ RehearsalUploaded
         \/ StartUploadFails \/ EjectUploadFails \/ RehearsalUploadFails
         \/ Deliver \/ Drop \/ Reconnect
         \/ Requests
         \/ Hardware
         \/ UNCHANGED vars
<1>1. ~Spend("timeout") /\ ~Spend("crash")
  BY CalmBefore DEF FarmInStep
<1>2. boot = "up"
  BY DEF FarmInStep, RowsInStep
<1>3. ~StartTimesOut /\ ~Crash /\ ~BootTimesOut /\ ~Reconcile
  BY <1>1, <1>2 DEF StartTimesOut, Crash, BootTimesOut, Reconcile
<1>4. QED
  BY <1>3 DEF Next, Microtask, Transfers, Faults

LEMMA AdvanceIsCalm ==
  ASSUME NEW calls \in Seq(CalmCalls), NEW e \in DB, NEW o \in {"monitor", "request"},
         Advance(e, calls, o)
  PROVE  uploads' \in Seq(CalmCalls)
<1>1. \A j \in Started(e) : Call("start", j, o) \in CalmCalls
  BY StartedInJobs, CallsAreCalls DEF CalmCalls, Call
<1>2. QED
  BY <1>1, AppendProperties DEF Advance

LEMMA RowsStayInStep ==
  ASSUME FarmInStep, [Next]_vars, CallsTyped', RecordsTyped', Calm'
  PROVE  RowsInStep'
<1>1. \A j \in Jobs : RowStep(j)
  BY CalmMoves, HandleSteps, UploadSteps, RequestSteps, NetworkSteps, PrinterRowSteps
  DEF RowStep, OwnStep
<1>2. \A j \in Jobs : RowInStep(j)'
  BY <1>1, RowStepsKeepStep DEF FarmInStep, RowsInStep
<1>3. boot' = "up"
  <2>1. boot = "up" /\ ~Abort(0)
    BY CalmBefore DEF FarmInStep, RowsInStep, Abort
  <2>2. QED
    BY <2>1, CalmMoves
    DEF Handle, StartResumes, StartUploaded, EjectUploaded, RehearsalUploaded, StartUploadFails,
        EjectUploadFails, RehearsalUploadFails, Deliver, Drop, Reconnect, Requests, Abort, Retry,
        Refill, Rehearse, WizardEjects, Hardware, Receive, Refuse, Finish, Fail, Repeat, vars,
        bootVars
<1>4. uploads' \in Seq(CalmCalls)
  <2>1. /\ Sound(db) /\ uploads \in Seq(CalmCalls)
        /\ uploads # <<>> => Tail(uploads) \in Seq(CalmCalls)
        /\ \A c \in CalmCalls : Append(uploads, c) \in Seq(CalmCalls)
    BY FarmInStepTypes, HeadsAreCalm, AppendProperties
  <2>2. CASE Handle
    <3>1. ASSUME NEW s, NEW j \in CurrentJob(s), ~FinishThrows(db)
          PROVE  Finished(db, j) \in DB
      BY <2>1, <3>1, CurrentJobIsPrinting, FinishedPrepares DEF Prepares, Sound
    <3>2. \A s : \A j \in CurrentJob(s) : Call("eject", j, "monitor") \in CalmCalls
      BY CurrentJobIsPrinting, CallsAreCalls DEF CalmCalls, Call
    <3>3. QED
      BY <2>1, <2>2, <3>1, <3>2, AdvanceIsCalm DEF Handle
  <2>3. CASE Requests
    <3>1. \A j \in Jobs : ~Abort(j)
      BY CalmBefore DEF FarmInStep, Abort
    <3>2. /\ \A j \in Jobs : Requeued(db, j) \in DB
          /\ ResolveStockerRefills(RefillStocker(db)) \in DB
      BY <2>1, RequeuedPrepares, RefillPrepares DEF Prepares, Sound
    <3>3. Rehearsal \in CalmCalls /\ WizardEject \in CalmCalls
      BY CallsAreCalls DEF CalmCalls, Rehearsal, WizardEject, Call
    <3>4. QED
      BY <2>1, <2>3, <3>1, <3>2, <3>3, AdvanceIsCalm
      DEF Requests, Retry, Refill, Rehearse, WizardEjects
  <2>4. CASE EjectUploaded
    <3>1. uploads # <<>> /\ Head(uploads).owner # "request"
      BY <2>4, HeadsAreCalm DEF EjectUploaded
    <3>2. uploads' = Tail(uploads)
      BY <2>4, <3>1 DEF EjectUploaded
    <3>3. QED
      BY <2>1, <3>1, <3>2
  <2>5. CASE UNCHANGED uploads \/ (uploads # <<>> /\ uploads' = Tail(uploads))
    BY <2>1, <2>5
  <2>6. QED
    BY <2>2, <2>3, <2>4, <2>5, CalmMoves
    DEF StartResumes, StartUploaded, RehearsalUploaded, StartUploadFails, EjectUploadFails,
        RehearsalUploadFails, Deliver, Drop, Reconnect, Hardware, Receive, Refuse, Finish, Fail,
        Repeat, vars, process
<1>5. QED
  BY <1>2, <1>3, <1>4 DEF RowsInStep

LEMMA RowsInitially == Init => RowsInStep
<1>. SUFFICES ASSUME Init PROVE RowsInStep
  OBVIOUS
<1>1. Sound(InitDB) /\ InitDB \in DB
  BY InitialQueue DEF Sound
<1>2. ASSUME NEW j \in Jobs
      PROVE  Posts(j) = IF j \in Started(InitDB) THEN 1 ELSE 0
  <2>1. PostsIn(<<>>, j) = 0
    BY CountNone DEF PostsIn
  <2>2. CASE Started(InitDB) = {} /\ uploads = <<>>
    BY <2>1, <2>2 DEF Posts
  <2>3. ASSUME NEW i \in Started(InitDB), uploads = <<Call("start", i, "request")>>
        PROVE  Posts(j) = IF j \in Started(InitDB) THEN 1 ELSE 0
    <3>1. Call("start", i, "request") \in Calls /\ <<>> \in Seq(Calls)
      BY <2>3, StartedInJobs, CallsAreCalls
    <3>2. uploads = Append(<<>>, Call("start", i, "request"))
      BY <2>3, <3>1
    <3>3. Posts(j) = PostsIn(<<>>, j) + Posting(Call("start", i, "request"), j)
      BY <3>1, <3>2, PostsInAppend DEF Posts
    <3>4. \A k \in Started(InitDB) : k = i
      BY <1>1, <2>3, FirstCandidateUnique DEF Started
    <3>5. Posting(Call("start", i, "request"), j) = IF j \in Started(InitDB) THEN 1 ELSE 0
      BY <2>3, <3>4 DEF Posting, Call
    <3>6. QED
      BY <2>1, <3>3, <3>5
  <2>4. QED
    BY <2>2, <2>3 DEF Init
<1>3. ASSUME NEW j \in Jobs
      PROVE  RowInStep(j)
  <2>1. Files(j) = 0
    <3>1. commands = Append(<<>>, PushAll) /\ <<>> \in Seq(Commands)
      BY CommandsTyped DEF Init
    <3>2. Files(j) = Count(<<>>, File(j)) + Once(File(j), PushAll)
      BY <3>1, CountAppend, CommandsTyped DEF Files
    <3>3. QED
      BY <3>2, CountNone, OtherCommands
  <2>2. Runs(j) = 0
    BY DEF Init, Runs, Running, Report
  <2>3. Errands(j) = IF j \in Started(InitDB) THEN 1 ELSE 0
    BY <1>2, <2>1, <2>2 DEF Errands
  <2>4. db.status[j] = IF j \in Started(InitDB) THEN "printing" ELSE "queued"
    BY <1>1, DispatchStatus DEF Init, InitDB, FreshDB, Queued
  <2>5. db.attempts[j] = 0
    BY <1>1, DispatchIsQuiet DEF Init, InitDB, FreshDB, Quiet
  <2>6. made[j] = 0 /\ lost[j] = 0
    BY DEF Init
  <2>7. QED
    BY <2>3, <2>4, <2>5, <2>6 DEF RowInStep, InStep
<1>4. uploads \in Seq(CalmCalls)
  <2>1. \A j \in Started(InitDB) : Call("start", j, "request") \in CalmCalls
    BY StartedInJobs, CallsAreCalls DEF CalmCalls, Call
  <2>2. \A c \in CalmCalls : <<c>> \in Seq(CalmCalls)
    OBVIOUS
  <2>3. QED
    BY <2>1, <2>2, EmptySeq DEF Init
<1>5. QED
  BY <1>3, <1>4 DEF Init, RowsInStep

-----------------------------------------------------------------------------
(* Stops and files.  The command x is ahead of every file of T, and nothing *)
(* of T is printed while x is on the link.                                  *)

Ahead(x, T) ==
  /\ \A i, k \in DOMAIN commands : \A t \in T :
       commands[i] = x /\ commands[k] = File(t) => i < k
  /\ (\E i \in DOMAIN commands : commands[i] = x) => \A t \in T : ~Running(t)

LEMMA TasksDiffer == Eject # Dry /\ Dry # NoTask
<1>1. ASSUME NEW a, NEW b, {Eject, Dry, NoTask} = {a} \union {b}
      PROVE  FALSE
  <2>1. IsFiniteSet({a}) /\ Cardinality({a}) = 1
    BY FS_Singleton
  <2>2. Cardinality({a} \union {b}) \in {1, 2}
    <3>1. CASE b \in {a}
      BY <2>1, <3>1, FS_AddElement
    <3>2. CASE b \notin {a}
      BY <2>1, <3>2, FS_AddElement
    <3>3. QED
      BY <3>1, <3>2
  <2>3. QED
    BY <1>1, <2>2, FarmAssumption
<1>2. Eject = Dry => {Eject, Dry, NoTask} = {Dry} \union {NoTask}
  OBVIOUS
<1>3. Dry = NoTask => {Eject, Dry, NoTask} = {Eject} \union {Dry}
  OBVIOUS
<1>4. QED
  BY <1>1, <1>2, <1>3

LEMMA StopIsNoFile ==
  /\ \A t : WizardStop # File(t)
  /\ WizardStop # Stop /\ WizardStop # PushAll
BY TasksDiffer DEF WizardStop, File, Stop, PushAll

LEMMA AheadStays ==
  ASSUME commands \in Seq(Commands), NEW x, NEW T, Ahead(x, T), NEW c \in Commands, c # x,
         Publish(<<c>>), UNCHANGED printer
  PROVE  Ahead(x, T)'
<1>1. commands' = Append(commands, c)
  BY DEF Publish
<1>. DEFINE n == Len(commands)
<1>2. /\ n \in Nat /\ DOMAIN commands = 1 .. n /\ DOMAIN commands' = 1 .. n + 1
      /\ \A i \in 1 .. n : commands'[i] = commands[i]
      /\ commands'[n + 1] = c
  BY <1>1, AppendProperties, LenProperties
<1>. HIDE DEF n
<1>3. \A i \in DOMAIN commands' : commands'[i] = x =>
        i \in DOMAIN commands /\ commands[i] = x /\ i <= n
  BY <1>2
<1>4. ASSUME NEW i \in DOMAIN commands', NEW k \in DOMAIN commands', NEW t \in T,
             commands'[i] = x, commands'[k] = File(t)
      PROVE  i < k
  <2>1. CASE k = n + 1
    BY <1>2, <1>3, <1>4, <2>1
  <2>2. CASE k # n + 1
    <3>1. k \in DOMAIN commands /\ commands[k] = File(t)
      BY <1>2, <1>4, <2>2
    <3>2. QED
      BY <1>3, <1>4, <3>1 DEF Ahead
  <2>3. QED
    BY <2>1, <2>2
<1>5. (\E i \in DOMAIN commands' : commands'[i] = x) => \A t \in T : ~Running(t)'
  BY <1>3 DEF Ahead, Running
<1>6. QED
  BY <1>4, <1>5 DEF Ahead

LEMMA AheadAppended ==
  ASSUME commands \in Seq(Commands), NEW x \in Commands, NEW T, Publish(<<x>>), UNCHANGED printer,
         \A t \in T : ~Sent(t) /\ ~Running(t) /\ File(t) # x
  PROVE  Ahead(x, T)'
<1>1. commands' = Append(commands, x)
  BY DEF Publish
<1>2. /\ Len(commands) \in Nat /\ DOMAIN commands = 1 .. Len(commands)
      /\ DOMAIN commands' = 1 .. Len(commands) + 1
      /\ \A i \in 1 .. Len(commands) : commands'[i] = commands[i]
      /\ commands'[Len(commands) + 1] = x
  BY <1>1, AppendProperties, LenProperties
<1>3. \A k \in DOMAIN commands', t \in T : commands'[k] # File(t)
  BY <1>2 DEF Sent
<1>4. QED
  BY <1>3 DEF Ahead, Running

LEMMA AheadTaken ==
  ASSUME commands \in Seq(Commands), commands # <<>>, NEW x, NEW T, Ahead(x, T),
         commands' = Tail(commands),
         \A t \in T : Running(t)' => Running(t) \/ Head(commands) = File(t)
  PROVE  Ahead(x, T)'
<1>. DEFINE n == Len(commands)
<1>1. /\ n \in Nat /\ n > 0 /\ DOMAIN commands = 1 .. n /\ DOMAIN commands' = 1 .. n - 1
      /\ \A i \in 1 .. n - 1 : commands'[i] = commands[i + 1]
      /\ Head(commands) = commands[1]
  BY HeadTailProperties, LenProperties, EmptySeq
<1>. HIDE DEF n
<1>2. \A i \in DOMAIN commands' : i + 1 \in DOMAIN commands /\ commands'[i] = commands[i + 1]
                                  /\ i \in Nat /\ i > 0
  BY <1>1
<1>3. ASSUME NEW i \in DOMAIN commands', NEW k \in DOMAIN commands', NEW t \in T,
             commands'[i] = x, commands'[k] = File(t)
      PROVE  i < k
  <2>1. i + 1 < k + 1
    BY <1>2, <1>3 DEF Ahead
  <2>2. QED
    BY <1>2, <2>1
<1>4. ASSUME NEW i \in DOMAIN commands', commands'[i] = x, NEW t \in T, Running(t)'
      PROVE  FALSE
  <2>1. i + 1 \in DOMAIN commands /\ commands[i + 1] = x /\ 1 \in DOMAIN commands
    BY <1>1, <1>2, <1>4
  <2>2. Head(commands) = File(t) => i + 1 < 1
    BY <1>1, <2>1 DEF Ahead
  <2>3. Running(t) => FALSE
    BY <2>1 DEF Ahead
  <2>4. QED
    BY <1>2, <1>4, <2>2, <2>3
<1>5. QED
  BY <1>3, <1>4 DEF Ahead

(* While no row is 'printing' there is nothing of a job on the way.         *)
LEMMA NothingOnTheWay ==
  ASSUME FarmInStep, NEW j \in Jobs, db.status[j] # "printing"
  PROVE  ~Running(j) /\ ~Sent(j)
<1>1. Posts(j) \in Nat /\ Files(j) \in Nat /\ Runs(j) \in Nat /\ ~(Errands(j) > 0)
  BY FarmInStepTypes
<1>2. Files(j) = 0 /\ Runs(j) = 0
  BY <1>1 DEF Errands
<1>3. ~(Count(commands, File(j)) > 0)
  BY <1>2 DEF Files
<1>4. ~Sent(j)
  BY <1>3, FarmInStepTypes, CountPositive DEF Sent
<1>5. QED
  BY <1>2, <1>4 DEF Runs

(* The wizard's stop and the files of jobs.                                 *)
StopsFirst == Ahead(WizardStop, Jobs)

LEMMA StopsStayFirst ==
  ASSUME FarmInStep, StopsFirst, [Next]_vars, Calm'
  PROVE  StopsFirst'
<1>1. commands \in Seq(Commands)
  BY FarmInStepTypes
<1>2. ASSUME NEW c \in Commands, c # WizardStop, Publish(<<c>>), UNCHANGED printer
      PROVE  StopsFirst'
  BY <1>1, <1>2, AheadStays DEF StopsFirst
<1>3. CASE UNCHANGED <<commands, printer>>
  BY <1>3 DEF StopsFirst, Ahead, Running
<1>4. CASE commands' = <<>>
  BY <1>4 DEF StopsFirst, Ahead
<1>5. CASE WizardEjects
  <2>1. \A j \in Jobs : ~Running(j) /\ ~Sent(j)
    BY <1>5, NothingOnTheWay DEF WizardEjects, NoPrintingJob, ByStatus
  <2>2. QED
    BY <1>1, <1>5, <2>1, AheadAppended, CommandsTyped, StopIsNoFile
    DEF WizardEjects, StopsFirst, machine
<1>6. CASE Hardware
  <2>1. CASE Receive
    <3>1. commands # <<>> /\ commands' = Tail(commands) /\ Head(commands) \in Commands
      BY <1>1, <2>1, HeadTailProperties DEF Receive
    <3>2. ASSUME NEW j \in Jobs, Running(j)'
          PROVE  Running(j) \/ Head(commands) = File(j)
      <4>1. printer = Report(printer.state, printer.task)
        BY DEF FarmInStep, RecordsTyped, Statuses, Report
      <4>2. Head(commands) = [cmd |-> Head(commands).cmd, task |-> Head(commands).task]
        BY <3>1 DEF Commands
      <4>3. QED
        BY <2>1, <3>2, <4>1, <4>2 DEF Receive, Becomes, Spoil, Running, Report, File
    <3>3. QED
      BY <1>1, <3>1, <3>2, AheadTaken DEF StopsFirst
  <2>2. CASE Refuse
    <3>1. commands # <<>> /\ commands' = Tail(commands) /\ UNCHANGED printer
      BY <2>2 DEF Refuse, machine
    <3>2. QED
      BY <1>1, <3>1, AheadTaken DEF StopsFirst, Running
  <2>3. CASE Finish \/ Fail \/ Repeat
    <3>1. UNCHANGED commands /\ \A j : Running(j)' => Running(j)
      BY <2>3 DEF Finish, Fail, Repeat, Spoil, Becomes, Running, Report, machine
    <3>2. QED
      BY <3>1 DEF StopsFirst, Ahead
  <2>4. QED
    BY <1>6, <2>1, <2>2, <2>3 DEF Hardware
<1>7. CASE Handle \/ Reconnect
  BY <1>2, <1>3, <1>7, CommandsTyped, StopIsNoFile DEF Handle, Reconnect, machine
<1>8. CASE StartUploaded \/ EjectUploaded \/ RehearsalUploaded
  <2>1. \A t : File(t) # WizardStop
    BY StopIsNoFile
  <2>2. StartUploaded => Head(uploads).job \in Jobs
    BY HeadsAreCalm DEF StartUploaded
  <2>3. QED
    BY <1>2, <1>8, <2>1, <2>2, CommandsTyped
    DEF StartUploaded, EjectUploaded, RehearsalUploaded, machine
<1>9. CASE StartResumes \/ StartUploadFails \/ EjectUploadFails \/ RehearsalUploadFails \/ Deliver
             \/ UNCHANGED vars
  BY <1>3, <1>9
  DEF StartResumes, StartUploadFails, EjectUploadFails, RehearsalUploadFails, Deliver, vars,
      network, machine
<1>10. CASE Drop
  BY <1>4, <1>10 DEF Drop
<1>11. CASE Requests /\ ~WizardEjects
  <2>1. \A j \in Jobs : ~Abort(j)
    BY CalmBefore DEF FarmInStep, Abort
  <2>2. QED
    BY <1>3, <1>11, <2>1 DEF Requests, Retry, Refill, Rehearse, network, machine
<1>12. QED
  BY <1>5, <1>6, <1>7, <1>8, <1>9, <1>10, <1>11, CalmMoves

-----------------------------------------------------------------------------

CalmInv == Calm => RowsInStep /\ StopsFirst

LEMMA CalmInitially == Init => CalmInv
<1>1. Init => StopsFirst
  <2>1. Init => \A i \in DOMAIN commands : commands[i] = PushAll
    BY DEF Init
  <2>2. \A j : File(j) # PushAll
    BY DEF File, PushAll
  <2>3. QED
    BY <2>1, <2>2, StopIsNoFile DEF StopsFirst, Ahead
<1>2. QED
  BY <1>1, RowsInitially DEF CalmInv

LEMMA CalmInductive ==
  FarmInv /\ RecordsTyped /\ ReportsAreTrue /\ FailuresAreDated /\ CalmInv /\ [Next]_vars
    => CalmInv'
<1>. SUFFICES ASSUME FarmInv, RecordsTyped, ReportsAreTrue, FailuresAreDated, CalmInv,
                     [Next]_vars, Calm'
              PROVE  RowsInStep' /\ StopsFirst'
  BY DEF CalmInv
<1>1. FarmInStep /\ StopsFirst
  BY CalmBefore DEF CalmInv, FarmInStep
<1>2. CallsTyped' /\ RecordsTyped'
  BY FarmInvInductive, RecordsInductive DEF FarmInv, CallsInv
<1>3. QED
  BY <1>1, <1>2, RowsStayInStep, StopsStayFirst

TrueFarm == FarmInv /\ RecordsTyped /\ ReportsAreTrue /\ FailuresAreDated

LEMMA TrueFarmAlways == Spec => []TrueFarm
<1>1. FarmInv => CallsTyped
  BY DEF FarmInv, CallsInv
<1>2. FarmInv /\ RecordsTyped /\ [Next]_vars => RecordsTyped'
  BY <1>1, RecordsInductive
<1>3. Init => ReportsAreTrue
  BY SuccessInitially
<1>4. RecordsTyped /\ ReportsAreTrue /\ [Next]_vars => ReportsAreTrue'
  BY ReportsStayTrue
<1>5. QED
  BY <1>2, <1>3, <1>4, FarmInvAlways, RecordsAlways, FailuresInitially, FailuresInductive, PTL
  DEF Spec, TrueFarm

LEMMA CalmAlways == Spec => []CalmInv
<1>1. TrueFarm /\ CalmInv /\ [Next]_vars => CalmInv'
  BY CalmInductive DEF TrueFarm
<1>2. QED
  BY <1>1, TrueFarmAlways, CalmInitially, PTL DEF Spec

LEMMA CalmFarm ==
  ASSUME TrueFarm, CalmInv
  PROVE  RunningIsPrinting /\ PrintedOnce
<1>. SUFFICES ASSUME Calm, NEW j \in Jobs
              PROVE  /\ Sent(j) \/ Running(j) => db.status[j] = "printing"
                     /\ made[j] <= 1
  BY DEF RunningIsPrinting, PrintedOnce
<1>1. FarmInStep
  BY DEF TrueFarm, CalmInv, FarmInStep
<1>2. made[j] <= 1
  <2>. DEFINE n == Errands(j)
  <2>1. InStep(db.status[j], db.attempts[j], made[j], lost[j], n)
    BY <1>1 DEF FarmInStep, RowsInStep, RowInStep
  <2>. HIDE DEF n
  <2>2. QED
    BY <2>1 DEF InStep
<1>3. QED
  BY <1>1, <1>2, NothingOnTheWay

(* verify-routes.ts:254-257: the guard of the wizard's eject reads the      *)
(* database, and that is enough: while no start has timed out, nothing was  *)
(* aborted and no restart has intervened, its stop never ends a job's print *)
(* however late it arrives.                                                 *)
THEOREM WizardNeverStopsAJob == Spec => WizardSparesJobs
<1>1. TrueFarm /\ CalmInv /\ [Next]_vars
        => (Receive /\ Head(commands) = WizardStop /\ Calm => \A j \in Jobs : ~Running(j))
  <2>. SUFFICES ASSUME TrueFarm, CalmInv, Receive, Head(commands) = WizardStop, Calm
                PROVE  \A j \in Jobs : ~Running(j)
    OBVIOUS
  <2>1. StopsFirst /\ commands \in Seq(Commands) /\ commands # <<>>
    BY DEF CalmInv, TrueFarm, RecordsTyped, Receive
  <2>2. 1 \in DOMAIN commands /\ commands[1] = WizardStop
    BY <2>1, HeadTailProperties, LenProperties, EmptySeq
  <2>3. QED
    BY <2>1, <2>2 DEF StopsFirst, Ahead
<1>2. TrueFarm /\ CalmInv /\ [Next]_vars
        => [Receive /\ Head(commands) = WizardStop /\ Calm => \A j \in Jobs : ~Running(j)]_vars
  BY <1>1
<1>3. QED
  BY <1>2, TrueFarmAlways, CalmAlways, PTL DEF Spec, WizardSparesJobs

-----------------------------------------------------------------------------
(* The farm that nobody disturbs does one thing at a time: it uploads, or a *)
(* file is on its way, or the printer prints.                               *)

Has(seq, x) == \E i \in DOMAIN seq : seq[i] = x

OwnTasks == Jobs \union {Eject}
OwnCalls == StartCalls \union {Call("eject", j, "monitor") : j \in Jobs}
OwnCommands == {Stop, PushAll} \union {File(t) : t \in OwnTasks}

Shape ==
  /\ uploads = <<>> \/ \E c \in OwnCalls : uploads = <<c>>
  /\ commands \in Seq(OwnCommands)
  /\ printer.state = "RUNNING" => printer.task \in OwnTasks

EjectPosts == IF uploads # <<>> /\ Head(uploads).kind = "eject" THEN 1 ELSE 0
EjectsOut == Files(Eject) + Runs(Eject)

(* An eject is the only errand, and a print has failed before it.           *)
EjectsAlone ==
  /\ EjectPosts + EjectsOut <= 1
  /\ EjectPosts + EjectsOut > 0 => NoPrintingJob /\ spent["fail"] > 0

(* No row is retried, so those that have not ended have not failed.         *)
FirstTries == \A j \in Jobs : db.status[j] \in {"queued", "printing"} => db.attempts[j] = 0

FailuresAreSpent == \A j \in Jobs : lost[j] > 0 => spent["fail"] > 0

EndsOf(j) == {FinishOf(j), FailedOn(j)}

Printing == ByStatus(db, "printing")

(* What has ended has not been handled yet ...                              *)
NotHandledYet == \A j \in Printing : lastKey \notin EndsOf(j)

(* ... and what has not ended is still to be printed ...                    *)
PrintsAreDue ==
  spent["drop"] = 0 => link /\ \A j \in Printing : Errands(j) > 0 \/ printer \in EndsOf(j)

MadeIsShown == \A j \in Printing : made[j] > 0 => printer = FinishOf(j)

(* ... and the Monitor will hear of the end.                                *)
EndsAreOnTheirWay ==
  \A j \in Printing : printer \in EndsOf(j) =>
    Has(chain, printer) \/ Has(reports, printer) \/ (link => Has(commands, PushAll))

Stocked == Printing # {} \/ uploads # <<>> => db.remaining > 0

(* Plates the mechanism has taken of which the stocker does not know yet.   *)
Owed == IF \E j \in Printing : made[j] > 0 THEN 1 ELSE 0

Counted == spent["fail"] = 0 \/ (spent["drop"] = 0 /\ spent["fail"] = 1)

Balanced ==
  /\ swaps \in Nat
  /\ Counted => db.remaining + swaps + EjectsOut = Plates + Owed

Orderly ==
  /\ Shape /\ EjectsAlone /\ Ahead(Stop, OwnTasks)
  /\ FirstTries /\ FailuresAreSpent
  /\ NotHandledYet /\ PrintsAreDue /\ MadeIsShown /\ EndsAreOnTheirWay
  /\ Stocked /\ Balanced

UndisturbedInv == Undisturbed => Orderly

LEMMA HasAppend ==
  ASSUME NEW T, NEW seq \in Seq(T), NEW y \in T, NEW x
  PROVE  Has(Append(seq, y), x) <=> Has(seq, x) \/ x = y
<1>1. /\ Len(seq) \in Nat /\ DOMAIN seq = 1 .. Len(seq) /\ DOMAIN Append(seq, y) = 1 .. Len(seq) + 1
      /\ \A i \in 1 .. Len(seq) : Append(seq, y)[i] = seq[i]
      /\ Append(seq, y)[Len(seq) + 1] = y
  BY AppendProperties, LenProperties
<1>2. QED
  BY <1>1 DEF Has

LEMMA HasTail ==
  ASSUME NEW T, NEW seq \in Seq(T), seq # <<>>, NEW x
  PROVE  Has(seq, x) <=> Has(Tail(seq), x) \/ x = Head(seq)
<1>. DEFINE n == Len(seq)
            t == Tail(seq)
<1>1. /\ n \in Nat /\ n > 0 /\ DOMAIN seq = 1 .. n /\ DOMAIN t = 1 .. n - 1
      /\ \A i \in 1 .. n - 1 : t[i] = seq[i + 1]
      /\ Head(seq) = seq[1]
  BY HeadTailProperties, LenProperties, EmptySeq
<1>. HIDE DEF n, t
<1>2. Has(t, x) \/ x = Head(seq) => Has(seq, x)
  <2>1. ASSUME NEW i \in 1 .. n - 1, t[i] = x
        PROVE  Has(seq, x)
    <3>1. i + 1 \in 1 .. n /\ seq[i + 1] = x
      BY <1>1, <2>1
    <3>2. QED
      BY <1>1, <3>1 DEF Has
  <2>2. ASSUME x = Head(seq)
        PROVE  Has(seq, x)
    <3>1. 1 \in 1 .. n /\ seq[1] = x
      BY <1>1, <2>2
    <3>2. QED
      BY <1>1, <3>1 DEF Has
  <2>3. Has(t, x) => \E i \in 1 .. n - 1 : t[i] = x
    BY <1>1 DEF Has
  <2>4. QED
    BY <2>1, <2>2, <2>3
<1>3. ASSUME NEW i \in 1 .. n, seq[i] = x
      PROVE  Has(t, x) \/ x = Head(seq)
  <2>1. CASE i = 1
    BY <1>1, <1>3, <2>1
  <2>2. CASE i # 1
    <3>1. i - 1 \in 1 .. n - 1 /\ (i - 1) + 1 = i
      BY <1>1, <2>2
    <3>2. t[i - 1] = x
      BY <1>1, <1>3, <3>1
    <3>3. QED
      BY <1>1, <3>1, <3>2 DEF Has
  <2>3. QED
    BY <2>1, <2>2
<1>4. Has(seq, x) => Has(t, x) \/ x = Head(seq)
  BY <1>1, <1>3 DEF Has
<1>5. QED
  BY <1>2, <1>4 DEF t

-----------------------------------------------------------------------------

OrderlyFarm == FarmInStep /\ Undisturbed /\ Orderly

LEMMA UndisturbedBefore ==
  ASSUME RecordsTyped, [Next]_vars, Undisturbed'
  PROVE  Undisturbed /\ \A e \in Events \ {"drop", "fail", "ftps"} : ~Spend(e)
BY SpentGrows DEF Undisturbed

LEMMA UndisturbedIsCalm == Undisturbed => Calm
<1>1. {"timeout", "abort", "crash", "rerun"} \subseteq Events \ {"drop", "fail", "ftps"}
  BY DEF Events
<1>2. QED
  BY <1>1 DEF Undisturbed, Calm

LEMMA OwnCallsAre ==
  /\ OwnCalls \subseteq Calls
  /\ \A c \in OwnCalls : /\ c.kind \in {"start", "eject"} /\ c.job \in Jobs
                         /\ c.kind = "eject" => c.owner = "monitor" /\ c = Call("eject", c.job, "monitor")
                         /\ c.kind = "start" => \A j \in Jobs : Posting(c, j) = IF j = c.job THEN 1 ELSE 0
                         /\ c # Rehearsal
BY CallsAreCalls DEF OwnCalls, StartCalls, JobCalls, Call, Rehearsal, Posting

LEMMA OneCall ==
  ASSUME NEW c
  PROVE  <<c>> # <<>> /\ Head(<<c>>) = c /\ Tail(<<c>>) = <<>> /\ <<c>> \in Seq({c})
         /\ Append(<<>>, c) = <<c>>
OBVIOUS

(* What is left of the next-state relation.                                 *)
UndisturbedMove ==
  \/ Handle \/ StartResumes
  \/ StartUploaded \/ EjectUploaded \/ StartUploadFails \/ EjectUploadFails
  \/ Deliver \/ Drop \/ Reconnect
  \/ Receive \/ Finish \/ Fail \/ Repeat
  \/ UNCHANGED vars

LEMMA UndisturbedMoves ==
  ASSUME OrderlyFarm, [Next]_vars, Undisturbed'
  PROVE  UndisturbedMove
<1>1. /\ Calm'
      /\ ~Spend("retry") /\ ~Spend("refill") /\ ~Spend("abort") /\ ~Spend("rehearse")
      /\ ~Spend("eject") /\ ~Spend("refuse") /\ ~Spend("rerun")
  <2>1. {"retry", "refill", "abort", "rehearse", "eject", "refuse", "rerun"}
           \subseteq Events \ {"drop", "fail", "ftps"}
    BY DEF Events
  <2>2. Undisturbed' => Calm'
    <3>1. {"timeout", "abort", "crash", "rerun"} \subseteq Events \ {"drop", "fail", "ftps"}
      BY DEF Events
    <3>2. QED
      BY <3>1 DEF Undisturbed, Calm
  <2>3. RecordsTyped
    BY DEF OrderlyFarm, FarmInStep
  <2>4. QED
    BY <2>1, <2>2, <2>3, UndisturbedBefore
<1>2. ~RehearsalUploaded /\ ~RehearsalUploadFails
  <2>1. uploads # <<>> => Head(uploads) # Rehearsal
    BY OwnCallsAre, OneCall DEF OrderlyFarm, Orderly, Shape
  <2>2. QED
    BY <2>1 DEF RehearsalUploaded, RehearsalUploadFails
<1>3. ~Requests /\ ~Refuse
  BY <1>1 DEF Requests, Abort, Retry, RetryKind, Refill, Rehearse, WizardEjects, Refuse
<1>4. FarmInStep
  BY DEF OrderlyFarm
<1>5. QED
  BY <1>1, <1>2, <1>3, <1>4, CalmMoves DEF Hardware, UndisturbedMove

(* Nothing is being uploaded, on its way or printed.                        *)
Vacant == uploads = <<>> /\ (\A t : ~Sent(t)) /\ printer.state # "RUNNING"

LEMMA OrderlyTypes ==
  ASSUME OrderlyFarm
  PROVE  /\ FarmInStep /\ Sound(db) /\ db \in DB /\ RecordsTyped /\ CallsTyped
         /\ Files(Eject) \in Nat /\ Runs(Eject) \in Nat /\ EjectPosts \in {0, 1} /\ EjectsOut \in Nat
         /\ \A j \in Jobs : /\ made[j] \in Nat /\ lost[j] \in Nat /\ db.attempts[j] \in Nat
                            /\ Posts(j) \in Nat /\ Files(j) \in Nat /\ Runs(j) \in Nat
                            /\ Errands(j) \in Nat /\ Errands(j) <= 1
                            /\ Errands(j) > 0 => j \in Printing
         /\ \A i, j \in Printing : i = j
         /\ printer = Report(printer.state, printer.task)
         /\ spent["fail"] \in Nat /\ spent["drop"] \in Nat
         /\ db.remaining \in Nat /\ swaps \in Nat /\ Plates \in Nat
<1>1. FarmInStep /\ Sound(db) /\ db \in DB /\ RecordsTyped /\ CallsTyped /\ commands \in Seq(Commands)
  BY FarmInStepTypes DEF OrderlyFarm, FarmInStep
<1>2. Files(Eject) \in Nat /\ Runs(Eject) \in Nat /\ EjectPosts \in {0, 1} /\ EjectsOut \in Nat
  <2>1. Files(Eject) \in Nat /\ Runs(Eject) \in Nat
    BY <1>1, PlacesAreFinite DEF Files, Runs
  <2>2. QED
    BY <2>1 DEF EjectPosts, EjectsOut
<1>3. ASSUME NEW j \in Jobs
      PROVE  /\ made[j] \in Nat /\ lost[j] \in Nat /\ db.attempts[j] \in Nat
             /\ Posts(j) \in Nat /\ Files(j) \in Nat /\ Runs(j) \in Nat
             /\ Errands(j) \in Nat /\ Errands(j) <= 1
             /\ Errands(j) > 0 => j \in Printing
  <2>1. /\ made[j] \in Nat /\ lost[j] \in Nat /\ db.attempts[j] \in Nat
        /\ Posts(j) \in Nat /\ Files(j) \in Nat /\ Runs(j) \in Nat /\ Errands(j) \in Nat
        /\ Errands(j) > 0 => db.status[j] = "printing"
    BY <1>1, FarmInStepTypes, ErrandsAreCounted
  <2>2. Errands(j) <= 1
    <3>. DEFINE n == Errands(j)
    <3>1. InStep(db.status[j], db.attempts[j], made[j], lost[j], n)
      BY <1>1 DEF FarmInStep, RowsInStep, RowInStep
    <3>. HIDE DEF n
    <3>2. n <= 1
      BY <3>1 DEF InStep
    <3>3. QED
      BY <3>2 DEF n
  <2>3. QED
    BY <2>1, <2>2 DEF Printing, ByStatus
<1>4. \A i, j \in Printing : i = j
  BY <1>1 DEF FarmInStep, FarmInv, OnePrinting, Printing
<1>5. printer = Report(printer.state, printer.task)
  BY <1>1 DEF RecordsTyped, Statuses, Report
<1>6. spent["fail"] \in Nat /\ spent["drop"] \in Nat
  BY <1>1 DEF RecordsTyped, Events
<1>7. db.remaining \in Nat /\ swaps \in Nat /\ Plates \in Nat
  BY <1>1, FarmAssumption DEF DB, OrderlyFarm, Orderly, Balanced
<1>8. QED
  BY <1>1, <1>2, <1>3, <1>4, <1>5, <1>6, <1>7


(* What there is of a task on its way: each file is in one place.           *)
PostsOf(t) == IF t = Eject THEN EjectPosts ELSE Posts(t)
Load(t) == PostsOf(t) + Files(t) + Runs(t)

LEMMA OneLoad ==
  ASSUME OrderlyFarm, NEW t \in OwnTasks
  PROVE  /\ PostsOf(t) \in Nat /\ Files(t) \in Nat /\ Runs(t) \in Nat /\ Load(t) \in Nat /\ Load(t) <= 1
         /\ t # Eject => t \in Jobs /\ Load(t) = Errands(t)
         /\ Load(t) > 0 => IF t = Eject THEN Printing = {} /\ spent["fail"] > 0 ELSE t \in Printing
         /\ \A u \in OwnTasks : Load(t) > 0 /\ Load(u) > 0 => t = u
<1>1. Eject \notin Jobs
  BY FarmAssumption
<1>2. /\ Files(Eject) \in Nat /\ Runs(Eject) \in Nat /\ EjectPosts \in {0, 1}
      /\ \A j \in Jobs : /\ Posts(j) \in Nat /\ Files(j) \in Nat /\ Runs(j) \in Nat
                         /\ Errands(j) \in Nat /\ Errands(j) <= 1
                         /\ Errands(j) > 0 => j \in Printing
      /\ \A i, j \in Printing : i = j
  BY OrderlyTypes
<1>3. Load(Eject) = EjectPosts + EjectsOut
  BY <1>2 DEF Load, PostsOf, EjectsOut
<1>4. \A j \in Jobs : Load(j) = Errands(j)
  BY <1>1 DEF Load, PostsOf, Errands
<1>5. Load(Eject) <= 1 /\ (Load(Eject) > 0 => Printing = {} /\ spent["fail"] > 0)
  BY <1>3 DEF OrderlyFarm, Orderly, EjectsAlone, NoPrintingJob, Printing
<1>6. \A u \in OwnTasks : Load(u) > 0 => IF u = Eject THEN Printing = {} ELSE u \in Printing
  BY <1>1, <1>2, <1>4, <1>5 DEF OwnTasks
<1>7. /\ PostsOf(t) \in Nat /\ Files(t) \in Nat /\ Runs(t) \in Nat
  BY <1>1, <1>2 DEF PostsOf, OwnTasks
<1>8. Load(t) \in Nat
  BY <1>7 DEF Load
<1>9. Load(t) <= 1
  BY <1>1, <1>2, <1>4, <1>5 DEF OwnTasks
<1>10. \A u \in OwnTasks : Load(t) > 0 /\ Load(u) > 0 => t = u
  BY <1>2, <1>6
<1>11. t # Eject => t \in Jobs
  BY DEF OwnTasks
<1>12. QED
  BY <1>1, <1>4, <1>5, <1>6, <1>7, <1>8, <1>9, <1>10, <1>11

(* The call in the FTPS slot is the only one, and its task's only errand.   *)
LEMMA OneUpload ==
  ASSUME OrderlyFarm, uploads # <<>>
  PROVE  \E c \in OwnCalls :
           /\ c \in Calls /\ c.job \in Jobs
           /\ uploads = <<c>> /\ Head(uploads) = c /\ Tail(uploads) = <<>>
           /\ c.kind \in {"start", "eject"}
           /\ c.kind = "start" => PostsOf(c.job) = 1 /\ Posts(c.job) = 1
           /\ c.kind = "eject" => PostsOf(Eject) = 1 /\ EjectPosts = 1 /\ c.owner = "monitor"
<1>1. PICK c \in OwnCalls : uploads = <<c>>
  BY DEF OrderlyFarm, Orderly, Shape
<1>2. /\ c \in Calls /\ Head(uploads) = c /\ Tail(uploads) = <<>> /\ uploads \in Seq(Calls)
      /\ c.kind \in {"start", "eject"} /\ c.job \in Jobs
      /\ c.kind = "eject" => c.owner = "monitor"
      /\ c.kind = "start" => Posting(c, c.job) = 1
  BY <1>1, OwnCallsAre, OneCall
<1>3. c.kind = "eject" => PostsOf(Eject) = 1 /\ EjectPosts = 1
  BY <1>2 DEF PostsOf, EjectPosts
<1>4. ASSUME c.kind = "start" PROVE Posts(c.job) = 1
  <2>1. Posts(c.job) = PostsIn(Tail(uploads), c.job) + Posting(Head(uploads), c.job)
    BY <1>2, PostsInTail DEF Posts
  <2>2. PostsIn(Tail(uploads), c.job) = 0
    <3>1. PostsIn(<<>>, c.job) = 0
      BY CountNone DEF PostsIn
    <3>2. QED
      BY <1>2, <3>1
  <2>3. Posting(Head(uploads), c.job) = 1
    BY <1>2, <1>4
  <2>4. QED
    BY <2>1, <2>2, <2>3
<1>5. c.kind = "start" => PostsOf(c.job) = 1
  BY <1>2, <1>4, FarmAssumption DEF PostsOf
<1>6. QED
  BY <1>1, <1>2, <1>3, <1>4, <1>5

(* Where there is something of a task there is nothing of another.          *)
LEMMA PlacesOfLoads ==
  ASSUME OrderlyFarm
  PROVE  /\ uploads # <<>> => \E t \in OwnTasks : PostsOf(t) > 0
         /\ \A t : Sent(t) => t \in OwnTasks /\ Files(t) > 0
         /\ printer.state = "RUNNING" => printer.task \in OwnTasks /\ Runs(printer.task) > 0
<1>1. uploads # <<>> => \E t \in OwnTasks : PostsOf(t) > 0
  BY OneUpload DEF OwnTasks
<1>2. ASSUME NEW t, Sent(t) PROVE t \in OwnTasks /\ Files(t) > 0
  <2>1. PICK i \in DOMAIN commands : commands[i] = File(t)
    BY <1>2 DEF Sent
  <2>2. commands \in Seq(OwnCommands) /\ commands \in Seq(Commands)
    BY FarmInStepTypes DEF OrderlyFarm, Orderly, Shape
  <2>3. File(t) \in OwnCommands
    BY <2>1, <2>2
  <2>4. t \in OwnTasks
    BY <2>3 DEF OwnCommands, File, Stop, PushAll
  <2>5. Count(commands, File(t)) > 0
    BY <2>1, <2>2, CountPositive
  <2>6. QED
    BY <2>4, <2>5 DEF Files
<1>3. printer.state = "RUNNING" => printer.task \in OwnTasks /\ Runs(printer.task) > 0
  <2>1. printer = Report(printer.state, printer.task)
    BY OrderlyTypes
  <2>2. QED
    BY <2>1 DEF OrderlyFarm, Orderly, Shape, Runs, Running
<1>4. QED
  BY <1>1, <1>2, <1>3

LEMMA LoadIs ==
  ASSUME OrderlyFarm, NEW t \in OwnTasks
  PROVE  /\ PostsOf(t) > 0 => Load(t) > 0 /\ Files(t) = 0 /\ Runs(t) = 0
         /\ Files(t) > 0 => Load(t) > 0 /\ PostsOf(t) = 0 /\ Runs(t) = 0
         /\ Runs(t) > 0 => Load(t) > 0 /\ PostsOf(t) = 0 /\ Files(t) = 0
<1>. DEFINE p == PostsOf(t) f == Files(t) r == Runs(t)
<1>1. p \in Nat /\ f \in Nat /\ r \in Nat /\ Load(t) = p + f + r /\ Load(t) <= 1
  BY OneLoad DEF Load
<1>. HIDE DEF p, f, r
<1>2. /\ p > 0 => Load(t) > 0 /\ f = 0 /\ r = 0
      /\ f > 0 => Load(t) > 0 /\ p = 0 /\ r = 0
      /\ r > 0 => Load(t) > 0 /\ p = 0 /\ f = 0
  BY <1>1
<1>3. QED
  BY <1>2 DEF p, f, r

LEMMA OneAtATime ==
  ASSUME OrderlyFarm
  PROVE  /\ uploads # <<>> => (\A t : ~Sent(t)) /\ printer.state # "RUNNING"
         /\ printer.state = "RUNNING" => \A t : ~Sent(t)
         /\ \A t : Sent(t) => /\ t \in OwnTasks /\ (t = Eject => Printing = {} /\ spent["fail"] > 0)
                              /\ t # Eject => t \in Printing
         /\ printer.state = "RUNNING" =>
              /\ printer.task \in OwnTasks /\ (printer.task = Eject => Printing = {} /\ spent["fail"] > 0)
              /\ printer.task # Eject => printer.task \in Printing
<1>1. \A t : Sent(t) => t \in OwnTasks /\ Files(t) > 0 /\ Load(t) > 0
  BY PlacesOfLoads, LoadIs
<1>2. printer.state = "RUNNING" => printer.task \in OwnTasks /\ Runs(printer.task) > 0 /\ Load(printer.task) > 0
  BY PlacesOfLoads, LoadIs
<1>3. ASSUME uploads # <<>> PROVE (\A t : ~Sent(t)) /\ printer.state # "RUNNING"
  <2>1. PICK u \in OwnTasks : PostsOf(u) > 0
    BY <1>3, PlacesOfLoads
  <2>2. Load(u) > 0 /\ Files(u) = 0 /\ Runs(u) = 0
    BY <2>1, LoadIs
  <2>3. \A t \in OwnTasks : Load(t) > 0 => t = u
    BY <2>1, <2>2, OneLoad
  <2>4. QED
    BY <1>1, <1>2, <2>2, <2>3
<1>4. ASSUME printer.state = "RUNNING", NEW t, Sent(t) PROVE FALSE
  <2>1. t = printer.task
    BY <1>1, <1>2, <1>4, OneLoad
  <2>2. QED
    BY <1>1, <1>2, <1>4, <2>1, LoadIs
<1>5. QED
  BY <1>1, <1>2, <1>3, <1>4, OneLoad

(* A print that has ended, or was lost, leaves the farm with nothing to do. *)
LEMMA NoErrandIsVacant ==
  ASSUME OrderlyFarm, NEW j \in Printing, Errands(j) = 0
  PROVE  Vacant
<1>1. j \in Jobs
  BY DEF Printing, ByStatus
<1>2. \A t \in OwnTasks : ~(Load(t) > 0)
  BY <1>1, OneLoad, OrderlyTypes DEF OwnTasks
<1>3. QED
  BY <1>2, PlacesOfLoads, LoadIs DEF Vacant


LEMMA PrintingInStep ==
  ASSUME OrderlyFarm, NEW j \in Printing
  PROVE  /\ j \in Jobs /\ db.status[j] = "printing" /\ j \in Rows(db) /\ db.attempts[j] = 0
         /\ made[j] > 0 \/ lost[j] > 0 => Errands(j) = 0 /\ Vacant
         /\ made[j] = 0 \/ lost[j] = 0
<1>1. j \in Jobs /\ db.status[j] = "printing"
  BY DEF Printing, ByStatus
<1>2. db.attempts[j] = 0 /\ j \in Rows(db)
  BY <1>1 DEF OrderlyFarm, Orderly, FirstTries, Rows, RowStatus
<1>. DEFINE n == Errands(j) m == made[j] l == lost[j]
<1>3. n \in Nat /\ m \in Nat /\ l \in Nat
  BY <1>1, OrderlyTypes
<1>4. InStep("printing", 0, m, l, n)
  BY <1>1, <1>2 DEF OrderlyFarm, FarmInStep, RowsInStep, RowInStep
<1>5. (m > 0 \/ l > 0 => n = 0) /\ (m = 0 \/ l = 0)
  <2>. HIDE DEF n, m, l
  <2>1. QED
    BY <1>3, <1>4 DEF InStep
<1>6. QED
  BY <1>1, <1>2, <1>5, NoErrandIsVacant

(* A row that is queued has not been tried.                                 *)
LEMMA QueuedIsFresh ==
  ASSUME OrderlyFarm, NEW j \in Jobs, db.status[j] = "queued"
  PROVE  made[j] = 0 /\ lost[j] = 0
<1>. DEFINE n == Errands(j) m == made[j] l == lost[j]
<1>1. db.attempts[j] = 0
  BY DEF OrderlyFarm, Orderly, FirstTries
<1>2. n \in Nat /\ m \in Nat /\ l \in Nat /\ ~(n > 0)
  BY OrderlyTypes DEF Printing, ByStatus
<1>3. InStep("queued", 0, m, l, n)
  BY <1>1 DEF OrderlyFarm, FarmInStep, RowsInStep, RowInStep
<1>4. l = 0 /\ m = 0
  <2>. HIDE DEF n, m, l
  <2>1. QED
    BY <1>2, <1>3 DEF InStep
<1>5. QED
  BY <1>4

(* An end that is reported has happened.                                    *)
LEMMA EndsHaveHappened ==
  ASSUME RecordsTyped, NEW j \in Jobs, NEW s \in TrueReports
  PROVE  /\ s = FinishOf(j) => made[j] > 0
         /\ s = FailedOn(j) => lost[j] > 0
         /\ s \in EndsOf(j) => made[j] > 0 \/ lost[j] > 0
BY DEF TrueReports, EndsOf, FinishOf, FailedOn, Report

LEMMA EndsDiffer ==
  \A i, j : i # j => EndsOf(i) \intersect EndsOf(j) = {}
BY DEF EndsOf, FinishOf, FailedOn, Report

(* How the rows move: nothing but a lost connection loses a file.           *)
LEMMA UndisturbedRow ==
  ASSUME OrderlyFarm, [Next]_vars, Undisturbed', NEW j \in Jobs
  PROVE  OwnStep(j) \/ (Misses(j) /\ Drop)
<1>1. OwnStep(j) \/ Misses(j)
  BY UndisturbedMoves, HandleSteps, UploadSteps, NetworkSteps, PrinterRowSteps
  DEF OrderlyFarm, UndisturbedMove, OwnStep, Hardware
<1>2. ~Refuse
  <2>1. "refuse" \in Events \ {"drop", "fail", "ftps"}
    BY DEF Events
  <2>2. QED
    BY <2>1, UndisturbedBefore DEF Refuse, OrderlyFarm, FarmInStep
<1>3. ~(Sent(j) /\ printer.state = "RUNNING")
  BY OneAtATime
<1>4. QED
  BY <1>1, <1>2, <1>3 DEF Misses


-----------------------------------------------------------------------------
(* What a step does, told apart as far as the counts need it                *)

HandlesStatus ==
  /\ chain # <<>> /\ chain' = Tail(chain) /\ lastKey' = Head(chain)
  /\ UNCHANGED <<link, reports, machine, spent>>

Overlooks ==
  /\ HandlesStatus /\ UNCHANGED <<db, uploads, commands>>
  /\ \A j \in Printing : Head(chain) \notin EndsOf(j)

Completes(j) ==
  /\ HandlesStatus /\ j \in Printing /\ Vacant
  /\ Head(chain) = FinishOf(j) /\ made[j] > 0 /\ lost[j] = 0
  /\ Advance(Finished(db, j), <<>>, "monitor")
  /\ UNCHANGED commands

GivesUp(j) ==
  /\ HandlesStatus /\ j \in Printing /\ Vacant
  /\ Head(chain) = FailedOn(j) /\ lost[j] > 0 /\ made[j] = 0
  /\ db' = FailBegin(db, j)
  /\ uploads' = <<Call("eject", j, "monitor")>>
  /\ Publish(<<Stop>>)

LEMMA HandleCases ==
  ASSUME OrderlyFarm, Handle
  PROVE  Overlooks \/ \E j \in Printing : Completes(j) \/ GivesUp(j)
<1>. DEFINE s == Head(chain)
            ended == IF Repeated(s) THEN {} ELSE CurrentJob(s)
<1>1. HandlesStatus /\ RecordsTyped /\ ReportsAreTrue
  BY DEF Handle, HandlesStatus, OrderlyFarm, FarmInStep
<1>2. s \in TrueReports /\ s = Report(s.state, s.task)
  <2>1. s \in TrueReports
    BY <1>1, HeadTailProperties DEF HandlesStatus, ReportsAreTrue
  <2>2. QED
    BY <2>1 DEF TrueReports, Statuses, Report
<1>3. ASSUME s.state \notin {"FINISH", "FAILED"} \/ ended = {},
             UNCHANGED <<db, uploads, commands, monitor>>
      PROVE  Overlooks
  <2>1. ASSUME NEW j \in Printing, s \in EndsOf(j) PROVE FALSE
    <3>1. s.state \in {"FINISH", "FAILED"} /\ s.task = j
      BY <2>1 DEF EndsOf, FinishOf, FailedOn, Report
    <3>2. s # lastKey
      BY <2>1 DEF OrderlyFarm, Orderly, NotHandledYet
    <3>3. j \in ended
      BY <3>1, <3>2 DEF Repeated, CurrentJob, Printing
    <3>4. QED
      BY <1>3, <3>1, <3>3
  <2>2. QED
    BY <1>1, <1>3, <2>1 DEF Overlooks
<1>4. ASSUME NEW j \in ended
      PROVE  /\ j \in Printing /\ j \in Jobs /\ s.task = j
             /\ s.state = "FINISH" => s = FinishOf(j) /\ made[j] > 0
             /\ s.state = "FAILED" => s = FailedOn(j) /\ lost[j] > 0
             /\ s.state \in {"FINISH", "FAILED"} =>
                  Vacant /\ db.remaining > 0 /\ (made[j] = 0 \/ lost[j] = 0)
  <2>1. j \in Printing /\ j \in Jobs /\ s.task = j
    BY CurrentJobIsPrinting DEF Repeated, Printing, ByStatus
  <2>2. /\ s.state = "FINISH" => s = FinishOf(j)
        /\ s.state = "FAILED" => s = FailedOn(j)
    BY <1>2, <2>1 DEF FinishOf, FailedOn
  <2>3. /\ s.state = "FINISH" => made[j] > 0
        /\ s.state = "FAILED" => lost[j] > 0
    BY <1>1, <1>2, <2>1, <2>2, EndsHaveHappened
  <2>4. s.state \in {"FINISH", "FAILED"} => Vacant /\ (made[j] = 0 \/ lost[j] = 0)
    BY <2>1, <2>3, PrintingInStep
  <2>5. db.remaining > 0
    BY <2>1 DEF OrderlyFarm, Orderly, Stocked
  <2>6. QED
    BY <2>1, <2>2, <2>3, <2>4, <2>5
<1>5. ASSUME NEW j \in ended, s.state = "FINISH", FinishThrows(db) PROVE FALSE
  BY <1>4, <1>5 DEF FinishThrows, DecrementPermitted
<1>6. ASSUME NEW j \in ended, s.state = "FINISH", UNCHANGED commands,
             Advance(Finished(db, j), uploads, "monitor")
      PROVE  Completes(j)
  <2>1. uploads = <<>>
    BY <1>4, <1>6 DEF Vacant
  <2>2. Advance(Finished(db, j), <<>>, "monitor")
    BY <1>6, <2>1
  <2>3. lost[j] = 0
    BY <1>4, <1>6
  <2>4. QED
    BY <1>1, <1>4, <1>6, <2>2, <2>3 DEF Completes
<1>7. ASSUME NEW j \in ended, s.state = "FAILED", db' = FailBegin(db, j), Publish(<<Stop>>),
             uploads' = Append(uploads, Call("eject", j, "monitor"))
      PROVE  GivesUp(j)
  <2>1. uploads = <<>>
    BY <1>4, <1>7 DEF Vacant
  <2>2. uploads' = <<Call("eject", j, "monitor")>>
    BY <1>7, <2>1, OneCall
  <2>3. made[j] = 0
    BY <1>4, <1>7
  <2>4. QED
    BY <1>1, <1>4, <1>7, <2>2, <2>3 DEF GivesUp
<1>8. QED
  BY <1>3, <1>4, <1>5, <1>6, <1>7 DEF Handle

(* A call leaves the FTPS queue, which is empty afterwards.                 *)
SendsFile(j) ==
  /\ uploads' = <<>> /\ j \in Printing /\ Posts(j) > 0
  /\ Publish(<<File(j)>>)
  /\ UNCHANGED <<db, chain, lastKey, link, reports, machine, spent>>

SendsEject(j) ==
  /\ uploads' = <<>> /\ Printing = {} /\ EjectPosts = 1 /\ j \in Jobs
  /\ db' = FailEnd(db, j)
  /\ Publish(<<File(Eject)>>)
  /\ UNCHANGED <<chain, lastKey, link, reports, machine, spent>>

FailsToSend ==
  /\ uploads' = <<>> /\ Spend("ftps")
  /\ UNCHANGED db \/ \E j \in Printing : Posts(j) > 0 /\ db' = UpdateStatus(db, j, "queued")
  /\ UNCHANGED <<chain, lastKey, network, machine>>


LEMMA HeadIsSent ==
  ASSUME commands \in Seq(Commands), commands # <<>>
  PROVE  1 \in DOMAIN commands /\ Head(commands) = commands[1]
BY HeadTailProperties, LenProperties, EmptySeq

LEMMA UploadCases ==
  ASSUME OrderlyFarm,
         StartUploaded \/ EjectUploaded \/ StartUploadFails \/ EjectUploadFails
  PROVE  FailsToSend \/ \E j \in Jobs : SendsFile(j) \/ SendsEject(j)
<1>1. uploads # <<>>
  BY DEF StartUploaded, EjectUploaded, StartUploadFails, EjectUploadFails
<1>2. PICK c \in OwnCalls :
        /\ c.job \in Jobs /\ Head(uploads) = c /\ Tail(uploads) = <<>>
        /\ c.kind = "start" => PostsOf(c.job) = 1 /\ Posts(c.job) = 1
        /\ c.kind = "eject" => PostsOf(Eject) = 1 /\ EjectPosts = 1 /\ c.owner = "monitor"
  BY <1>1, OneUpload
<1>3. c.job \in OwnTasks /\ c.job # Eject /\ Eject \in OwnTasks
  BY <1>2, FarmAssumption DEF OwnTasks
<1>4. c.kind = "start" => c.job \in Printing /\ Posts(c.job) > 0
  BY <1>2, <1>3, LoadIs, OneLoad
<1>5. c.kind = "eject" => Printing = {} /\ EjectPosts = 1
  BY <1>2, <1>3, LoadIs, OneLoad
<1>6. CASE StartUploaded
  BY <1>2, <1>4, <1>6 DEF StartUploaded, SendsFile
<1>7. CASE EjectUploaded
  BY <1>2, <1>5, <1>7 DEF EjectUploaded, SendsEject
<1>8. CASE StartUploadFails
  BY <1>2, <1>4, <1>8 DEF StartUploadFails, StartFails, RevertStart, FailsToSend
<1>9. CASE EjectUploadFails
  BY <1>2, <1>9 DEF EjectUploadFails, FailsToSend
<1>10. QED
  BY <1>6, <1>7, <1>8, <1>9

(* The printer takes a command; a stop never meets a print.                 *)
Takes ==
  /\ link /\ commands # <<>> /\ commands' = Tail(commands)
  /\ UNCHANGED <<db, uploads, chain, lastKey, link, made, swaps, spent>>

TakesFile(t) ==
  /\ Takes /\ t \in OwnTasks /\ Head(commands) = File(t) /\ Sent(t)
  /\ printer.state # "RUNNING" /\ Becomes("RUNNING", t) /\ UNCHANGED lost

Answers ==
  /\ Takes /\ Head(commands) = PushAll
  /\ Emit(printer.state, printer.task) /\ UNCHANGED <<printer, lost>>

Shrugs == Takes /\ Head(commands) = Stop /\ UNCHANGED <<printer, reports, lost>>

LEMMA ReceiveCases ==
  ASSUME OrderlyFarm, Receive
  PROVE  (\E t \in OwnTasks : TakesFile(t)) \/ Answers \/ Shrugs
<1>. DEFINE c == Head(commands)
<1>1. /\ commands \in Seq(Commands) /\ commands \in Seq(OwnCommands) /\ commands # <<>>
      /\ printer = Report(printer.state, printer.task)
  BY FarmInStepTypes, OrderlyTypes DEF OrderlyFarm, Orderly, Shape, Receive
<1>2. 1 \in DOMAIN commands /\ c = commands[1] /\ c \in OwnCommands
  BY <1>1, HeadIsSent, HeadTailProperties
<1>3. \A t : c = File(t) => Sent(t)
  BY <1>2 DEF Sent
<1>4. Takes
  BY DEF Receive, Takes, process
<1>5. CASE c = Stop
  <2>1. printer.state # "RUNNING"
    <3>1. \A t \in OwnTasks : ~Running(t)
      BY <1>2, <1>5 DEF OrderlyFarm, Orderly, Ahead
    <3>2. QED
      BY <1>1, <3>1 DEF Running, OrderlyFarm, Orderly, Shape
  <2>2. QED
    BY <1>4, <1>5, <2>1 DEF Receive, Shrugs, Stop
<1>6. CASE c = PushAll
  BY <1>1, <1>4, <1>6 DEF Receive, Answers, PushAll, Becomes
<1>7. ASSUME NEW t \in OwnTasks, c = File(t)
      PROVE  TakesFile(t)
  <2>1. Sent(t) /\ printer.state # "RUNNING"
    BY <1>3, <1>7, OneAtATime
  <2>2. QED
    BY <1>4, <1>7, <2>1 DEF Receive, TakesFile, File
<1>8. QED
  BY <1>2, <1>5, <1>6, <1>7 DEF OwnCommands

(* A print ends.                                                            *)
Prints(t) ==
  /\ t \in OwnTasks /\ Running(t)
  /\ UNCHANGED <<db, uploads, chain, lastKey, link, commands>>

FinishesPlate(t) ==
  /\ Prints(t) /\ printer' = FinishOf(t) /\ Emit("FINISH", t)
  /\ made' = OneMore(made) /\ swaps' = swaps + 1 /\ UNCHANGED <<lost, spent>>

SpoilsPlate(t) ==
  /\ Prints(t) /\ printer' = FailedOn(t) /\ Emit("FAILED", t)
  /\ lost' = OneMore(lost) /\ Spend("fail") /\ UNCHANGED <<made, swaps>>

LEMMA EndCases ==
  ASSUME OrderlyFarm, Finish \/ Fail
  PROVE  \E t \in OwnTasks : FinishesPlate(t) \/ SpoilsPlate(t)
<1>1. /\ printer.state = "RUNNING" /\ printer = Report(printer.state, printer.task)
      /\ UNCHANGED <<db, uploads, chain, lastKey, link, commands>>
  BY OrderlyTypes DEF Finish, Fail, process
<1>2. Prints(printer.task)
  BY <1>1 DEF Prints, Running, OrderlyFarm, Orderly, Shape
<1>3. printer.task # Dry
  <2>1. Dry \notin Jobs /\ Dry # Eject
    BY FarmAssumption, TasksDiffer
  <2>2. QED
    BY <1>2, <2>1 DEF Prints, OwnTasks
<1>4. Finish => FinishesPlate(printer.task)
  BY <1>2, <1>3 DEF Finish, Becomes, FinishesPlate, FinishOf
<1>5. Fail => SpoilsPlate(printer.task)
  BY <1>2 DEF Fail, Spoil, Becomes, SpoilsPlate, FailedOn
<1>6. QED
  BY <1>2, <1>4, <1>5 DEF Prints

Rests == UNCHANGED <<db, uploads, chain, lastKey, network, machine, spent>>

UndisturbedStep ==
  \/ Overlooks \/ FailsToSend
  \/ \E j \in Jobs : Completes(j) \/ GivesUp(j) \/ SendsFile(j) \/ SendsEject(j)
  \/ \E t \in OwnTasks : TakesFile(t) \/ FinishesPlate(t) \/ SpoilsPlate(t)
  \/ Answers \/ Shrugs
  \/ Deliver \/ Drop \/ Reconnect \/ Repeat
  \/ Rests

LEMMA UndisturbedSteps ==
  ASSUME OrderlyFarm, [Next]_vars, Undisturbed'
  PROVE  UndisturbedStep
<1>1. \A j \in Printing : j \in Jobs
  BY DEF Printing, ByStatus
<1>2. StartResumes \/ UNCHANGED vars => Rests
  BY DEF StartResumes, Rests, vars, process
<1>3. QED
  BY <1>1, <1>2, UndisturbedMoves, HandleCases, UploadCases, ReceiveCases, EndCases
  DEF UndisturbedMove, UndisturbedStep


-----------------------------------------------------------------------------
(* What is spent, and what stays as it is                                   *)

LEMMA SpentStays ==
  ASSUME RecordsTyped, [Next]_vars
  PROVE  /\ \A e \in Events : spent[e] \in Nat /\ spent'[e] \in Nat /\ spent'[e] >= spent[e]
         /\ \A e \in Events : Spend(e) => /\ spent'[e] = spent[e] + 1
                                          /\ \A x \in Events : x # e => spent'[x] = spent[x]
<1>1. spent \in [Events -> Nat]
  BY DEF RecordsTyped
<1>2. \A e \in Events : Spend(e) => /\ spent'[e] = spent[e] + 1
                                    /\ \A x \in Events : x # e => spent'[x] = spent[x]
  BY <1>1 DEF Spend
<1>3. \A e \in Events : spent[e] \in Nat
  BY <1>1
<1>4. UNCHANGED spent \/ \E e \in Events : Spend(e)
  BY SpentOrNot
<1>5. \A x \in Events : spent'[x] \in Nat /\ spent'[x] >= spent[x]
  BY <1>2, <1>3, <1>4
<1>6. QED
  BY <1>2, <1>3, <1>5

(* While the farm is vacant the printer stays as it is.                     *)
LEMMA VacantPrinter ==
  ASSUME Vacant, UndisturbedStep
  PROVE  UNCHANGED printer
<1>1. \A t : ~Sent(t) /\ ~Running(t)
  BY DEF Vacant, Running, Report
<1>2. (\E t \in OwnTasks : TakesFile(t) \/ FinishesPlate(t) \/ SpoilsPlate(t)) => FALSE
  BY <1>1 DEF TakesFile, FinishesPlate, SpoilsPlate, Prints
<1>3. QED
  BY <1>2
  DEF UndisturbedStep, Overlooks, Completes, GivesUp, SendsFile, SendsEject, FailsToSend, Answers,
      Shrugs, Deliver, Drop, Reconnect, Repeat, Rests, HandlesStatus, machine

LEMMA FirstTriesStay ==
  ASSUME OrderlyFarm, [Next]_vars, Undisturbed'
  PROVE  FirstTries'
<1>. SUFFICES ASSUME NEW j \in Jobs, db'.status[j] \in {"queued", "printing"}
              PROVE  db'.attempts[j] = 0
  BY DEF FirstTries
<1>1. OwnStep(j) \/ (Misses(j) /\ Drop)
  BY UndisturbedRow
<1>2. db.status[j] \in {"queued", "printing"} /\ Uncounted(j)
  BY <1>1 DEF OwnStep, Stays, Misses, Launches, Reverts, Succeeds, Fails, Lands, Keeps, Turns
<1>3. QED
  BY <1>2 DEF OrderlyFarm, Orderly, FirstTries, Uncounted

(* Of a row that is 'printing' after a step: it was, or has just started.   *)
LEMMA RowsThatPrint ==
  ASSUME OrderlyFarm, [Next]_vars, Undisturbed', NEW j \in Printing'
  PROVE  /\ j \in Jobs
         /\ \/ j \in Printing /\ (Stays(j) \/ Lands(j) \/ (Misses(j) /\ Drop))
            \/ /\ db.status[j] = "queued" /\ j \notin Printing
               /\ SamePlates(j) /\ made[j] = 0 /\ lost[j] = 0
               /\ Errands(j)' > 0
<1>1. j \in Jobs /\ db'.status[j] = "printing"
  BY DEF Printing, ByStatus
<1>2. Errands(j) \in Nat
  BY <1>1, OrderlyTypes
<1>3. OwnStep(j) \/ (Misses(j) /\ Drop)
  BY <1>1, UndisturbedRow
<1>4. CASE Stays(j) \/ Lands(j) \/ (Misses(j) /\ Drop)
  <2>1. j \in Printing
    BY <1>1, <1>4 DEF Stays, Lands, Misses, Keeps, Printing, ByStatus
  <2>2. QED
    BY <1>1, <1>4, <2>1
<1>5. CASE Launches(j)
  <2>1. db.status[j] = "queued" /\ SamePlates(j) /\ Errands(j)' = Errands(j) + 1
    BY <1>5 DEF Launches, Turns
  <2>2. Errands(j)' > 0
    <3>. DEFINE n == Errands(j) m == Errands(j)'
    <3>1. n \in Nat /\ m = n + 1
      BY <1>2, <2>1
    <3>. HIDE DEF n, m
    <3>2. m > 0
      BY <3>1
    <3>3. QED
      BY <3>2 DEF m
  <2>3. QED
    BY <1>1, <2>1, <2>2, QueuedIsFresh DEF Printing, ByStatus
<1>6. CASE Reverts(j) \/ Succeeds(j) \/ Fails(j)
  BY <1>1, <1>6 DEF Reverts, Succeeds, Fails, Turns
<1>7. QED
  BY <1>3, <1>4, <1>5, <1>6 DEF OwnStep

LEMMA ErrandsNext ==
  ASSUME OrderlyFarm, [Next]_vars, NEW j
  PROVE  Errands(j)' \in Nat
<1>1. CallsTyped' /\ RecordsTyped'
  BY FarmInvInductive, RecordsInductive DEF OrderlyFarm, FarmInStep, FarmInv, CallsInv
<1>2. uploads' \in Seq(Calls) /\ commands' \in Seq(Commands)
  BY <1>1 DEF CallsTyped, RecordsTyped
<1>3. PostsIn(uploads', j) \in Nat /\ Count(commands', File(j)) \in Nat
  BY <1>2, PostsInNat, PlacesAreFinite
<1>4. Runs(j)' \in Nat
  BY DEF Runs
<1>5. QED
  BY <1>3, <1>4 DEF Errands, Posts, Files, PostsIn

LEMMA MadeStaysShown ==
  ASSUME OrderlyFarm, [Next]_vars, Undisturbed'
  PROVE  MadeIsShown'
<1>. SUFFICES ASSUME NEW j \in Printing', made'[j] > 0
              PROVE  printer' = FinishOf(j)
  BY DEF MadeIsShown, FinishOf
<1>1. j \in Jobs /\ made[j] \in Nat
  BY RowsThatPrint, OrderlyTypes
<1>2. CASE j \in Printing /\ SamePlates(j)
  <2>1. made[j] > 0
    BY <1>2 DEF SamePlates
  <2>2. Vacant /\ printer = FinishOf(j)
    BY <1>2, <2>1, PrintingInStep DEF OrderlyFarm, Orderly, MadeIsShown
  <2>3. QED
    BY <2>2, UndisturbedSteps, VacantPrinter
<1>3. CASE j \in Printing /\ Lands(j)
  <2>1. Errands(j) # 0
    <3>. DEFINE n == Errands(j) m == Errands(j)'
    <3>1. n = m + 1 /\ n \in Nat
      BY <1>1, <1>3, OrderlyTypes DEF Lands
    <3>2. m \in Nat
      BY <1>1, ErrandsNext
    <3>. HIDE DEF n, m
    <3>3. n # 0
      BY <3>1, <3>2
    <3>4. QED
      BY <3>3 DEF n
  <2>2. made[j] = 0
    BY <1>1, <1>3, <2>1, PrintingInStep
  <2>3. QED
    BY <1>3, <2>2 DEF Lands
<1>4. QED
  BY <1>1, <1>2, <1>3, RowsThatPrint DEF Stays, Misses, SamePlates


LEMMA PrintsStayDue ==
  ASSUME OrderlyFarm, [Next]_vars, Undisturbed'
  PROVE  PrintsAreDue'
<1>. SUFFICES ASSUME spent'["drop"] = 0
              PROVE  link' /\ \A j \in Printing' : Errands(j)' > 0 \/ printer' \in EndsOf(j)
  BY DEF PrintsAreDue, EndsOf, FinishOf, FailedOn
<1>1. "drop" \in Events /\ RecordsTyped
  BY DEF Events, OrderlyFarm, FarmInStep
<1>2. spent["drop"] = 0 /\ ~Drop
  BY <1>1, SpentGrows DEF Drop
<1>3. link
  BY <1>2 DEF OrderlyFarm, Orderly, PrintsAreDue
<1>4. link'
  BY <1>2, <1>3, UndisturbedSteps
  DEF UndisturbedStep, Overlooks, Completes, GivesUp, SendsFile, SendsEject, FailsToSend, Answers,
      Shrugs, Takes, TakesFile, FinishesPlate, SpoilsPlate, Prints, Deliver, Reconnect, Repeat,
      Rests, HandlesStatus, network
<1>5. ASSUME NEW j \in Printing'
      PROVE  Errands(j)' > 0 \/ printer' \in EndsOf(j)
  <2>1. CASE j \in Printing /\ Stays(j)
    <3>1. CASE Errands(j) > 0
      BY <2>1, <3>1 DEF Stays
    <3>2. CASE ~(Errands(j) > 0)
      <4>1. Errands(j) = 0
        BY <2>1, <3>2, PrintingInStep, OrderlyTypes
      <4>2. printer \in EndsOf(j) /\ Vacant
        BY <1>2, <2>1, <3>2, <4>1, NoErrandIsVacant DEF OrderlyFarm, Orderly, PrintsAreDue
      <4>3. QED
        BY <4>2, UndisturbedSteps, VacantPrinter
    <3>3. QED
      BY <3>1, <3>2
  <2>2. CASE Lands(j)
    BY <2>2 DEF Lands, EndsOf
  <2>3. QED
    BY <1>2, <2>1, <2>2, RowsThatPrint
<1>6. QED
  BY <1>4, <1>5

LEMMA FailuresStaySpent ==
  ASSUME OrderlyFarm, [Next]_vars, Undisturbed'
  PROVE  FailuresAreSpent'
<1>. SUFFICES ASSUME NEW j \in Jobs, lost'[j] > 0
              PROVE  spent'["fail"] > 0
  BY DEF FailuresAreSpent
<1>1. "fail" \in Events /\ RecordsTyped
  BY DEF Events, OrderlyFarm, FarmInStep
<1>2. spent["fail"] \in Nat /\ spent'["fail"] \in Nat /\ spent'["fail"] >= spent["fail"]
  BY <1>1, SpentStays
<1>3. CASE UNCHANGED lost
  BY <1>2, <1>3 DEF OrderlyFarm, Orderly, FailuresAreSpent
<1>4. CASE Spend("fail")
  BY <1>1, <1>2, <1>4, SpentStays
<1>5. QED
  BY <1>3, <1>4, UndisturbedSteps
  DEF UndisturbedStep, Overlooks, Completes, GivesUp, SendsFile, SendsEject, FailsToSend, Answers,
      Shrugs, TakesFile, FinishesPlate, SpoilsPlate, Deliver, Drop, Reconnect, Repeat,
      Rests, HandlesStatus, machine

(* The row whose end is handled does not print any more.                    *)
LEMMA HandledRowsEnd ==
  ASSUME OrderlyFarm, NEW i \in Jobs, Completes(i) \/ GivesUp(i)
  PROVE  i \notin Printing' /\ \A k \in Printing' : k # i /\ (k \in Printing => FALSE)
<1>1. i \in Printing /\ i \in Rows(db) /\ Sound(db) /\ db \in DB
  BY PrintingInStep, OrderlyTypes DEF Completes, GivesUp
<1>2. CASE Completes(i)
  <2>1. Finished(db, i) \in DB /\ db' = DispatchNext(Finished(db, i))
    <3>1. ~FinishThrows(db)
      BY <1>1 DEF OrderlyFarm, Orderly, Stocked, FinishThrows, DecrementPermitted
    <3>2. QED
      BY <1>1, <1>2, <3>1, FinishedPrepares DEF Prepares, Sound, Completes, Advance
  <2>2. Finished(db, i).status[i] = "success"
    BY <1>1, FinishedStatus, UpdatedStatus DEF MarkSuccess
  <2>3. db'.status[i] = "success"
    BY <2>1, <2>2, DispatchStatus
  <2>4. QED
    BY <1>1, <2>3, OrderlyTypes DEF Printing, ByStatus
<1>3. CASE GivesUp(i)
  <2>1. db'.status[i] = "failed"
    BY <1>1, <1>3, EndedStatus, UpdatedStatus DEF GivesUp
  <2>2. QED
    BY <1>1, <2>1, OrderlyTypes DEF Printing, ByStatus
<1>4. QED
  BY <1>2, <1>3

LEMMA NotHandledStays ==
  ASSUME OrderlyFarm, [Next]_vars, Undisturbed'
  PROVE  NotHandledYet'
<1>. SUFFICES ASSUME NEW j \in Printing', lastKey' \in EndsOf(j)
              PROVE  FALSE
  BY DEF NotHandledYet, EndsOf, FinishOf, FailedOn
<1>1. RecordsTyped /\ ReportsAreTrue /\ j \in Jobs
  BY RowsThatPrint DEF OrderlyFarm, FarmInStep
<1>2. j \notin Printing => made[j] = 0 /\ lost[j] = 0
  BY RowsThatPrint
<1>3. ASSUME UNCHANGED lastKey PROVE FALSE
  <2>1. CASE j \in Printing
    BY <1>3, <2>1 DEF OrderlyFarm, Orderly, NotHandledYet
  <2>2. CASE j \notin Printing
    <3>1. lastKey \in TrueReports
      BY <1>1, <1>3 DEF ReportsAreTrue, NoKey, EndsOf, FinishOf, FailedOn, Report
    <3>2. made[j] > 0 \/ lost[j] > 0
      BY <1>1, <1>3, <3>1, EndsHaveHappened
    <3>3. QED
      BY <1>2, <2>2, <3>2
  <2>3. QED
    BY <2>1, <2>2
<1>4. ASSUME NEW i \in Jobs, Completes(i) \/ GivesUp(i) PROVE FALSE
  <2>1. j # i
    BY <1>4, HandledRowsEnd
  <2>2. lastKey' \in EndsOf(i)
    BY <1>4 DEF Completes, GivesUp, HandlesStatus, EndsOf
  <2>3. QED
    BY <2>1, <2>2, EndsDiffer
<1>5. ASSUME Overlooks PROVE FALSE
  <2>1. j \in Printing
    BY <1>5 DEF Overlooks, Printing
  <2>2. QED
    BY <1>5, <2>1 DEF Overlooks, HandlesStatus
<1>6. QED
  BY <1>3, <1>4, <1>5, UndisturbedSteps
  DEF UndisturbedStep, SendsFile, SendsEject, FailsToSend, Answers,
      Shrugs, Takes, TakesFile, FinishesPlate, SpoilsPlate, Prints, Deliver, Drop, Reconnect, Repeat,
      Rests, process


(* What the link carries grows by one at most.                              *)
LEMMA PublishHas ==
  ASSUME commands \in Seq(Commands), NEW c \in Commands, Publish(<<c>>), NEW x
  PROVE  Has(commands', x) <=> Has(commands, x) \/ x = c
<1>1. commands' = Append(commands, c)
  BY DEF Publish
<1>2. QED
  BY <1>1, HasAppend

LEMMA EmitHas ==
  ASSUME reports \in Seq(Statuses), NEW s, NEW t, Report(s, t) \in Statuses, Emit(s, t), NEW x
  PROVE  /\ Has(reports, x) => Has(reports', x)
         /\ link => Has(reports', Report(s, t))
<1>1. CASE link
  BY <1>1, HasAppend DEF Emit
<1>2. CASE ~link
  BY <1>2 DEF Emit
<1>3. QED
  BY <1>1, <1>2

LEMMA EndsStayOnTheirWay ==
  ASSUME OrderlyFarm, [Next]_vars, Undisturbed'
  PROVE  EndsAreOnTheirWay'
<1>. SUFFICES ASSUME NEW j \in Printing', printer' \in EndsOf(j), link'
              PROVE  Has(chain', printer') \/ Has(reports', printer') \/ Has(commands', PushAll)
  BY DEF EndsAreOnTheirWay, EndsOf, FinishOf, FailedOn, Has
<1>1. /\ RecordsTyped /\ j \in Jobs /\ printer = Report(printer.state, printer.task)
      /\ chain \in Seq(Statuses) /\ reports \in Seq(Statuses) /\ commands \in Seq(Commands)
      /\ printer \in Statuses /\ printer' \in Statuses
  BY RowsThatPrint, OrderlyTypes, RecordsInductive DEF OrderlyFarm, FarmInStep, RecordsTyped
<1>2. j \in Printing
  <2>1. ASSUME j \notin Printing PROVE FALSE
    <3>1. made'[j] = 0 /\ lost'[j] = 0
      BY <2>1, RowsThatPrint DEF SamePlates
    <3>2. printer' \in TrueReports'
      BY <1>1, ReportsStayTrue DEF OrderlyFarm, FarmInStep, ReportsAreTrue
    <3>3. made'[j] > 0 \/ lost'[j] > 0
      BY <1>1, <3>2 DEF TrueReports, EndsOf, FinishOf, FailedOn, Report
    <3>4. QED
      BY <3>1, <3>3
  <2>2. QED
    BY <2>1
<1>3. UndisturbedStep
  BY UndisturbedSteps
<1>4. ASSUME NEW t \in OwnTasks, FinishesPlate(t) \/ SpoilsPlate(t)
      PROVE  Has(reports', printer')
  <2>1. /\ link
        /\ \/ Emit("FINISH", t) /\ printer' = Report("FINISH", t)
           \/ Emit("FAILED", t) /\ printer' = Report("FAILED", t)
    BY <1>4 DEF FinishesPlate, SpoilsPlate, Prints, FinishOf, FailedOn
  <2>2. QED
    BY <1>1, <2>1, EmitHas
<1>5. ASSUME NEW t \in OwnTasks, TakesFile(t) PROVE FALSE
  BY <1>5 DEF TakesFile, Becomes, EndsOf, FinishOf, FailedOn, Report
<1>6. ASSUME NEW k \in Jobs, Completes(k) \/ GivesUp(k) PROVE FALSE
  BY <1>2, <1>6, HandledRowsEnd
<1>7. CASE Drop
  BY <1>7 DEF Drop
<1>8. CASE Reconnect
  BY <1>1, <1>8, PublishHas, CommandsTyped DEF Reconnect
<1>9. CASE Answers
  <2>1. Emit(printer.state, printer.task) /\ link /\ printer' = printer
    BY <1>9 DEF Answers, Takes
  <2>2. QED
    BY <1>1, <2>1, EmitHas
<1>10. CASE UNCHANGED <<printer, link>>
            /\ (Overlooks \/ Deliver \/ Repeat \/ Shrugs \/ FailsToSend \/ Rests
                  \/ \E k \in Jobs : SendsFile(k) \/ SendsEject(k))
  <2>1. Has(chain, printer) \/ Has(reports, printer) \/ Has(commands, PushAll)
    BY <1>2, <1>10 DEF OrderlyFarm, Orderly, EndsAreOnTheirWay, EndsOf
  <2>2. CASE Overlooks
    <3>1. Has(chain, printer) => Has(chain', printer)
      BY <1>1, <1>2, <1>10, <2>2, HasTail DEF Overlooks, HandlesStatus
    <3>2. UNCHANGED <<reports, commands>>
      BY <2>2 DEF Overlooks, HandlesStatus
    <3>3. QED
      BY <1>10, <2>1, <3>1, <3>2
  <2>3. CASE Deliver
    <3>1. reports # <<>> /\ reports' = Tail(reports) /\ chain' = Append(chain, Head(reports))
          /\ Head(reports) \in Statuses /\ UNCHANGED commands
      BY <1>1, <2>3, HeadTailProperties DEF Deliver
    <3>2. Has(chain, printer) => Has(chain', printer)
      BY <1>1, <3>1, HasAppend
    <3>3. Has(reports, printer) => Has(chain', printer) \/ Has(reports', printer)
      BY <1>1, <3>1, HasAppend, HasTail
    <3>4. QED
      BY <1>10, <2>1, <3>1, <3>2, <3>3
  <2>4. CASE Repeat
    <3>1. UNCHANGED <<chain, commands>> /\ Emit(printer.state, printer.task)
      BY <2>4 DEF Repeat, process
    <3>2. QED
      BY <1>1, <1>10, <2>1, <3>1, EmitHas
  <2>5. CASE Shrugs
    <3>1. commands # <<>> /\ commands' = Tail(commands) /\ Head(commands) # PushAll
          /\ UNCHANGED <<chain, reports>>
      BY <2>5 DEF Shrugs, Takes, Stop, PushAll
    <3>2. Has(commands, PushAll) => Has(commands', PushAll)
      BY <1>1, <3>1, HasTail
    <3>3. QED
      BY <1>10, <2>1, <3>1, <3>2
  <2>6. CASE FailsToSend \/ Rests
    BY <1>10, <2>1, <2>6 DEF FailsToSend, Rests, network
  <2>7. ASSUME NEW k \in Jobs, SendsFile(k) \/ SendsEject(k)
        PROVE  Has(chain', printer') \/ Has(reports', printer') \/ Has(commands', PushAll)
    <3>1. UNCHANGED <<chain, reports>> /\ \E c \in Commands : Publish(<<c>>)
      BY <2>7, CommandsTyped DEF SendsFile, SendsEject
    <3>2. Has(commands, PushAll) => Has(commands', PushAll)
      BY <1>1, <3>1, PublishHas
    <3>3. QED
      BY <1>10, <2>1, <3>1, <3>2
  <2>8. QED
    BY <1>10, <2>2, <2>3, <2>4, <2>5, <2>6, <2>7
<1>11. QED
  <2>1. Overlooks \/ Deliver \/ Repeat \/ Shrugs \/ FailsToSend \/ Rests
          \/ (\E k \in Jobs : SendsFile(k) \/ SendsEject(k))
        => UNCHANGED <<printer, link>>
    BY DEF Overlooks, HandlesStatus, Deliver, Repeat, Shrugs, Takes, FailsToSend, Rests, SendsFile,
           SendsEject, machine, network
  <2>2. QED
    BY <1>3, <1>4, <1>5, <1>6, <1>7, <1>8, <1>9, <1>10, <2>1 DEF UndisturbedStep

(* The rows that print once the call at hand has ended.                     *)
LEMMA PrintingKept ==
  ASSUME db \in DB, NEW e, e.status = db.status, db' = e
  PROVE  Printing' = Printing
BY DEF Printing, ByStatus

LEMMA StockedStays ==
  ASSUME OrderlyFarm, [Next]_vars, Undisturbed'
  PROVE  Stocked'
<1>1. Sound(db) /\ db \in DB /\ \A j \in Printing : j \in Jobs
  BY OrderlyTypes DEF Printing, ByStatus
<1>2. CASE UNCHANGED <<db, uploads>>
  BY <1>2 DEF OrderlyFarm, Orderly, Stocked, Printing
<1>3. ASSUME NEW j \in Jobs, Completes(j)
      PROVE  Stocked'
  <2>. DEFINE e == Finished(db, j)
  <2>1. e \in DB /\ db' = DispatchNext(e) /\ j \in Printing /\ j \in Rows(db)
    <3>1. j \in Printing /\ ~FinishThrows(db)
      BY <1>3 DEF OrderlyFarm, Orderly, Stocked, FinishThrows, DecrementPermitted, Completes
    <3>2. QED
      BY <1>1, <1>3, <3>1, FinishedPrepares, PrintingInStep DEF Prepares, Sound, Completes, Advance
  <2>2. \A k \in Jobs : e.status[k] = IF k = j THEN "success" ELSE db.status[k]
    BY <1>1, <2>1, FinishedStatus, UpdatedStatus DEF MarkSuccess
  <2>. HIDE DEF e
  <2>3. CASE Started(e) # {}
    BY <2>1, <2>3, StartsOnAPlate, StockerUntouched DEF Stocked
  <2>4. CASE Started(e) = {}
    <3>1. uploads' = <<>>
      BY <1>3, <2>4 DEF Completes, Advance, e
    <3>2. \A k \in Jobs : db'.status[k] = e.status[k]
      BY <2>1, <2>4, DispatchStatus
    <3>3. Printing' = {}
      BY <2>1, <2>2, <3>2, OrderlyTypes DEF Printing, ByStatus
    <3>4. QED
      BY <3>1, <3>3 DEF Stocked
  <2>5. QED
    BY <2>3, <2>4
<1>4. ASSUME NEW j \in Jobs, GivesUp(j)
      PROVE  Stocked'
  <2>1. db'.remaining = db.remaining /\ db.remaining > 0
    BY <1>1, <1>4, FailBeginTakesNone DEF GivesUp, OrderlyFarm, Orderly, Stocked
  <2>2. QED
    BY <2>1 DEF Stocked
<1>5. ASSUME NEW j \in Jobs, SendsFile(j) PROVE Stocked'
  BY <1>5 DEF SendsFile, OrderlyFarm, Orderly, Stocked, Printing
<1>6. ASSUME NEW j \in Jobs, SendsEject(j) PROVE Stocked'
  <2>1. uploads' = <<>> /\ Printing = {} /\ db' = FailEnd(db, j) /\ FailEnd(db, j).status = db.status
    BY <1>1, <1>6, FailEndStatus DEF SendsEject
  <2>2. Printing' = {}
    BY <1>1, <2>1, PrintingKept
  <2>3. QED
    BY <2>1, <2>2 DEF Stocked
<1>7. CASE FailsToSend
  <2>1. uploads' = <<>> /\ db'.remaining = db.remaining
    BY <1>1, <1>7, StockerUntouched DEF FailsToSend
  <2>2. CASE UNCHANGED db
    BY <2>1, <2>2 DEF OrderlyFarm, Orderly, Stocked, Printing
  <2>3. CASE Printing # {}
    BY <2>1, <2>3 DEF OrderlyFarm, Orderly, Stocked
  <2>4. QED
    BY <1>7, <2>2, <2>3 DEF FailsToSend
<1>8. QED
  BY <1>2, <1>3, <1>4, <1>5, <1>6, <1>7, UndisturbedSteps
  DEF UndisturbedStep, Overlooks, Answers, Shrugs, Takes, TakesFile, FinishesPlate, SpoilsPlate,
      Prints, Deliver, Drop, Reconnect, Repeat, Rests, process


LEMMA OwnCommandsAre ==
  /\ Stop \in OwnCommands /\ PushAll \in OwnCommands
  /\ \A t \in OwnTasks : File(t) \in OwnCommands /\ File(t) # Stop
  /\ PushAll # Stop
  /\ Eject \in OwnTasks /\ Jobs \subseteq OwnTasks
  /\ OwnCommands \subseteq Commands
BY CommandsTyped DEF OwnCommands, OwnTasks, File, Stop, PushAll

(* What becomes of the link's load and of the printer's.                    *)
LEMMA LinkMoves ==
  ASSUME UndisturbedStep
  PROVE  \/ UNCHANGED <<commands, printer>>
         \/ commands' = <<>> /\ UNCHANGED printer
         \/ \E c \in OwnCommands : /\ Publish(<<c>>) /\ UNCHANGED printer
                                   /\ c = Stop => Vacant
         \/ /\ commands # <<>> /\ commands' = Tail(commands)
            /\ UNCHANGED printer \/ \E t \in OwnTasks : Head(commands) = File(t) /\ printer' = Report("RUNNING", t)
         \/ UNCHANGED commands /\ printer'.state # "RUNNING"
<1>1. ASSUME NEW j \in Jobs, GivesUp(j) \/ SendsFile(j) \/ SendsEject(j)
      PROVE  \E c \in OwnCommands : /\ Publish(<<c>>) /\ UNCHANGED printer
                                    /\ c = Stop => Vacant
  BY <1>1, OwnCommandsAre DEF GivesUp, SendsFile, SendsEject, HandlesStatus, machine
<1>2. CASE Reconnect
  BY <1>2, OwnCommandsAre DEF Reconnect, machine
<1>3. ASSUME NEW t \in OwnTasks, FinishesPlate(t) \/ SpoilsPlate(t)
      PROVE  UNCHANGED commands /\ printer'.state # "RUNNING"
  BY <1>3 DEF FinishesPlate, SpoilsPlate, Prints, FinishOf, FailedOn, Report
<1>4. CASE Answers \/ Shrugs \/ \E t \in OwnTasks : TakesFile(t)
  BY <1>4 DEF Answers, Shrugs, TakesFile, Takes, Becomes
<1>5. CASE Drop
  BY <1>5 DEF Drop, machine
<1>6. QED
  BY <1>1, <1>2, <1>3, <1>4, <1>5
  DEF UndisturbedStep, Overlooks, Completes, FailsToSend, Deliver, Repeat, Rests, HandlesStatus,
      machine, network

LEMMA ShapeStays ==
  ASSUME OrderlyFarm, [Next]_vars, Undisturbed'
  PROVE  Shape'
<1>1. UndisturbedStep /\ Shape
  BY UndisturbedSteps DEF OrderlyFarm, Orderly
<1>2. uploads' = <<>> \/ \E c \in OwnCalls : uploads' = <<c>>
  <2>1. ASSUME NEW j \in Jobs, Completes(j)
        PROVE  uploads' = <<>> \/ \E c \in OwnCalls : uploads' = <<c>>
    <3>1. \A k \in Started(Finished(db, j)) : Call("start", k, "monitor") \in OwnCalls
      BY StartedInJobs, CallsAreCalls DEF OwnCalls, StartCalls, JobCalls, Call
    <3>2. \A c : Append(<<>>, c) = <<c>>
      BY OneCall
    <3>3. QED
      BY <2>1, <3>1, <3>2 DEF Completes, Advance
  <2>2. ASSUME NEW j \in Jobs, GivesUp(j)
        PROVE  \E c \in OwnCalls : uploads' = <<c>>
    BY <2>2 DEF GivesUp, OwnCalls
  <2>3. CASE UNCHANGED uploads \/ uploads' = <<>>
    BY <1>1, <2>3 DEF Shape
  <2>4. QED
    BY <1>1, <2>1, <2>2, <2>3
    DEF UndisturbedStep, Overlooks, SendsFile, SendsEject, FailsToSend, Answers, Shrugs, Takes,
        TakesFile, FinishesPlate, SpoilsPlate, Prints, Deliver, Drop, Reconnect, Repeat, Rests, process
<1>3. commands' \in Seq(OwnCommands)
  <2>1. \A c \in OwnCommands : Publish(<<c>>) => commands' \in Seq(OwnCommands)
    <3>1. ASSUME NEW c \in OwnCommands, Publish(<<c>>) PROVE commands' \in Seq(OwnCommands)
      <4>1. <<c>> \in Seq(OwnCommands)
        OBVIOUS
      <4>2. QED
        BY <1>1, <3>1, <4>1, ConcatProperties DEF Publish, Shape
    <3>2. QED
      BY <3>1
  <2>2. commands # <<>> => Tail(commands) \in Seq(OwnCommands)
    BY <1>1, HeadTailProperties DEF Shape
  <2>3. QED
    BY <1>1, <2>1, <2>2, LinkMoves, EmptySeq DEF Shape
<1>4. printer'.state = "RUNNING" => printer'.task \in OwnTasks
  <2>1. \A t \in OwnTasks : printer' = Report("RUNNING", t) => printer'.task \in OwnTasks
    BY DEF Report
  <2>2. UNCHANGED printer => (printer'.state = "RUNNING" => printer'.task \in OwnTasks)
    BY <1>1 DEF Shape
  <2>3. QED
    BY <1>1, <2>1, <2>2, LinkMoves
<1>5. QED
  BY <1>2, <1>3, <1>4 DEF Shape

LEMMA StopStaysFirst ==
  ASSUME OrderlyFarm, [Next]_vars, Undisturbed'
  PROVE  Ahead(Stop, OwnTasks)'
<1>1. UndisturbedStep /\ Ahead(Stop, OwnTasks) /\ commands \in Seq(Commands)
  BY UndisturbedSteps, FarmInStepTypes DEF OrderlyFarm, Orderly
<1>2. CASE UNCHANGED <<commands, printer>>
  BY <1>1, <1>2 DEF Ahead, Running
<1>3. CASE commands' = <<>>
  BY <1>3 DEF Ahead
<1>4. ASSUME NEW c \in OwnCommands, Publish(<<c>>), UNCHANGED printer, c = Stop => Vacant
      PROVE  Ahead(Stop, OwnTasks)'
  <2>1. CASE c = Stop
    <3>1. \A t \in OwnTasks : ~Sent(t) /\ ~Running(t) /\ File(t) # Stop
      BY <1>4, <2>1, OwnCommandsAre DEF Vacant, Running, Report
    <3>2. QED
      BY <1>1, <1>4, <2>1, <3>1, AheadAppended, CommandsTyped
  <2>2. CASE c # Stop
    <3>1. c \in Commands
      BY OwnCommandsAre
    <3>2. QED
      BY <1>1, <1>4, <2>2, <3>1, AheadStays
  <2>3. QED
    BY <2>1, <2>2
<1>5. ASSUME commands # <<>>, commands' = Tail(commands),
             UNCHANGED printer
               \/ \E t \in OwnTasks : Head(commands) = File(t) /\ printer' = Report("RUNNING", t)
      PROVE  Ahead(Stop, OwnTasks)'
  <2>1. \A t \in OwnTasks : Running(t)' => Running(t) \/ Head(commands) = File(t)
    <3>1. \A t, u : Report("RUNNING", t) = Report("RUNNING", u) => t = u
      <4>1. \A t : Report("RUNNING", t).task = t
        BY DEF Report
      <4>2. QED
        BY <4>1
    <3>2. QED
      BY <1>5, <3>1 DEF Running
  <2>2. QED
    BY <1>1, <1>5, <2>1, AheadTaken
<1>6. CASE UNCHANGED commands /\ printer'.state # "RUNNING"
  BY <1>1, <1>6 DEF Ahead, Running, Report
<1>7. QED
  BY <1>1, <1>2, <1>3, <1>4, <1>5, <1>6, LinkMoves


-----------------------------------------------------------------------------
(* Ejects: how many are on their way                                        *)

LEMMA OtherFiles ==
  /\ \A j \in Jobs : File(j) # File(Eject)
  /\ Stop # File(Eject) /\ PushAll # File(Eject)
  /\ \A t : File(t) = File(Eject) => t = Eject
<1>1. \A t : File(t).task = t
  BY DEF File
<1>2. \A t : File(t) = File(Eject) => t = Eject
  BY <1>1
<1>3. QED
  BY <1>2, FarmAssumption DEF File, Stop, PushAll

LEMMA EjectsKept ==
  ASSUME OrderlyFarm, UNCHANGED printer,
         \/ UNCHANGED commands
         \/ \E c \in Commands : c # File(Eject) /\ Publish(<<c>>)
         \/ commands # <<>> /\ commands' = Tail(commands) /\ Head(commands) # File(Eject)
  PROVE  EjectsOut' = EjectsOut
<1>1. FarmInStep /\ Files(Eject) \in Nat /\ Runs(Eject) \in Nat
  BY OrderlyTypes
<1>2. Runs(Eject)' = Runs(Eject)
  BY RunsKept
<1>3. \A c : c # File(Eject) => Once(File(Eject), c) = 0
  BY DEF Once
<1>4. CASE UNCHANGED commands
  BY <1>2, <1>4, FilesKept DEF EjectsOut
<1>5. ASSUME NEW c \in Commands, c # File(Eject), Publish(<<c>>) PROVE EjectsOut' = EjectsOut
  <2>1. Files(Eject)' = Files(Eject) + 0
    BY <1>1, <1>3, <1>5, FilesPublished
  <2>2. Files(Eject)' = Files(Eject)
    BY <1>1, <2>1
  <2>3. QED
    BY <1>2, <2>2 DEF EjectsOut
<1>6. CASE commands # <<>> /\ commands' = Tail(commands) /\ Head(commands) # File(Eject)
  <2>1. Files(Eject) = Files(Eject)' + 0 /\ Files(Eject)' \in Nat
    BY <1>1, <1>3, <1>6, CommandTaken
  <2>2. Files(Eject)' = Files(Eject)
    BY <2>1
  <2>3. QED
    BY <1>2, <2>2 DEF EjectsOut
<1>7. QED
  BY <1>4, <1>5, <1>6

LEMMA EjectsAreKept ==
  ASSUME OrderlyFarm
  PROVE  /\ Overlooks \/ FailsToSend \/ Answers \/ Shrugs \/ Deliver \/ Reconnect \/ Repeat \/ Rests
              => EjectsOut' = EjectsOut
         /\ \A j \in Jobs : Completes(j) \/ GivesUp(j) \/ SendsFile(j) => EjectsOut' = EjectsOut
<1>1. CASE Overlooks \/ FailsToSend \/ Deliver \/ Repeat \/ Rests
  BY <1>1, EjectsKept
  DEF Overlooks, HandlesStatus, FailsToSend, Deliver, Repeat, Rests, machine, network
<1>2. CASE Reconnect
  BY <1>2, EjectsKept, CommandsTyped, OtherFiles DEF Reconnect, machine
<1>3. CASE Answers \/ Shrugs
  BY <1>3, EjectsKept, OtherFiles DEF Answers, Shrugs, Takes
<1>4. ASSUME NEW j \in Jobs, Completes(j) \/ GivesUp(j) \/ SendsFile(j)
      PROVE  EjectsOut' = EjectsOut
  BY <1>4, EjectsKept, CommandsTyped, OtherFiles
  DEF Completes, GivesUp, SendsFile, HandlesStatus, machine
<1>5. QED
  BY <1>1, <1>2, <1>3, <1>4

LEMMA EjectsMove ==
  ASSUME OrderlyFarm
  PROVE  /\ \A j \in Jobs : SendsEject(j) => EjectsOut' = EjectsOut + 1
         /\ \A t \in OwnTasks : TakesFile(t) => EjectsOut' = EjectsOut
         /\ \A t \in OwnTasks : FinishesPlate(t) \/ SpoilsPlate(t) =>
              /\ t = Eject => EjectsOut = EjectsOut' + 1 /\ EjectsOut' \in Nat
              /\ t # Eject => EjectsOut' = EjectsOut
         /\ Drop => EjectsOut' = EjectsOut \/ (EjectsOut' \in Nat /\ EjectsOut' < EjectsOut)
<1>. DEFINE f == Files(Eject) r == Runs(Eject) ff == Files(Eject)' rr == Runs(Eject)'
<1>1. FarmInStep /\ f \in Nat /\ r \in Nat /\ printer = Report(printer.state, printer.task)
      /\ EjectsOut = f + r /\ EjectsOut' = ff + rr
  BY OrderlyTypes DEF EjectsOut
<1>2. \A t : Report("RUNNING", t) = Report("RUNNING", Eject) <=> t = Eject
  BY DEF Report
<1>3. ASSUME NEW j \in Jobs, SendsEject(j) PROVE EjectsOut' = EjectsOut + 1
  <2>1. ff = f + Once(File(Eject), File(Eject))
    BY <1>1, <1>3, FilesPublished, CommandsTyped DEF SendsEject
  <2>2. rr = r
    BY <1>3, RunsKept DEF SendsEject, machine
  <2>3. Once(File(Eject), File(Eject)) = 1
    BY DEF Once
  <2>. HIDE DEF f, r, ff, rr
  <2>4. QED
    BY <1>1, <2>1, <2>2, <2>3
<1>4. ASSUME NEW t \in OwnTasks, TakesFile(t) PROVE EjectsOut' = EjectsOut
  <2>1. f = ff + Once(File(Eject), File(t)) /\ ff \in Nat
    BY <1>1, <1>4, CommandTaken DEF TakesFile, Takes
  <2>2. r = 0
    BY <1>4 DEF TakesFile, Runs, Running, Report
  <2>3. rr = Once(File(Eject), File(t))
    BY <1>2, <1>4, OtherFiles DEF TakesFile, Becomes, Runs, Running, Once
  <2>4. Once(File(Eject), File(t)) \in Nat
    BY DEF Once
  <2>. HIDE DEF f, r, ff, rr
  <2>5. QED
    BY <1>1, <2>1, <2>2, <2>3, <2>4
<1>5. ASSUME NEW t \in OwnTasks, FinishesPlate(t) \/ SpoilsPlate(t)
      PROVE  /\ t = Eject => EjectsOut = EjectsOut' + 1 /\ EjectsOut' \in Nat
             /\ t # Eject => EjectsOut' = EjectsOut
  <2>1. ff = f
    BY <1>5, FilesKept DEF FinishesPlate, SpoilsPlate, Prints
  <2>2. rr = 0
    BY <1>5 DEF FinishesPlate, SpoilsPlate, FinishOf, FailedOn, Runs, Running, Report
  <2>3. r = IF t = Eject THEN 1 ELSE 0
    BY <1>2, <1>5 DEF FinishesPlate, SpoilsPlate, Prints, Runs, Running
  <2>. HIDE DEF f, r, ff, rr
  <2>4. QED
    BY <1>1, <2>1, <2>2, <2>3
<1>6. ASSUME Drop PROVE EjectsOut' = EjectsOut \/ (EjectsOut' \in Nat /\ EjectsOut' < EjectsOut)
  <2>1. ff = 0
    BY <1>6, CountNone DEF Drop, Files
  <2>2. rr = r
    BY <1>6, RunsKept DEF Drop, machine
  <2>. HIDE DEF f, r, ff, rr
  <2>3. QED
    BY <1>1, <2>1, <2>2
<1>7. QED
  BY <1>3, <1>4, <1>5, <1>6

(* ... and whether one waits for the FTPS slot.                             *)
LEMMA EjectPostsMove ==
  ASSUME UndisturbedStep
  PROVE  \/ UNCHANGED uploads /\ EjectPosts' = EjectPosts
         \/ EjectPosts' = 0
         \/ \E j \in Jobs : GivesUp(j) /\ EjectPosts' = 1
<1>1. CASE UNCHANGED uploads
  BY <1>1 DEF EjectPosts
<1>2. CASE uploads' = <<>>
  BY <1>2 DEF EjectPosts
<1>3. ASSUME NEW j \in Jobs, Completes(j) PROVE EjectPosts' = 0
  <2>1. \A k : Head(<<Call("start", k, "monitor")>>).kind = "start"
    BY OneCall DEF Call
  <2>2. \A c : Append(<<>>, c) = <<c>>
    BY OneCall
  <2>3. QED
    BY <1>3, <2>1, <2>2 DEF Completes, Advance, EjectPosts
<1>4. ASSUME NEW j \in Jobs, GivesUp(j) PROVE EjectPosts' = 1
  <2>1. LET c == Call("eject", j, "monitor") IN <<c>> # <<>> /\ Head(<<c>>) = c
    BY OneCall
  <2>2. QED
    BY <1>4, <2>1 DEF GivesUp, EjectPosts, Call
<1>5. QED
  BY <1>1, <1>2, <1>3, <1>4
  DEF UndisturbedStep, Overlooks, SendsFile, SendsEject, FailsToSend, Answers, Shrugs, Takes,
      TakesFile, FinishesPlate, SpoilsPlate, Prints, Deliver, Drop, Reconnect, Repeat, Rests, process


LEMMA GivesUpEndsPrinting ==
  ASSUME OrderlyFarm, NEW j \in Jobs, GivesUp(j)
  PROVE  Printing' = {}
<1>1. Sound(db) /\ db \in DB /\ j \in Printing
  BY OrderlyTypes DEF GivesUp
<1>2. \A k \in Jobs : k # j => db'.status[k] = db.status[k]
  BY <1>1, EndedStatus, UpdatedStatus DEF GivesUp
<1>3. ASSUME NEW k \in Printing' PROVE FALSE
  <2>1. k # j /\ (k \in Printing => FALSE) /\ k \in Jobs
    BY <1>3, HandledRowsEnd DEF Printing, ByStatus
  <2>2. k \in Printing
    BY <1>2, <1>3, <2>1 DEF Printing, ByStatus
  <2>3. QED
    BY <2>1, <2>2
<1>4. QED
  BY <1>3

LEMMA NoneStarts ==
  ASSUME OrderlyFarm, UndisturbedStep, Printing = {}
  PROVE  Printing' = {}
<1>1. Sound(db) /\ db \in DB
  BY OrderlyTypes
<1>2. CASE UNCHANGED db
  BY <1>2 DEF Printing
<1>3. ASSUME NEW j \in Jobs, SendsEject(j) PROVE Printing' = {}
  BY <1>1, <1>3, FailEndStatus, PrintingKept DEF SendsEject
<1>4. \A j \in Jobs : ~Completes(j) /\ ~GivesUp(j)
  BY DEF Completes, GivesUp
<1>5. QED
  BY <1>2, <1>3, <1>4
  DEF UndisturbedStep, Overlooks, SendsFile, FailsToSend, Answers, Shrugs, Takes,
      TakesFile, FinishesPlate, SpoilsPlate, Prints, Deliver, Drop, Reconnect, Repeat, Rests, process

LEMMA EjectsStayAlone ==
  ASSUME OrderlyFarm, [Next]_vars, Undisturbed'
  PROVE  EjectsAlone'
<1>. DEFINE p == EjectPosts o == EjectsOut pp == EjectPosts' oo == EjectsOut'
<1>1. UndisturbedStep /\ p \in {0, 1} /\ o \in Nat /\ p + o <= 1
      /\ (p + o > 0 => Printing = {} /\ spent["fail"] > 0)
  BY UndisturbedSteps, OrderlyTypes
  DEF OrderlyFarm, Orderly, EjectsAlone, NoPrintingJob, Printing
<1>2. /\ RecordsTyped /\ "fail" \in Events
      /\ spent["fail"] \in Nat /\ spent'["fail"] \in Nat /\ spent'["fail"] >= spent["fail"]
  BY SpentStays DEF OrderlyFarm, FarmInStep, Events
<1>3. SUFFICES pp + oo <= 1 /\ (pp + oo > 0 => Printing' = {} /\ spent'["fail"] > 0)
  BY DEF EjectsAlone, NoPrintingJob, Printing
<1>4. ASSUME NEW j \in Jobs, GivesUp(j)
      PROVE  pp + oo <= 1 /\ (pp + oo > 0 => Printing' = {} /\ spent'["fail"] > 0)
  <2>1. j \in Printing /\ lost[j] > 0 /\ Printing' = {}
    BY <1>4, GivesUpEndsPrinting DEF GivesUp
  <2>2. spent["fail"] > 0 /\ p + o = 0
    <3>. DEFINE n == p + o
    <3>1. n \in Nat /\ ~(n > 0)
      BY <1>1, <2>1
    <3>. HIDE DEF n
    <3>2. n = 0
      BY <3>1
    <3>3. QED
      BY <1>4, <2>1, <3>2 DEF n, OrderlyFarm, Orderly, FailuresAreSpent
  <2>3. oo = o /\ pp \in {0, 1}
    BY <1>1, <1>4, EjectsAreKept, EjectPostsMove
  <2>. HIDE DEF p, o, pp, oo
  <2>4. QED
    BY <1>1, <1>2, <2>1, <2>2, <2>3
<1>5. ASSUME pp + oo <= p + o
      PROVE  pp + oo <= 1 /\ (pp + oo > 0 => Printing' = {} /\ spent'["fail"] > 0)
  <2>1. pp \in {0, 1} /\ oo \in Nat
    <3>1. CallsTyped' /\ RecordsTyped'
      BY FarmInvInductive, RecordsInductive DEF OrderlyFarm, FarmInStep, FarmInv, CallsInv
    <3>2. commands' \in Seq(Commands)
      BY <3>1 DEF RecordsTyped
    <3>3. Count(commands', File(Eject)) \in Nat
      BY <3>2, PlacesAreFinite
    <3>4. QED
      BY <3>3 DEF EjectPosts, EjectsOut, Files, Runs
  <2>2. Printing = {} => Printing' = {}
    BY <1>1, NoneStarts
  <2>. HIDE DEF p, o, pp, oo
  <2>3. QED
    BY <1>1, <1>2, <1>5, <2>1, <2>2
<1>6. ASSUME NEW j \in Jobs, SendsEject(j) PROVE pp + oo <= p + o
  <2>1. p = 1 /\ pp = 0
    BY <1>6 DEF SendsEject, EjectPosts
  <2>2. oo = o + 1
    BY <1>6, EjectsMove
  <2>. HIDE DEF p, o, pp, oo
  <2>3. QED
    BY <1>1, <2>1, <2>2
<1>7. ASSUME \A j \in Jobs : ~GivesUp(j) /\ ~SendsEject(j)
      PROVE  pp + oo <= p + o
  <2>1. pp = p \/ pp = 0
    BY <1>1, <1>7, EjectPostsMove
  <2>2. oo = o \/ (oo \in Nat /\ oo < o) \/ (oo \in Nat /\ o = oo + 1)
    <3>1. \A t \in OwnTasks : TakesFile(t) => oo = o
      BY EjectsMove
    <3>2. \A t \in OwnTasks : FinishesPlate(t) \/ SpoilsPlate(t) => oo = o \/ (oo \in Nat /\ o = oo + 1)
      BY EjectsMove
    <3>3. Drop => oo = o \/ (oo \in Nat /\ oo < o)
      BY EjectsMove
    <3>4. /\ Overlooks \/ FailsToSend \/ Answers \/ Shrugs \/ Deliver \/ Reconnect \/ Repeat \/ Rests
               => oo = o
          /\ \A j \in Jobs : Completes(j) \/ GivesUp(j) \/ SendsFile(j) => oo = o
      BY EjectsAreKept
    <3>. HIDE DEF p, o, pp, oo
    <3>5. QED
      BY <1>1, <1>7, <3>1, <3>2, <3>3, <3>4 DEF UndisturbedStep
  <2>. HIDE DEF p, o, pp, oo
  <2>3. QED
    BY <1>1, <2>1, <2>2
<1>8. QED
  BY <1>4, <1>5, <1>6, <1>7


-----------------------------------------------------------------------------
(* The stocker's count                                                      *)

LEMMA OwedIs ==
  /\ (\E j \in Printing : made[j] > 0) => Owed = 1
  /\ (\A j \in Printing : ~(made[j] > 0)) => Owed = 0
  /\ (\E j \in Printing' : made'[j] > 0) => Owed' = 1
  /\ (\A j \in Printing' : ~(made'[j] > 0)) => Owed' = 0
  /\ UNCHANGED made /\ Printing' = Printing => Owed' = Owed
BY DEF Owed

LEMMA OneIsNotOwed ==
  ASSUME OrderlyFarm, NEW j \in Printing, Errands(j) > 0 \/ made[j] = 0
  PROVE  Owed = 0 /\ made[j] = 0
<1>1. made[j] \in Nat /\ Errands(j) \in Nat /\ \A k \in Printing : k = j
  BY PrintingInStep, OrderlyTypes
<1>2. made[j] = 0
  BY <1>1, PrintingInStep
<1>3. \A k \in Printing : ~(made[k] > 0)
  BY <1>1, <1>2
<1>4. QED
  BY <1>2, <1>3, OwedIs

(* A plate's end is handled: it is not owed any more.                       *)
LEMMA CompletesBalance ==
  ASSUME OrderlyFarm, [Next]_vars, Undisturbed', NEW j \in Jobs, Completes(j)
  PROVE  /\ db'.remaining = db.remaining - 1 /\ swaps' = swaps /\ EjectsOut' = EjectsOut
         /\ Owed = 1 /\ Owed' = 0
<1>1. /\ Sound(db) /\ j \in Printing /\ made[j] > 0 /\ db.remaining > 0
      /\ Advance(Finished(db, j), <<>>, "monitor") /\ UNCHANGED machine
  BY OrderlyTypes DEF Completes, HandlesStatus, OrderlyFarm, Orderly, Stocked
<1>2. Finished(db, j) \in DB
  BY <1>1, FinishedPrepares DEF Prepares, Sound, FinishThrows, DecrementPermitted
<1>3. db'.remaining = db.remaining - 1
  BY <1>1, <1>2, PlatesAreTaken, StockerUntouched DEF Advance
<1>4. \A k \in Printing' : ~(made'[k] > 0)
  <2>1. ASSUME NEW k \in Printing' PROVE made'[k] = 0
    <3>1. k \notin Printing
      BY <2>1, HandledRowsEnd
    <3>2. QED
      BY <2>1, <3>1, RowsThatPrint DEF SamePlates
  <2>2. QED
    BY <2>1
<1>5. QED
  BY <1>1, <1>3, <1>4, OwedIs, EjectsAreKept DEF machine

LEMMA GivesUpBalances ==
  ASSUME OrderlyFarm, NEW j \in Jobs, GivesUp(j)
  PROVE  /\ db'.remaining = db.remaining /\ swaps' = swaps /\ EjectsOut' = EjectsOut
         /\ Owed' = Owed
<1>1. Sound(db) /\ j \in Printing /\ made[j] = 0 /\ db' = FailBegin(db, j) /\ UNCHANGED machine
  BY OrderlyTypes DEF GivesUp, HandlesStatus
<1>2. Owed = 0 /\ Owed' = 0
  BY <1>1, OneIsNotOwed, GivesUpEndsPrinting, OwedIs
<1>3. QED
  BY <1>1, <1>2, FailBeginTakesNone, EjectsAreKept DEF machine

LEMMA SendsEjectBalances ==
  ASSUME OrderlyFarm, NEW j \in Jobs, SendsEject(j)
  PROVE  /\ db'.remaining = db.remaining - 1 /\ swaps' = swaps /\ EjectsOut' = EjectsOut + 1
         /\ Owed' = Owed
<1>1. /\ Sound(db) /\ db \in DB /\ Printing = {} /\ db' = FailEnd(db, j) /\ UNCHANGED machine
      /\ db.remaining > 0
  <2>1. uploads # <<>>
    BY DEF SendsEject, EjectPosts
  <2>2. QED
    BY <2>1, OrderlyTypes DEF SendsEject, OrderlyFarm, Orderly, Stocked
<1>2. Printing' = Printing
  BY <1>1, FailEndStatus, PrintingKept
<1>3. QED
  BY <1>1, <1>2, PlatesAreTaken, EjectsMove, OwedIs DEF machine

LEMMA FailsToSendBalances ==
  ASSUME OrderlyFarm, FailsToSend
  PROVE  /\ db'.remaining = db.remaining /\ swaps' = swaps /\ EjectsOut' = EjectsOut
         /\ Owed' = Owed
<1>1. UNCHANGED machine /\ db \in DB /\ Sound(db) /\ EjectsOut' = EjectsOut
  BY OrderlyTypes, EjectsAreKept DEF FailsToSend
<1>2. CASE UNCHANGED db
  BY <1>1, <1>2, OwedIs DEF Printing, machine
<1>3. ASSUME NEW j \in Printing, Posts(j) > 0, db' = UpdateStatus(db, j, "queued")
      PROVE  db'.remaining = db.remaining /\ Owed' = Owed
  <2>1. j \in Jobs /\ j \in Rows(db) /\ \A k \in Printing : k = j
    BY PrintingInStep, OrderlyTypes
  <2>2. Errands(j) > 0
    <3>. DEFINE p == Posts(j) f == Files(j) r == Runs(j)
    <3>1. Errands(j) = p + f + r /\ p \in Nat /\ f \in Nat /\ r \in Nat /\ p > 0
      BY <1>3, <2>1, OrderlyTypes DEF Errands
    <3>. HIDE DEF p, f, r
    <3>2. p + f + r > 0
      BY <3>1
    <3>3. QED
      BY <3>1, <3>2
  <2>3. Owed = 0
    BY <2>2, OneIsNotOwed
  <2>4. Printing' = {}
    <3>1. \A k \in Jobs : db'.status[k] = IF k = j THEN "queued" ELSE db.status[k]
      BY <1>1, <1>3, <2>1, UpdatedStatus
    <3>2. QED
      BY <2>1, <3>1 DEF Printing, ByStatus
  <2>5. QED
    BY <1>1, <1>3, <2>1, <2>3, <2>4, OwedIs, StockerUntouched
<1>4. QED
  BY <1>1, <1>2, <1>3 DEF FailsToSend, machine

LEMMA FinishBalances ==
  ASSUME OrderlyFarm, NEW t \in OwnTasks, FinishesPlate(t)
  PROVE  /\ db'.remaining = db.remaining /\ swaps' = swaps + 1
         /\ t = Eject => EjectsOut = EjectsOut' + 1 /\ EjectsOut' \in Nat /\ Owed' = Owed
         /\ t # Eject => EjectsOut' = EjectsOut /\ Owed = 0 /\ Owed' = 1
<1>1. /\ UNCHANGED db /\ swaps' = swaps + 1 /\ made' = OneMore(made) /\ Running(t)
      /\ printer.task = t /\ printer.state = "RUNNING"
  BY DEF FinishesPlate, Prints, Running, Report
<1>2. Printing' = Printing
  BY <1>1 DEF Printing
<1>3. made \in [Jobs -> Nat]
  BY FarmInStepTypes DEF OrderlyFarm
<1>4. CASE t = Eject
  <2>1. made' = made
    <3>1. \A j \in Jobs : j # printer.task
      BY <1>1, <1>4, FarmAssumption
    <3>2. QED
      BY <1>1, <1>3, <3>1 DEF OneMore
  <2>2. QED
    BY <1>1, <1>2, <1>4, <2>1, OwedIs, EjectsMove
<1>5. CASE t # Eject
  <2>1. t \in Printing /\ t \in Jobs
    BY <1>1, <1>5, OneAtATime DEF Printing, ByStatus
  <2>2. Errands(t) > 0
    <3>. DEFINE p == Posts(t) f == Files(t) r == Runs(t)
    <3>1. Errands(t) = p + f + r /\ p \in Nat /\ f \in Nat /\ r = 1
      BY <1>1, <2>1, OrderlyTypes DEF Errands, Runs
    <3>. HIDE DEF p, f, r
    <3>2. p + f + r > 0
      BY <3>1
    <3>3. QED
      BY <3>1, <3>2
  <2>3. Owed = 0 /\ made[t] = 0
    BY <2>1, <2>2, OneIsNotOwed
  <2>4. made'[t] > 0
    BY <1>1, <1>3, <2>1, <2>3 DEF OneMore
  <2>5. Owed' = 1
    BY <1>2, <2>1, <2>4, OwedIs
  <2>6. QED
    BY <1>1, <1>5, <2>3, <2>5, EjectsMove
<1>6. QED
  BY <1>4, <1>5

(* What else keeps the balance as it is.                                    *)
LEMMA OthersBalance ==
  ASSUME OrderlyFarm,
         \/ Overlooks \/ Answers \/ Shrugs \/ Deliver \/ Reconnect \/ Repeat \/ Rests
         \/ \E j \in Jobs : SendsFile(j)
         \/ \E t \in OwnTasks : TakesFile(t) \/ (SpoilsPlate(t) /\ t # Eject)
  PROVE  /\ db'.remaining = db.remaining /\ swaps' = swaps /\ EjectsOut' = EjectsOut
         /\ Owed' = Owed
<1>1. UNCHANGED <<db, made, swaps>>
  BY DEF Overlooks, HandlesStatus, Answers, Shrugs, Takes, Deliver, Reconnect, Repeat, Rests,
         SendsFile, TakesFile, SpoilsPlate, Prints, process, machine
<1>2. Printing' = Printing
  BY <1>1 DEF Printing
<1>3. QED
  BY <1>1, <1>2, OwedIs, EjectsAreKept, EjectsMove

LEMMA CountedBefore ==
  ASSUME RecordsTyped, [Next]_vars, Counted'
  PROVE  /\ Counted
         /\ Spend("fail") => spent["fail"] = 0
         /\ Spend("drop") => spent["fail"] = 0
<1>1. "fail" \in Events /\ "drop" \in Events
  BY DEF Events
<1>2. /\ spent["fail"] \in Nat /\ spent'["fail"] \in Nat /\ spent'["fail"] >= spent["fail"]
      /\ spent["drop"] \in Nat /\ spent'["drop"] \in Nat /\ spent'["drop"] >= spent["drop"]
      /\ Spend("fail") => spent'["fail"] = spent["fail"] + 1
      /\ Spend("drop") => spent'["drop"] = spent["drop"] + 1
  BY <1>1, SpentStays
<1>3. QED
  BY <1>2 DEF Counted

LEMMA BalanceStays ==
  ASSUME OrderlyFarm, [Next]_vars, Undisturbed'
  PROVE  Balanced'
<1>. DEFINE r == db.remaining o == EjectsOut w == Owed
            rr == db'.remaining oo == EjectsOut' ww == Owed'
<1>1. /\ UndisturbedStep /\ RecordsTyped
      /\ r \in Nat /\ swaps \in Nat /\ o \in Nat /\ Plates \in Nat
      /\ Counted => r + swaps + o = Plates + w
      /\ w \in {0, 1} /\ ww \in {0, 1}
  BY UndisturbedSteps, OrderlyTypes DEF OrderlyFarm, FarmInStep, Orderly, Balanced, Owed
<1>2. Counted' => /\ Counted
                  /\ Spend("fail") => spent["fail"] = 0
                  /\ Spend("drop") => spent["fail"] = 0
  BY <1>1, CountedBefore
<1>3. SUFFICES swaps' \in Nat /\ (Counted' => rr + swaps' + oo = Plates + ww)
  BY DEF Balanced
<1>4. ASSUME NEW j \in Jobs, Completes(j)
      PROVE  swaps' \in Nat /\ (Counted' => rr + swaps' + oo = Plates + ww)
  <2>1. rr = r - 1 /\ swaps' = swaps /\ oo = o /\ w = 1 /\ ww = 0
    BY <1>4, CompletesBalance
  <2>. HIDE DEF r, o, w, rr, oo, ww
  <2>2. QED
    BY <1>1, <1>2, <2>1
<1>5. ASSUME NEW j \in Jobs, SendsEject(j)
      PROVE  swaps' \in Nat /\ (Counted' => rr + swaps' + oo = Plates + ww)
  <2>1. rr = r - 1 /\ swaps' = swaps /\ oo = o + 1 /\ ww = w
    BY <1>5, SendsEjectBalances
  <2>. HIDE DEF r, o, w, rr, oo, ww
  <2>2. QED
    BY <1>1, <1>2, <2>1
<1>6. ASSUME NEW t \in OwnTasks, FinishesPlate(t)
      PROVE  swaps' \in Nat /\ (Counted' => rr + swaps' + oo = Plates + ww)
  <2>1. /\ rr = r /\ swaps' = swaps + 1
        /\ t = Eject => o = oo + 1 /\ oo \in Nat /\ ww = w
        /\ t # Eject => oo = o /\ w = 0 /\ ww = 1
    BY <1>6, FinishBalances
  <2>. HIDE DEF r, o, w, rr, oo, ww
  <2>2. QED
    BY <1>1, <1>2, <2>1
<1>7. ASSUME rr = r, swaps' = swaps, oo = o, ww = w
      PROVE  swaps' \in Nat /\ (Counted' => rr + swaps' + oo = Plates + ww)
  <2>. HIDE DEF r, o, w, rr, oo, ww
  <2>1. QED
    BY <1>1, <1>2, <1>7
<1>8. ASSUME SpoilsPlate(Eject)
      PROVE  swaps' \in Nat /\ (Counted' => rr + swaps' + oo = Plates + ww)
  <2>1. swaps' = swaps /\ Spend("fail")
    BY <1>8 DEF SpoilsPlate
  <2>2. spent["fail"] > 0
    <3>1. printer.state = "RUNNING" /\ printer.task = Eject
      BY <1>8 DEF SpoilsPlate, Prints, Running, Report
    <3>2. QED
      BY <3>1, OneAtATime
  <2>3. ~Counted'
    BY <1>2, <2>1, <2>2
  <2>4. QED
    BY <1>1, <2>1, <2>3
<1>9. ASSUME Drop
      PROVE  swaps' \in Nat /\ (Counted' => rr + swaps' + oo = Plates + ww)
  <2>1. UNCHANGED <<db, made, swaps>> /\ Spend("drop")
    BY <1>9 DEF Drop, process, machine
  <2>2. rr = r /\ swaps' = swaps /\ ww = w
    <3>1. Printing' = Printing
      BY <2>1 DEF Printing
    <3>2. QED
      BY <2>1, <3>1, OwedIs
  <2>3. CASE oo = o
    BY <1>7, <2>2, <2>3
  <2>4. CASE oo \in Nat /\ oo < o
    <3>1. o > 0
      <4>. HIDE DEF o, oo
      <4>1. QED
        BY <1>1, <2>4
    <3>2. spent["fail"] > 0
      <4>1. EjectPosts \in {0, 1}
        BY OrderlyTypes
      <4>2. EjectPosts + o > 0
        <5>. DEFINE p == EjectPosts
        <5>. HIDE DEF o, p
        <5>1. p \in {0, 1} => p + o > 0
          BY <1>1, <3>1
        <5>2. QED
          BY <4>1, <5>1 DEF p
      <4>3. QED
        BY <4>2 DEF OrderlyFarm, Orderly, EjectsAlone
    <3>3. ~Counted'
      BY <1>2, <2>1, <3>2
    <3>4. QED
      BY <1>1, <2>1, <3>3
  <2>5. QED
    BY <1>9, <2>3, <2>4, EjectsMove
<1>10. (\E j \in Jobs : GivesUp(j)) \/ FailsToSend
         => rr = r /\ swaps' = swaps /\ oo = o /\ ww = w
  BY GivesUpBalances, FailsToSendBalances
<1>11. ASSUME \/ Overlooks \/ Answers \/ Shrugs \/ Deliver \/ Reconnect \/ Repeat \/ Rests
              \/ \E j \in Jobs : SendsFile(j)
              \/ \E t \in OwnTasks : TakesFile(t) \/ (SpoilsPlate(t) /\ t # Eject)
       PROVE  rr = r /\ swaps' = swaps /\ oo = o /\ ww = w
  BY <1>11, OthersBalance
<1>12. QED
  <2>. HIDE DEF r, o, w, rr, oo, ww
  <2>1. QED
    BY <1>1, <1>4, <1>5, <1>6, <1>7, <1>8, <1>9, <1>10, <1>11 DEF UndisturbedStep


-----------------------------------------------------------------------------

LEMMA UndisturbedInitially == Init => UndisturbedInv
<1>. SUFFICES ASSUME Init PROVE Orderly
  BY DEF UndisturbedInv
<1>1. /\ Sound(InitDB) /\ InitDB \in DB /\ db = DispatchNext(InitDB) /\ InitDB.remaining = Plates
      /\ commands = <<PushAll>> /\ printer = Report("IDLE", NoTask) /\ link /\ swaps = 0
      /\ Plates \in Nat
  BY InitialQueue, FarmAssumption DEF Sound, Init, InitDB, FreshDB
<1>2. uploads = <<>> \/ \E j \in Started(InitDB) : uploads = <<Call("start", j, "request")>>
  BY DEF Init
<1>3. Shape
  <2>1. \A j \in Started(InitDB) : Call("start", j, "request") \in OwnCalls
    BY StartedInJobs, CallsAreCalls DEF OwnCalls, StartCalls, JobCalls, Call
  <2>2. commands \in Seq(OwnCommands)
    <3>1. PushAll \in OwnCommands
      BY OwnCommandsAre
    <3>2. QED
      BY <1>1, <3>1
  <2>3. QED
    BY <1>1, <1>2, <2>1, <2>2 DEF Shape, Report
<1>4. EjectPosts = 0 /\ EjectsOut = 0
  <2>1. \A j : Head(<<Call("start", j, "request")>>).kind = "start"
    BY OneCall DEF Call
  <2>2. EjectPosts = 0
    BY <1>2, <2>1 DEF EjectPosts
  <2>3. Files(Eject) = 0
    <3>1. commands = Append(<<>>, PushAll) /\ <<>> \in Seq(Commands) /\ PushAll \in Commands
      BY <1>1, CommandsTyped
    <3>2. Files(Eject) = Count(<<>>, File(Eject)) + Once(File(Eject), PushAll)
      BY <3>1, CountAppend DEF Files
    <3>3. QED
      BY <3>2, CountNone, OtherFiles DEF Once
  <2>4. Runs(Eject) = 0
    BY <1>1 DEF Runs, Running, Report
  <2>5. QED
    BY <2>2, <2>3, <2>4 DEF EjectsOut
<1>5. Ahead(Stop, OwnTasks)
  BY <1>1, OwnCommandsAre DEF Ahead
<1>6. \A j \in Jobs : made[j] = 0 /\ lost[j] = 0 /\ db.attempts[j] = 0
  <2>1. \A j \in Jobs : InitDB.attempts[j] = 0
    BY DEF InitDB, FreshDB
  <2>2. \A j \in Jobs : made[j] = 0 /\ lost[j] = 0
    BY DEF Init
  <2>3. QED
    BY <1>1, <2>1, <2>2, DispatchIsQuiet DEF Quiet
<1>7. FirstTries /\ FailuresAreSpent /\ MadeIsShown
  BY <1>6 DEF FirstTries, FailuresAreSpent, MadeIsShown, Printing, ByStatus
<1>8. NotHandledYet /\ EndsAreOnTheirWay
  BY <1>1 DEF Init, NotHandledYet, EndsAreOnTheirWay, EndsOf, FinishOf, FailedOn, Report, NoKey
<1>9. ASSUME NEW j \in Printing
       PROVE  j \in Started(InitDB) /\ Errands(j) > 0
  <2>1. j \in Jobs /\ db.status[j] = "printing"
    BY DEF Printing, ByStatus
  <2>2. InitDB.status[j] = "queued"
    BY <2>1 DEF InitDB, FreshDB, Queued
  <2>3. j \in Started(InitDB)
    BY <1>1, <2>1, <2>2, DispatchStatus
  <2>4. uploads = <<Call("start", j, "request")>>
    BY <1>1, <1>2, <2>3, FirstCandidateUnique DEF Init, Started
  <2>5. Errands(j) > 0
    <3>1. Call("start", j, "request") \in Calls /\ <<>> \in Seq(Calls)
      BY <2>1, CallsAreCalls
    <3>2. Posts(j) = PostsIn(<<>>, j) + Posting(Call("start", j, "request"), j)
      BY <2>1, <2>4, <3>1, OneCall, PostsInAppend DEF Posts
    <3>3. PostsIn(<<>>, j) = 0 /\ Posting(Call("start", j, "request"), j) = 1
      BY CountNone DEF PostsIn, Posting, Call
    <3>4. Posts(j) = 1
      BY <3>2, <3>3
    <3>5. Files(j) \in Nat /\ Runs(j) \in Nat
      <4>1. commands \in Seq(Commands)
        BY <1>1, CommandsTyped
      <4>2. QED
        BY <4>1, PlacesAreFinite DEF Files, Runs
    <3>6. QED
      BY <3>4, <3>5 DEF Errands
  <2>6. QED
    BY <2>3, <2>5
<1>10. PrintsAreDue
  BY <1>1, <1>9 DEF PrintsAreDue
<1>11. db.remaining = Plates /\ Stocked
  <2>1. db.remaining = InitDB.remaining
    <3>1. CASE Jobs = {}
      BY <1>1, <3>1, StartedInJobs
      DEF DispatchNext, EnsureStockerRefillPending, CreateStockerRefill, MarkPrinting, DB
    <3>2. CASE Jobs # {}
      BY <1>1, <3>2, StockerUntouched
    <3>3. QED
      BY <3>1, <3>2
  <2>2. Printing # {} \/ uploads # <<>> => Started(InitDB) # {}
    BY <1>2, <1>9
  <2>3. QED
    BY <1>1, <2>1, <2>2, StartsOnAPlate DEF Stocked
<1>12. Owed = 0
  BY <1>6, OwedIs DEF Printing, ByStatus
<1>13. Balanced
  BY <1>1, <1>4, <1>11, <1>12 DEF Balanced
<1>14. EjectsAlone
  BY <1>4 DEF EjectsAlone
<1>15. QED
  BY <1>3, <1>5, <1>7, <1>8, <1>10, <1>11, <1>13, <1>14 DEF Orderly

LEMMA UndisturbedInductive ==
  TrueFarm /\ CalmInv /\ UndisturbedInv /\ [Next]_vars => UndisturbedInv'
<1>. SUFFICES ASSUME TrueFarm, CalmInv, UndisturbedInv, [Next]_vars, Undisturbed'
              PROVE  Orderly'
  BY DEF UndisturbedInv
<1>1. OrderlyFarm
  BY UndisturbedBefore, UndisturbedIsCalm
  DEF TrueFarm, CalmInv, UndisturbedInv, OrderlyFarm, FarmInStep
<1>2. QED
  BY <1>1, ShapeStays, EjectsStayAlone, StopStaysFirst, FirstTriesStay, FailuresStaySpent,
     NotHandledStays, PrintsStayDue, MadeStaysShown, EndsStayOnTheirWay, StockedStays, BalanceStays
  DEF Orderly

LEMMA UndisturbedAlways == Spec => []UndisturbedInv
BY TrueFarmAlways, CalmAlways, UndisturbedInitially, UndisturbedInductive, PTL DEF Spec

LEMMA UnderWayIsEmpty ==
  ASSUME CallsTyped, UnderWay = <<>>
  PROVE  uploads = <<>>
<1>1. uploads \in Seq(Calls) /\ awaiting \in Seq(Calls) /\ resumed \in Seq(Calls)
  BY StartCallsAreCalls DEF CallsTyped
<1>2. uploads \o awaiting \in Seq(Calls) /\ Len(uploads \o awaiting) = Len(uploads) + Len(awaiting)
  BY <1>1, ConcatProperties
<1>3. Len(UnderWay) = Len(uploads) + Len(awaiting) + Len(resumed)
  BY <1>1, <1>2, ConcatProperties DEF UnderWay
<1>4. Len(uploads) \in Nat /\ Len(awaiting) \in Nat /\ Len(resumed) \in Nat /\ Len(UnderWay) = 0
  BY <1>1, LenProperties
<1>5. Len(uploads) = 0
  BY <1>3, <1>4
<1>6. QED
  BY <1>1, <1>5, EmptySeq

(* At rest nothing is on its way any more.                                  *)
LEMMA RestingFarm ==
  ASSUME OrderlyFarm, AtRest
  PROVE  /\ uploads = <<>> /\ Files(Eject) = 0
         /\ \A j \in Printing : Errands(j) = Runs(j) /\ printer \notin EndsOf(j)
<1>1. uploads = <<>>
  BY UnderWayIsEmpty DEF AtRest, OrderlyFarm, FarmInStep, FarmInv, CallsInv
<1>2. \A t : Files(t) = 0
  BY CountNone DEF AtRest, Files
<1>3. ASSUME NEW j \in Printing
      PROVE  Errands(j) = Runs(j) /\ printer \notin EndsOf(j)
  <2>1. Posts(j) = 0
    <3>1. PostsIn(<<>>, j) = 0
      BY CountNone DEF PostsIn
    <3>2. QED
      BY <1>1, <3>1 DEF Posts
  <2>2. Errands(j) = Runs(j)
    BY <1>2, <2>1 DEF Errands, Runs
  <2>3. ~Has(chain, printer) /\ ~Has(reports, printer) /\ ~Has(commands, PushAll) /\ link
    BY DEF AtRest, Has
  <2>4. QED
    BY <2>2, <2>3 DEF OrderlyFarm, Orderly, EndsAreOnTheirWay
<1>4. QED
  BY <1>1, <1>2, <1>3

LEMMA UndisturbedFarm ==
  ASSUME TrueFarm, CalmInv, UndisturbedInv
  PROVE  PrintingIsRunning /\ CountMatchesStocker
<1>1. SUFFICES ASSUME Undisturbed, AtRest
               PROVE  /\ spent["drop"] = 0 => \A j \in Printing : Running(j)
                      /\ printer.state # "RUNNING" /\ Counted => db.remaining + swaps = Plates
  BY DEF PrintingIsRunning, CountMatchesStocker, Counted, Printing
<1>2. OrderlyFarm
  BY <1>1, UndisturbedIsCalm DEF TrueFarm, CalmInv, UndisturbedInv, OrderlyFarm, FarmInStep
<1>3. /\ Files(Eject) = 0
      /\ \A j \in Printing : Errands(j) = Runs(j) /\ printer \notin EndsOf(j)
  BY <1>1, <1>2, RestingFarm
<1>4. ASSUME spent["drop"] = 0, NEW j \in Printing PROVE Running(j)
  <2>1. Runs(j) > 0
    BY <1>2, <1>3, <1>4 DEF OrderlyFarm, Orderly, PrintsAreDue
  <2>2. QED
    BY <2>1 DEF Runs
<1>5. ASSUME printer.state # "RUNNING", Counted PROVE db.remaining + swaps = Plates
  <2>1. EjectsOut = 0
    BY <1>3, <1>5 DEF EjectsOut, Runs, Running, Report
  <2>2. Owed = 0
    BY <1>2, <1>3, OwedIs DEF OrderlyFarm, Orderly, MadeIsShown, EndsOf
  <2>3. db.remaining + swaps + EjectsOut = Plates + Owed
    BY <1>2, <1>5 DEF OrderlyFarm, Orderly, Balanced
  <2>4. db.remaining \in Nat /\ swaps \in Nat /\ Plates \in Nat
    BY <1>2, OrderlyTypes
  <2>5. QED
    BY <2>1, <2>2, <2>3, <2>4
<1>6. QED
  BY <1>4, <1>5

(* INV-STOCKER-02, INV-CONSISTENCY-01 (monitor.ts:52-64, dispatcher.ts):     *)
(* what prints is a row that is 'printing' and no plate is printed twice,   *)
(* while the farm is calm; and with nothing but failures and lost           *)
(* connections, once the farm is at rest the rows that are 'printing' print *)
(* and the stocker's count is true, unless a file was lost on the way.      *)
THEOREM FarmStaysConsistent == Spec => []FarmIsConsistent
<1>1. TrueFarm /\ CalmInv /\ UndisturbedInv => FarmIsConsistent
  BY TypesFollow, CalmFarm, UndisturbedFarm DEF TrueFarm, FarmIsConsistent
<1>2. QED
  BY <1>1, TrueFarmAlways, CalmAlways, UndisturbedAlways, PTL

-----------------------------------------------------------------------------
(* The rows follow JobLifecycle.  A handler prepares one row and dispatches *)
(* at most one; what a move needs to have come about is kept with the calls *)
(* that will make it.                                                       *)

FarmStatus == {"queued", "printing", "success", "failed", "aborted"}

(* Something has given a row back to the queue.                             *)
GivenBack == \E e \in {"ftps", "timeout", "retry", "rerun"} : spent[e] > 0

Causes ==
  /\ \A j \in Jobs : db.status[j] \in FarmStatus
  /\ \A j \in Jobs : Has(uploads, AbortOf(j)) =>
       /\ boot = "up" /\ spent["abort"] > 0
       /\ db.status[j] = "queued" => GivenBack
  /\ boot # "up" =>
       /\ spent["crash"] > 0
       /\ \A j \in snapshot \intersect Jobs : db.status[j] # "aborted"

(* The arrows, and when the process may take them.                          *)
Follows ==
  \/ Lifecycle!Waits
  \/ \E j \in Jobs : \/ Lifecycle!Ends(j) \/ Lifecycle!Retries(j)
                     \/ Lifecycle!Reverts(j) \/ Lifecycle!Reruns(j)
  \/ boot = "up" /\ \E j \in Jobs : Lifecycle!Aborts(j) \/ Lifecycle!AbortsLate(j)
  \/ boot # "up" /\ Lifecycle!Reconciles

StartsOne ==
  /\ \A i, j \in Lifecycle!Begun : i = j
  /\ Lifecycle!Begun # {} => \A j \in Jobs : Lifecycle!Before(j) # "printing"

LEMMA StoredRows ==
  ASSUME Sound(db), NEW e, Stores(e)
  PROVE  /\ \A k \in Jobs : Lifecycle!Before(k) \in {e.status[k], db.status[k]}
         /\ StartsOne
<1>1. e \in DB /\ \A k \in Jobs : e.status[k] = "printing" => db.status[k] = "printing"
  BY DEF Stores, Prepares, Sound, StartsNothing
<1>2. CASE db' = e
  <2>1. Lifecycle!Begun = {}
    BY <1>1, <1>2 DEF Lifecycle!Begun
  <2>2. QED
    BY <1>2, <2>1 DEF Lifecycle!Before, StartsOne
<1>3. CASE db' = DispatchNext(e)
  <2>1. \A k \in Jobs :
          /\ k \in Started(e) => db'.status[k] = "printing" /\ e.status[k] = "queued"
          /\ k \notin Started(e) => db'.status[k] = e.status[k]
    BY <1>1, <1>3, DispatchStatus
  <2>2. Lifecycle!Begun \subseteq Started(e)
    BY <1>1, <2>1 DEF Lifecycle!Begun
  <2>3. \A i, k \in Started(e) : i = k
    BY <1>1, FirstCandidateUnique DEF Started
  <2>4. \A k \in Jobs : Lifecycle!Before(k) \in {e.status[k], db.status[k]}
    BY <2>1, <2>2 DEF Lifecycle!Before, Lifecycle!Begun
  <2>5. ASSUME NEW i \in Lifecycle!Begun, NEW k \in Jobs
        PROVE  Lifecycle!Before(k) # "printing"
    <3>1. i \in Started(e) /\ \A n \in Jobs : e.status[n] # "printing"
      BY <2>2, <2>5 DEF Started, MayStart, Busy, ByStatus
    <3>2. CASE k = i
      BY <2>5, <3>2 DEF Lifecycle!Before
    <3>3. CASE k # i
      <4>1. k \notin Started(e)
        BY <2>3, <3>1, <3>3
      <4>2. QED
        BY <2>1, <2>2, <3>1, <4>1 DEF Lifecycle!Before
    <3>4. QED
      BY <3>2, <3>3
  <2>6. QED
    BY <2>2, <2>3, <2>4, <2>5 DEF StartsOne
<1>4. QED
  BY <1>2, <1>3 DEF Stores

LEMMA StillRowsWait ==
  ASSUME Sound(db), NEW e, Stores(e), \A k \in Jobs : e.status[k] = db.status[k]
  PROVE  Lifecycle!Waits
BY StoredRows DEF Lifecycle!Waits

LEMMA UntouchedWait ==
  ASSUME Sound(db), UNCHANGED db
  PROVE  Lifecycle!Waits /\ StartsOne
<1>1. Stores(db)
  BY PreparesReflexive DEF Stores
<1>2. QED
  BY <1>1, StillRowsWait, StoredRows

(* The one row that a handler writes moves, unless it starts again at once. *)
LEMMA OneRowMoves ==
  ASSUME Sound(db), NEW e, Stores(e), NEW j \in Jobs, NEW to, db.status[j] # to, e.status[j] = to,
         \A k \in Jobs \ {j} : e.status[k] = db.status[k]
  PROVE  Lifecycle!Waits \/ Lifecycle!Moves(j, {db.status[j]}, to)
BY StoredRows DEF Lifecycle!Waits, Lifecycle!Moves

LEMMA WidenMove ==
  ASSUME NEW j, NEW s, NEW from, NEW to, s \in from, Lifecycle!Moves(j, {s}, to)
  PROVE  Lifecycle!Moves(j, from, to)
BY DEF Lifecycle!Moves

-----------------------------------------------------------------------------
(* What each step does to the rows                                          *)

LifeInv == TrueFarm /\ CalmInv /\ Causes

LEMMA LifeTypes ==
  ASSUME LifeInv
  PROVE  /\ Sound(db) /\ db \in DB /\ CallsTyped /\ RecordsTyped /\ spent \in [Events -> Nat]
         /\ \A j \in Jobs : db.status[j] \in FarmStatus /\ j \in Rows(db)
         /\ uploads \in Seq(Calls)
BY DEF LifeInv, TrueFarm, FarmInv, Sound, CallsInv, CallsTyped, RecordsTyped, Causes, FarmStatus,
       Rows, RowStatus

LEMMA SpendHappens ==
  ASSUME LifeInv, NEW e \in Events, Spend(e)
  PROVE  Lifecycle!Happens(e)
<1>1. spent \in [Events -> Nat] /\ spent[e] \in Nat
  BY LifeTypes
<1>2. spent'[e] = spent[e] + 1
  BY <1>1 DEF Spend
<1>3. QED
  BY <1>1, <1>2 DEF Lifecycle!Happens

LEMMA SpentForGood ==
  ASSUME LifeInv, [Next]_vars, NEW e \in Events, spent[e] > 0
  PROVE  spent'[e] > 0
<1>1. spent[e] \in Nat /\ spent'[e] \in Nat /\ spent'[e] >= spent[e]
  BY LifeTypes, SpentStays
<1>2. QED
  BY <1>1

(* While the farm is calm, what is about to be uploaded is 'printing'.      *)
LEMMA CalmStartsPrint ==
  ASSUME LifeInv, Calm, uploads # <<>>, Head(uploads).kind = "start"
  PROVE  db.status[Head(uploads).job] = "printing"
<1>. DEFINE j == Head(uploads).job
<1>1. FarmInStep
  BY DEF LifeInv, TrueFarm, CalmInv, FarmInStep
<1>2. j \in Jobs /\ Posting(Head(uploads), j) = 1
  BY <1>1, HeadsAreCalm
<1>3. Tail(uploads) \in Seq(Calls) /\ uploads \in Seq(Calls)
  BY LifeTypes, HeadTailProperties
<1>4. Posts(j) = PostsIn(Tail(uploads), j) + 1 /\ PostsIn(Tail(uploads), j) \in Nat
  BY <1>2, <1>3, PostsInTail, PostsInNat DEF Posts
<1>5. Files(j) \in Nat /\ Runs(j) \in Nat /\ Posts(j) \in Nat
  BY <1>1, <1>2, FarmInStepTypes
<1>6. Errands(j) > 0
  BY <1>4, <1>5 DEF Errands
<1>7. QED
  BY <1>1, <1>2, <1>6, FarmInStepTypes

LEMMA DisturbedIsParted ==
  ASSUME LifeInv, [Next]_vars, ~Calm
  PROVE  Lifecycle!Parted
<1>1. {"timeout", "abort", "crash", "rerun"} \subseteq Events
  BY DEF Events
<1>2. PICK e \in {"timeout", "abort", "crash", "rerun"} : spent[e] # 0
  BY DEF Calm
<1>3. spent[e] > 0
  BY <1>1, <1>2, LifeTypes
<1>4. spent'[e] > 0
  BY <1>1, <1>3, SpentForGood
<1>5. QED
  BY <1>2, <1>4 DEF Lifecycle!Parted, Lifecycle!Happened

LEMMA TimeoutParts ==
  ASSUME LifeInv, [Next]_vars, Spend("timeout")
  PROVE  Lifecycle!Parted
<1>1. "timeout" \in Events
  BY DEF Events
<1>2. spent'["timeout"] > 0
  BY <1>1, LifeTypes, SpentCounts
<1>3. QED
  BY <1>2 DEF Lifecycle!Parted, Lifecycle!Happened

LEMMA FailedStartsFollow ==
  ASSUME LifeInv, [Next]_vars, StartUploadFails \/ StartTimesOut
  PROVE  Follows /\ StartsOne
<1>1. Sound(db) /\ db \in DB /\ CallsTyped
  BY LifeTypes
<1>2. "ftps" \in Events /\ "timeout" \in Events
  BY DEF Events
<1>3. PICK k \in StartCalls :
        /\ db' = RevertStart(db, k.job)
        /\ Lifecycle!Happens("ftps") \/ Lifecycle!Happens("timeout")
        /\ db.status[k.job] = "printing" \/ Lifecycle!Parted
  <2>1. CASE StartUploadFails
    <3>1. Head(uploads) \in StartCalls /\ uploads # <<>> /\ Head(uploads).kind = "start"
      BY <1>1, <2>1, HeadOfUploads DEF StartUploadFails
    <3>2. db' = RevertStart(db, Head(uploads).job) /\ Lifecycle!Happens("ftps")
      BY <1>2, <2>1, SpendHappens DEF StartUploadFails, StartFails
    <3>3. db.status[Head(uploads).job] = "printing" \/ Lifecycle!Parted
      BY <3>1, CalmStartsPrint, DisturbedIsParted
    <3>4. QED
      BY <3>1, <3>2, <3>3
  <2>2. CASE StartTimesOut
    <3>1. Head(awaiting) \in StartCalls
      BY <1>1, <2>2, HeadTailProperties DEF StartTimesOut, CallsTyped
    <3>2. db' = RevertStart(db, Head(awaiting).job) /\ Lifecycle!Happens("timeout")
      BY <1>2, <2>2, SpendHappens DEF StartTimesOut, StartFails
    <3>3. Lifecycle!Parted
      BY <2>2, TimeoutParts DEF StartTimesOut
    <3>4. QED
      BY <3>1, <3>2, <3>3
  <2>3. QED
    BY <2>1, <2>2
<1>. DEFINE j == k.job
            e == RevertStart(db, j)
<1>4. j \in Jobs /\ j \in Rows(db) /\ db.status[j] \in FarmStatus
  BY LifeTypes DEF StartCalls, JobCalls
<1>5. Stores(e)
  BY <1>1, <1>3, <1>4, UpdateStatusPrepares DEF RevertStart, Stores, Status, RowStatus
<1>6. \A i \in Jobs : e.status[i] = IF i = j THEN "queued" ELSE db.status[i]
  BY <1>1, <1>4, UpdatedStatus DEF RevertStart
<1>. HIDE DEF e, j
<1>7. CASE db.status[j] = "queued"
  BY <1>1, <1>5, <1>6, <1>7, StillRowsWait, StoredRows DEF Follows
<1>8. CASE db.status[j] # "queued"
  <2>1. Lifecycle!Waits \/ Lifecycle!Moves(j, {db.status[j]}, "queued")
    BY <1>1, <1>4, <1>5, <1>6, <1>8, OneRowMoves
  <2>2. ASSUME Lifecycle!Moves(j, {db.status[j]}, "queued") PROVE Lifecycle!Reverts(j)
    <3>1. CASE db.status[j] = "printing"
      BY <1>3, <2>2, <3>1 DEF Lifecycle!Reverts
    <3>2. CASE db.status[j] # "printing"
      <4>1. Lifecycle!Parted /\ db.status[j] \in {"success", "failed", "aborted"}
        BY <1>3, <1>4, <1>8, <3>2 DEF FarmStatus, j
      <4>2. Lifecycle!Moves(j, {"success", "failed", "aborted"}, "queued")
        BY <2>2, <4>1, WidenMove
      <4>3. QED
        BY <1>3, <4>1, <4>2 DEF Lifecycle!Reverts
    <3>3. QED
      BY <3>1, <3>2
  <2>3. StartsOne
    BY <1>1, <1>5, StoredRows
  <2>4. QED
    BY <1>4, <2>1, <2>2, <2>3 DEF Follows
<1>9. QED
  BY <1>7, <1>8

LEMMA HeadIsThere ==
  ASSUME NEW T, NEW seq \in Seq(T), seq # <<>>
  PROVE  Has(seq, Head(seq))
BY HasTail

LEMMA EjectsFollow ==
  ASSUME LifeInv, [Next]_vars, EjectUploaded
  PROVE  Follows /\ StartsOne
<1>. DEFINE k == Head(uploads)
            j == k.job
<1>1. Sound(db) /\ db \in DB /\ CallsTyped /\ uploads \in Seq(Calls) /\ uploads # <<>>
  BY LifeTypes DEF EjectUploaded
<1>2. k.kind = "eject" /\ UNCHANGED spent
  BY DEF EjectUploaded
<1>3. k.owner # "wizard" => k \in JobCalls /\ j \in Jobs
  BY <1>1, <1>2, HeadOfUploads DEF JobCalls
<1>4. CASE k.owner = "monitor" /\ db' = FailEnd(db, j)
  <2>1. Stores(FailEnd(db, j))
    BY <1>1, <1>3, <1>4, FailEndPrepares DEF Stores
  <2>2. FailEnd(db, j).status = db.status
    BY <1>1, <1>3, <1>4, FailEndStatus
  <2>3. QED
    BY <1>1, <2>1, <2>2, StillRowsWait, StoredRows DEF Follows
<1>5. ASSUME k.owner = "request", NEW e, Stores(e), e.status = MarkAborted(db, j).status
      PROVE  Follows /\ StartsOne
  <2>1. k = AbortOf(j) /\ j \in Jobs
    BY <1>2, <1>3, <1>5 DEF AbortOf, Call, JobCalls
  <2>2. Has(uploads, AbortOf(j))
    BY <1>1, <2>1, HeadIsThere
  <2>3. boot = "up" /\ spent["abort"] > 0 /\ (db.status[j] = "queued" => GivenBack)
    BY <2>1, <2>2 DEF LifeInv, Causes
  <2>4. Lifecycle!Happened({"abort"}) /\ (GivenBack => Lifecycle!Happened({"ftps", "timeout", "retry", "rerun"}))
    BY <1>2, <2>3 DEF Lifecycle!Happened, GivenBack
  <2>5. db.status[j] \in FarmStatus /\ j \in Rows(db)
    BY <2>1, LifeTypes
  <2>6. \A i \in Jobs : e.status[i] = IF i = j THEN "aborted" ELSE db.status[i]
    BY <1>1, <1>5, <2>1, <2>5, UpdatedStatus DEF MarkAborted
  <2>7. StartsOne
    BY <1>1, <1>5, StoredRows
  <2>. HIDE DEF j, k
  <2>8. CASE db.status[j] = "aborted"
    BY <1>1, <1>5, <2>6, <2>7, <2>8, StillRowsWait DEF Follows
  <2>9. CASE db.status[j] # "aborted"
    <3>1. Lifecycle!Waits \/ Lifecycle!Moves(j, {db.status[j]}, "aborted")
      BY <1>1, <1>5, <2>1, <2>6, <2>9, OneRowMoves
    <3>2. ASSUME Lifecycle!Moves(j, {db.status[j]}, "aborted")
          PROVE  Lifecycle!Aborts(j) \/ Lifecycle!AbortsLate(j)
      <4>1. CASE db.status[j] = "printing"
        BY <2>4, <3>2, <4>1 DEF Lifecycle!Aborts
      <4>2. CASE db.status[j] = "queued"
        BY <2>3, <2>4, <3>2, <4>2 DEF Lifecycle!AbortsLate
      <4>3. CASE db.status[j] \in {"failed", "success"}
        <5>1. Lifecycle!Moves(j, {"failed", "success"}, "aborted")
          BY <3>2, <4>3, WidenMove
        <5>2. QED
          BY <2>4, <5>1 DEF Lifecycle!AbortsLate
      <4>4. QED
        BY <2>5, <2>9, <4>1, <4>2, <4>3 DEF FarmStatus
    <3>3. QED
      BY <2>1, <2>3, <2>7, <3>1, <3>2 DEF Follows
  <2>10. QED
    BY <2>8, <2>9
<1>6. CASE k.owner = "request" /\ db' = MarkAborted(db, j)
  <2>1. Stores(MarkAborted(db, j))
    BY <1>1, <1>3, <1>6, AbortedPrepares DEF Stores
  <2>2. QED
    BY <1>5, <1>6, <2>1
<1>7. CASE k.owner = "request" /\ ~AbortThrows(db) /\ db' = DispatchNext(Aborted(db, j))
  <2>1. Stores(Aborted(db, j))
    BY <1>1, <1>3, <1>7, AbortedPrepares DEF Stores
  <2>2. Aborted(db, j).status = MarkAborted(db, j).status
    BY <1>1, <1>3, <1>7, EndedStatus
  <2>3. QED
    BY <1>5, <1>7, <2>1, <2>2
<1>8. CASE UNCHANGED db
  BY <1>1, <1>8, UntouchedWait DEF Follows
<1>9. QED
  BY <1>4, <1>6, <1>7, <1>8 DEF EjectUploaded, Advance

LEMMA HandlingFollows ==
  ASSUME LifeInv, [Next]_vars, Handle
  PROVE  Follows /\ StartsOne
<1>. DEFINE s == Head(chain)
            ended == IF Repeated(s) THEN {} ELSE CurrentJob(s)
<1>1. Sound(db) /\ db \in DB
  BY LifeTypes
<1>2. \A j \in ended : j \in Jobs /\ j \in Rows(db) /\ db.status[j] = "printing"
  BY LifeTypes, CurrentJobIsPrinting
<1>3. ASSUME NEW j \in ended, NEW to \in {"success", "failed"}, NEW e, Stores(e),
             e.status = UpdateStatus(db, j, to).status
      PROVE  Follows /\ StartsOne
  <2>1. \A i \in Jobs : e.status[i] = IF i = j THEN to ELSE db.status[i]
    BY <1>1, <1>2, <1>3, UpdatedStatus
  <2>2. Lifecycle!Waits \/ Lifecycle!Moves(j, {"printing"}, to)
    BY <1>1, <1>2, <1>3, <2>1, OneRowMoves
  <2>3. StartsOne
    BY <1>1, <1>3, StoredRows
  <2>4. QED
    BY <1>2, <1>3, <2>2, <2>3 DEF Follows, Lifecycle!Ends
<1>4. ASSUME NEW j \in ended, db' = MarkSuccess(db, j)
      PROVE  Follows /\ StartsOne
  <2>1. Stores(MarkSuccess(db, j))
    BY <1>1, <1>2, <1>4, UpdateStatusPrepares DEF Stores, MarkSuccess, Status, RowStatus
  <2>2. QED
    BY <1>3, <2>1 DEF MarkSuccess
<1>5. ASSUME NEW j \in ended, ~FinishThrows(db), db' = DispatchNext(Finished(db, j))
      PROVE  Follows /\ StartsOne
  <2>1. Stores(Finished(db, j))
    BY <1>1, <1>2, <1>5, FinishedPrepares DEF Stores
  <2>2. Finished(db, j).status = UpdateStatus(db, j, "success").status
    BY <1>1, <1>2, FinishedStatus DEF MarkSuccess
  <2>3. QED
    BY <1>3, <2>1, <2>2
<1>6. ASSUME NEW j \in ended, db' = FailBegin(db, j)
      PROVE  Follows /\ StartsOne
  <2>1. Stores(FailBegin(db, j))
    BY <1>1, <1>2, <1>6, FailBeginPrepares DEF Stores
  <2>2. FailBegin(db, j).status = UpdateStatus(db, j, "failed").status
    BY <1>1, <1>2, EndedStatus
  <2>3. QED
    BY <1>3, <2>1, <2>2
<1>7. CASE UNCHANGED db
  BY <1>1, <1>7, UntouchedWait DEF Follows
<1>8. QED
  BY <1>4, <1>5, <1>6, <1>7 DEF Handle, Advance

LEMMA RetriesFollow ==
  ASSUME LifeInv, [Next]_vars, NEW j \in Jobs, Retry(j)
  PROVE  Follows /\ StartsOne
<1>. DEFINE e == Requeued(db, j)
<1>1. Sound(db) /\ db \in DB /\ db.status[j] \in FarmStatus /\ j \in Rows(db)
  BY LifeTypes
<1>2. Stores(e)
  BY <1>1, RequeuedPrepares DEF Retry, Advance, Stores
<1>3. e.status = UpdateStatus(db, j, "queued").status
  BY <1>1, EndedStatus
<1>. HIDE DEF e
<1>4. \A i \in Jobs : e.status[i] = IF i = j THEN "queued" ELSE db.status[i]
  BY <1>1, <1>3, UpdatedStatus
<1>5. StartsOne
  BY <1>1, <1>2, StoredRows
<1>6. Spend(RetryKind(j)) /\ {"retry", "rerun"} \subseteq Events
  BY DEF Retry, Events
<1>7. CASE db.status[j] = "queued"
  BY <1>1, <1>2, <1>4, <1>5, <1>7, StillRowsWait DEF Follows
<1>8. CASE db.status[j] \in {"printing", "success"}
  <2>1. Lifecycle!Happens("rerun")
    BY <1>6, <1>8, SpendHappens DEF RetryKind
  <2>2. Lifecycle!Waits \/ Lifecycle!Moves(j, {db.status[j]}, "queued")
    BY <1>1, <1>2, <1>4, <1>8, OneRowMoves
  <2>3. Lifecycle!Waits \/ Lifecycle!Reruns(j)
    BY <1>8, <2>1, <2>2, WidenMove DEF Lifecycle!Reruns
  <2>4. QED
    BY <1>5, <2>3 DEF Follows
<1>9. CASE db.status[j] \in {"failed", "aborted"}
  <2>1. Lifecycle!Happens("retry")
    BY <1>6, <1>9, SpendHappens DEF RetryKind
  <2>2. Lifecycle!Waits \/ Lifecycle!Moves(j, {db.status[j]}, "queued")
    BY <1>1, <1>2, <1>4, <1>9, OneRowMoves
  <2>3. Lifecycle!Waits \/ Lifecycle!Retries(j)
    BY <1>9, <2>1, <2>2, WidenMove DEF Lifecycle!Retries
  <2>4. QED
    BY <1>5, <2>3 DEF Follows
<1>10. QED
  BY <1>1, <1>7, <1>8, <1>9 DEF FarmStatus

LEMMA BootsFollow ==
  ASSUME LifeInv, [Next]_vars, Crash \/ Reconcile \/ Refill
  PROVE  Follows /\ StartsOne
<1>1. Sound(db) /\ db \in DB
  BY LifeTypes
<1>2. ASSUME NEW e, Stores(e), e.status = db.status
      PROVE  Follows /\ StartsOne
  BY <1>1, <1>2, StillRowsWait, StoredRows DEF Follows
<1>3. CASE UNCHANGED db
  BY <1>1, <1>3, UntouchedWait DEF Follows
<1>4. CASE db' = DispatchNext(db)
  BY <1>1, <1>2, <1>4, PreparesReflexive DEF Stores
<1>5. CASE Refill
  <2>1. Stores(ResolveStockerRefills(RefillStocker(db)))
    BY <1>1, <1>5, RefillPrepares DEF Stores, Refill, Advance
  <2>2. QED
    BY <1>1, <1>2, <2>1, QueueUntouched
<1>6. CASE Reconcile /\ db' = DispatchNext(Requeue(db, PrintingAtBoot))
  <2>. DEFINE e == Requeue(db, PrintingAtBoot)
  <2>1. Stores(e)
    BY <1>1, <1>6, RequeuePrepares DEF Stores
  <2>2. \A k \in Jobs : e.status[k] = IF k \in PrintingAtBoot THEN "queued" ELSE db.status[k]
    BY <1>1 DEF Requeue, DB
  <2>. HIDE DEF e
  <2>3. StartsOne /\ \A k \in Jobs : Lifecycle!Before(k) \in {e.status[k], db.status[k]}
    BY <1>1, <2>1, StoredRows
  <2>4. boot # "up" /\ UNCHANGED spent
    BY <1>6 DEF Reconcile
  <2>5. Lifecycle!Happened({"crash"})
    BY <2>4 DEF LifeInv, Causes, Lifecycle!Happened
  <2>6. \A k \in PrintingAtBoot : k \in Jobs /\ db.status[k] \in FarmStatus \ {"aborted"}
    BY <2>4, LifeTypes DEF LifeInv, Causes, PrintingAtBoot, Rows
  <2>7. \A k \in Jobs : \/ Lifecycle!Before(k) = db.status[k]
                        \/ /\ db.status[k] \in {"printing", "success", "failed"}
                           /\ Lifecycle!Before(k) = "queued"
    BY <2>2, <2>3, <2>6 DEF FarmStatus
  <2>8. QED
    BY <2>3, <2>4, <2>5, <2>7 DEF Follows, Lifecycle!Reconciles
<1>7. QED
  BY <1>3, <1>4, <1>5, <1>6 DEF Crash, Reconcile, Advance

(* The rest of the steps write no row.                                      *)
LEMMA OtherStepsAreStill ==
  ASSUME [Next]_vars
  PROVE  \/ StartUploadFails \/ StartTimesOut \/ EjectUploaded \/ Handle
         \/ Refill \/ Crash \/ Reconcile
         \/ \E j \in Jobs : Retry(j)
         \/ UNCHANGED db
<1>1. StartResumes \/ StartUploaded \/ RehearsalUploaded \/ BootTimesOut \/ Deliver
        \/ EjectUploadFails \/ RehearsalUploadFails \/ Drop \/ Reconnect \/ UNCHANGED vars
        => UNCHANGED db
  BY DEF StartResumes, StartUploaded, RehearsalUploaded, BootTimesOut, Deliver,
         EjectUploadFails, RehearsalUploadFails, Drop, Reconnect, vars, process
<1>2. Hardware => UNCHANGED db
  BY DEF Hardware, Receive, Refuse, Finish, Fail, Repeat, process
<1>3. Rehearse \/ WizardEjects \/ (\E j \in Jobs : Abort(j)) => UNCHANGED db
  BY DEF Rehearse, WizardEjects, Abort
<1>4. QED
  BY <1>1, <1>2, <1>3 DEF Next, Microtask, Transfers, Faults, Requests

LEMMA StepsFollow ==
  ASSUME LifeInv, [Next]_vars
  PROVE  Follows /\ StartsOne
<1>1. Sound(db)
  BY LifeTypes
<1>2. CASE UNCHANGED db
  BY <1>1, <1>2, UntouchedWait DEF Follows
<1>3. \/ StartUploadFails \/ StartTimesOut \/ EjectUploaded \/ Handle
      \/ Refill \/ Crash \/ Reconcile
      \/ \E j \in Jobs : Retry(j)
      \/ UNCHANGED db
  BY OtherStepsAreStill
<1>4. QED
  BY <1>2, <1>3, FailedStartsFollow, EjectsFollow, HandlingFollows, RetriesFollow, BootsFollow

-----------------------------------------------------------------------------
(* The causes are kept                                                      *)

(* The statuses a step can lead to, and what it takes to come back.         *)
LEMMA FollowingRows ==
  ASSUME LifeInv, [Next]_vars, Follows, NEW j \in Jobs
  PROVE  /\ db'.status[j] \in FarmStatus
         /\ db'.status[j] = "aborted" => db.status[j] = "aborted" \/ boot = "up"
         /\ db'.status[j] = "queued" /\ boot = "up" => db.status[j] = "queued" \/ GivenBack'
<1>1. db.status[j] \in FarmStatus
  BY LifeTypes
<1>2. db'.status[j] = "printing" \/ db'.status[j] = Lifecycle!Before(j)
  BY DEF Lifecycle!Before, Lifecycle!Begun
<1>3. \A e \in {"ftps", "timeout", "retry", "rerun"} : Lifecycle!Happens(e) => GivenBack'
  <2>1. \A e \in {"ftps", "timeout", "retry", "rerun"} : e \in Events
    BY DEF Events
  <2>2. \A e \in Events : spent[e] \in Nat /\ spent'[e] \in Nat
    BY LifeTypes, SpentStays
  <2>3. \A e \in {"ftps", "timeout", "retry", "rerun"} : spent'[e] > spent[e] => spent'[e] > 0
    BY <2>1, <2>2
  <2>4. QED
    BY <2>3 DEF Lifecycle!Happens, GivenBack
<1>. DEFINE b == Lifecycle!Before(j)
<1>4. /\ b \in FarmStatus
      /\ b = "aborted" => db.status[j] = "aborted" \/ boot = "up"
      /\ b = "queued" /\ boot = "up" => db.status[j] = "queued" \/ GivenBack'
  <2>1. CASE Lifecycle!Waits
    BY <1>1, <2>1 DEF Lifecycle!Waits
  <2>2. ASSUME NEW k \in Jobs, Lifecycle!Ends(k) PROVE b = db.status[j] \/ b \in {"success", "failed"}
    BY <2>2 DEF Lifecycle!Ends, Lifecycle!Moves
  <2>3. ASSUME NEW k \in Jobs, Lifecycle!Retries(k) \/ Lifecycle!Reruns(k) \/ Lifecycle!Reverts(k)
        PROVE  b = db.status[j] \/ (b = "queued" /\ GivenBack')
    BY <1>3, <2>3 DEF Lifecycle!Retries, Lifecycle!Reruns, Lifecycle!Reverts, Lifecycle!Moves
  <2>4. ASSUME NEW k \in Jobs, Lifecycle!Aborts(k) \/ Lifecycle!AbortsLate(k)
        PROVE  b = db.status[j] \/ b = "aborted"
    BY <2>4 DEF Lifecycle!Aborts, Lifecycle!AbortsLate, Lifecycle!Moves
  <2>5. CASE boot # "up" /\ Lifecycle!Reconciles
    BY <1>1, <2>5 DEF Lifecycle!Reconciles, FarmStatus
  <2>6. QED
    BY <1>1, <2>1, <2>2, <2>3, <2>4, <2>5 DEF Follows, FarmStatus
<1>5. QED
  BY <1>2, <1>4 DEF FarmStatus

LEMMA AdvanceAborts ==
  ASSUME NEW d, NEW calls \in Seq(Calls), NEW owner, Advance(d, calls, owner), NEW j \in Jobs,
         Has(uploads', AbortOf(j))
  PROVE  Has(calls, AbortOf(j))
<1>1. CASE uploads' = calls
  BY <1>1
<1>2. ASSUME NEW k \in Started(d), uploads' = Append(calls, Call("start", k, owner))
      PROVE  Has(calls, AbortOf(j))
  <2>1. AbortOf(j) # Call("start", k, owner)
    BY DEF AbortOf, Call
  <2>2. AbortOf(j) \in {Call("start", k, owner)} \union Calls /\ calls \in Seq({Call("start", k, owner)} \union Calls)
    <3>1. AbortOf(j) \in Calls
      BY DEF AbortOf, Calls, Call
    <3>2. QED
      BY <3>1
  <2>3. QED
    BY <1>2, <2>1, <2>2, HasAppend
<1>3. QED
  BY <1>1, <1>2 DEF Advance

(* A request that ejects comes from Abort, and the process takes it along.  *)
LEMMA AbortsAsked ==
  ASSUME LifeInv, [Next]_vars, NEW j \in Jobs, Has(uploads', AbortOf(j))
  PROVE  Abort(j) \/ (Has(uploads, AbortOf(j)) /\ ~Crash)
<1>1. uploads \in Seq(Calls)
  BY LifeTypes
<1>2. uploads # <<>> => Tail(uploads) \in Seq(Calls) /\ \A x : Has(Tail(uploads), x) => Has(uploads, x)
  BY <1>1, HeadTailProperties, HasTail
<1>3. \A c \in Calls : uploads' = Append(uploads, c) /\ c # AbortOf(j) => Has(uploads, AbortOf(j))
  BY <1>1, HasAppend
<1>4. \A d, owner : /\ Advance(d, uploads, owner) => Has(uploads, AbortOf(j))
                    /\ uploads # <<>> /\ Advance(d, Tail(uploads), owner) => Has(uploads, AbortOf(j))
  BY <1>1, <1>2, AdvanceAborts
<1>5. ~Crash
  <2>1. <<>> \in Seq(Calls) /\ ~Has(<<>>, AbortOf(j))
    BY EmptySeq DEF Has
  <2>2. ~Advance(db, <<>>, "request")
    BY <2>1, AdvanceAborts
  <2>3. QED
    BY <2>1, <2>2 DEF Crash
<1>6. ASSUME NEW k \in Jobs, Abort(k) PROVE Abort(j) \/ Has(uploads, AbortOf(j))
  <2>1. AbortOf(k) \in Calls /\ (k # j => AbortOf(k) # AbortOf(j))
    BY DEF AbortOf, Calls, Call
  <2>2. uploads' = Append(uploads, AbortOf(k))
    BY <1>6 DEF Abort, AbortOf
  <2>3. QED
    BY <1>3, <1>6, <2>1, <2>2
<1>7. CASE Handle
  <2>1. \A k \in Jobs : Call("eject", k, "monitor") \in Calls /\ Call("eject", k, "monitor") # AbortOf(j)
    BY DEF AbortOf, Calls, Call
  <2>2. \A s, k : k \in CurrentJob(s) => k \in Jobs
    BY CurrentJobIsPrinting
  <2>3. QED
    BY <1>3, <1>4, <1>5, <1>7, <2>1, <2>2 DEF Handle
<1>8. CASE Rehearse \/ WizardEjects
  <2>1. /\ Rehearsal \in Calls /\ Rehearsal # AbortOf(j)
        /\ WizardEject \in Calls /\ WizardEject # AbortOf(j)
    BY DEF AbortOf, Calls, Call, Rehearsal, WizardEject
  <2>2. QED
    BY <1>3, <1>5, <1>8, <2>1 DEF Rehearse, WizardEjects
<1>9. CASE uploads # <<>> /\ uploads' = Tail(uploads)
  BY <1>2, <1>5, <1>9
<1>10. CASE UNCHANGED uploads
  BY <1>5, <1>10
<1>11. CASE EjectUploaded \/ Refill \/ Reconcile \/ \E k \in Jobs : Retry(k)
  BY <1>4, <1>5, <1>9, <1>11 DEF EjectUploaded, Refill, Reconcile, Retry
<1>12. \/ Handle \/ Rehearse \/ WizardEjects \/ Crash
       \/ EjectUploaded \/ Refill \/ Reconcile
       \/ \E k \in Jobs : Retry(k) \/ Abort(k)
       \/ uploads # <<>> /\ uploads' = Tail(uploads)
       \/ UNCHANGED uploads
  BY DEF Next, Microtask, Transfers, Faults, Requests, Hardware, StartResumes, StartUploaded,
         RehearsalUploaded, StartTimesOut, BootTimesOut, Deliver, StartUploadFails,
         EjectUploadFails, RehearsalUploadFails, Drop, Reconnect, Receive, Refuse, Finish, Fail,
         Repeat, vars, process
<1>13. QED
  BY <1>5, <1>6, <1>7, <1>8, <1>9, <1>10, <1>11, <1>12

LEMMA BootMoves ==
  ASSUME [Next]_vars
  PROVE  \/ Crash
         \/ boot = "up" /\ boot' = "up"
         \/ boot # "up" /\ (boot' = "up" \/ UNCHANGED snapshot)
BY DEF Next, Microtask, Handle, StartResumes, Reconcile, Transfers, StartUploaded, EjectUploaded,
       RehearsalUploaded, StartTimesOut, BootTimesOut, Deliver, Faults, StartUploadFails,
       EjectUploadFails, RehearsalUploadFails, Drop, Requests, Abort, Retry, Refill,
       Rehearse, WizardEjects, Reconnect, Hardware, Receive, Refuse, Finish, Fail, Repeat, vars,
       bootVars

LEMMA CausesInitially == Init => Causes
<1>. SUFFICES ASSUME Init PROVE Causes
  OBVIOUS
<1>1. InitDB \in DB /\ \A j \in Jobs : InitDB.status[j] = "queued"
  BY InitialQueue DEF Sound, InitDB, Queued, FreshDB
<1>2. \A j \in Jobs : db.status[j] \in FarmStatus
  BY <1>1, DispatchStatus DEF Init, FarmStatus
<1>3. \A j \in Jobs : ~Has(uploads, AbortOf(j))
  BY DEF Init, Has, AbortOf, Call
<1>4. QED
  BY <1>2, <1>3 DEF Init, Causes

LEMMA CausesInductive == LifeInv /\ [Next]_vars => Causes'
<1>. SUFFICES ASSUME LifeInv, [Next]_vars PROVE Causes'
  OBVIOUS
<1>1. Follows
  BY StepsFollow
<1>2. \A j \in Jobs : db'.status[j] \in FarmStatus
  BY <1>1, FollowingRows
<1>3. {"abort", "crash"} \subseteq Events /\ {"ftps", "timeout", "retry", "rerun"} \subseteq Events
  BY DEF Events
<1>4. ASSUME NEW j \in Jobs, Has(uploads', AbortOf(j))
      PROVE  boot' = "up" /\ spent'["abort"] > 0 /\ (db'.status[j] = "queued" => GivenBack')
  <2>1. CASE Abort(j)
    <3>1. spent'["abort"] > 0
      BY <1>3, <2>1, LifeTypes, SpentCounts DEF Abort
    <3>2. QED
      BY <2>1, <3>1 DEF Abort, Abortable, bootVars
  <2>2. CASE Has(uploads, AbortOf(j)) /\ ~Crash
    <3>1. boot = "up" /\ spent["abort"] > 0 /\ (db.status[j] = "queued" => GivenBack)
      BY <2>2 DEF LifeInv, Causes
    <3>2. boot' = "up"
      BY <2>2, <3>1, BootMoves
    <3>3. spent'["abort"] > 0 /\ (GivenBack => GivenBack')
      BY <1>3, <3>1, SpentForGood DEF GivenBack
    <3>4. QED
      BY <1>1, <3>1, <3>2, <3>3, FollowingRows
  <2>3. QED
    BY <1>4, <2>1, <2>2, AbortsAsked
<1>5. ASSUME boot' # "up"
      PROVE  spent'["crash"] > 0 /\ \A j \in snapshot' \intersect Jobs : db'.status[j] # "aborted"
  <2>1. CASE Crash
    <3>1. spent'["crash"] > 0
      BY <1>3, <2>1, LifeTypes, SpentCounts DEF Crash
    <3>2. UNCHANGED db /\ snapshot' = ByStatus(db, "printing")
      BY <1>5, <2>1 DEF Crash
    <3>3. QED
      BY <3>1, <3>2 DEF ByStatus
  <2>2. CASE boot # "up" /\ UNCHANGED snapshot
    <3>1. spent["crash"] > 0 /\ \A j \in snapshot \intersect Jobs : db.status[j] # "aborted"
      BY <2>2 DEF LifeInv, Causes
    <3>2. spent'["crash"] > 0
      BY <1>3, <3>1, SpentForGood
    <3>3. \A j \in snapshot \intersect Jobs : db'.status[j] # "aborted"
      BY <1>1, <2>2, <3>1, FollowingRows
    <3>4. QED
      BY <2>2, <3>2, <3>3
  <2>3. QED
    BY <1>5, <2>1, <2>2, BootMoves
<1>6. QED
  BY <1>2, <1>4, <1>5 DEF Causes

LEMMA LifeAlways == Spec => []LifeInv
<1>1. TrueFarm /\ CalmInv /\ Causes /\ [Next]_vars => Causes'
  BY CausesInductive DEF LifeInv
<1>2. QED
  BY <1>1, CausesInitially, TrueFarmAlways, CalmAlways, PTL DEF Spec, LifeInv

(* INV-QUEUE-01, INV-QUEUE-02, INV-DISPATCH-03 (dispatcher.ts:71-215,       *)
(* main.ts:247-261): the rows of the farm follow JobLifecycle.  Whatever    *)
(* fails, times out, is aborted or retried in whatever order, and however   *)
(* often the process restarts, a row leaves the documented arrows only for  *)
(* a cause that has come about, and only one row is started at a time.      *)
THEOREM FarmFollowsLifecycle == Spec => RefinesLifecycle
<1>1. Init => Lifecycle!Init
  <2>. SUFFICES ASSUME Init PROVE Lifecycle!Init
    OBVIOUS
  <2>1. InitDB \in DB /\ \A j \in Jobs : InitDB.status[j] = "queued"
    BY InitialQueue DEF Sound, InitDB, Queued, FreshDB
  <2>2. db \in DB /\ OnePrinting(db)
    BY FarmInvInitially DEF FarmInv, Sound
  <2>3. \A j \in Jobs : db.status[j] \in {"queued", "printing"}
    BY <2>1, DispatchStatus DEF Init
  <2>4. db.status \in [Jobs -> {"queued", "printing"}]
    BY <2>2, <2>3 DEF DB
  <2>5. QED
    BY <2>2, <2>4 DEF Lifecycle!Init, OnePrinting, ByStatus
<1>2. LifeInv /\ [Next]_vars => [Lifecycle!Next]_<<db.status, spent>>
  <2>. SUFFICES ASSUME LifeInv, [Next]_vars PROVE Lifecycle!Next
    OBVIOUS
  <2>1. Follows /\ StartsOne
    BY StepsFollow
  <2>2. QED
    BY <2>1 DEF Follows, StartsOne, Lifecycle!Next
<1>3. QED
  BY <1>1, <1>2, LifeAlways, PTL DEF Spec, RefinesLifecycle, Lifecycle!Spec

=============================================================================
