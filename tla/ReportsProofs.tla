---------------------------- MODULE ReportsProofs ---------------------------
(***************************************************************************)
(* Theorems about Reports, for every set of commands, faults and slots,    *)
(* every command queue and every number of reports on the way.             *)
(*                                                                         *)
(* The client's status and the reports under way to it are one line, whose *)
(* place 0 is the status.  The newest report on the line shows the printer *)
(* as it is, and each report follows from the one before it; taking one    *)
(* from the wire moves the line up by a place.  What the printer says on   *)
(* its way from one state of rest to the next is such a line of its own.   *)
(***************************************************************************)
EXTENDS Reports, SequenceTheorems, TLAPS

-----------------------------------------------------------------------------
(* What travels                                                             *)

JobNames == {NoJob} \cup {c.file : c \in Commands} \cup {c.param : c \in Commands}

Codes == {NoError, "SWAP_FAULT", "PRINTER_FAULT"}

(* The printer at a moment of a handler, and between two of them.           *)
Moment ==
  [state : States, job : JobNames, minutes : Nat \ {0}, remaining : Int, percent : Int,
   layer : Int, layers : Int, mapping : Seq(-1..3), hms : Codes, grams : [Slots -> Int],
   fault : Faults \cup {NoFault}, suppressed : BOOLEAN]

Resting == {p \in Moment : p.state # "PREPARE"}

Body == {BuildReport(p) : p \in Moment}

Message ==
  [kind : {"report"}, body : Body]
    \cup [kind : {"ack"}, body : {"project_file", "stop"} \X BOOLEAN]
    \cup [kind : {"delta"}, body : {r.remain : r \in Body}]

(* r says of p what the client goes by.                                     *)
Shows(r, p) == r.state = p.state /\ r.job = p.job /\ r.hms = p.hms /\ r.percent = p.percent

Flows(a, b) == b.state # a.state => Edge(a, b)

LEMMA ReportShows ==
  ASSUME NEW p \in Moment
  PROVE  /\ BuildReport(p) \in Body
         /\ Shows(BuildReport(p), p)
         /\ Shows(Status(BuildReport(p)), p)
BY DEF Body, BuildReport, Status, Shows

LEMMA BodyIsOfAMoment ==
  ASSUME NEW r \in Body
  PROVE  \E p \in Moment : r = BuildReport(p)
BY DEF Body

LEMMA BodyStates ==
  ASSUME NEW r \in Body
  PROVE  /\ r.state \in States
         /\ Status(r).state = r.state /\ Status(r).job = r.job
         /\ Status(r) # Nothing
         /\ \A p : Shows(r, p) => Shows(Status(r), p)
<1>1. PICK p \in Moment : r = BuildReport(p)
  BY BodyIsOfAMoment
<1>2. r.state \in States
  BY <1>1 DEF BuildReport, Moment
<1>3. Status(r) # Nothing
  BY <1>2 DEF Status, Nothing, States
<1>4. QED
  BY <1>2, <1>3 DEF Status, Shows

LEMMA FlowIsOfTheState ==
  ASSUME NEW a, NEW b, NEW c, NEW d,
         a.state = c.state, a.job = c.job, b.state = d.state, b.job = d.job, Flows(a, b)
  PROVE  Flows(c, d)
BY DEF Flows, Edge

-----------------------------------------------------------------------------
(* The line of the wire w behind the status l                               *)

Places(w) == 0 .. Len(w)

Says(w, l, i) == IF i = 0 THEN l # Nothing ELSE w[i].kind = "report"

Said(w, l, i) == IF i = 0 THEN l ELSE w[i].body

Newest(w, l, i) ==
  /\ i \in Places(w)
  /\ Says(w, l, i)
  /\ \A k \in Places(w) : i < k => ~Says(w, l, k)

Heard(w, l) == \E i \in Places(w) : Says(w, l, i)

UpToDate(w, l, p) == \E i \in Places(w) : Newest(w, l, i) /\ Shows(Said(w, l, i), p)

Follows(w, l, i, k) ==
  /\ i < k /\ Says(w, l, i) /\ Says(w, l, k)
  /\ \A h \in Places(w) : i < h /\ h < k => ~Says(w, l, h)

InOrder(w, l) ==
  \A i, k \in Places(w) : Follows(w, l, i, k) => Flows(Said(w, l, i), Said(w, l, k))

(* Messages that say nothing change nothing.                                *)
LEMMA SilentMessage ==
  ASSUME NEW w \in Seq(Message), NEW m \in Message, m.kind # "report", NEW l, NEW p
  PROVE  LET v == w \o <<m>>
         IN  /\ Heard(v, l) <=> Heard(w, l)
             /\ UpToDate(w, l, p) => UpToDate(v, l, p)
             /\ InOrder(w, l) => InOrder(v, l)
<1>. DEFINE v == w \o <<m>>
            n == Len(w)
<1>1. n \in Nat /\ Len(v) = n + 1 /\ v[n + 1] = m /\ \A i \in 1 .. n : v[i] = w[i]
  BY ConcatProperties, LenProperties
<1>. HIDE DEF v, n
<1>2. Places(w) = 0 .. n /\ Places(v) = 0 .. n + 1
  BY <1>1 DEF Places, n
<1>3. ~Says(v, l, n + 1)
  BY <1>1 DEF Says
<1>4. \A i \in 0 .. n : (Says(v, l, i) <=> Says(w, l, i)) /\ Said(v, l, i) = Said(w, l, i)
  BY <1>1 DEF Says, Said
<1>5. Heard(v, l) <=> Heard(w, l)
  BY <1>1, <1>2, <1>3, <1>4 DEF Heard
<1>6. ASSUME UpToDate(w, l, p)
      PROVE  UpToDate(v, l, p)
  <2>1. PICK i \in 0 .. n : Newest(w, l, i) /\ Shows(Said(w, l, i), p)
    BY <1>2, <1>6 DEF UpToDate
  <2>2. Newest(v, l, i)
    BY <1>1, <1>2, <1>3, <1>4, <2>1 DEF Newest
  <2>3. QED
    BY <1>1, <1>2, <1>4, <2>1, <2>2 DEF UpToDate
<1>7. ASSUME InOrder(w, l)
      PROVE  InOrder(v, l)
  <2>1. SUFFICES ASSUME NEW i \in Places(v), NEW k \in Places(v), Follows(v, l, i, k)
                 PROVE  Flows(Said(v, l, i), Said(v, l, k))
    BY DEF InOrder
  <2>2. i \in 0 .. n /\ k \in 0 .. n
    BY <1>1, <1>2, <1>3, <2>1 DEF Follows
  <2>3. Follows(w, l, i, k)
    BY <1>1, <1>2, <1>4, <2>1, <2>2 DEF Follows
  <2>4. QED
    BY <1>2, <1>4, <1>7, <2>2, <2>3 DEF InOrder
<1>8. QED
  BY <1>5, <1>6, <1>7 DEF v

(* What the printer says from p on, when it comes to rest as q.             *)
Speech(rs, p, q) ==
  /\ rs \in Seq(Body)
  /\ rs # <<>> => Flows(p, rs[1]) /\ Shows(rs[Len(rs)], q)
  /\ \A i \in 1 .. Len(rs) : i + 1 <= Len(rs) => Flows(rs[i], rs[i + 1])

Reports(rs) == [i \in DOMAIN rs |-> Report(rs[i])]

LEMMA ReportsAreMessages ==
  ASSUME NEW rs \in Seq(Body)
  PROVE  /\ Reports(rs) \in Seq(Message)
         /\ Len(Reports(rs)) = Len(rs)
         /\ \A i \in 1 .. Len(rs) : Reports(rs)[i].kind = "report" /\ Reports(rs)[i].body = rs[i]
<1>1. \A i \in 1 .. Len(rs) : Report(rs[i]) \in Message
  BY DEF Report, Message
<1>2. DOMAIN rs = 1 .. Len(rs) /\ Len(rs) \in Nat
  BY LenProperties
<1>3. Reports(rs) \in [1 .. Len(rs) -> Message]
  BY <1>1, <1>2 DEF Reports
<1>4. Reports(rs) \in Seq(Message) /\ Len(Reports(rs)) = Len(rs)
  BY <1>2, <1>3
<1>5. QED
  BY <1>2, <1>4 DEF Reports, Report

LEMMA SpeechArrives ==
  ASSUME NEW w \in Seq(Message), NEW l, NEW p, NEW q, NEW rs, Speech(rs, p, q), rs # <<>>
  PROVE  LET v == w \o Reports(rs)
         IN  /\ UpToDate(v, l, q)
             /\ InOrder(w, l) /\ (Heard(w, l) => UpToDate(w, l, p)) => InOrder(v, l)
<1>. DEFINE v == w \o Reports(rs)
            n == Len(w)
            m == Len(rs)
<1>1. rs \in Seq(Body) /\ m \in Nat \ {0} /\ n \in Nat
  BY EmptySeq, LenProperties DEF Speech
<1>2. /\ Len(v) = n + m
      /\ \A i \in 1 .. n : v[i] = w[i]
      /\ \A i \in 1 .. m : v[n + i].kind = "report" /\ v[n + i].body = rs[i]
  <2>. DEFINE u == Reports(rs)
  <2>1. u \in Seq(Message) /\ Len(u) = m
    BY <1>1, ReportsAreMessages
  <2>2. \A i \in 1 .. m : u[i].kind = "report" /\ u[i].body = rs[i]
    BY <1>1, ReportsAreMessages
  <2>. HIDE DEF u
  <2>3. Len(w \o u) = n + m
    <3>1. Len(w \o u) = Len(w) + Len(u)
      BY <2>1, ConcatProperties
    <3>2. QED
      BY <2>1, <3>1
  <2>4. \A i \in 1 .. n + m : (w \o u)[i] = IF i <= n THEN w[i] ELSE u[i - n]
    BY <2>1, ConcatProperties
  <2>. HIDE DEF n, m
  <2>5. ASSUME NEW i \in 1 .. n
        PROVE  (w \o u)[i] = w[i]
    <3>1. i \in 1 .. n + m /\ i <= n
      BY <1>1
    <3>2. QED
      BY <2>4, <3>1
  <2>6. ASSUME NEW i \in 1 .. m
        PROVE  (w \o u)[n + i] = u[i]
    <3>1. n + i \in 1 .. n + m /\ ~(n + i <= n) /\ (n + i) - n = i
      BY <1>1
    <3>2. QED
      BY <2>4, <3>1
  <2>7. QED
    BY <2>2, <2>3, <2>5, <2>6 DEF u
<1>3. /\ Flows(p, rs[1]) /\ Shows(rs[m], q)
      /\ \A i \in 1 .. m : i + 1 <= m => Flows(rs[i], rs[i + 1])
  BY DEF Speech
<1>. HIDE DEF v, n, m
<1>4. Places(w) = 0 .. n /\ Places(v) = 0 .. n + m
  BY <1>2 DEF Places, n
<1>5. \A i \in 0 .. n : (Says(v, l, i) <=> Says(w, l, i)) /\ Said(v, l, i) = Said(w, l, i)
  BY <1>1, <1>2 DEF Says, Said
<1>6. \A i \in 1 .. m : Says(v, l, n + i) /\ Said(v, l, n + i) = rs[i]
  BY <1>1, <1>2 DEF Says, Said
<1>7. UpToDate(v, l, q)
  <2>1. Newest(v, l, n + m)
    BY <1>1, <1>4, <1>6 DEF Newest
  <2>2. Said(v, l, n + m) = rs[m]
    BY <1>1, <1>6
  <2>3. n + m \in Places(v)
    BY <1>1, <1>4
  <2>4. QED
    BY <1>3, <2>1, <2>2, <2>3 DEF UpToDate
<1>8. ASSUME InOrder(w, l), Heard(w, l) => UpToDate(w, l, p)
      PROVE  InOrder(v, l)
  <2>1. SUFFICES ASSUME NEW i \in Places(v), NEW k \in Places(v), Follows(v, l, i, k)
                 PROVE  Flows(Said(v, l, i), Said(v, l, k))
    BY DEF InOrder
  <2>2. CASE k <= n
    <3>1. i \in 0 .. n /\ k \in 0 .. n
      BY <1>1, <1>4, <2>1, <2>2 DEF Follows
    <3>2. Follows(w, l, i, k)
      BY <1>1, <1>4, <1>5, <2>1, <3>1 DEF Follows
    <3>3. QED
      BY <1>4, <1>5, <1>8, <3>1, <3>2 DEF InOrder
  <2>3. CASE i <= n /\ k > n
    <3>1. k = n + 1 /\ i \in 0 .. n
      <4>1. n + 1 \in Places(v) /\ Says(v, l, n + 1) /\ k \in Int /\ i \in 0 .. n
        BY <1>1, <1>4, <1>6, <2>1, <2>3
      <4>2. ~(i < n + 1 /\ n + 1 < k)
        BY <2>1, <4>1 DEF Follows
      <4>3. QED
        BY <1>1, <2>3, <4>1, <4>2
    <3>2. Newest(w, l, i)
      BY <1>1, <1>4, <1>5, <2>1, <3>1 DEF Newest, Follows
    <3>3. Shows(Said(w, l, i), p)
      <4>1. Heard(w, l)
        BY <3>2 DEF Heard, Newest
      <4>2. PICK h \in Places(w) : Newest(w, l, h) /\ Shows(Said(w, l, h), p)
        BY <1>8, <4>1 DEF UpToDate
      <4>3. h = i
        BY <1>1, <1>4, <3>2, <4>2 DEF Newest
      <4>4. QED
        BY <4>2, <4>3
    <3>4. Said(v, l, k) = rs[1]
      BY <1>1, <1>6, <3>1
    <3>5. Said(v, l, i) = Said(w, l, i)
      BY <1>5, <3>1
    <3>6. QED
      BY <1>3, <3>3, <3>4, <3>5, FlowIsOfTheState DEF Shows
  <2>4. CASE i > n
    <3>. DEFINE a == i - n
    <3>1. a \in 1 .. m /\ i = n + a
      BY <1>1, <1>4, <2>4
    <3>2. k = n + (a + 1) /\ a + 1 \in 1 .. m
      <4>1. k \in n + 1 .. n + m /\ i < k
        BY <1>1, <1>4, <2>1, <2>4 DEF Follows
      <4>2. i + 1 < k => i + 1 \in Places(v) /\ Says(v, l, i + 1)
        <5>1. ASSUME i + 1 < k PROVE a + 1 \in 1 .. m /\ i + 1 = n + (a + 1)
          BY <1>1, <3>1, <4>1, <5>1
        <5>2. QED
          BY <1>1, <1>4, <1>6, <5>1
      <4>3. ~(i + 1 < k)
        BY <1>1, <2>1, <3>1, <4>2 DEF Follows
      <4>4. QED
        BY <1>1, <3>1, <4>1, <4>3
    <3>3. Said(v, l, i) = rs[a] /\ Said(v, l, k) = rs[a + 1]
      BY <1>6, <3>1, <3>2
    <3>. HIDE DEF a
    <3>4. QED
      BY <1>1, <1>3, <3>1, <3>2, <3>3
  <2>5. QED
    BY <1>1, <1>4, <2>2, <2>3, <2>4
<1>9. QED
  BY <1>7, <1>8 DEF v

(* The client takes one message from the wire.                              *)
LEMMA TheLineMovesUp ==
  ASSUME NEW w \in Seq(Message), w # <<>>, NEW l, NEW p
  PROVE  LET m == Head(w)
             v == Tail(w)
             k == IF m.kind = "report" THEN Status(m.body) ELSE l
         IN  /\ Heard(v, k) => Heard(w, l)
             /\ UpToDate(w, l, p) => UpToDate(v, k, p)
             /\ InOrder(w, l) => InOrder(v, k)
<1>. DEFINE m == Head(w)
            v == Tail(w)
            e == IF m.kind = "report" THEN Status(m.body) ELSE l
            n == Len(v)
            old(i) == IF i = 0 /\ m.kind # "report" THEN 0 ELSE i + 1
<1>1. /\ m = w[1] /\ n \in Nat /\ Len(w) = n + 1
      /\ \A i \in 1 .. n : v[i] = w[i + 1]
  BY HeadTailProperties, LenProperties
<1>2. m \in Message
  BY HeadTailProperties
<1>3. m.kind = "report" => m.body \in Body
  BY <1>2 DEF Message
<1>. HIDE DEF m, v, n
<1>4. Places(w) = 0 .. n + 1 /\ Places(v) = 0 .. n
  BY <1>1 DEF Places, n
<1>5. \A i \in 0 .. n : old(i) \in 0 .. n + 1 /\ (Says(v, e, i) <=> Says(w, l, old(i)))
  BY <1>1, <1>3, BodyStates DEF Says
<1>6. \A i \in 0 .. n : /\ Said(v, e, i).state = Said(w, l, old(i)).state
                        /\ Said(v, e, i).job = Said(w, l, old(i)).job
                        /\ \A q : Shows(Said(w, l, old(i)), q) => Shows(Said(v, e, i), q)
  BY <1>1, <1>3, BodyStates DEF Said
<1>7. \A h \in 0 .. n + 1 : Says(w, l, h) =>
        \/ \E i \in 0 .. n : h = old(i)
        \/ h = 0 /\ m.kind = "report"
  <2>1. \A h \in 1 .. n + 1 : h = 1 \/ (h - 1 \in 1 .. n /\ old(h - 1) = h)
    BY <1>1
  <2>2. m.kind # "report" => ~Says(w, l, 1)
    BY <1>1 DEF Says
  <2>3. m.kind = "report" => old(0) = 1
    OBVIOUS
  <2>4. m.kind # "report" => old(0) = 0
    OBVIOUS
  <2>5. QED
    BY <1>1, <2>1, <2>2, <2>3, <2>4
<1>8. \A i, k \in 0 .. n : i < k <=> old(i) < old(k)
  BY <1>1
<1>. HIDE DEF old, e
<1>9. Heard(v, e) => Heard(w, l)
  BY <1>4, <1>5 DEF Heard
<1>10. ASSUME UpToDate(w, l, p)
       PROVE  UpToDate(v, e, p)
  <2>1. PICK h \in 0 .. n + 1 : Newest(w, l, h) /\ Shows(Said(w, l, h), p)
    BY <1>4, <1>10 DEF UpToDate
  <2>2. ~(h = 0 /\ m.kind = "report")
    BY <1>1, <1>4, <2>1 DEF Newest, Says
  <2>3. PICK i \in 0 .. n : h = old(i)
    BY <1>7, <2>1, <2>2 DEF Newest
  <2>4. Newest(v, e, i)
    BY <1>4, <1>5, <1>8, <2>1, <2>3 DEF Newest
  <2>5. QED
    BY <1>4, <1>6, <2>1, <2>3, <2>4 DEF UpToDate
<1>11. ASSUME InOrder(w, l)
       PROVE  InOrder(v, e)
  <2>1. SUFFICES ASSUME NEW i \in Places(v), NEW k \in Places(v), Follows(v, e, i, k)
                 PROVE  Flows(Said(v, e, i), Said(v, e, k))
    BY DEF InOrder
  <2>2. i \in 0 .. n /\ k \in 0 .. n /\ old(i) \in 0 .. n + 1 /\ old(k) \in 0 .. n + 1
    BY <1>4, <1>5
  <2>3. old(i) < old(k) /\ Says(w, l, old(i)) /\ Says(w, l, old(k))
    BY <1>5, <1>8, <2>1, <2>2 DEF Follows
  <2>4. ASSUME NEW h \in 0 .. n + 1, old(i) < h, h < old(k), Says(w, l, h)
        PROVE  FALSE
    <3>1. h # 0
      BY <1>1, <2>2, <2>4
    <3>2. PICK g \in 0 .. n : h = old(g)
      BY <1>7, <2>4, <3>1
    <3>3. i < g /\ g < k /\ Says(v, e, g)
      BY <1>5, <1>8, <2>2, <2>4, <3>2
    <3>4. QED
      BY <1>4, <2>1, <3>2, <3>3 DEF Follows
  <2>5. Follows(w, l, old(i), old(k))
    BY <1>4, <2>3, <2>4 DEF Follows
  <2>6. Flows(Said(w, l, old(i)), Said(w, l, old(k)))
    BY <1>4, <1>11, <2>2, <2>5 DEF InOrder
  <2>7. QED
    BY <1>6, <2>2, <2>6, FlowIsOfTheState
<1>12. QED
  BY <1>9, <1>10, <1>11 DEF e, v, m

-----------------------------------------------------------------------------
(* What a handler of the printer returns.  Between two states of rest its   *)
(* reports tell each state it went through, unless they are withheld.       *)

Sincere(p, r) ==
  /\ r.printer \in Resting
  /\ Speech(r.reports, p, r.printer)
  /\ r.reports = <<>> => r.printer.suppressed \/ Shows(p, r.printer)

LEMMA ToldIsSincere ==
  ASSUME NEW p, NEW q \in Resting, NEW moments \in Seq(Moment), moments # <<>>,
         moments[Len(moments)] = q, Flows(p, moments[1]),
         \A i \in 1 .. Len(moments) : i + 1 <= Len(moments) => Flows(moments[i], moments[i + 1])
  PROVE  /\ Sincere(p, Told(q, moments))
         /\ Told(q, moments).printer = q
         /\ ~q.suppressed => Told(q, moments).reports # <<>>
<1>. DEFINE said == [i \in DOMAIN moments |-> BuildReport(moments[i])]
            n == Len(moments)
<1>1. n \in Nat \ {0} /\ DOMAIN moments = 1 .. n /\ \A i \in 1 .. n : moments[i] \in Moment
  BY EmptySeq, LenProperties, ElementOfSeq
<1>2. said \in [1 .. n -> Body] /\ \A i \in 1 .. n : said[i] = BuildReport(moments[i])
  BY <1>1, ReportShows
<1>3. said \in Seq(Body) /\ Len(said) = n
  BY <1>1, <1>2
<1>4. said # <<>>
  BY <1>1, <1>3
<1>. HIDE DEF said
<1>5. \A i \in 1 .. n : said[i].state = moments[i].state /\ said[i].job = moments[i].job
  BY <1>1, <1>2, ReportShows DEF Shows
<1>6. Shows(said[n], q)
  BY <1>1, <1>2, ReportShows
<1>. HIDE DEF n
<1>7. Flows(p, said[1])
  BY <1>1, <1>5, FlowIsOfTheState DEF n
<1>8. \A i \in 1 .. n : i + 1 <= n => Flows(said[i], said[i + 1])
  <2>1. SUFFICES ASSUME NEW i \in 1 .. n, i + 1 <= n
                 PROVE  Flows(said[i], said[i + 1])
    OBVIOUS
  <2>2. i + 1 \in 1 .. n
    BY <1>1, <2>1
  <2>3. Flows(moments[i], moments[i + 1])
    BY <2>1 DEF n
  <2>4. QED
    BY <1>5, <2>2, <2>3, FlowIsOfTheState
<1>9. Speech(said, p, q)
  BY <1>3, <1>6, <1>7, <1>8 DEF Speech
<1>10. Speech(<<>>, p, q)
  BY DEF Speech
<1>11. /\ Told(q, moments).printer = q
       /\ Told(q, moments).reports = IF q.suppressed THEN <<>> ELSE said
  BY DEF Told, said
<1>12. QED
  BY <1>4, <1>9, <1>10, <1>11 DEF Sincere

LEMMA QuietIsSincere ==
  ASSUME NEW p, NEW q \in Resting, q.suppressed \/ Shows(p, q)
  PROVE  Sincere(p, Quiet(q)) /\ Quiet(q).printer = q
BY DEF Sincere, Quiet, Speech

LEMMA PublishIsSincere ==
  ASSUME NEW p, NEW q \in Resting, Flows(p, q)
  PROVE  /\ Sincere(p, Publish(q))
         /\ Publish(q).printer = q
         /\ ~q.suppressed => Publish(q).reports # <<>>
<1>1. <<q>> \in Seq(Moment) /\ Len(<<q>>) = 1 /\ <<q>>[1] = q /\ <<q>> # <<>>
  BY DEF Resting
<1>. DEFINE moments == <<q>>
<1>. HIDE DEF moments
<1>2. moments \in Seq(Moment) /\ Len(moments) = 1 /\ moments[1] = q /\ moments # <<>>
  BY <1>1 DEF moments
<1>3. moments[Len(moments)] = q
  BY <1>2
<1>4. \A i \in 1 .. Len(moments) : i + 1 <= Len(moments) => Flows(moments[i], moments[i + 1])
  BY <1>2
<1>5. QED
  BY <1>2, <1>3, <1>4, ToldIsSincere DEF Publish, moments

LEMMA TwoAreSincere ==
  ASSUME NEW p, NEW a \in Moment, NEW q \in Resting, Flows(p, a), Flows(a, q)
  PROVE  /\ Sincere(p, Told(q, <<a, q>>))
         /\ Told(q, <<a, q>>).printer = q
         /\ ~q.suppressed => Told(q, <<a, q>>).reports # <<>>
<1>. DEFINE moments == <<a, q>>
<1>1. /\ moments \in Seq(Moment) /\ Len(moments) = 2 /\ moments # <<>>
      /\ moments[1] = a /\ moments[2] = q
  BY DEF Resting
<1>. HIDE DEF moments
<1>2. moments[Len(moments)] = q
  BY <1>1
<1>3. \A i \in 1 .. Len(moments) : i + 1 <= Len(moments) => Flows(moments[i], moments[i + 1])
  BY <1>1
<1>4. QED
  BY <1>1, <1>2, <1>3, ToldIsSincere DEF moments

LEMMA FourAreSincere ==
  ASSUME NEW p, NEW a \in Moment, NEW b \in Moment, NEW q \in Resting,
         Flows(p, a), Flows(a, b), Flows(b, q)
  PROVE  /\ Sincere(p, Told(q, <<a, b, q, q>>))
         /\ Told(q, <<a, b, q, q>>).printer = q
         /\ ~q.suppressed => Told(q, <<a, b, q, q>>).reports # <<>>
<1>. DEFINE moments == <<a, b, q, q>>
<1>1. /\ moments \in Seq(Moment) /\ Len(moments) = 4 /\ moments # <<>>
      /\ moments[1] = a /\ moments[2] = b /\ moments[3] = q /\ moments[4] = q
  BY DEF Resting
<1>. HIDE DEF moments
<1>2. moments[Len(moments)] = q
  BY <1>1
<1>3. Flows(q, q)
  BY DEF Flows
<1>4. \A i \in 1 .. Len(moments) : i + 1 <= Len(moments) => Flows(moments[i], moments[i + 1])
  BY <1>1, <1>3
<1>5. QED
  BY <1>1, <1>2, <1>4, ToldIsSincere DEF moments

(* Only an end and a beginning ask anything of the state before.            *)
LEMMA OtherStatesFlow ==
  ASSUME NEW a, NEW b, b.state \notin {"FINISH", "PREPARE"}
  PROVE  Flows(a, b)
BY DEF Flows, Edge

LEMMA FailureIsSincere ==
  ASSUME NEW p, NEW s \in Moment, NEW code \in Codes
  PROVE  /\ Failed(s, code) \in Resting
         /\ Failed(s, code).state = "FAILED" /\ Failed(s, code).suppressed = s.suppressed
         /\ Sincere(p, ForceFail(s, code))
         /\ ForceFail(s, code).printer = Failed(s, code)
<1>. DEFINE q == Failed(s, code)
<1>1. q \in Resting /\ q.state = "FAILED" /\ q.suppressed = s.suppressed
  <2>1. q.state = "FAILED" /\ q.suppressed = s.suppressed
    BY DEF Failed, Moment
  <2>. DEFINE f(n) == [s EXCEPT !.hms = code, !.remaining = n, !.state = "FAILED"]
  <2>2. \A n \in Int : f(n) \in Moment
    BY DEF Moment, States
  <2>3. q = f(0)
    BY DEF Failed
  <2>. HIDE DEF f
  <2>. HIDE DEF q
  <2>4. QED
    BY <2>1, <2>2, <2>3 DEF Resting
<1>2. ForceFail(s, code) = Told(q, <<q, q>>)
  BY DEF ForceFail
<1>. HIDE DEF q
<1>3. Flows(p, q) /\ Flows(q, q) /\ q \in Moment
  BY <1>1, OtherStatesFlow DEF Resting
<1>4. Sincere(p, Told(q, <<q, q>>)) /\ Told(q, <<q, q>>).printer = q
  BY <1>1, <1>3, TwoAreSincere
<1>5. QED
  BY <1>1, <1>2, <1>4 DEF q

LEMMA FaultCodes == \A c : FaultCode(c) \in Codes
BY DEF FaultCode, Codes

-----------------------------------------------------------------------------
(* The handlers                                                             *)

LEMMA LoadedPrinter ==
  ASSUME NEW p \in Moment, NEW cmd \in Commands
  PROVE  LET q == Loaded(p, cmd)
         IN  q \in Moment /\ q.state = "PREPARE" /\ ~q.suppressed /\ q.fault = p.fault
<1>1. cmd.mapping \in Seq(-1..3)
  BY CallsAssumption DEF Command
<1>2. (IF cmd.file = NoName THEN cmd.param ELSE cmd.file) \in JobNames
  BY DEF JobNames
<1>3. NoError \in Codes
  BY DEF Codes
<1>4. SimMinutes \in Nat \ {0}
  BY PrinterAssumption
<1>5. QED
  BY <1>1, <1>2, <1>3, <1>4 DEF Loaded, Moment, States

LEMMA HeatedPrinter ==
  ASSUME NEW p \in Moment
  PROVE  LET q == Heated(p)
         IN  /\ q \in Resting /\ q.state = "RUNNING"
             /\ q.suppressed = p.suppressed /\ q.fault = p.fault
<1>. DEFINE q == Heated(p)
<1>1. SimMinutes \in Int
  BY PrinterAssumption
<1>2. q \in Moment
  <2>. DEFINE f(m, n) == [p EXCEPT !.remaining = m, !.layers = m, !.layer = n, !.percent = n,
                                   !.state = "RUNNING"]
  <2>1. \A m, n \in Int : f(m, n) \in Moment
    BY DEF Moment, States
  <2>2. q = f(SimMinutes, 0)
    BY DEF Heated
  <2>. HIDE DEF f, q
  <2>3. QED
    BY <1>1, <2>1, <2>2
<1>3. q.state = "RUNNING" /\ q.suppressed = p.suppressed /\ q.fault = p.fault
  BY DEF Heated, Moment
<1>. HIDE DEF q
<1>4. QED
  BY <1>2, <1>3 DEF Resting, q

LEMMA FaultRemoved ==
  ASSUME NEW p \in Moment
  PROVE  /\ [p EXCEPT !.fault = NoFault] \in Moment
         /\ [p EXCEPT !.fault = NoFault].suppressed = p.suppressed
BY DEF Moment

LEMMA ProjectFileIsSincere ==
  ASSUME NEW p \in Resting, NEW cmd \in Commands
  PROVE  LET r == ReceiveProjectFile(p, cmd)
         IN  /\ Sincere(p, r)
             /\ Rejected(p, cmd) => r.printer = p
             /\ ~Rejected(p, cmd) => ~r.printer.suppressed /\ r.reports # <<>>
<1>. DEFINE prepare == Loaded(p, cmd)
            running == Heated(prepare)
            code == FaultCode(p.fault[1])
            cleared == [running EXCEPT !.fault = NoFault]
            failed == Failed(cleared, code)
            r == ReceiveProjectFile(p, cmd)
<1>1. p \in Moment
  BY DEF Resting
<1>2. prepare \in Moment /\ prepare.state = "PREPARE" /\ ~prepare.suppressed
  BY <1>1, LoadedPrinter
<1>. HIDE DEF prepare
<1>3. running \in Resting /\ running.state = "RUNNING" /\ ~running.suppressed
  BY <1>2, HeatedPrinter
<1>. HIDE DEF running
<1>4. running \in Moment
  BY <1>3 DEF Resting
<1>5. cleared \in Moment /\ ~cleared.suppressed /\ code \in Codes
  BY <1>3, <1>4, FaultRemoved, FaultCodes
<1>. HIDE DEF cleared, code
<1>6. failed \in Resting /\ failed.state = "FAILED" /\ ~failed.suppressed
  BY <1>5, FailureIsSincere
<1>. HIDE DEF failed
<1>7. Flows(prepare, running) /\ Flows(running, failed)
  BY <1>3, <1>6, OtherStatesFlow
<1>8. ~Rejected(p, cmd) => Flows(p, prepare)
  BY <1>2 DEF Rejected, Flows, Edge
<1>9. CASE Rejected(p, cmd)
  <2>1. r = Quiet(p)
    BY <1>9 DEF ReceiveProjectFile
  <2>2. Shows(p, p)
    BY DEF Shows
  <2>3. QED
    BY <1>9, <2>1, <2>2, QuietIsSincere
<1>10. CASE ~Rejected(p, cmd) /\ p.fault[2] = "next_print"
  <2>1. r = Told(failed, <<prepare, running, failed, failed>>)
    BY <1>10 DEF ReceiveProjectFile, prepare, running, cleared, code, failed
  <2>2. QED
    BY <1>2, <1>4, <1>6, <1>7, <1>8, <1>10, <2>1, FourAreSincere
<1>11. CASE ~Rejected(p, cmd) /\ p.fault[2] # "next_print"
  <2>1. r = Told(running, <<prepare, running>>)
    BY <1>11 DEF ReceiveProjectFile, prepare, running
  <2>2. QED
    BY <1>2, <1>3, <1>7, <1>8, <1>11, <2>1, TwoAreSincere
<1>12. QED
  BY <1>9, <1>10, <1>11

LEMMA StopIsSincere ==
  ASSUME NEW p \in Resting
  PROVE  Sincere(p, Stopped(p)) /\ Stopped(p).printer.suppressed = p.suppressed
<1>1. p \in Moment /\ Shows(p, p) /\ "PRINTER_FAULT" \in Codes
  BY DEF Resting, Shows, Codes
<1>2. QED
  BY <1>1, FailureIsSincere, QuietIsSincere DEF Stopped

LEMMA FaultIsSincere ==
  ASSUME NEW p \in Resting, NEW category
  PROVE  /\ Sincere(p, FaultNow(p, category))
         /\ FaultNow(p, category).printer.suppressed = p.suppressed
<1>. DEFINE code == FaultCode(category)
            q == [p EXCEPT !.hms = code]
<1>1. p \in Moment /\ code \in Codes
  BY FaultCodes DEF Resting
<1>. HIDE DEF code
<1>2. q \in Moment /\ q.state = p.state /\ q.suppressed = p.suppressed
  BY <1>1 DEF Moment
<1>3. FaultNow(p, category) = IF p.state \in Busy THEN ForceFail(p, code) ELSE Publish(q)
  BY DEF FaultNow, code
<1>. HIDE DEF q
<1>4. q \in Resting /\ Flows(p, q)
  BY <1>2 DEF Resting, Flows
<1>5. QED
  BY <1>1, <1>2, <1>3, <1>4, FailureIsSincere, PublishIsSincere

LEMMA InitialMoment ==
  ASSUME NEW g \in [Slots -> Int]
  PROVE  InitialPrinter(g) \in Moment
<1>. DEFINE new(n, m, map) ==
              [state |-> "IDLE", job |-> NoJob, minutes |-> m, remaining |-> n, percent |-> n,
               layer |-> n, layers |-> n, mapping |-> map, hms |-> NoError,
               grams |-> g, fault |-> NoFault, suppressed |-> FALSE]
<1>1. NoJob \in JobNames /\ NoError \in Codes
  BY DEF JobNames, Codes
<1>2. \A n \in Int, m \in Nat \ {0}, map \in Seq(-1..3) : new(n, m, map) \in Moment
  BY <1>1 DEF Moment, States
<1>3. InitialPrinter(g) = new(0, 1, <<>>)
  BY DEF InitialPrinter
<1>. HIDE DEF new
<1>4. 0 \in Int /\ 1 \in Nat \ {0} /\ <<>> \in Seq(-1..3)
  BY EmptySeq
<1>5. QED
  BY <1>2, <1>3, <1>4, Zenon

LEMMA ResetIsSincere ==
  ASSUME NEW p \in Resting
  PROVE  LET r == ResetPrinter(p)
         IN  Sincere(p, r) /\ ~r.printer.suppressed /\ r.reports # <<>>
<1>. DEFINE q == [InitialPrinter(p.grams) EXCEPT !.fault = p.fault]
<1>1. p.grams \in [Slots -> Int] /\ p.fault \in Faults \cup {NoFault}
  BY DEF Resting, Moment
<1>2. NoJob \in JobNames /\ NoError \in Codes
  BY DEF JobNames, Codes
<1>3. q \in Moment /\ q.state = "IDLE" /\ ~q.suppressed
  <2>1. InitialPrinter(p.grams) \in Moment
    BY <1>1, <1>2, InitialMoment
  <2>2. InitialPrinter(p.grams).state = "IDLE" /\ ~InitialPrinter(p.grams).suppressed
    BY DEF InitialPrinter
  <2>. DEFINE new == InitialPrinter(p.grams)
  <2>. HIDE DEF new
  <2>3. [new EXCEPT !.fault = p.fault] \in Moment
    BY <1>1, <2>1 DEF Moment, new
  <2>4. QED
    BY <1>1, <2>1, <2>2, <2>3 DEF Moment, new
<1>4. ResetPrinter(p) = Publish(q)
  BY DEF ResetPrinter
<1>. HIDE DEF q
<1>5. q \in Resting /\ Flows(p, q)
  BY <1>3, OtherStatesFlow DEF Resting
<1>6. QED
  BY <1>3, <1>4, <1>5, PublishIsSincere

LEMMA PollIsSincere ==
  ASSUME NEW p \in Resting
  PROVE  LET r == PushAll(p)
         IN  Sincere(p, r) /\ ~r.printer.suppressed /\ r.reports # <<>>
<1>. DEFINE q == [p EXCEPT !.suppressed = FALSE]
<1>1. q \in Moment /\ q.state = p.state /\ ~q.suppressed
  BY DEF Resting, Moment
<1>2. PushAll(p) = Publish(q)
  BY DEF PushAll
<1>3. p.state # "PREPARE"
  BY DEF Resting
<1>. HIDE DEF q
<1>4. q \in Resting /\ Flows(p, q)
  BY <1>1, <1>3 DEF Resting, Flows
<1>5. QED
  BY <1>1, <1>2, <1>4, PublishIsSincere

-----------------------------------------------------------------------------
(* The ticker and the control API                                           *)

LEMMA RoundedIsWhole ==
  ASSUME NEW n \in Int, NEW d \in Nat \ {0}
  PROVE  Rounded(n, d) \in Int
BY DEF Rounded

(* A FINISH is withheld, or told to a client that saw the print run.        *)
LEMMA FinishIsSincere ==
  ASSUME NEW p, NEW q \in Moment, p.state = "RUNNING", q.job = p.job
  PROVE  Sincere(p, HandleFinish(q))
<1>. DEFINE done == [q EXCEPT !.state = "FINISH", !.percent = 100, !.remaining = 0]
            muted == [done EXCEPT !.fault = NoFault, !.suppressed = TRUE]
<1>1. done \in Moment /\ done.state = "FINISH" /\ done.job = q.job
  <2>. DEFINE f(m, n) == [q EXCEPT !.state = "FINISH", !.percent = m, !.remaining = n]
  <2>1. \A m, n \in Int : f(m, n) \in Moment /\ f(m, n).state = "FINISH" /\ f(m, n).job = q.job
    BY DEF Moment, States
  <2>2. done = f(100, 0)
    OBVIOUS
  <2>. HIDE DEF f, done
  <2>3. QED
    BY <2>1, <2>2
<1>2. HandleFinish(q) = IF Withholds(q) THEN Quiet(muted) ELSE Publish(done)
  BY DEF HandleFinish
<1>. HIDE DEF done
<1>3. muted \in Moment /\ muted.state = done.state /\ muted.suppressed
  BY <1>1 DEF Moment
<1>. HIDE DEF muted
<1>4. done \in Resting /\ muted \in Resting
  BY <1>1, <1>3 DEF Resting
<1>5. Flows(p, done)
  BY <1>1 DEF Flows, Edge
<1>6. QED
  BY <1>2, <1>3, <1>4, <1>5, QuietIsSincere, PublishIsSincere

LEMMA TickIsSincere ==
  ASSUME NEW p \in Resting, p.state = "RUNNING"
  PROVE  Sincere(p, Ticked(p))
<1>. DEFINE left == Most(0, p.remaining - 1)
            elapsed == p.minutes - left
            layer == Least(p.layers, elapsed)
            percent == Least(100, Rounded(100 * elapsed, p.minutes))
            q == [p EXCEPT !.remaining = left, !.layer = layer, !.percent = percent]
<1>1. p \in Moment /\ p.minutes \in Nat \ {0} /\ p.remaining \in Int /\ p.layers \in Int
  BY DEF Resting, Moment
<1>2. left \in Int
  BY <1>1 DEF Most
<1>3. elapsed \in Int /\ layer \in Int
  BY <1>1, <1>2 DEF Least
<1>4. percent \in Int
  <2>1. Rounded(100 * elapsed, p.minutes) \in Int
    BY <1>1, <1>3, RoundedIsWhole
  <2>. DEFINE share == Rounded(100 * elapsed, p.minutes)
  <2>. HIDE DEF share
  <2>2. QED
    BY <2>1 DEF Least, share
<1>5. Ticked(p) = IF left = 0 THEN HandleFinish(q) ELSE Publish(q)
  BY DEF Ticked
<1>. HIDE DEF left, elapsed, layer, percent
<1>6. q \in Moment /\ q.state = p.state /\ q.job = p.job
  BY <1>1, <1>2, <1>3, <1>4 DEF Moment
<1>. HIDE DEF q
<1>7. q \in Resting /\ Flows(p, q)
  BY <1>6 DEF Resting, Flows
<1>8. QED
  BY <1>5, <1>6, <1>7, FinishIsSincere, PublishIsSincere

LEMMA ForcedFinishIsSincere ==
  ASSUME NEW p \in Resting
  PROVE  Sincere(p, ForceFinish(p))
<1>. DEFINE q == [p EXCEPT !.remaining = 0, !.percent = 100, !.layer = p.layers]
<1>1. p \in Moment /\ p.layers \in Int /\ (p.state \in Busy => p.state = "RUNNING")
  BY DEF Resting, Moment, Busy
<1>2. q \in Moment /\ q.job = p.job
  <2>. DEFINE f(m, n) == [p EXCEPT !.remaining = m, !.percent = n, !.layer = p.layers]
  <2>1. \A m, n \in Int : f(m, n) \in Moment /\ f(m, n).job = p.job
    BY <1>1 DEF Moment
  <2>2. q = f(0, 100)
    OBVIOUS
  <2>. HIDE DEF f, q
  <2>3. QED
    BY <2>1, <2>2
<1>3. ForceFinish(p) = IF p.state \in Busy THEN HandleFinish(q) ELSE Quiet(p)
  BY DEF ForceFinish
<1>4. Shows(p, p)
  BY DEF Shows
<1>. HIDE DEF q
<1>5. QED
  BY <1>1, <1>2, <1>3, <1>4, FinishIsSincere, QuietIsSincere

LEMMA FailIsSincere ==
  ASSUME NEW p \in Resting
  PROVE  LET r == ForceFail(p, "PRINTER_FAULT")
         IN  Sincere(p, r) /\ r.printer.suppressed = p.suppressed
<1>1. p \in Moment /\ "PRINTER_FAULT" \in Codes
  BY DEF Resting, Codes
<1>2. QED
  BY <1>1, FailureIsSincere

LEMMA AmsIsSincere ==
  ASSUME NEW p \in Resting, NEW s \in Slots, NEW g \in Grams
  PROVE  LET r == SetAms(p, s, g)
         IN  Sincere(p, r) /\ r.printer.suppressed = p.suppressed
<1>. DEFINE q == [p EXCEPT !.grams[s] = g]
<1>1. p \in Moment /\ g \in Int
  BY CallsAssumption DEF Resting
<1>2. q \in Moment /\ q.state = p.state /\ q.suppressed = p.suppressed
  BY <1>1 DEF Moment
<1>3. SetAms(p, s, g) = Publish(q)
  BY DEF SetAms
<1>. HIDE DEF q
<1>4. q \in Resting /\ Flows(p, q)
  BY <1>2 DEF Resting, Flows
<1>5. QED
  BY <1>2, <1>3, <1>4, PublishIsSincere

(* What is set without a report is nothing a client goes by.                *)
LEMMA MinutesAreSilent ==
  ASSUME NEW p \in Resting, NEW m \in Minutes
  PROVE  LET q == SetPrintMinutes(p, m)
         IN  q \in Resting /\ Shows(p, q) /\ q.suppressed = p.suppressed
<1>. DEFINE rest == IF p.state = "RUNNING" THEN m ELSE p.remaining
            q == [p EXCEPT !.minutes = m, !.layers = m, !.remaining = rest]
<1>1. p \in Moment /\ m \in Nat \ {0} /\ rest \in Int
  BY CallsAssumption DEF Resting, Moment
<1>2. SetPrintMinutes(p, m) = IF p.job = NoJob THEN p ELSE q
  BY DEF SetPrintMinutes
<1>. HIDE DEF rest, q
<1>3. /\ q \in Moment
      /\ q.state = p.state /\ q.job = p.job /\ q.hms = p.hms /\ q.percent = p.percent
      /\ q.suppressed = p.suppressed
  <2>. DEFINE a == [p EXCEPT !.minutes = m]
              b == [a EXCEPT !.layers = m]
  <2>. HIDE DEF a, b
  <2>1. /\ a \in Moment
        /\ a.state = p.state /\ a.job = p.job /\ a.hms = p.hms /\ a.percent = p.percent
        /\ a.suppressed = p.suppressed
    BY <1>1 DEF Moment, a
  <2>2. m \in Int
    BY <1>1
  <2>3. /\ b \in Moment
        /\ b.state = a.state /\ b.job = a.job /\ b.hms = a.hms /\ b.percent = a.percent
        /\ b.suppressed = a.suppressed
    BY <2>1, <2>2 DEF Moment, b
  <2>4. q = [b EXCEPT !.remaining = rest]
    BY DEF a, b, q
  <2>5. QED
    BY <1>1, <2>1, <2>3, <2>4 DEF Moment
<1>4. QED
  BY <1>1, <1>2, <1>3 DEF Resting, Shows

LEMMA WaitingFaultIsSilent ==
  ASSUME NEW p \in Resting, NEW f \in Faults
  PROVE  LET q == [p EXCEPT !.fault = f]
         IN  q \in Resting /\ Shows(p, q) /\ q.suppressed = p.suppressed
<1>. DEFINE q == [p EXCEPT !.fault = f]
<1>1. /\ q \in Moment
      /\ q.state = p.state /\ q.job = p.job /\ q.hms = p.hms /\ q.percent = p.percent
      /\ q.suppressed = p.suppressed
  BY DEF Resting, Moment
<1>. HIDE DEF q
<1>2. QED
  BY <1>1 DEF Resting, Shows, q

-----------------------------------------------------------------------------
(* A result of a handler joins the line                                     *)

LEMMA SpokenLine ==
  ASSUME NEW w \in Seq(Message), NEW l, NEW p, NEW r, Sincere(p, r)
  PROVE  LET v == w \o Reports(r.reports)
             q == r.printer
         IN  /\ v \in Seq(Message)
             /\ r.reports # <<>> => UpToDate(v, l, q)
             /\ ~q.suppressed /\ UpToDate(w, l, p) => UpToDate(v, l, q)
             /\ InOrder(w, l) /\ (Heard(w, l) => UpToDate(w, l, p)) =>
                  InOrder(v, l) /\ (~q.suppressed => (Heard(v, l) => UpToDate(v, l, q)))
<1>. DEFINE v == w \o Reports(r.reports)
            q == r.printer
<1>1. /\ r.reports \in Seq(Body) /\ Speech(r.reports, p, q)
      /\ r.reports = <<>> /\ ~q.suppressed => Shows(p, q)
  BY DEF Sincere, Speech
<1>2. Reports(r.reports) \in Seq(Message) /\ Len(Reports(r.reports)) = Len(r.reports)
  BY <1>1, ReportsAreMessages
<1>3. v \in Seq(Message)
  BY <1>2, ConcatProperties
<1>4. CASE r.reports # <<>>
  BY <1>1, <1>3, <1>4, SpeechArrives
<1>5. CASE r.reports = <<>>
  <2>1. Reports(r.reports) = <<>>
    BY <1>2, <1>5, EmptySeq
  <2>2. v = w
    BY <2>1, ConcatEmptySeq
  <2>. HIDE DEF v
  <2>3. ~q.suppressed /\ UpToDate(w, l, p) => UpToDate(w, l, q)
    BY <1>1, <1>5 DEF UpToDate, Shows
  <2>4. QED
    BY <1>3, <1>5, <2>2, <2>3 DEF v
<1>6. QED
  BY <1>4, <1>5

-----------------------------------------------------------------------------
(* The inductive invariant                                                  *)

Typed ==
  /\ printer \in Resting
  /\ wire \in Seq(Message)
  /\ requests \in Seq(Commands \cup {Stop, Poll})
  /\ latest \in {Status(r) : r \in Body} \cup {Nothing}
  /\ link \in {"up", "down"}
  /\ drops \in Nat
  /\ withheld \in {"never", "now", "once"}

(* Reports go untold only while one is withheld on purpose or there is no   *)
(* connection, and a new connection has not been polled yet.                *)
Excused ==
  /\ printer.suppressed => withheld = "now"
  /\ link = "down" => drops > 0 /\ ~polled

Informed ==
  link = "up" /\ polled /\ withheld # "now" => UpToDate(wire, latest, printer)

Ordered ==
  drops = 0 /\ withheld = "never" =>
    InOrder(wire, latest) /\ (Heard(wire, latest) => UpToDate(wire, latest, printer))

(* A state the trail told last is the state the program was told.           *)
Trailed == prev.state \in States => latest # Nothing /\ latest.state = prev.state

RInv == Typed /\ Excused /\ Informed /\ Ordered /\ Trailed

LEMMA InitialLine == Init => RInv
<1>. SUFFICES ASSUME Init PROVE RInv
  OBVIOUS
<1>1. printer \in Resting /\ ~printer.suppressed
  <2>1. [s \in Slots |-> FullSpool] \in [Slots -> Int]
    BY PrinterAssumption
  <2>2. printer \in Moment
    BY <2>1, InitialMoment DEF Init
  <2>3. printer.state = "IDLE" /\ ~printer.suppressed
    BY DEF Init, InitialPrinter
  <2>4. QED
    BY <2>2, <2>3 DEF Resting
<1>2. Typed
  BY <1>1 DEF Init, Typed
<1>3. Excused /\ Informed
  BY <1>1 DEF Init, Excused, Informed
<1>4. Ordered
  <2>1. ~Heard(wire, latest)
    BY DEF Init, Heard, Places, Says
  <2>2. InOrder(wire, latest)
    BY <2>1 DEF InOrder, Follows, Heard
  <2>3. QED
    BY <2>1, <2>2 DEF Ordered
<1>5. Trailed
  BY DEF Init, Trailed, Nothing, States
<1>6. QED
  BY <1>2, <1>3, <1>4, <1>5 DEF RInv

(* What a handler returns is put on the wire, behind it perhaps the result  *)
(* of a command.                                                            *)
Arrives(msgs) ==
  \/ link = "down" /\ wire' = wire
  \/ link = "up" /\ wire' = wire \o msgs
  \/ link = "up" /\ \E m \in Message : m.kind # "report" /\ wire' = wire \o (msgs \o <<m>>)

LEMMA TellingKeepsTheLine ==
  ASSUME RInv, NEW r, Sincere(printer, r),
         printer' = r.printer, Arrives(Reports(r.reports)),
         UNCHANGED <<link, latest, prev, drops>>,
         requests' \in Seq(Commands \cup {Stop, Poll}),
         withheld' \in {"never", "now", "once"},
         withheld' = "never" => withheld = "never",
         r.printer.suppressed => withheld' = "now",
         withheld = "now" /\ withheld' # "now" => r.reports # <<>>,
         polled' => polled \/ (link = "up" /\ r.reports # <<>>)
  PROVE  RInv'
<1>. DEFINE w == wire
            l == latest
            p == printer
            q == r.printer
            v == w \o Reports(r.reports)
<1>1. w \in Seq(Message) /\ v \in Seq(Message) /\ q \in Resting
  BY SpokenLine DEF RInv, Typed, Sincere
<1>2. /\ r.reports # <<>> => UpToDate(v, l, q)
      /\ ~q.suppressed /\ UpToDate(w, l, p) => UpToDate(v, l, q)
      /\ InOrder(w, l) /\ (Heard(w, l) => UpToDate(w, l, p)) =>
           InOrder(v, l) /\ (~q.suppressed => (Heard(v, l) => UpToDate(v, l, q)))
  BY <1>1, SpokenLine
<1>3. ASSUME link = "up"
      PROVE  /\ wire' \in Seq(Message)
             /\ Heard(wire', l) <=> Heard(v, l)
             /\ UpToDate(v, l, q) => UpToDate(wire', l, q)
             /\ InOrder(v, l) => InOrder(wire', l)
  <2>1. CASE wire' = v
    BY <1>1, <2>1
  <2>2. CASE \E m \in Message : m.kind # "report" /\ wire' = w \o (Reports(r.reports) \o <<m>>)
    <3>1. PICK m \in Message : m.kind # "report" /\ wire' = w \o (Reports(r.reports) \o <<m>>)
      BY <2>2
    <3>2. Reports(r.reports) \in Seq(Message) /\ <<m>> \in Seq(Message)
      BY ReportsAreMessages DEF Sincere, Speech
    <3>3. wire' = v \o <<m>>
      <4>. DEFINE a == Reports(r.reports)
                  b == <<m>>
      <4>. HIDE DEF a, b
      <4>1. w \o (a \o b) = (w \o a) \o b
        BY <1>1, <3>2, ConcatAssociative DEF a, b
      <4>2. QED
        BY <3>1, <4>1 DEF a, b
    <3>4. v \o <<m>> \in Seq(Message)
      BY <1>1, <3>2, ConcatProperties
    <3>. HIDE DEF v
    <3>5. QED
      BY <1>1, <3>1, <3>3, <3>4, SilentMessage
  <2>3. QED
    BY <1>3, <2>1, <2>2 DEF Arrives
<1>4. latest' = l /\ printer' = q
  OBVIOUS
<1>. HIDE DEF v, q
<1>5. Typed'
  BY <1>1, <1>3, <1>4 DEF RInv, Typed, Arrives
<1>6. Excused'
  BY <1>4 DEF RInv, Excused, q
<1>7. ASSUME link' = "up", polled', withheld' # "now"
      PROVE  UpToDate(wire', latest', printer')
  <2>1. link = "up" /\ ~q.suppressed
    BY <1>7 DEF q
  <2>2. UpToDate(v, l, q)
    BY <1>2, <1>7, <2>1 DEF RInv, Informed
  <2>3. QED
    BY <1>3, <1>4, <2>1, <2>2
<1>8. ASSUME drops' = 0, withheld' = "never"
      PROVE  /\ InOrder(wire', latest')
             /\ Heard(wire', latest') => UpToDate(wire', latest', printer')
  <2>1. link = "up" /\ drops = 0 /\ withheld = "never" /\ ~q.suppressed
    BY <1>8 DEF RInv, Excused, Typed, q
  <2>2. InOrder(v, l) /\ (Heard(v, l) => UpToDate(v, l, q))
    BY <1>2, <2>1 DEF RInv, Ordered
  <2>3. QED
    BY <1>3, <1>4, <2>1, <2>2
<1>9. Informed' /\ Ordered'
  BY <1>7, <1>8 DEF Informed, Ordered
<1>10. Trailed'
  BY DEF RInv, Trailed, Nothing
<1>11. QED
  BY <1>5, <1>6, <1>9, <1>10 DEF RInv

-----------------------------------------------------------------------------
(* The steps                                                                *)

LEMMA TellsArrives ==
  ASSUME NEW r, Tells(r), Typed
  PROVE  printer' = r.printer /\ Arrives(Reports(r.reports))
BY DEF Tells, Sends, Typed, Arrives, Reports

(* The command at the head of the queue, of a printer that is connected.    *)
LEMMA CommandsKeepTheLine ==
  ASSUME RInv, HandleCommand
  PROVE  RInv'
<1>. DEFINE cmd == Head(requests)
<1>1. link = "up" /\ cmd \in Commands \cup {Stop, Poll}
      /\ requests' \in Seq(Commands \cup {Stop, Poll})
  BY HeadTailProperties DEF HandleCommand, RInv, Typed
<1>2. UNCHANGED <<link, latest, prev, drops>>
  BY DEF HandleCommand
<1>3. printer \in Resting /\ (printer.suppressed => withheld = "now")
      /\ withheld \in {"never", "now", "once"} /\ Typed
  BY DEF RInv, Typed, Excused
<1>4. CASE cmd.command = "pushall" /\ HandlePushAll
  <2>. DEFINE r == PushAll(printer)
  <2>1. Sincere(printer, r) /\ ~r.printer.suppressed /\ r.reports # <<>>
    BY <1>3, PollIsSincere
  <2>2. printer' = r.printer /\ Arrives(Reports(r.reports)) /\ withheld' = Lifted
    BY <1>3, <1>4, TellsArrives DEF HandlePushAll
  <2>. HIDE DEF r
  <2>3. QED
    BY <1>1, <1>2, <1>3, <2>1, <2>2, TellingKeepsTheLine DEF Lifted
<1>5. CASE cmd.command = "stop" /\ HandleStop
  <2>. DEFINE r == Stopped(printer)
  <2>1. Sincere(printer, r) /\ r.printer.suppressed = printer.suppressed
    BY <1>3, StopIsSincere
  <2>2. Ack("stop", TRUE) \in Message /\ Ack("stop", TRUE).kind # "report"
    BY DEF Ack, Message
  <2>3. /\ printer' = r.printer /\ UNCHANGED <<polled, withheld>>
        /\ wire' = wire \o (Reports(r.reports) \o <<Ack("stop", TRUE)>>)
    BY <1>1, <1>5 DEF HandleStop, Sends, Reports
  <2>. HIDE DEF r
  <2>4. Arrives(Reports(r.reports))
    BY <1>1, <2>2, <2>3 DEF Arrives
  <2>5. QED
    BY <1>1, <1>2, <1>3, <2>1, <2>3, <2>4, TellingKeepsTheLine
<1>6. CASE cmd.command = "project_file" /\ HandleProjectFile(cmd)
  <2>. DEFINE r == ReceiveProjectFile(printer, cmd)
              ack == Ack("project_file", ~Rejected(printer, cmd))
  <2>1. cmd \in Commands
    BY <1>1, <1>6 DEF Stop, Poll
  <2>2. /\ Sincere(printer, r)
        /\ Rejected(printer, cmd) => r.printer = printer
        /\ ~Rejected(printer, cmd) => ~r.printer.suppressed /\ r.reports # <<>>
    BY <1>3, <2>1, ProjectFileIsSincere
  <2>3. ack \in Message /\ ack.kind # "report"
    BY DEF Ack, Message
  <2>4. /\ printer' = r.printer /\ UNCHANGED polled
        /\ withheld' = IF Rejected(printer, cmd) THEN withheld ELSE Lifted
        /\ wire' = wire \o (Reports(r.reports) \o <<ack>>)
    BY <1>1, <1>6 DEF HandleProjectFile, Sends, Reports
  <2>. HIDE DEF r, ack, cmd
  <2>5. Arrives(Reports(r.reports))
    BY <1>1, <2>3, <2>4 DEF Arrives
  <2>6. QED
    BY <1>1, <1>2, <1>3, <2>2, <2>4, <2>5, TellingKeepsTheLine DEF Lifted
<1>7. QED
  BY <1>4, <1>5, <1>6 DEF HandleCommand

(* The printer's own steps and those of the control API.                    *)
LEMMA PrinterKeepsTheLine ==
  ASSUME RInv,
         Tick \/ ControlFinish \/ ControlFail \/ ControlReset \/ ControlAms \/ ControlFaultNow
  PROVE  RInv'
<1>1. printer \in Resting /\ (printer.suppressed => withheld = "now")
      /\ withheld \in {"never", "now", "once"} /\ requests \in Seq(Commands \cup {Stop, Poll})
      /\ Typed
  BY DEF RInv, Typed, Excused
<1>2. UNCHANGED <<link, latest, prev, drops, requests, polled>>
  BY DEF Tick, ControlFinish, ControlFail, ControlReset, ControlAms, ControlFaultNow, Elsewhere
<1>3. ASSUME NEW r, Tells(r), Sincere(printer, r),
             \/ MayWithhold
             \/ withheld' = Lifted /\ ~r.printer.suppressed /\ r.reports # <<>>
             \/ UNCHANGED withheld /\ r.printer.suppressed = printer.suppressed
      PROVE  RInv'
  <2>1. printer' = r.printer /\ Arrives(Reports(r.reports))
    BY <1>1, <1>3, TellsArrives
  <2>2. /\ withheld' \in {"never", "now", "once"}
        /\ withheld' = "never" => withheld = "never"
        /\ r.printer.suppressed => withheld' = "now"
        /\ withheld = "now" /\ withheld' # "now" => r.reports # <<>>
    BY <1>1, <1>3, <2>1 DEF MayWithhold, Lifted
  <2>3. QED
    BY <1>1, <1>2, <1>3, <2>1, <2>2, TellingKeepsTheLine
<1>4. CASE Tick
  BY <1>1, <1>3, <1>4, TickIsSincere DEF Tick
<1>5. CASE ControlFinish
  BY <1>1, <1>3, <1>5, ForcedFinishIsSincere DEF ControlFinish
<1>6. CASE ControlFail
  BY <1>1, <1>3, <1>6, FailIsSincere DEF ControlFail
<1>7. CASE ControlReset
  BY <1>1, <1>3, <1>7, ResetIsSincere DEF ControlReset
<1>8. CASE ControlAms
  BY <1>1, <1>3, <1>8, AmsIsSincere DEF ControlAms
<1>9. CASE ControlFaultNow
  BY <1>1, <1>3, <1>9, FaultIsSincere DEF ControlFaultNow
<1>10. QED
  BY <1>4, <1>5, <1>6, <1>7, <1>8, <1>9

LEMMA SilentStepsKeepTheLine ==
  ASSUME RInv, ControlMinutes \/ ControlFaultLater
  PROVE  RInv'
<1>1. printer \in Resting
  BY DEF RInv, Typed
<1>2. printer' \in Resting /\ Shows(printer, printer') /\ printer'.suppressed = printer.suppressed
  <2>1. CASE ControlMinutes
    BY <1>1, <2>1, MinutesAreSilent DEF ControlMinutes
  <2>2. CASE ControlFaultLater
    <3>1. PICK f \in Faults : printer' = [printer EXCEPT !.fault = f]
      BY <2>2 DEF ControlFaultLater
    <3>2. QED
      BY <1>1, <3>1, WaitingFaultIsSilent
  <2>3. QED
    BY <2>1, <2>2
<1>3. UNCHANGED <<link, requests, wire, latest, prev, drops, polled, withheld>>
  BY DEF ControlMinutes, ControlFaultLater, Elsewhere
<1>4. UpToDate(wire, latest, printer) => UpToDate(wire, latest, printer')
  BY <1>2 DEF UpToDate, Shows
<1>5. Typed' /\ Excused' /\ Trailed'
  BY <1>2, <1>3 DEF RInv, Typed, Excused, Trailed, Nothing
<1>6. Informed' /\ Ordered'
  BY <1>3, <1>4 DEF RInv, Informed, Ordered
<1>7. QED
  BY <1>5, <1>6 DEF RInv

LEMMA DiagnosisKeepsTheLine ==
  ASSUME RInv, Diagnose
  PROVE  RInv'
<1>1. printer \in Resting /\ (printer.suppressed => withheld = "now")
      /\ withheld \in {"never", "now", "once"} /\ requests \in Seq(Commands \cup {Stop, Poll})
      /\ Typed
  BY DEF RInv, Typed, Excused
<1>2. UNCHANGED <<link, latest, prev, drops, requests, polled>>
  BY DEF Diagnose
<1>3. CASE UNCHANGED <<printer, wire, withheld>>
  BY <1>2, <1>3 DEF RInv, Typed, Excused, Informed, Ordered, Trailed, Nothing
<1>4. CASE Tells(PushAll(printer)) /\ withheld' = Lifted
  <2>. DEFINE r == PushAll(printer)
  <2>1. Sincere(printer, r) /\ ~r.printer.suppressed /\ r.reports # <<>>
    BY <1>1, PollIsSincere
  <2>2. printer' = r.printer /\ Arrives(Reports(r.reports))
    BY <1>1, <1>4, TellsArrives
  <2>. HIDE DEF r
  <2>3. QED
    BY <1>1, <1>2, <1>4, <2>1, <2>2, TellingKeepsTheLine DEF Lifted
<1>5. QED
  BY <1>3, <1>4 DEF Diagnose

(* A part of a report is a message that says nothing of the state.          *)
LEMMA DeltaKeepsTheLine ==
  ASSUME RInv, Delta
  PROVE  RInv'
<1>. DEFINE m == [kind |-> "delta", body |-> BuildReport(printer).remain]
<1>1. m \in Message /\ m.kind # "report"
  <2>1. BuildReport(printer) \in Body
    BY ReportShows DEF RInv, Typed, Resting
  <2>2. QED
    BY <2>1 DEF Message
<1>2. wire \in Seq(Message) /\ wire' = wire \o <<m>>
  BY DEF Delta, Sends, RInv, Typed
<1>3. UNCHANGED <<printer, link, requests, latest, prev, drops, polled, withheld>>
  BY DEF Delta
<1>. HIDE DEF m
<1>4. wire' \in Seq(Message)
  BY <1>1, <1>2, ConcatProperties
<1>5. /\ Heard(wire', latest) <=> Heard(wire, latest)
      /\ UpToDate(wire, latest, printer) => UpToDate(wire', latest, printer)
      /\ InOrder(wire, latest) => InOrder(wire', latest)
  BY <1>1, <1>2, SilentMessage
<1>6. Typed' /\ Excused' /\ Trailed'
  BY <1>3, <1>4 DEF RInv, Typed, Excused, Trailed, Nothing
<1>7. Informed' /\ Ordered'
  BY <1>3, <1>5 DEF RInv, Informed, Ordered
<1>8. QED
  BY <1>6, <1>7 DEF RInv

LEMMA MessageKeepsTheLine ==
  ASSUME RInv, OnMessage
  PROVE  RInv'
<1>. DEFINE m == Head(wire)
<1>1. /\ wire \in Seq(Message) /\ wire # <<>>
      /\ m \in Message /\ wire' \in Seq(Message) /\ wire' = Tail(wire)
  BY HeadTailProperties DEF OnMessage, RInv, Typed
<1>2. UNCHANGED <<printer, link, requests, drops, polled, withheld>>
  BY DEF OnMessage
<1>3. /\ latest' = IF m.kind = "report" THEN Status(m.body) ELSE latest
      /\ prev' = IF m.kind = "ack" \/ SameSnapshot(prev, Summary(m)) THEN prev ELSE Summary(m)
  BY DEF OnMessage
<1>4. /\ Heard(wire', latest') => Heard(wire, latest)
      /\ UpToDate(wire, latest, printer) => UpToDate(wire', latest', printer)
      /\ InOrder(wire, latest) => InOrder(wire', latest')
  BY <1>1, <1>3, TheLineMovesUp
<1>. HIDE DEF m
<1>5. m.kind = "report" => m.body \in Body
  BY <1>1 DEF Message
<1>6. Typed' /\ Excused'
  BY <1>1, <1>2, <1>3, <1>5 DEF RInv, Typed, Excused
<1>7. Informed' /\ Ordered'
  BY <1>2, <1>4 DEF RInv, Informed, Ordered
<1>8. Trailed'
  <2>1. CASE m.kind = "report"
    <3>1. Summary(m).state = m.body.state
      BY <2>1 DEF Summary, IsDelta
    <3>2. latest' # Nothing /\ latest'.state = m.body.state
      BY <1>3, <1>5, <2>1, BodyStates
    <3>3. prev'.state = m.body.state
      BY <1>3, <2>1, <3>1 DEF SameSnapshot
    <3>4. QED
      BY <3>2, <3>3 DEF Trailed, Nothing
  <2>2. CASE m.kind # "report"
    <3>1. m.kind \in {"ack", "delta"}
      BY <1>1, <2>2 DEF Message
    <3>2. latest' = latest
      BY <1>3, <2>2
    <3>3. prev' = prev \/ prev'.state = NoState
      BY <1>3, <3>1 DEF Summary, IsDelta
    <3>4. NoState \notin States
      BY Zenon DEF NoState, States
    <3>5. QED
      BY <3>2, <3>3, <3>4 DEF RInv, Trailed, Nothing
  <2>3. QED
    BY <2>1, <2>2
<1>9. QED
  BY <1>6, <1>7, <1>8 DEF RInv

LEMMA LineIsKept == RInv /\ [Next]_vars => RInv'
<1>. SUFFICES ASSUME RInv, [Next]_vars PROVE RInv'
  OBVIOUS
<1>1. CASE Send
  <2>1. PICK cmd \in Commands \cup {Stop} : requests' = Append(requests, cmd)
    BY <1>1 DEF Send
  <2>2. requests' \in Seq(Commands \cup {Stop, Poll})
    BY <2>1, AppendProperties DEF RInv, Typed
  <2>3. UNCHANGED <<printer, link, wire, latest, prev, drops, polled, withheld>>
    BY <1>1 DEF Send
  <2>4. QED
    BY <2>2, <2>3 DEF RInv, Typed, Excused, Informed, Ordered, Trailed, Nothing
<1>2. CASE Drop
  <2>1. /\ drops' = drops + 1 /\ link' = "down" /\ requests' = <<>> /\ wire' = <<>>
        /\ ~polled' /\ UNCHANGED <<printer, latest, prev, withheld>>
    BY <1>2 DEF Drop
  <2>2. Typed'
    BY <2>1, EmptySeq DEF RInv, Typed
  <2>3. Excused' /\ Informed' /\ Ordered'
    BY <2>1 DEF RInv, Typed, Excused, Informed, Ordered
  <2>4. QED
    BY <2>1, <2>2, <2>3 DEF RInv, Trailed, Nothing
<1>3. CASE Reconnect
  <2>1. /\ link = "down" /\ link' = "up" /\ requests' = Append(requests, Poll)
        /\ UNCHANGED <<printer, wire, latest, prev, drops, polled, withheld>>
    BY <1>3 DEF Reconnect
  <2>2. requests' \in Seq(Commands \cup {Stop, Poll})
    BY <2>1, AppendProperties DEF RInv, Typed
  <2>3. ~polled
    BY <2>1 DEF RInv, Excused
  <2>4. QED
    BY <2>1, <2>2, <2>3 DEF RInv, Typed, Excused, Informed, Ordered, Trailed, Nothing
<1>4. CASE UNCHANGED vars
  BY <1>4 DEF vars, RInv, Typed, Excused, Informed, Ordered, Trailed, Nothing
<1>5. QED
  BY <1>1, <1>2, <1>3, <1>4, CommandsKeepTheLine, PrinterKeepsTheLine, SilentStepsKeepTheLine,
     DiagnosisKeepsTheLine, DeltaKeepsTheLine, MessageKeepsTheLine
  DEF Next

-----------------------------------------------------------------------------
(* What the client can rely on                                              *)

LEMMA LineIsInvariant == Spec => []RInv
<1>1. Init => RInv
  BY InitialLine
<1>2. RInv /\ [Next]_vars => RInv'
  BY LineIsKept
<1>3. QED
  BY <1>1, <1>2, PTL DEF Spec

(* mqtt-client.ts, INV-RESYNC-02: whatever calls, faults, lost connections  *)
(* and diagnostics there were, a client that has polled and taken all that  *)
(* was sent knows the printer's state, unless a FINISH is withheld.         *)
THEOREM ClientIsUpToDate == Spec => []ClientCatchesUp
<1>1. RInv => ClientCatchesUp
  <2>1. SUFFICES ASSUME RInv, link = "up", polled, wire = <<>>, withheld # "now"
                 PROVE  Shows(latest, printer)
    BY DEF ClientCatchesUp, Shows
  <2>2. PICK i \in Places(wire) : Newest(wire, latest, i) /\ Shows(Said(wire, latest, i), printer)
    BY <2>1 DEF RInv, Informed, UpToDate
  <2>3. i = 0
    BY <2>1 DEF Places
  <2>4. QED
    BY <2>2, <2>3 DEF Said
<1>2. QED
  BY <1>1, LineIsInvariant, PTL

(* The monitor acts on edges of the status: when no connection was lost and *)
(* nothing withheld, no report the client takes skips a state of a print.   *)
THEOREM EdgesAreAlwaysSeen == Spec => EdgesAreSeen
<1>1. ASSUME RInv, [Next]_vars, latest' # latest,
             drops = 0, withheld = "never", latest # Nothing, latest'.state # latest.state
      PROVE  Edge(latest, latest')
  <2>. DEFINE m == Head(wire)
  <2>1. OnMessage
    BY <1>1
    DEF Next, vars, HandleCommand, Tick, ControlFinish, ControlFail, ControlReset, ControlAms,
        ControlMinutes, ControlFaultNow, ControlFaultLater, Elsewhere, Send, Drop, Reconnect, Delta,
        Diagnose
  <2>2. /\ wire \in Seq(Message) /\ wire # <<>> /\ m = wire[1] /\ m \in Message
        /\ Len(wire) \in Nat \ {0}
    BY <1>1, <2>1, HeadTailProperties, EmptySeq DEF OnMessage, RInv, Typed
  <2>3. m.kind = "report" /\ latest' = Status(m.body)
    BY <1>1, <2>1 DEF OnMessage
  <2>. HIDE DEF m
  <2>4. m.body \in Body
    BY <2>2, <2>3 DEF Message
  <2>5. 0 \in Places(wire) /\ 1 \in Places(wire) /\ Follows(wire, latest, 0, 1)
    BY <1>1, <2>2, <2>3 DEF Places, Follows, Says
  <2>6. Flows(latest, m.body)
    BY <1>1, <2>2, <2>5 DEF RInv, Ordered, InOrder, Said
  <2>7. Flows(latest, latest')
    BY <2>3, <2>4, <2>6, BodyStates, FlowIsOfTheState
  <2>8. QED
    BY <1>1, <2>7 DEF Flows
<1>2. RInv /\ [Next]_vars =>
        [ drops = 0 /\ withheld = "never" /\ latest # Nothing /\ latest'.state # latest.state
            => Edge(latest, latest') ]_latest
  BY <1>1
<1>3. QED
  BY <1>2, LineIsInvariant, PTL DEF Spec, EdgesAreSeen

(* state-log.ts: no state the rest of the program is told is missing from   *)
(* the trail, whatever partial reports and duplicates come between.         *)
THEOREM TrailIsComplete == Spec => TrailTellsStates
<1>1. ASSUME RInv, [Next]_vars, latest' # latest,
             ~(latest # Nothing /\ latest'.state = latest.state)
      PROVE  prev' # prev /\ prev'.state = latest'.state
  <2>. DEFINE m == Head(wire)
  <2>1. OnMessage
    BY <1>1
    DEF Next, vars, HandleCommand, Tick, ControlFinish, ControlFail, ControlReset, ControlAms,
        ControlMinutes, ControlFaultNow, ControlFaultLater, Elsewhere, Send, Drop, Reconnect, Delta,
        Diagnose
  <2>2. m \in Message
    BY <1>1, <2>1, HeadTailProperties DEF OnMessage, RInv, Typed
  <2>3. /\ m.kind = "report" /\ latest' = Status(m.body)
        /\ prev' = IF SameSnapshot(prev, Summary(m)) THEN prev ELSE Summary(m)
    BY <1>1, <2>1 DEF OnMessage
  <2>. HIDE DEF m
  <2>4. m.body \in Body /\ Summary(m).state = m.body.state
    BY <2>2, <2>3 DEF Message, Summary, IsDelta
  <2>5. latest'.state = m.body.state /\ m.body.state \in States
    BY <2>3, <2>4, BodyStates
  <2>6. prev'.state = m.body.state
    BY <2>3, <2>4 DEF SameSnapshot
  <2>7. prev.state # m.body.state
    BY <1>1, <2>5 DEF RInv, Trailed
  <2>8. QED
    BY <2>5, <2>6, <2>7
<1>2. RInv /\ [Next]_vars =>
        [ latest' # latest =>
            \/ latest # Nothing /\ latest'.state = latest.state
            \/ prev' # prev /\ prev'.state = latest'.state ]_latest
  BY <1>1
<1>3. QED
  BY <1>2, LineIsInvariant, PTL DEF Spec, TrailTellsStates

=============================================================================
