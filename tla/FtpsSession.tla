---------------------------- MODULE FtpsSession -----------------------------
(***************************************************************************)
(* Every file transfer and probe the orchestrator makes: ftps-session.ts,  *)
(* ftps-curl.ts, ftps-client.ts and the FTPS half of diagnostics.ts, over  *)
(* a printer with one session slot that speaks as FtpsServer does.         *)
(*                                                                         *)
(* A call is an upload by curl, the session of checkFtps, or a session     *)
(* under withFtpsRetry; each takes its turn in the promise chain of        *)
(* runSerialized, talks to the printer command by command, and settles.    *)
(***************************************************************************)
EXTENDS FtpsServer, FiniteSets

CONSTANTS
  Calls,       \* calls made of this module
  Kind,        \* "curl", "session" or "retry"
  Attempts,    \* opts.retries
  Settings,    \* access codes, protection levels and file sizes, see Setting
  MaxFaults,   \* bound: lost connections, stuck transfers, failed spawns, aborts
  MaxWedges,   \* bound: how often the printer's server wedges
  Free, Abandoned, Wedged, Probe   \* states of the slot beside the call that has it

ASSUME CallsAssumption ==
  /\ IsFiniteSet(Calls)
  /\ Kind \in [Calls -> {"curl", "session", "retry"}]
  /\ Calls \intersect {Free, Abandoned, Wedged, Probe} = {}
  /\ Abandoned \notin {Free, Wedged, Probe} /\ Wedged \notin {Free, Probe} /\ Free # Probe

(* Is the configured access code the printer's, which protection levels it  *)
(* grants, and the length of the uploaded file in chunks.                   *)
Setting == [codeOk : BOOLEAN, prots : SUBSET {"P", "C"}, size : Nat]

ASSUME BoundsAssumption ==
  Attempts \in Nat \ {0} /\ Settings \subseteq Setting /\ MaxFaults \in Nat /\ MaxWedges \in Nat

VARIABLES
  phase,        \* where the call's continuation is suspended
  queue,        \* the chain of runSerialized: calls not settled, oldest first
  step,         \* commands of the call's script already answered
  sent,         \* payload chunks written to curl's stdin
  codes,        \* replies on their way to the client
  error,        \* what the body threw, until the goodbye is said
  refused,      \* consecutiveRefused of withFtpsRetry
  tries,        \* how each attempt ended
  outcome,      \* what the promise settled to
  aborted,      \* calls whose AbortSignal has fired
  credentials,  \* calls whose curl config file is on disk
  conn,         \* the server's side of each call's control connection
  slot,         \* who has the printer's one session
  stored,       \* chunks of the file the server says it has, by call
  silent,       \* calls whose connection delivers nothing any more
  rawProbe,     \* tcpReachable on the FTPS port: "no", "open", "over"
  setting,      \* which of Settings this is
  faults, wedges

client == <<phase, queue, step, sent, error, refused, tries, outcome, aborted, credentials>>
wire == <<codes, conn, slot, stored>>
world == <<silent, rawProbe, setting, faults, wedges>>
vars == <<client, wire, world>>

-----------------------------------------------------------------------------

Phases == {"idle", "queued", "talking", "sending", "quitting", "sleeping", "settled"}
Errors == {"refused", "timeout", "hard"}
Outcomes == {"pending", "ok", "wedged", "aborted"} \cup Errors

Running == {"talking", "sending", "quitting"}

(* access() and then the body, in commands.  checkFtps asks for PROT C only *)
(* when P was refused; curl stores one file.                                *)
Script(c) ==
  IF Kind[c] = "curl"
  THEN <<"USER", "PASS", "PBSZ", "PROT_P", "PASV", "STOR">>
  ELSE <<"USER", "PASS", "PBSZ", "PROT_P", "PROT_P", "PROT_C">>

(* Replies below 400 are positive; basic-ftp's access ignores what PBSZ and *)
(* PROT answer, probeProt reads the code either way, curl takes neither.    *)
Positive(code) == code < 400
Tolerated(c, cmd) == Kind[c] # "curl" /\ cmd \in {"PBSZ", "PROT_P", "PROT_C"}

(* Nothing more to say: probeProt stops at the level that is granted.       *)
BodyOver(c, n, code) ==
  /\ Kind[c] # "curl"
  /\ n = 6 \/ (n = 5 /\ Positive(code))

Waits(c) == codes[c] = <<>>

Spend == faults < MaxFaults /\ faults' = faults + 1

-----------------------------------------------------------------------------

Init ==
  /\ phase = [c \in Calls |-> "idle"]
  /\ queue = <<>>
  /\ step = [c \in Calls |-> 0]
  /\ sent = [c \in Calls |-> 0]
  /\ codes = [c \in Calls |-> <<>>]
  /\ error = [c \in Calls |-> "none"]
  /\ refused = [c \in Calls |-> 0]
  /\ tries = [c \in Calls |-> <<>>]
  /\ outcome = [c \in Calls |-> "pending"]
  /\ aborted = {}
  /\ credentials = {}
  /\ conn = [c \in Calls |-> Gone]
  /\ slot = Free
  /\ stored = [c \in Calls |-> 0]
  /\ silent = {}
  /\ rawProbe = "no"
  /\ setting \in Settings
  /\ faults = 0
  /\ wedges = 0

-----------------------------------------------------------------------------
(* runSerialized: the chain                                                 *)

(* Mutant: the newest call is served first.                                 *)
EnqueueInFront(c) ==
  /\ queue' = IF queue = <<>> THEN <<c>> ELSE <<Head(queue), c>> \o Tail(queue)
  /\ phase' = [phase EXCEPT ![c] = "queued"]

Enqueue(c) ==
  /\ queue' = Append(queue, c)
  /\ phase' = [phase EXCEPT ![c] = "queued"]

(* uploadViaCurl, withFtpsSession, withFtpsRetry: a caller joins the chain. *)
Request(c) ==
  /\ phase[c] = "idle"
  /\ Enqueue(c)
  /\ UNCHANGED <<step, sent, error, refused, tries, outcome, aborted, credentials, wire, world>>

(* Mutant: a call starts when it is made, as with no chain at all.          *)
AnyTurn(c) == phase[c] = "queued"

(* The predecessor has settled.                                             *)
MyTurn(c) == phase[c] = "queued" /\ queue # <<>> /\ Head(queue) = c

(* The call at the head of the chain has settled.                           *)
Leave == queue' = Tail(queue)

(* Mutant: two refusals need not follow each other.                         *)
RefusalsKept(c, err) == IF err = "refused" THEN refused[c] + 1 ELSE refused[c]

Refusals(c, err) == IF err = "refused" THEN refused[c] + 1 ELSE 0

Transient(err) == err \in {"refused", "timeout"}

(* done(): the directory is removed however the call ends.                  *)
DropCredentials(c) == credentials \ {c}

(* The attempt ends with err ("none" for success): the next in the chain    *)
(* may go on, and withFtpsRetry judges the error.                           *)
Ends(c, err) ==
  /\ Leave
  /\ step' = [step EXCEPT ![c] = 0]
  /\ error' = [error EXCEPT ![c] = "none"]
  /\ tries' = [tries EXCEPT ![c] = Append(@, err)]
  /\ refused' = [refused EXCEPT ![c] = Refusals(c, err)]
  /\ credentials' = DropCredentials(c)
  /\ LET settle(out) == /\ phase' = [phase EXCEPT ![c] = "settled"]
                        /\ outcome' = [outcome EXCEPT ![c] = out]
     IN  \/ err = "none" /\ settle("ok")
         \/ err # "none" /\ Kind[c] # "retry" /\ settle(err)
         \/ /\ err # "none" /\ Kind[c] = "retry"
            /\ \/ Refusals(c, err) >= 2 /\ settle("wedged")
               \/ /\ Refusals(c, err) < 2
                  /\ \/ Len(tries[c]) + 1 >= Attempts \/ ~Transient(err)
                     /\ settle(err)
               \/ /\ Refusals(c, err) < 2
                  /\ Len(tries[c]) + 1 < Attempts /\ Transient(err)
                  /\ phase' = [phase EXCEPT ![c] = "sleeping"]
                  /\ UNCHANGED outcome

(* retryDelayMs has passed: back to the end of the chain.                   *)
Wake(c) ==
  /\ phase[c] = "sleeping"
  /\ Enqueue(c)
  /\ UNCHANGED <<step, sent, error, refused, tries, outcome, aborted, credentials, wire, world>>

-----------------------------------------------------------------------------
(* Connecting                                                               *)

(* runCurl writes the config file before it spawns curl.                    *)
Connect(c) ==
  /\ MyTurn(c)
  /\ c \notin aborted
  /\ slot = Free
  /\ slot' = c
  /\ conn' = [conn EXCEPT ![c] = Accepted]
  /\ phase' = [phase EXCEPT ![c] = "talking"]
  /\ credentials' = IF Kind[c] = "curl" THEN credentials \cup {c} ELSE credentials
  /\ UNCHANGED <<queue, step, sent, codes, error, refused, tries, outcome, aborted, stored, world>>

(* An occupied slot times the connection out or refuses it; a wedged server *)
(* refuses.  curl's stderr says which, basic-ftp's message too.             *)
ConnectFails(c) ==
  /\ MyTurn(c)
  /\ c \notin aborted
  /\ slot # Free
  /\ \E err \in {"refused", "timeout"} :
       /\ slot = Wedged => err = "refused"
       /\ Ends(c, err)
  /\ UNCHANGED <<sent, aborted, wire, world>>

(* The curl binary is missing: spawn throws or emits 'error'.               *)
SpawnFails(c) ==
  /\ MyTurn(c)
  /\ Kind[c] = "curl"
  /\ c \notin aborted
  /\ Spend
  /\ Ends(c, "hard")
  /\ UNCHANGED <<sent, aborted, wire, silent, rawProbe, setting, wedges>>

-----------------------------------------------------------------------------
(* The dialogue                                                             *)

(* Mutant: the goodbye is only said when the body succeeded.                *)
NoGoodbye(c) ==
  /\ slot' = Abandoned
  /\ conn' = [conn EXCEPT ![c] = Gone]
  /\ codes' = [codes EXCEPT ![c] = <<>>]
  /\ Ends(c, error[c])

(* openAndRun's finally, as long as the control connection is alive: QUIT,  *)
(* its reply (or the error it is caught with), close.                       *)
Goodbye(c) ==
  /\ slot' = Free
  /\ conn' = [conn EXCEPT ![c] = Gone]
  /\ codes' = [codes EXCEPT ![c] = <<>>]
  /\ Ends(c, error[c])

Unsaid(c) == conn[c].lines = <<>> /\ Waits(c)

(* The next command of the script.                                          *)
Say(c) ==
  /\ phase[c] = "talking"
  /\ Unsaid(c)
  /\ conn' = [conn EXCEPT ![c] = Received(@, Script(c)[step[c] + 1])]
  /\ UNCHANGED <<client, codes, slot, stored, world>>

SayQuit(c) ==
  /\ phase[c] = "quitting"
  /\ conn[c].open
  /\ Unsaid(c)
  /\ conn' = [conn EXCEPT ![c] = Received(@, "QUIT")]
  /\ UNCHANGED <<client, codes, slot, stored, world>>

(* The server's pump.                                                       *)
Serve(c) ==
  /\ MayDispatch(conn[c])
  /\ LET cmd == Head(conn[c].lines)
     IN  /\ codes' = [codes EXCEPT ![c] = Append(@, Answer(conn[c], cmd, setting.codeOk, setting.prots))]
         /\ conn' = [conn EXCEPT ![c] = Dispatched(@, cmd, setting.codeOk, setting.prots)]
  /\ UNCHANGED <<client, slot, stored, world>>

(* A reply is read: on with the script, on to the data, or the body is over.*)
Hear(c) ==
  /\ phase[c] = "talking"
  /\ codes[c] # <<>>
  /\ LET code == Head(codes[c])
         n == step[c] + 1
         cmd == Script(c)[n]
     IN  /\ codes' = [codes EXCEPT ![c] = Tail(@)]
         /\ step' = [step EXCEPT ![c] = n]
         /\ \/ /\ ~Positive(code) /\ ~Tolerated(c, cmd)
               /\ phase' = [phase EXCEPT ![c] = "quitting"]
               /\ error' = [error EXCEPT ![c] = "hard"]
               /\ UNCHANGED sent
            \/ /\ Positive(code) \/ Tolerated(c, cmd)
               /\ UNCHANGED error
               /\ \/ /\ code = 150
                     /\ phase' = [phase EXCEPT ![c] = "sending"]
                     /\ sent' = [sent EXCEPT ![c] = 0]
                  \/ /\ BodyOver(c, n, code)
                     /\ phase' = [phase EXCEPT ![c] = "quitting"]
                     /\ UNCHANGED sent
                  \/ /\ code # 150 /\ ~BodyOver(c, n, code)
                     /\ UNCHANGED <<phase, sent>>
  /\ UNCHANGED <<queue, refused, tries, outcome, aborted, credentials, conn, slot, stored, world>>

(* The goodbye was answered.                                                *)
HearGoodbye(c) ==
  /\ phase[c] = "quitting"
  /\ ~conn[c].open
  /\ codes[c] # <<>>
  /\ Goodbye(c)
  /\ UNCHANGED <<sent, aborted, stored, world>>

-----------------------------------------------------------------------------
(* The transfer                                                             *)

OpenData(c) ==
  /\ phase[c] = "sending"
  /\ conn[c].data = "expected"
  /\ conn' = [conn EXCEPT ![c] = DataConnected(@)]
  /\ UNCHANGED <<client, codes, slot, stored, world>>

(* pump: the next chunk goes to curl's stdin and from there to the server.  *)
Pump(c) ==
  /\ phase[c] = "sending"
  /\ conn[c].data = "connected"
  /\ ~StorSettles(conn[c])
  /\ sent[c] < setting.size
  /\ sent' = [sent EXCEPT ![c] = @ + 1]
  /\ conn' = [conn EXCEPT ![c] = ChunkReceived(@)]
  /\ UNCHANGED <<phase, queue, step, error, refused, tries, outcome, aborted, credentials,
                 codes, slot, stored, world>>

(* stdin.end() after the last chunk: curl closes the data channel.          *)
EndData(c) ==
  /\ phase[c] = "sending"
  /\ conn[c].data = "connected"
  /\ ~StorSettles(conn[c])
  /\ sent[c] = setting.size
  /\ conn' = [conn EXCEPT ![c] = DataEnded(@)]
  /\ UNCHANGED <<client, codes, slot, stored, world>>

(* receiveTo resolved or rejected; the listener is closed in the finally.   *)
Settle(c) ==
  /\ StorSettles(conn[c])
  /\ codes' = [codes EXCEPT ![c] = Append(@, StorCode(conn[c]))]
  /\ stored' = IF StorCode(conn[c]) = 226
               THEN [stored EXCEPT ![c] = conn[c].received]
               ELSE stored
  /\ conn' = [conn EXCEPT ![c] = StorOver(@)]
  /\ UNCHANGED <<client, slot, world>>

(* 226 or not: curl says goodbye and exits with 0 or with an error.         *)
HearTransfer(c) ==
  /\ phase[c] = "sending"
  /\ codes[c] # <<>>
  /\ codes' = [codes EXCEPT ![c] = Tail(@)]
  /\ phase' = [phase EXCEPT ![c] = "quitting"]
  /\ error' = [error EXCEPT ![c] = IF Head(codes[c]) = 226 THEN "none" ELSE "hard"]
  /\ UNCHANGED <<queue, step, sent, refused, tries, outcome, aborted, credentials,
                 conn, slot, stored, world>>

-----------------------------------------------------------------------------
(* What goes wrong                                                          *)

(* The control connection is gone without a QUIT: the printer holds on to   *)
(* the session, and a file that was being received counts as complete with  *)
(* what had come (its data channel ended like any other).                   *)
Breaks(c) ==
  /\ slot' = Abandoned
  /\ conn' = [conn EXCEPT ![c] = Gone]
  /\ codes' = [codes EXCEPT ![c] = <<>>]
  /\ stored' = IF conn[c].storing /\ conn[c].data = "connected"
               THEN [stored EXCEPT ![c] = conn[c].received]
               ELSE stored

(* The peer vanishes or a transfer stalls: nobody is told.                  *)
Silence(c) ==
  /\ phase[c] \in Running
  /\ c \notin silent
  /\ Spend
  /\ silent' = silent \cup {c}
  /\ UNCHANGED <<client, wire, rawProbe, setting, wedges>>

(* What the body makes of a timeout: probeProt reports it as "none", and    *)
(* when it was the goodbye that stalled the result of the body stands.      *)
TimeoutSeen(c) ==
  CASE phase[c] = "quitting" -> error[c]
    [] phase[c] = "talking" /\ Kind[c] = "session" /\ step[c] >= 4 -> "none"
    [] OTHER -> "timeout"

(* basic-ftp's timeout closes the client; curl's stall guard and ceiling    *)
(* end the process.  No goodbye is said on a closed connection.             *)
TimesOut(c) ==
  /\ phase[c] \in Running
  /\ c \in silent
  /\ silent' = silent \ {c}
  /\ Breaks(c)
  /\ Ends(c, TimeoutSeen(c))
  /\ UNCHANGED <<sent, aborted, rawProbe, setting, faults, wedges>>

(* AbortSignal: curl is killed and the promise rejected in the same turn.   *)
Abort(c) ==
  /\ Kind[c] = "curl"
  /\ phase[c] \in Running
  /\ Spend
  /\ Breaks(c)
  /\ silent' = silent \ {c}
  /\ aborted' = aborted \cup {c}
  /\ Leave
  /\ phase' = [phase EXCEPT ![c] = "settled"]
  /\ outcome' = [outcome EXCEPT ![c] = "aborted"]
  /\ tries' = [tries EXCEPT ![c] = Append(@, "hard")]
  /\ credentials' = DropCredentials(c)
  /\ UNCHANGED <<step, sent, error, refused, rawProbe, setting, wedges>>

AbortEarly(c) ==
  /\ Kind[c] = "curl"
  /\ phase[c] = "queued"
  /\ c \notin aborted
  /\ Spend
  /\ aborted' = aborted \cup {c}
  /\ UNCHANGED <<phase, queue, step, sent, error, refused, tries, outcome, credentials,
                 wire, silent, rawProbe, setting, wedges>>

(* runCurl finds the signal already fired: killed before it says anything.  *)
AbortedInTurn(c) ==
  /\ MyTurn(c)
  /\ c \in aborted
  /\ Leave
  /\ phase' = [phase EXCEPT ![c] = "settled"]
  /\ outcome' = [outcome EXCEPT ![c] = "aborted"]
  /\ tries' = [tries EXCEPT ![c] = Append(@, "hard")]
  /\ UNCHANGED <<step, sent, error, refused, aborted, credentials, wire, world>>

-----------------------------------------------------------------------------
(* The printer and the raw probe (external: the A1's single slot)           *)

(* It notices a dead session after a minute or two.                         *)
Expire ==
  /\ slot = Abandoned
  /\ slot' = Free
  /\ UNCHANGED <<client, codes, conn, stored, world>>

(* Its server may settle into refusing until the printer is restarted.      *)
Wedge ==
  /\ slot = Abandoned
  /\ wedges < MaxWedges
  /\ slot' = Wedged
  /\ wedges' = wedges + 1
  /\ UNCHANGED <<client, codes, conn, stored, silent, rawProbe, setting, faults>>

Reboot ==
  /\ slot = Wedged
  /\ slot' = Free
  /\ UNCHANGED <<client, codes, conn, stored, world>>

(* runDiagnostics also opens a bare TCP connection to the FTPS port, beside *)
(* the chain, and destroys it once it is connected.                         *)
ProbePort ==
  /\ rawProbe = "no"
  /\ \E c \in Calls : Kind[c] = "session" /\ phase[c] \notin {"idle", "settled"}
  /\ \/ slot = Free /\ slot' = Probe /\ rawProbe' = "open"
     \/ slot # Free /\ UNCHANGED slot /\ rawProbe' = "over"
  /\ UNCHANGED <<client, codes, conn, stored, silent, setting, faults, wedges>>

ProbeCloses ==
  /\ rawProbe = "open"
  /\ rawProbe' = "over"
  /\ slot' \in {Free, Abandoned}
  /\ UNCHANGED <<client, codes, conn, stored, silent, setting, faults, wedges>>

-----------------------------------------------------------------------------

(* Calls whose connection still delivers.                                   *)
Heard == Calls \ silent

Next ==
  \/ \E c \in Calls : Request(c)
  \/ \E c \in Calls : Wake(c)
  \/ \E c \in Calls : Connect(c)
  \/ \E c \in Calls : ConnectFails(c)
  \/ \E c \in Calls : SpawnFails(c)
  \/ \E c \in Heard : Say(c)
  \/ \E c \in Heard : SayQuit(c)
  \/ \E c \in Heard : Serve(c)
  \/ \E c \in Heard : Hear(c)
  \/ \E c \in Heard : HearGoodbye(c)
  \/ \E c \in Heard : OpenData(c)
  \/ \E c \in Heard : Pump(c)
  \/ \E c \in Heard : EndData(c)
  \/ \E c \in Heard : Settle(c)
  \/ \E c \in Heard : HearTransfer(c)
  \/ \E c \in Calls : Silence(c)
  \/ \E c \in Calls : TimesOut(c)
  \/ \E c \in Calls : Abort(c)
  \/ \E c \in Calls : AbortEarly(c)
  \/ \E c \in Calls : AbortedInTurn(c)
  \/ Expire \/ Wedge \/ Reboot
  \/ ProbePort \/ ProbeCloses

Spec == Init /\ [][Next]_vars

(* The printer answers what it is asked while the connection delivers, and  *)
(* every wait has a timer: the retry delay, basic-ftp's timeout, curl's     *)
(* stall guard and ceiling.  Nobody has to reboot the printer.              *)
Progress(c) ==
  \/ Wake(c) \/ Connect(c) \/ ConnectFails(c) \/ AbortedInTurn(c) \/ TimesOut(c)
  \/ /\ c \in Heard
     /\ \/ Say(c) \/ SayQuit(c) \/ Serve(c) \/ Hear(c) \/ HearGoodbye(c)
        \/ OpenData(c) \/ Pump(c) \/ EndData(c) \/ Settle(c) \/ HearTransfer(c)

FairSpec == Spec /\ \A c \in Calls : WF_vars(Progress(c))

-----------------------------------------------------------------------------
(* Properties                                                               *)

(* ftps-session.ts:30, "at most one printer FTPS interaction at a time":    *)
(* while one call talks to the printer no other does or may begin to,       *)
(* whichever fails, stalls or is aborted; a connection is only ever turned  *)
(* away because of what happened outside the orchestrator.                  *)
Interacts(c) == phase[c] \in Running \/ MyTurn(c)

OneInteraction == \A c, d \in Calls : Interacts(c) /\ Interacts(d) => c = d

(* ftps-session.ts:17: a session that ends, well or badly, gives the        *)
(* printer's slot back at once; only a connection that died, a killed curl  *)
(* or the bare TCP probe leaves it occupied.                                *)
SlotIsReturned == slot = Abandoned => faults > 0 \/ rawProbe # "no"

(* withFtpsRetry: "wedged" means the last two attempts were refused and no  *)
(* two before them, other errors that the attempts are used up or the last  *)
(* one was not worth retrying; and without a retry there is one attempt.    *)
RefusedTwice(s, i) == i > 1 /\ s[i] = "refused" /\ s[i - 1] = "refused"

RetriesAreJudged ==
  \A c \in Calls : phase[c] = "settled" =>
    LET n == Len(tries[c])
    IN  /\ Kind[c] # "retry" => n = 1
        /\ Kind[c] = "retry" =>
             /\ \A i \in 1..(n - 1) : Transient(tries[c][i]) /\ ~RefusedTwice(tries[c], i)
             /\ outcome[c] = "wedged" <=> RefusedTwice(tries[c], n)
             /\ outcome[c] = "ok" <=> tries[c][n] = "none"
             /\ outcome[c] \in {"refused", "timeout"} => n = Attempts

(* ftps-curl.ts:112: an upload that resolves is on the printer, all of it,  *)
(* although a connection that breaks leaves a part behind that the server   *)
(* takes for a file.                                                        *)
ResolvedMeansStored ==
  \A c \in Calls : Kind[c] = "curl" /\ outcome[c] = "ok" =>
    stored[c] = setting.size /\ setting.size <= MaxChunks

(* ftps-curl.ts:20: the file with the access code is on disk only while its *)
(* curl runs.                                                               *)
SecretsAreUnlinked == \A c \in credentials : phase[c] \in Running

(* What a settled call reports is what happened: the judgement fits its     *)
(* attempts, and a file that was sent is there.                             *)
OutcomesAreTrue == RetriesAreJudged /\ ResolvedMeansStored

(* However a call ends, the printer's slot and the disk are left as they    *)
(* were found.                                                              *)
LeavesNothingBehind == SlotIsReturned /\ SecretsAreUnlinked

Holder ==
  IF queue # <<>> /\ phase[Head(queue)] \in Running THEN Head(queue) ELSE Free

(* The chain of promises is a first-come-first-served queue that serves     *)
(* everybody: each predecessor settles, and its failure is not the failure  *)
(* of the next.                                                             *)
Chain == INSTANCE SerialQueue WITH
  None <- Free,
  waiting <- IF Holder = Free THEN queue ELSE Tail(queue),
  holder <- Holder

ServesInOrder == Chain!FairSpec

=============================================================================
