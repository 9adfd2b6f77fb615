----------------------------- MODULE FtpsServer -----------------------------
(***************************************************************************)
(* The stub's FTPS server (src/src/stub/ftps-server.ts): what one control  *)
(* connection keeps, what each command changes and what it answers.        *)
(* Payloads are counted in chunks; the first-byte sniff decides only which *)
(* kind of socket carries them and is left out.                            *)
(***************************************************************************)
EXTENDS Naturals, Sequences

CONSTANTS
  MaxChunks   \* MAX_UPLOAD_BYTES, in chunks

ASSUME CapAssumption == MaxChunks \in Nat

Commands == {"USER", "PASS", "PBSZ", "PROT_P", "PROT_C", "PASV", "STOR", "QUIT"}

(* data: no listener was asked for, a client is awaited, it has connected,  *)
(* it has sent FIN.  storing: dispatch is suspended in handleStor.          *)
Connections ==
  [open : BOOLEAN, user : BOOLEAN, authed : BOOLEAN, prot : {"P", "C"},
   listener : BOOLEAN, data : {"none", "expected", "connected", "ended"},
   lines : Seq(Commands), storing : BOOLEAN, received : 0..(MaxChunks + 1)]

(* handleControl: the state of a fresh connection ...                       *)
Accepted ==
  [open |-> TRUE, user |-> FALSE, authed |-> FALSE, prot |-> "C",
   listener |-> FALSE, data |-> "none", lines |-> <<>>, storing |-> FALSE, received |-> 0]

(* ... and what cleanup leaves when the control connection closes.          *)
Gone == [Accepted EXCEPT !.open = FALSE]

(* The pump takes the next line unless dispatch is suspended.               *)
MayDispatch(s) == s.open /\ s.lines # <<>> /\ ~s.storing

Received(s, cmd) == [s EXCEPT !.lines = Append(@, cmd)]

(* handleStor up to its await: it is refused before login and before PASV.  *)
StorAccepted(s) == s.authed /\ s.data # "none"

(* dispatch: the reply code; codeOk is whether PASS carried the access code *)
(* and prots the protection levels this server grants.                      *)
Answer(s, cmd, codeOk, prots) ==
  CASE cmd = "USER" -> 331
    [] cmd = "PASS" -> IF s.user /\ codeOk THEN 230 ELSE 530
    [] cmd = "PBSZ" -> 200
    [] cmd = "PROT_P" -> IF "P" \in prots THEN 200 ELSE 536
    [] cmd = "PROT_C" -> IF "C" \in prots THEN 200 ELSE 536
    [] cmd = "PASV" -> 227
    [] cmd = "STOR" /\ ~s.authed -> 530
    [] cmd = "STOR" /\ s.authed /\ s.data = "none" -> 425
    [] cmd = "STOR" /\ StorAccepted(s) -> 150
    [] cmd = "QUIT" -> 221

(* openPassive replaces the listener and the promise of its socket.         *)
OpenPassive(s) == [s EXCEPT !.listener = TRUE, !.data = "expected", !.received = 0]

(* dispatch: the state after the command.                                   *)
Dispatched(s, cmd, codeOk, prots) ==
  LET t == [s EXCEPT !.lines = Tail(@)]
  IN  CASE cmd = "USER" -> [t EXCEPT !.user = TRUE]
        [] cmd = "PASS" -> [t EXCEPT !.authed = s.user /\ codeOk]
        [] cmd = "PROT_P" /\ "P" \in prots -> [t EXCEPT !.prot = "P"]
        [] cmd = "PROT_C" /\ "C" \in prots -> [t EXCEPT !.prot = "C"]
        [] cmd = "PASV" -> OpenPassive(t)
        [] cmd = "STOR" -> [t EXCEPT !.storing = StorAccepted(s)]
        [] cmd = "QUIT" -> Gone
        [] OTHER -> t

DataConnected(s) == [s EXCEPT !.data = "connected"]

(* receiveTo: a chunk arrives.                                              *)
ChunkReceived(s) == [s EXCEPT !.received = @ + 1]

OverCap(s) == s.received > MaxChunks

DataEnded(s) == [s EXCEPT !.data = "ended"]

(* receiveTo settles: at FIN with what has arrived, or past the cap.        *)
StorSettles(s) == s.storing /\ (s.data = "ended" \/ OverCap(s))

StorCode(s) == IF OverCap(s) THEN 550 ELSE 226

(* handleStor's finally: listener and socket are let go.                    *)
StorOver(s) == [s EXCEPT !.storing = FALSE, !.listener = FALSE, !.data = "none"]

=============================================================================
