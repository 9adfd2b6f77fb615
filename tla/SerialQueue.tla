----------------------------- MODULE SerialQueue ----------------------------
(***************************************************************************)
(* What runSerialized promises its callers (ftps-session.ts): calls run    *)
(* one at a time in the order they were made, whatever becomes of each,    *)
(* and a call that waits is served.                                        *)
(***************************************************************************)
EXTENDS Sequences

CONSTANTS
  Calls,
  None     \* not a call: nobody runs

VARIABLES
  waiting,   \* calls not begun, in order of arrival
  holder     \* the call that runs

vars == <<waiting, holder>>

Init == waiting = <<>> /\ holder = None

Join(c) ==
  /\ waiting' = Append(waiting, c)
  /\ UNCHANGED holder

Begin ==
  /\ holder = None
  /\ waiting # <<>>
  /\ holder' = Head(waiting)
  /\ waiting' = Tail(waiting)

End ==
  /\ holder # None
  /\ holder' = None
  /\ UNCHANGED waiting

(* A call that cannot even be started fails in its turn.                    *)
Fail ==
  /\ holder = None
  /\ waiting # <<>>
  /\ waiting' = Tail(waiting)
  /\ UNCHANGED holder

Next ==
  \/ \E c \in Calls : Join(c)
  \/ Begin \/ End \/ Fail

Spec == Init /\ [][Next]_vars

Serve == Begin \/ End \/ Fail

FairSpec == Spec /\ WF_vars(Serve)

=============================================================================
