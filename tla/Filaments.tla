----------------------------- MODULE Filaments ------------------------------
(***************************************************************************)
(* core/color.ts, ams.ts, ams-mapping.ts, runout.ts and the decision part  *)
(* of filament-service.ts.                                                 *)
(*                                                                         *)
(* A notation of a colour is its digits, as numbers: case and a leading    *)
(* '#' are gone as normalizeColor removes them.  Any other word is Named.  *)
(***************************************************************************)
EXTENDS Integers, SequencesExt, FiniteSetsExt

CONSTANT Null

Digits(ds) == [hex |-> TRUE, ds |-> ds]
Named(word) == [hex |-> FALSE, ds |-> <<word>>]

\* Three digits are doubled, the alpha of eight is dropped, and what is no
\* colour is compared as the word it is.
NormalizeColor(raw) ==
  LET n == Len(raw.ds)
  IN CASE raw.hex /\ n = 3 -> Digits([i \in 1..6 |-> raw.ds[(i + 1) \div 2]])
       [] raw.hex /\ n = 8 -> Digits(SubSeq(raw.ds, 1, 6))
       [] OTHER -> raw

\* Mutant: notations are compared as they are written.
SameNotation(a, b) == a = b

SameColor(a, b) == NormalizeColor(a) = NormalizeColor(b)

\* Every filament asked for is loaded in the slot it is asked for in.
AmsMatches(required, loaded) ==
  \A r \in required : \E t \in loaded :
    t.slot = r.slot /\ SameColor(t.color, r.color) /\ t.type = r.type

EMPTY_AMS_MAPPING == <<-1, -1, -1, -1>>

IsValidAmsMapping(v) == Len(v) = 4 /\ Range(v) \subseteq -1..3

\* What is printed with for a stored mapping; Null stands for the exception a
\* stored mapping that is none raises.  NoMapping: the column is null.
NoMapping == <<>>

ParseAmsMapping(stored) ==
  IF stored = NoMapping THEN EMPTY_AMS_MAPPING
  ELSE IF IsValidAmsMapping(stored) THEN stored ELSE Null

Pending(reason) == [kind |-> "pending", reason |-> reason, toSlot |-> Null, substituted |-> Null]
Switch(tray, substituted) ==
  [kind |-> "switch", reason |-> Null, toSlot |-> tray.slot, substituted |-> substituted]

\* resolveRunout: trays is the sequence the AMS reports.  Tier 1 takes the first
\* tray of the same type and colour, tier 2 the fullest of the type.
ResolveRunout(policy, runoutSlot, trays, minThresholdG) ==
  LET emptied == SelectSeq(trays, LAMBDA t : t.slot = runoutSlot)
      runout  == emptied[1]
      candidates == SelectSeq(trays, LAMBDA t : /\ t.slot # runoutSlot
                                                /\ t.remaining_g > minThresholdG
                                                /\ t.type = runout.type)
      matches == IF policy = "same_color_only"
                 THEN SelectSeq(candidates, LAMBDA t : SameColor(t.color, runout.color))
                 ELSE SortSeq(candidates, LAMBDA a, b : a.remaining_g > b.remaining_g)
  IN CASE policy = "manual" -> Pending("manual_policy")
       [] policy # "manual" /\ (emptied = <<>> \/ matches = <<>>) -> Pending("no_candidate")
       [] OTHER -> Switch(matches[1],
                          IF SameColor(matches[1].color, runout.color) THEN Null ELSE matches[1].color)

\* effectivePolicy: the job's override, else the setting; what is neither of the
\* two automatic policies is manual.
EffectivePolicy(override, setting) ==
  LET v == IF override # Null THEN override ELSE setting
  IN IF v \in {"same_color_only", "allow_material_match"} THEN v ELSE "manual"

\* onRunout: what is asked of the printer, recorded on the job and told.
OnRunout(override, setting, runoutSlot, trays, minThresholdG) ==
  LET r == ResolveRunout(EffectivePolicy(override, setting), runoutSlot, trays, minThresholdG)
  IN IF r.kind = "pending"
     THEN [resumed |-> Null, recorded |-> Null, pending |-> TRUE, told |-> "pending_action"]
     ELSE [resumed |-> r.toSlot, recorded |-> r.substituted, pending |-> FALSE,
           told |-> "filament_switched"]
-----------------------------------------------------------------------------
(***************************************************************************)
(* The reference: a colour is six digits, and these are its notations.     *)
(***************************************************************************)
NotationsOf(c, alphas) ==
  {Digits(c)} \cup {Digits(c \o a) : a \in alphas}
  \cup (IF \A i \in {1, 3, 5} : c[i] = c[i + 1] THEN {Digits(<<c[1], c[3], c[5]>>)} ELSE {})
=============================================================================
