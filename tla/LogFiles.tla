------------------------------ MODULE LogFiles ------------------------------
(***************************************************************************)
(* obs/sinks.ts (RotatingFileSink), obs/log-reader.ts and, as a writer of  *)
(* one record per report, orchestrator/report-recorder.ts.                 *)
(*                                                                         *)
(* A day's file is a sequence of halves of lines: the second half ends in  *)
(* the newline.  A process that dies while it appends leaves the first     *)
(* half only, and the next line is then written behind it.                 *)
(***************************************************************************)
EXTENDS Integers, SequencesExt, FiniteSetsExt

CONSTANTS RetentionDays,   \* of the sink; zero keeps every file
          MaxBytes,        \* halves read from the end of a file
          MaxFiles         \* files a tail may spill across

ASSUME LogAssumption == RetentionDays \in Nat /\ MaxBytes \in Nat \ {0} /\ MaxFiles \in Nat \ {0}

Halves(id) == << [id |-> id, ends |-> FALSE], [id |-> id, ends |-> TRUE] >>

NewSink == [files |-> [d \in {} |-> <<>>], currentDate |-> 0]

\* prune: the files of days before the window.
Expired(day, today) == RetentionDays > 0 /\ day < today - RetentionDays

Prune(files, today) == [d \in {e \in DOMAIN files : ~Expired(e, today)} |-> files[d]]

\* write, after a restart (fresh) or not, whole or cut short (torn).
WriteLine(sink, w) ==
  LET known == IF w.fresh THEN 0 ELSE sink.currentDate
      files == IF w.day # known THEN Prune(sink.files, w.day) ELSE sink.files
      old   == IF w.day \in DOMAIN files THEN files[w.day] ELSE <<>>
      new   == old \o (IF w.torn THEN SubSeq(Halves(w.id), 1, 1) ELSE Halves(w.id))
  IN [files |-> [d \in DOMAIN files \cup {w.day} |-> IF d = w.day THEN new ELSE files[d]],
      currentDate |-> w.day]

Written(writes) == FoldLeft(WriteLine, NewSink, writes)
-----------------------------------------------------------------------------
\* datedFiles, newest first.
DatedFiles(files) == SetToSortSeq(DOMAIN files, >)

\* Mutant: the head the window cuts is read as if a line began there.
UncutWindow(file) == LET start == Max({0, Len(file) - MaxBytes}) IN
  [i \in 1..(Len(file) - start) |->
     IF i = 1 /\ file[start + 1].ends THEN [file[start + 1] EXCEPT !.ends = FALSE] ELSE file[start + i]]

\* The window on the end of a file; one that starts inside the file loses
\* everything up to its first newline.
Window(file) ==
  LET start == Max({0, Len(file) - MaxBytes})
      text  == SubSeq(file, start + 1, Len(file))
      nl    == {i \in DOMAIN text : text[i].ends}
  IN IF start = 0 THEN text
     ELSE IF nl = {} THEN <<>> ELSE SubSeq(text, Min(nl) + 1, Len(text))

\* readTailFile: the lines that parse, which are the two halves of one record.
ReadTailFile(file) ==
  LET text  == Window(file)
      begins(i) == i = 1 \/ text[i - 1].ends
      whole(i)  == begins(i) /\ i < Len(text) /\ text[i + 1].ends /\ text[i + 1].id = text[i].id
      at    == SetToSortSeq({i \in DOMAIN text : whole(i)}, <)
  IN [n \in DOMAIN at |-> text[at[n]].id]

\* readLogTail: at most `limit' records, newest first, from the newest file on.
ReadLogTail(files, limit) ==
  LET dated  == DatedFiles(files)
      newest == SubSeq(dated, 1, Min({Len(dated), MaxFiles}))
      Spill(out, day) ==
        LET recs == Reverse(ReadTailFile(files[day]))
        IN out \o SubSeq(recs, 1, Min({Len(recs), limit - Len(out)}))
  IN FoldLeft(Spill, <<>>, newest)
-----------------------------------------------------------------------------
(***************************************************************************)
(* The reference: which records of a history can be read at all.           *)
(***************************************************************************)
\* Was the line before this one in the same file, still there, cut short?
Glued(writes, n) ==
  LET before == {i \in 1..(n - 1) : writes[i].day = writes[n].day}
  IN before # {} /\ writes[Max(before)].torn

Readable(writes) ==
  LET today == writes[Len(writes)].day
  IN {n \in DOMAIN writes : /\ ~writes[n].torn
                            /\ ~Glued(writes, n)
                            /\ ~Expired(writes[n].day, today)}
=============================================================================
