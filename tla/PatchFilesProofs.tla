--------------------------- MODULE PatchFilesProofs ---------------------------
(***************************************************************************)
(* Theorems about PatchFiles, for any texts and file objects, any number   *)
(* of edits, crashes and restore points, on either kind of build.          *)
(*                                                                         *)
(* They are about a workspace with one session: with two of them the calls *)
(* share the temporary file and FileWhole does not hold.                   *)
(***************************************************************************)
EXTENDS PatchFiles, TLAPS

\* What a call is about to leave, and what it found.
CallOK(w) ==
    /\ pc[w] # "unlink" => job[w].to \in Texts
    /\ pc[w] = "unlink" => job[w].to = Absent
    /\ job[w].found \in States
    /\ pc[w] = "remove" => windows

\* The temporary file is never the file itself, holds nothing a reader may see
\* until its text is complete, and holds that text when it is renamed.
TmpOK(w) ==
    /\ tmp # NoObject => tmp # path
    /\ pc[w] = "write" => tmp # NoObject /\ job[w].handle = tmp /\ data[tmp] = Partial
    /\ pc[w] \in {"remove", "rename"} => tmp # NoObject /\ data[tmp] = job[w].to

FileOK == path # NoObject => data[path] \in Texts

\* A call that was not disturbed still finds what it found first, and has saved it.
PointOK(w) ==
    /\ w \notin disturbed /\ pc[w] # "idle" /\ (pc[w] = "rename" => ~windows)
         => job[w].found = Target
    /\ w \notin disturbed /\ pc[w] \in {"check", "create", "write", "remove", "rename"} /\ ~job[w].undo
         => [session |-> w, original |-> job[w].found, applied |-> job[w].to] \in points

FileInv(w) == CallOK(w) /\ TmpOK(w) /\ FileOK /\ PointOK(w) /\ UndoRecorded
PatchInv(w) == TypeOK /\ FileInv(w)

-----------------------------------------------------------------------------
LEMMA TargetWhole ==
  ASSUME TypeOK, FileOK
  PROVE  Target \in States /\ Target # Partial /\ Reads(Target) \in Texts
  BY TextAssumption DEF TypeOK, FileOK, Target, Content, States, Reads

LEMMA NoJobOK == NoJob \in Job /\ NoJob.to \in Texts /\ NoJob.found \in States
  BY TextAssumption DEF NoJob, Job, States

LEMMA PatchInit ==
  ASSUME NEW w, Workers = {w}, Init
  PROVE  PatchInv(w)
  <1>1. TypeOK
    BY NoJobOK DEF Init, TypeOK, Labels
  <1>2. CallOK(w) /\ TmpOK(w) /\ FileOK /\ PointOK(w)
    BY NoJobOK DEF Init, CallOK, TmpOK, FileOK, PointOK
  <1>3. UndoRecorded
    BY DEF Init, UndoRecorded
  <1> QED
    BY <1>1, <1>2, <1>3 DEF PatchInv, FileInv

-----------------------------------------------------------------------------
\* A call that ends in an error leaves the invariant alone, whatever it had done
\* to the temporary file.
LEMMA FailStep ==
  ASSUME NEW w, Workers = {w}, PatchInv(w), Fail(w),
         UNCHANGED <<windows, path, data>>, tmp' \in {tmp, NoObject}
  PROVE  PatchInv(w)'
  <1> USE NoJobOK DEF Fail, Finish, Go, PatchInv, FileInv
  <1>1. TypeOK'
    BY DEF TypeOK, Labels
  <1>2. pc'[w] = "idle" /\ job'[w] = NoJob
    BY DEF TypeOK
  <1>3. CallOK(w)' /\ TmpOK(w)' /\ FileOK' /\ PointOK(w)'
    BY <1>2 DEF CallOK, TmpOK, FileOK, PointOK
  <1>4. UndoRecorded'
    BY DEF UndoRecorded
  <1> QED
    BY <1>1, <1>3, <1>4

LEMMA PreviewStep ==
  ASSUME NEW w, Workers = {w}, PatchInv(w), Preview(w)
  PROVE  PatchInv(w)'
  <1>1. PICK old \in Texts, new \in Texts :
          \/ /\ Reads(Target) = old
             /\ Go(w, "record")
             /\ job' = [job EXCEPT ![w] = [undo |-> FALSE, from |-> old, to |-> new,
                                           found |-> Target, handle |-> NoObject]]
             /\ disturbed' = disturbed \ {w}
             /\ UNCHANGED <<points, result, edits, crashes, written>>
          \/ Reads(Target) # old /\ Fail(w)
    BY DEF Preview
  <1>2. UNCHANGED <<windows, path, tmp, data>>
    BY DEF Preview
  <1>3. CASE Fail(w)
    BY <1>2, <1>3, FailStep
  <1>4. CASE ~Fail(w)
    <2> DEFINE J == [undo |-> FALSE, from |-> old, to |-> new, found |-> Target, handle |-> NoObject]
    <2>1. Target \in States /\ Target' = Target
      BY <1>2, TargetWhole DEF PatchInv, FileInv, Target, Content
    <2>2. J \in Job
      BY <2>1 DEF Job, States
    <2>3. pc' = [pc EXCEPT ![w] = "record"] /\ job' = [job EXCEPT ![w] = J]
      BY <1>1, <1>4 DEF Go
    <2>4. pc'[w] = "record" /\ job'[w] = J
      BY <2>3 DEF PatchInv, TypeOK
    <2>5. TypeOK'
      BY <1>1, <1>2, <1>4, <2>2, <2>3 DEF PatchInv, TypeOK, Labels
    <2>6. CallOK(w)'
      BY <2>1, <2>4 DEF CallOK
    <2>7. TmpOK(w)' /\ FileOK'
      BY <1>2, <2>4 DEF TmpOK, FileOK, PatchInv, FileInv
    <2>8. PointOK(w)'
      BY <2>1, <2>4 DEF PointOK
    <2>9. UndoRecorded'
      BY <1>1, <1>4 DEF UndoRecorded, PatchInv, FileInv
    <2> QED
      BY <2>5, <2>6, <2>7, <2>8, <2>9 DEF PatchInv, FileInv
  <1> QED
    BY <1>3, <1>4

LEMMA RollbackStep ==
  ASSUME NEW w, Workers = {w}, PatchInv(w), Rollback(w)
  PROVE  PatchInv(w)'
  <1>1. PICK p \in points :
         \/ /\ Reads(Target) = p.applied
            /\ Go(w, IF p.original = Absent THEN "unlink" ELSE "create")
            /\ job' = [job EXCEPT ![w] = [undo |-> TRUE, from |-> p.applied, to |-> p.original,
                                          found |-> Target, handle |-> NoObject]]
            /\ disturbed' = disturbed \ {w}
            /\ UNCHANGED <<points, result, edits, crashes, written>>
         \/ Reads(Target) # p.applied /\ Fail(w)
    BY DEF Rollback
  <1>2. UNCHANGED <<windows, path, tmp, data>>
    BY DEF Rollback
  <1>3. CASE Fail(w)
    BY <1>2, <1>3, FailStep
  <1>4. CASE ~Fail(w)
    <2> DEFINE J == [undo |-> TRUE, from |-> p.applied, to |-> p.original, found |-> Target, handle |-> NoObject]
               label == IF p.original = Absent THEN "unlink" ELSE "create"
    <2>1. Target \in States /\ Target' = Target
      BY <1>2, TargetWhole DEF PatchInv, FileInv, Target, Content
    <2>2. p \in Point /\ p.applied \in Texts /\ p.original \in States
      BY DEF PatchInv, TypeOK, Point
    <2>3. J \in Job
      BY <2>1, <2>2 DEF Job, States
    <2>4. pc' = [pc EXCEPT ![w] = label] /\ job' = [job EXCEPT ![w] = J]
      BY <1>1, <1>4 DEF Go
    <2>5. pc'[w] = label /\ job'[w] = J
      BY <2>4 DEF PatchInv, TypeOK
    <2>6. TypeOK'
      BY <1>1, <1>2, <1>4, <2>3, <2>4 DEF PatchInv, TypeOK, Labels
    <2>7. CallOK(w)'
      BY <2>1, <2>2, <2>5 DEF CallOK, States
    <2>8. TmpOK(w)' /\ FileOK'
      BY <1>2, <2>5 DEF TmpOK, FileOK, PatchInv, FileInv
    <2>9. PointOK(w)'
      BY <2>1, <2>5 DEF PointOK
    <2>10. UndoRecorded'
      BY <1>1, <1>4 DEF UndoRecorded, PatchInv, FileInv
    <2> QED
      BY <2>6, <2>7, <2>8, <2>9, <2>10 DEF PatchInv, FileInv
  <1> QED
    BY <1>3, <1>4
LEMMA RecordStep ==
  ASSUME NEW w, Workers = {w}, PatchInv(w), Record(w)
  PROVE  PatchInv(w)'
  <1>1. UNCHANGED <<windows, path, tmp, data>> /\ pc[w] = "record"
    BY DEF Record
  <1>2. CASE Fail(w)
    BY <1>1, <1>2, FailStep
  <1>3. CASE ~Fail(w)
    <2> DEFINE new == [session |-> w, original |-> job[w].found, applied |-> job[w].to]
    <2>1. /\ points' = points \cup {new}
          /\ pc' = [pc EXCEPT ![w] = "check"]
          /\ UNCHANGED <<job, result, edits, crashes, disturbed, written>>
      BY <1>3 DEF Record, Go
    <2>2. pc'[w] = "check"
      BY <2>1 DEF PatchInv, TypeOK
    <2>3. new \in Point
      BY <1>1 DEF PatchInv, FileInv, CallOK, Point
    <2>4. TypeOK'
      BY <1>1, <2>1, <2>3 DEF PatchInv, TypeOK, Labels
    <2>5. CallOK(w)' /\ TmpOK(w)' /\ FileOK'
      BY <1>1, <2>1, <2>2 DEF PatchInv, FileInv, CallOK, TmpOK, FileOK
    <2>6. PointOK(w)'
      BY <1>1, <2>1, <2>2 DEF PatchInv, FileInv, PointOK, Target, Content
    <2>7. UndoRecorded'
      BY <2>1 DEF PatchInv, FileInv, UndoRecorded
    <2> QED
      BY <2>4, <2>5, <2>6, <2>7 DEF PatchInv, FileInv
  <1> QED
    BY <1>2, <1>3

LEMMA CheckStep ==
  ASSUME NEW w, Workers = {w}, PatchInv(w), Check(w)
  PROVE  PatchInv(w)'
  <1>1. UNCHANGED <<windows, path, tmp, data>> /\ pc[w] = "check"
    BY DEF Check
  <1>2. CASE Fail(w)
    BY <1>1, <1>2, FailStep
  <1>3. CASE ~Fail(w)
    <2>1. /\ pc' = [pc EXCEPT ![w] = "create"]
          /\ UNCHANGED <<points, job, result, edits, crashes, disturbed, written>>
      BY <1>3 DEF Check, Go
    <2>2. pc'[w] = "create"
      BY <2>1 DEF PatchInv, TypeOK
    <2>3. TypeOK'
      BY <1>1, <2>1 DEF PatchInv, TypeOK, Labels
    <2>4. CallOK(w)' /\ TmpOK(w)' /\ FileOK'
      BY <1>1, <2>1, <2>2 DEF PatchInv, FileInv, CallOK, TmpOK, FileOK
    <2>5. PointOK(w)'
      BY <1>1, <2>1, <2>2 DEF PatchInv, FileInv, PointOK, Target, Content
    <2>6. UndoRecorded'
      BY <2>1 DEF PatchInv, FileInv, UndoRecorded
    <2> QED
      BY <2>3, <2>4, <2>5, <2>6 DEF PatchInv, FileInv
  <1> QED
    BY <1>2, <1>3

LEMMA CreateStep ==
  ASSUME NEW w, Workers = {w}, PatchInv(w), Create(w)
  PROVE  PatchInv(w)'
  <1>1. UNCHANGED <<windows, path>> /\ pc[w] = "create"
    BY DEF Create
  <1>2. CASE Fail(w) /\ UNCHANGED <<tmp, data>>
    BY <1>1, <1>2, FailStep
  <1>3. CASE ~(Fail(w) /\ UNCHANGED <<tmp, data>>)
    <2>1. PICK o \in (IF tmp = NoObject THEN Free ELSE {tmp}) :
            /\ tmp' = o
            /\ data' = [data EXCEPT ![o] = Partial]
            /\ job' = [job EXCEPT ![w].handle = o]
            /\ pc' = [pc EXCEPT ![w] = "write"]
            /\ UNCHANGED <<points, result, edits, crashes, disturbed, written>>
      BY <1>3 DEF Create, Go
    <2>2. o \in Objects /\ o # path /\ o # NoObject
      BY ObjectAssumption DEF Free, PatchInv, FileInv, TmpOK, TypeOK
    <2>3. /\ pc'[w] = "write" /\ job'[w].handle = o
          /\ job'[w].to = job[w].to /\ job'[w].found = job[w].found /\ job'[w].undo = job[w].undo
          /\ job'[w] \in Job
      BY <2>1, <2>2 DEF PatchInv, TypeOK, Job
    <2>4. Target' = Target
      BY <1>1, <2>1, <2>2 DEF Target, Content, PatchInv, TypeOK
    <2>5. TypeOK'
      BY <1>1, <2>1, <2>2, <2>3 DEF PatchInv, TypeOK, Labels
    <2>6. CallOK(w)'
      BY <1>1, <2>3 DEF PatchInv, FileInv, CallOK
    <2>7. TmpOK(w)'
      BY <1>1, <2>1, <2>2, <2>3 DEF PatchInv, TypeOK, TmpOK
    <2>8. FileOK'
      BY <1>1, <2>1, <2>2 DEF PatchInv, FileInv, FileOK, TypeOK
    <2>9. PointOK(w)'
      BY <1>1, <2>1, <2>3, <2>4 DEF PatchInv, FileInv, PointOK
    <2>10. UndoRecorded'
      BY <2>1 DEF PatchInv, FileInv, UndoRecorded
    <2> QED
      BY <2>5, <2>6, <2>7, <2>8, <2>9, <2>10 DEF PatchInv, FileInv
  <1> QED
    BY <1>2, <1>3

LEMMA WriteStep ==
  ASSUME NEW w, Workers = {w}, PatchInv(w), WriteText(w)
  PROVE  PatchInv(w)'
  <1>1. UNCHANGED <<windows, path, tmp>> /\ pc[w] = "write"
    BY DEF WriteText
  <1>2. CASE Fail(w) /\ UNCHANGED data
    BY <1>1, <1>2, FailStep
  <1>3. CASE ~(Fail(w) /\ UNCHANGED data)
    <2> DEFINE label == IF windows THEN "remove" ELSE "rename"
    <2>1. job[w].handle = tmp /\ tmp \in Objects /\ tmp # path /\ data[tmp] = Partial /\ job[w].to \in Texts
      BY <1>1 DEF PatchInv, FileInv, TmpOK, CallOK, TypeOK
    <2>2. /\ data' = [data EXCEPT ![tmp] = job[w].to]
          /\ pc' = [pc EXCEPT ![w] = label]
          /\ UNCHANGED <<points, job, result, edits, crashes, disturbed, written>>
      BY <1>3, <2>1 DEF WriteText, Mixtures, Go
    <2>3. pc'[w] = label /\ data'[tmp] = job[w].to
      BY <2>1, <2>2 DEF PatchInv, TypeOK
    <2>4. Target' = Target
      BY <1>1, <2>1, <2>2 DEF Target, Content, PatchInv, TypeOK
    <2>5. TypeOK'
      BY <1>1, <2>1, <2>2 DEF PatchInv, TypeOK, Labels
    <2>6. CallOK(w)'
      BY <1>1, <2>2, <2>3 DEF PatchInv, FileInv, CallOK
    <2>7. TmpOK(w)'
      BY <1>1, <2>1, <2>2, <2>3 DEF PatchInv, FileInv, TmpOK
    <2>8. FileOK'
      BY <1>1, <2>1, <2>2 DEF PatchInv, FileInv, FileOK, TypeOK
    <2>9. PointOK(w)'
      BY <1>1, <2>2, <2>3, <2>4 DEF PatchInv, FileInv, PointOK
    <2>10. UndoRecorded'
      BY <2>2 DEF PatchInv, FileInv, UndoRecorded
    <2> QED
      BY <2>5, <2>6, <2>7, <2>8, <2>9, <2>10 DEF PatchInv, FileInv
  <1> QED
    BY <1>2, <1>3

\* The text on the way out is complete: with the file gone for a moment on Windows
\* the temporary file has it.
LEMMA RemoveStep ==
  ASSUME NEW w, Workers = {w}, PatchInv(w), RemoveTarget(w)
  PROVE  PatchInv(w)'
  <1>1. UNCHANGED <<windows, tmp, data>> /\ pc[w] = "remove"
    BY DEF RemoveTarget
  <1>2. CASE Fail(w) /\ UNCHANGED path
    BY <1>1, <1>2, FailStep
  <1>3. CASE ~(Fail(w) /\ UNCHANGED path)
    <2>1. /\ path' = NoObject
          /\ pc' = [pc EXCEPT ![w] = "rename"]
          /\ job' = [job EXCEPT ![w].found = Target]
          /\ UNCHANGED <<points, result, edits, crashes, written>>
          /\ Disturb(w)
      BY <1>3 DEF RemoveTarget, Go
    <2>2. disturbed' = disturbed
      BY <2>1 DEF Disturb
    <2>3. Target \in States
      BY TargetWhole DEF PatchInv, FileInv
    <2>4. /\ pc'[w] = "rename" /\ job'[w].found = Target
          /\ job'[w].to = job[w].to /\ job'[w].undo = job[w].undo
          /\ job'[w] \in Job
      BY <2>1, <2>3 DEF PatchInv, TypeOK, Job
    <2>5. TypeOK'
      BY <1>1, <2>1, <2>2, <2>4 DEF PatchInv, TypeOK, Labels
    <2>6. CallOK(w)'
      BY <1>1, <2>3, <2>4 DEF PatchInv, FileInv, CallOK
    <2>7. TmpOK(w)'
      BY <1>1, <2>1, <2>4 DEF PatchInv, FileInv, TmpOK
    <2>8. FileOK'
      BY <2>1 DEF FileOK
    <2>9. windows' /\ (w \notin disturbed => job[w].found = Target)
      BY <1>1 DEF PatchInv, FileInv, CallOK, PointOK
    <2>10. PointOK(w)'
      BY <1>1, <2>1, <2>2, <2>4, <2>9 DEF PatchInv, FileInv, PointOK
    <2>11. UndoRecorded'
      BY <2>1 DEF PatchInv, FileInv, UndoRecorded
    <2> QED
      BY <2>5, <2>6, <2>7, <2>8, <2>10, <2>11 DEF PatchInv, FileInv
  <1> QED
    BY <1>2, <1>3

LEMMA RenameStep ==
  ASSUME NEW w, Workers = {w}, PatchInv(w), Rename(w)
  PROVE  PatchInv(w)'
  <1>1. UNCHANGED <<windows, data>> /\ pc[w] = "rename" /\ tmp' = NoObject
    BY DEF Rename
  <1>2. CASE Fail(w) /\ UNCHANGED path
    BY <1>1, <1>2, FailStep
  <1>3. CASE ~(Fail(w) /\ UNCHANGED path)
    <2> DEFINE old == IF windows THEN job[w].found ELSE Target
               new == [session |-> w, after |-> data[tmp], before |-> old]
    <2>1. /\ tmp # NoObject /\ path' = tmp
          /\ pc' = [pc EXCEPT ![w] = "idle"]
          /\ job' = [job EXCEPT ![w] = NoJob]
          /\ result' = [result EXCEPT ![w] = "ok"]
          /\ UNCHANGED <<points, edits, crashes>>
          /\ Disturb(w)
          /\ written' = IF job[w].undo \/ w \in disturbed THEN written ELSE written \cup {new}
      BY <1>3 DEF Rename, Finish, Go
    <2>2. disturbed' = disturbed
      BY <2>1 DEF Disturb
    <2>3. data[tmp] = job[w].to /\ data[tmp] \in Texts
      BY <1>1 DEF PatchInv, FileInv, TmpOK, CallOK
    <2>4. old \in States
      BY TargetWhole DEF PatchInv, FileInv, CallOK
    <2>5. new \in Written
      BY <2>3, <2>4 DEF Written
    <2>6. TypeOK'
      <3>1. tmp \in Objects
        BY <2>1 DEF PatchInv, TypeOK
      <3>2. pc' \in [Workers -> Labels] /\ job' \in [Workers -> Job]
            /\ result' \in [Workers -> {"none", "ok", "error"}]
        BY <2>1, NoJobOK DEF PatchInv, TypeOK, Labels
      <3>3. written' \subseteq Written
        BY <2>1, <2>5 DEF PatchInv, TypeOK
      <3> QED
        BY <1>1, <2>1, <2>2, <3>1, <3>2, <3>3 DEF PatchInv, TypeOK
    <2>7. pc'[w] = "idle" /\ job'[w] = NoJob
      BY <2>1 DEF PatchInv, TypeOK
    <2>8. CallOK(w)' /\ TmpOK(w)' /\ PointOK(w)'
      BY <1>1, <2>7, NoJobOK DEF CallOK, TmpOK, PointOK
    <2>9. FileOK'
      BY <1>1, <2>1, <2>3 DEF FileOK
    <2>10. UndoRecorded'
      <3>1. CASE job[w].undo \/ w \in disturbed
        BY <2>1, <3>1 DEF PatchInv, FileInv, UndoRecorded
      <3>2. CASE ~job[w].undo /\ w \notin disturbed
        <4>1. old = job[w].found
          BY <1>1, <3>2 DEF PatchInv, FileInv, PointOK
        <4>2. [session |-> w, original |-> old, applied |-> data[tmp]] \in points
          BY <1>1, <2>3, <3>2, <4>1 DEF PatchInv, FileInv, PointOK
        <4>3. \E p \in points : p.session = new.session /\ p.original = new.before /\ p.applied = new.after
          BY <4>2
        <4> HIDE DEF new, old
        <4> QED
          BY <2>1, <3>2, <4>3 DEF PatchInv, FileInv, UndoRecorded
      <3> QED
        BY <3>1, <3>2
    <2> QED
      BY <2>6, <2>8, <2>9, <2>10 DEF PatchInv, FileInv
  <1> QED
    BY <1>2, <1>3

LEMMA UnlinkStep ==
  ASSUME NEW w, Workers = {w}, PatchInv(w), Unlink(w)
  PROVE  PatchInv(w)'
  <1>1. UNCHANGED <<windows, tmp, data>> /\ pc[w] = "unlink"
    BY DEF Unlink
  <1>2. CASE Fail(w) /\ UNCHANGED path
    BY <1>1, <1>2, FailStep
  <1>3. CASE ~(Fail(w) /\ UNCHANGED path)
    <2>1. /\ path' = NoObject
          /\ pc' = [pc EXCEPT ![w] = "idle"]
          /\ job' = [job EXCEPT ![w] = NoJob]
          /\ result' = [result EXCEPT ![w] = "ok"]
          /\ UNCHANGED <<points, edits, crashes, written>>
          /\ Disturb(w)
      BY <1>3 DEF Unlink, Finish, Go
    <2>2. disturbed' = disturbed
      BY <2>1 DEF Disturb
    <2>3. TypeOK'
      BY <1>1, <2>1, <2>2, NoJobOK DEF PatchInv, TypeOK, Labels
    <2>4. pc'[w] = "idle" /\ job'[w] = NoJob
      BY <2>1 DEF PatchInv, TypeOK
    <2>5. CallOK(w)' /\ TmpOK(w)' /\ FileOK' /\ PointOK(w)'
      <3>1. tmp' # NoObject => tmp' # path'
        BY <2>1
      <3> QED
        BY <2>1, <2>4, <3>1, NoJobOK DEF CallOK, TmpOK, FileOK, PointOK
    <2>6. UndoRecorded'
      BY <2>1 DEF PatchInv, FileInv, UndoRecorded
    <2> QED
      BY <2>3, <2>5, <2>6 DEF PatchInv, FileInv
  <1> QED
    BY <1>2, <1>3

\* An edit uses an object of its own and marks the call in flight.
LEMMA EditStep ==
  ASSUME NEW w, Workers = {w}, PatchInv(w), Edit
  PROVE  PatchInv(w)' /\ Target' \in States
  <1>1. /\ edits' = edits + 1
        /\ disturbed' = disturbed \cup {v \in Workers : pc[v] # "idle"}
        /\ UNCHANGED <<windows, tmp, points, pc, job, result, crashes, written>>
    BY DEF Edit
  <1>2. /\ path' \in Objects \cup {NoObject}
        /\ data' \in [Objects -> Texts \cup {Partial}]
        /\ path' # NoObject => data'[path'] \in Texts /\ path' # tmp
        /\ tmp # NoObject => data'[tmp] = data[tmp]
    BY DEF Edit, Free, PatchInv, TypeOK
  <1>3. TypeOK'
    BY <1>1, <1>2 DEF PatchInv, TypeOK
  <1>4. CallOK(w)' /\ FileOK'
    BY <1>1, <1>2 DEF PatchInv, FileInv, CallOK, FileOK
  <1>5. TmpOK(w)'
    BY <1>1, <1>2 DEF PatchInv, FileInv, TmpOK
  <1>6. PointOK(w)'
    BY <1>1 DEF PatchInv, FileInv, PointOK
  <1>7. UndoRecorded'
    BY <1>1 DEF PatchInv, FileInv, UndoRecorded
  <1>8. Target' \in States
    BY <1>2 DEF Target, Content, States
  <1> QED
    BY <1>3, <1>4, <1>5, <1>6, <1>7, <1>8 DEF PatchInv, FileInv

LEMMA CrashStep ==
  ASSUME NEW w, Workers = {w}, PatchInv(w), Crash
  PROVE  PatchInv(w)'
  <1>1. TypeOK'
    BY NoJobOK DEF PatchInv, TypeOK, Crash, Labels
  <1>2. pc'[w] = "idle" /\ job'[w] = NoJob /\ UNCHANGED <<windows, path, tmp, data, points, written>>
    BY DEF Crash
  <1>3. CallOK(w)' /\ TmpOK(w)' /\ FileOK' /\ PointOK(w)'
    BY <1>2, NoJobOK DEF CallOK, TmpOK, FileOK, PointOK, PatchInv, FileInv
  <1>4. UndoRecorded'
    BY <1>2 DEF PatchInv, FileInv, UndoRecorded
  <1> QED
    BY <1>1, <1>3, <1>4 DEF PatchInv, FileInv

LEMMA StutterStep ==
  ASSUME NEW w, PatchInv(w), UNCHANGED vars
  PROVE  PatchInv(w)'
  <1>1. TypeOK' /\ UndoRecorded' /\ FileOK'
    BY DEF PatchInv, FileInv, TypeOK, UndoRecorded, FileOK, vars
  <1>2. CallOK(w)' /\ TmpOK(w)'
    BY DEF PatchInv, FileInv, CallOK, TmpOK, vars
  <1>3. PointOK(w)'
    BY DEF PatchInv, FileInv, PointOK, Target, Content, vars
  <1> QED
    BY <1>1, <1>2, <1>3 DEF PatchInv, FileInv

LEMMA PatchNext ==
  ASSUME NEW w, Workers = {w}, PatchInv(w), [Next]_vars
  PROVE  PatchInv(w)'
  <1>1. CASE Step(w)
    BY <1>1, PreviewStep, RecordStep, CheckStep, RollbackStep, CreateStep, WriteStep, RemoveStep,
       RenameStep, UnlinkStep DEF Step
  <1>2. CASE Edit
    BY <1>2, EditStep
  <1>3. CASE Crash
    BY <1>3, CrashStep
  <1>4. CASE UNCHANGED vars
    BY <1>4, StutterStep
  <1> QED
    BY <1>1, <1>2, <1>3, <1>4 DEF Next

LEMMA PatchInvariant ==
  ASSUME NEW CONSTANT s, Workers = {s}
  PROVE  Spec => []PatchInv(s)
  <1>1. Init => PatchInv(s)
    BY PatchInit
  <1>2. PatchInv(s) /\ [Next]_vars => PatchInv(s)'
    BY PatchNext
  <1> QED
    BY <1>1, <1>2, PTL DEF Spec

-----------------------------------------------------------------------------
\* Patches, restore points and calls in flight of one session have their types.
THEOREM TypeCorrect ==
  ASSUME NEW CONSTANT s, Workers = {s}
  PROVE  Spec => []TypeOK
  <1>1. PatchInv(s) => TypeOK
    BY DEF PatchInv
  <1> QED
    BY PatchInvariant, <1>1, PTL

\* write_text_utf8: whatever fails, ends or is edited between two of its
\* statements, the path never names a file that is partly written.
THEOREM FileAlwaysWhole ==
  ASSUME NEW CONSTANT s, Workers = {s}
  PROVE  Spec => []FileWhole
  <1>1. PatchInv(s) => FileWhole
    BY TargetWhole DEF PatchInv, FileInv, FileWhole
  <1> QED
    BY PatchInvariant, <1>1, PTL

\* execute_and_record: every undisturbed patch can be taken back exactly, also
\* after any number of failed patches, rollbacks and crashes.
THEOREM UndoAlwaysRecorded ==
  ASSUME NEW CONSTANT s, Workers = {s}
  PROVE  Spec => []UndoRecorded
  <1>1. PatchInv(s) => UndoRecorded
    BY DEF PatchInv, FileInv
  <1> QED
    BY PatchInvariant, <1>1, PTL

-----------------------------------------------------------------------------
(* The refinement: every step of a patch or a rollback is a step of the    *)
(* contract or leaves the file and the armed change alone.                 *)

Armed == [w \in Workers |-> IF pc[w] \in Writing THEN [from |-> job[w].from, to |-> job[w].to]
                            ELSE NoChange]

ContractStep == F!Next \/ UNCHANGED <<Target, windows, Armed, edits>>

LEMMA NoChangeOutside ==
  ASSUME NEW a \in Texts, NEW b \in States
  PROVE  [from |-> a, to |-> b] # NoChange /\ [from |-> a, to |-> b] \in F!Changes
  BY TextAssumption DEF States, F!Changes, F!States

LEMMA FailRefines ==
  ASSUME NEW w, Workers = {w}, PatchInv(w), Fail(w), UNCHANGED <<windows, path, data>>
  PROVE  ContractStep
  <1>1. Target' = Target
    BY DEF Target, Content
  <1>2. pc'[w] = "idle"
    BY DEF Fail, Finish, Go, PatchInv, TypeOK
  <1>3. Armed' = [v \in Workers |-> IF v \in Workers THEN NoChange ELSE Armed[v]]
    BY <1>2 DEF Armed, Writing
  <1>4. UNCHANGED edits
    BY DEF Fail
  <1> QED
    BY <1>1, <1>3, <1>4 DEF ContractStep, F!Next, F!Drop, Armed

\* A change is armed when the file holds the text the change starts from.
LEMMA ArmRefines ==
  ASSUME NEW w, Workers = {w}, PatchInv(w), UNCHANGED <<windows, path, data, edits>>,
         pc'[w] \in Writing, job'[w].from = Reads(Target), job'[w].to \in States
  PROVE  ContractStep
  <1> DEFINE c == [from |-> job'[w].from, to |-> job'[w].to]
  <1>1. Target' = Target
    BY DEF Target, Content
  <1>2. Reads(Target) \in Texts /\ Reads(Target) = F!Reads(Target)
    BY TargetWhole DEF PatchInv, FileInv, Reads, F!Reads
  <1>3. c \in F!Changes /\ c.from = F!Reads(Target)
    BY <1>2, NoChangeOutside
  <1>4. Armed' = [Armed EXCEPT ![w] = c]
    BY DEF Armed
  <1>5. F!Arm(w)
    BY <1>1, <1>3, <1>4 DEF F!Arm, Armed
  <1> QED
    BY <1>5 DEF ContractStep, F!Next

\* A change is committed in the step in which its call leaves the file.
LEMMA CommitRefines ==
  ASSUME NEW w, Workers = {w}, PatchInv(w), UNCHANGED <<windows, edits>>,
         pc[w] \in Writing, pc'[w] = "idle", Target' = job[w].to
  PROVE  ContractStep
  <1>1. job[w].from \in Texts /\ job[w].to \in States
    BY DEF PatchInv, TypeOK, Job
  <1>2. Armed[w] = [from |-> job[w].from, to |-> job[w].to]
    BY DEF Armed
  <1>3. Armed[w] # NoChange /\ Target' = Armed[w].to
    BY <1>1, <1>2, NoChangeOutside
  <1>4. Armed' = [Armed EXCEPT ![w] = NoChange]
    BY DEF Armed, Writing
  <1>5. F!Commit(w)
    BY <1>3, <1>4 DEF F!Commit, Armed
  <1> QED
    BY <1>5 DEF ContractStep, F!Next

\* A step that neither changes the file nor what is armed.
LEMMA QuietRefines ==
  ASSUME NEW w, Workers = {w}, UNCHANGED <<windows, edits, Target>>,
         pc'[w] \in Writing <=> pc[w] \in Writing,
         pc[w] \in Writing => job'[w].from = job[w].from /\ job'[w].to = job[w].to
  PROVE  ContractStep
  BY DEF ContractStep, Armed

LEMMA StepRefines ==
  ASSUME NEW w, Workers = {w}, PatchInv(w), Step(w)
  PROVE  ContractStep
  <1>1. CASE Fail(w) /\ UNCHANGED <<windows, path, data>>
    BY <1>1, FailRefines
  <1> SUFFICES ASSUME ~(Fail(w) /\ UNCHANGED <<windows, path, data>>) PROVE ContractStep
    BY <1>1
  <1>2. CASE Preview(w)
    <2>1. UNCHANGED <<windows, path, tmp, data, edits>> /\ pc[w] = "idle" /\ pc'[w] = "record"
      BY <1>2 DEF Preview, Go, PatchInv, TypeOK
    <2>2. Target' = Target
      BY <2>1 DEF Target, Content
    <2> QED
      BY <2>1, <2>2, QuietRefines DEF Writing
  <1>3. CASE Record(w)
    <2>1. UNCHANGED <<windows, path, tmp, data, edits>> /\ pc[w] = "record" /\ pc'[w] = "check"
      BY <1>3 DEF Record, Go, PatchInv, TypeOK
    <2>2. Target' = Target
      BY <2>1 DEF Target, Content
    <2> QED
      BY <2>1, <2>2, QuietRefines DEF Writing
  <1>4. CASE Check(w)
    <2>1. /\ UNCHANGED <<windows, path, tmp, data, edits, job>> /\ pc'[w] = "create"
          /\ Reads(Target) = job[w].from
      BY <1>4 DEF Check, Go, PatchInv, TypeOK
    <2>2. job[w].to \in States
      BY DEF PatchInv, TypeOK, Job
    <2> QED
      BY <2>1, <2>2, ArmRefines DEF Writing
  <1>5. CASE Rollback(w)
    <2>1. PICK p \in points :
            /\ Reads(Target) = p.applied
            /\ Go(w, IF p.original = Absent THEN "unlink" ELSE "create")
            /\ job' = [job EXCEPT ![w] = [undo |-> TRUE, from |-> p.applied, to |-> p.original,
                                          found |-> Target, handle |-> NoObject]]
            /\ UNCHANGED <<windows, path, data, edits>>
      BY <1>5 DEF Rollback
    <2>2. p.original \in States
      BY DEF PatchInv, TypeOK, Point
    <2>3. pc'[w] \in {"unlink", "create"}
      BY <2>1 DEF Go, PatchInv, TypeOK
    <2>4. job'[w].from = p.applied /\ job'[w].to = p.original
      BY <2>1 DEF PatchInv, TypeOK
    <2> QED
      BY <2>1, <2>2, <2>3, <2>4, ArmRefines DEF Writing
  <1>6. CASE Create(w)
    <2>1. UNCHANGED <<windows, path>> /\ pc[w] = "create"
      BY <1>6 DEF Create
    <2>2. PICK o \in (IF tmp = NoObject THEN Free ELSE {tmp}) :
            /\ data' = [data EXCEPT ![o] = Partial]
            /\ job' = [job EXCEPT ![w].handle = o]
            /\ pc' = [pc EXCEPT ![w] = "write"]
            /\ UNCHANGED edits
      BY <1>6 DEF Create, Go
    <2>3. o # path
      BY DEF Free, PatchInv, FileInv, TmpOK
    <2>4. Target' = Target
      BY <2>1, <2>2, <2>3 DEF Target, Content, PatchInv, TypeOK
    <2>5. pc'[w] = "write" /\ job'[w].from = job[w].from /\ job'[w].to = job[w].to
      BY <2>2 DEF PatchInv, TypeOK, Job
    <2> QED
      BY <2>1, <2>2, <2>4, <2>5, QuietRefines DEF Writing
  <1>7. CASE WriteText(w)
    <2>1. UNCHANGED <<windows, path, job, edits>> /\ pc[w] = "write" /\ pc'[w] \in {"remove", "rename"}
      BY <1>7 DEF WriteText, Go, PatchInv, TypeOK
    <2>2. PICK text : data' = [data EXCEPT ![job[w].handle] = text]
      BY <1>7 DEF WriteText
    <2>3. job[w].handle # path
      BY <2>1 DEF PatchInv, FileInv, TmpOK
    <2>4. Target' = Target
      BY <2>1, <2>2, <2>3 DEF Target, Content, PatchInv, TypeOK
    <2> QED
      BY <2>1, <2>4, QuietRefines DEF Writing
  <1>8. CASE RemoveTarget(w)
    <2>1. /\ UNCHANGED <<windows, edits>> /\ pc[w] = "remove" /\ path' = NoObject
          /\ pc' = [pc EXCEPT ![w] = "rename"]
          /\ job' = [job EXCEPT ![w].found = Target]
      BY <1>8 DEF RemoveTarget, Go
    <2>2. windows /\ Target' = Absent
      BY <2>1 DEF PatchInv, FileInv, CallOK, Target, Content
    <2>3. pc'[w] = "rename" /\ job'[w].from = job[w].from /\ job'[w].to = job[w].to
      BY <2>1 DEF PatchInv, TypeOK, Job
    <2>4. Armed' = Armed
      BY <2>1, <2>3 DEF Armed, Writing
    <2>5. job[w].from \in Texts /\ job[w].to \in States
      BY DEF PatchInv, TypeOK, Job
    <2>6. Armed[w] # NoChange
      BY <2>1, <2>5, NoChangeOutside DEF Armed, Writing
    <2>7. F!Vanish(w)
      BY <2>1, <2>2, <2>4, <2>6 DEF F!Vanish, Armed
    <2> QED
      BY <2>7 DEF ContractStep, F!Next
  <1>9. CASE Rename(w)
    <2>1. /\ UNCHANGED <<windows, data, edits>> /\ pc[w] = "rename" /\ tmp # NoObject /\ path' = tmp
          /\ pc'[w] = "idle"
      BY <1>9 DEF Rename, Finish, Go, PatchInv, TypeOK
    <2>2. Target' = job[w].to
      BY <2>1 DEF PatchInv, FileInv, TmpOK, Target, Content
    <2> QED
      BY <2>1, <2>2, CommitRefines DEF Writing
  <1>10. CASE Unlink(w)
    <2>1. UNCHANGED <<windows, edits>> /\ pc[w] = "unlink" /\ path' = NoObject /\ pc'[w] = "idle"
      BY <1>10 DEF Unlink, Finish, Go, PatchInv, TypeOK
    <2>2. Target' = job[w].to
      BY <2>1 DEF PatchInv, FileInv, CallOK, Target, Content
    <2> QED
      BY <2>1, <2>2, CommitRefines DEF Writing
  <1> QED
    BY <1>2, <1>3, <1>4, <1>5, <1>6, <1>7, <1>8, <1>9, <1>10 DEF Step

LEMMA NextRefines ==
  ASSUME NEW w, Workers = {w}, PatchInv(w), [Next]_vars
  PROVE  ContractStep
  <1>1. CASE Step(w)
    BY <1>1, StepRefines
  <1>2. CASE Edit
    <2>1. Target' \in F!States
      BY <1>2, EditStep DEF States, F!States
    <2>2. edits' = edits + 1 /\ UNCHANGED <<windows, pc, job>>
      BY <1>2 DEF Edit
    <2>3. Armed' = Armed
      BY <2>2 DEF Armed
    <2> QED
      BY <2>1, <2>2, <2>3 DEF ContractStep, F!Next, F!Edit, Armed
  <1>3. CASE Crash
    <2>1. UNCHANGED <<windows, path, data, edits>> /\ pc' = [v \in Workers |-> "idle"]
      BY <1>3 DEF Crash
    <2>2. Target' = Target
      BY <2>1 DEF Target, Content
    <2>3. Armed' = [v \in Workers |-> IF v \in Workers THEN NoChange ELSE Armed[v]]
      BY <2>1 DEF Armed, Writing
    <2> QED
      BY <2>1, <2>2, <2>3 DEF ContractStep, F!Next, F!Drop, Armed
  <1>4. CASE UNCHANGED vars
    BY <1>4 DEF ContractStep, vars, Armed, Target, Content
  <1> QED
    BY <1>1, <1>2, <1>3, <1>4 DEF Next

LEMMA InitRefines ==
  ASSUME NEW w, Workers = {w}, Init
  PROVE  F!Init
  <1>1. Target \in F!States
    BY PatchInit, TargetWhole DEF PatchInv, FileInv, States, F!States
  <1> QED
    BY <1>1 DEF Init, F!Init, Writing

\* apply_patch and rollback implement WorkspaceFile: for any texts, edits and
\* crashes the file changes only in one step, from a text that was compared to the
\* text that was asked for.
THEOREM ImplementsWorkspaceFile ==
  ASSUME NEW CONSTANT s, Workers = {s}
  PROVE  Spec => KeepsFileContract
  <1>1. Init => F!Init
    BY InitRefines
  <1>2. PatchInv(s) /\ [Next]_vars => ContractStep
    BY NextRefines
  <1>3. ContractStep => [F!Next]_<<Target, windows, Armed, edits>>
    BY DEF ContractStep
  <1>4. PatchInv(s) /\ [Next]_vars => [F!Next]_<<Target, windows, Armed, edits>>
    BY <1>2, <1>3
  <1>5. Spec => []PatchInv(s)
    BY PatchInvariant, PTL
  <1>6. Spec => [][F!Next]_<<Target, windows, Armed, edits>>
    BY <1>4, <1>5, PTL DEF Spec
  <1>7. Spec => F!Init
    BY <1>1, PTL DEF Spec
  <1> QED
    BY <1>6, <1>7, PTL DEF KeepsFileContract, F!Spec, Armed
=============================================================================
