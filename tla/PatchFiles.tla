------------------------------ MODULE PatchFiles ------------------------------
(***************************************************************************)
(* apply_patch, its restore point and its rollback, on one path of a       *)
(* workspace.  A worker is the call in flight of one session; sessions on  *)
(* the same workspace run side by side.  Patches of other paths have other *)
(* temporary files and other restore points and do not meet this one.      *)
(***************************************************************************)
EXTENDS Naturals, FiniteSets

CONSTANTS Workers,      \* sessions on the workspace, each with one call in flight
          Texts,        \* complete texts of the file
          EmptyText,    \* the text without characters
          Absent,       \* the file does not exist
          Partial,      \* content of a file that is being written
          NoChange,     \* a worker that is about to write nothing
          Objects,      \* file objects; a name refers to one or to none
          NoObject,
          MaxPoints, MaxEdits, MaxCrashes

ASSUME TextAssumption ==
    /\ EmptyText \in Texts
    /\ Absent \notin Texts /\ Partial \notin Texts /\ Absent # Partial
    /\ NoChange \notin [from : Texts, to : Texts \cup {Absent}]
ASSUME ObjectAssumption == NoObject \notin Objects
ASSUME PatchBounds == {MaxPoints, MaxEdits, MaxCrashes} \subseteq Nat

VARIABLES windows,      \* the build removes the target before it renames
          path,         \* the object the path names
          tmp,          \* the object its temporary sibling names
          data,         \* the content of every object
          points,       \* table restore_points
          pc, job,      \* the call of every worker and its locals
          result,       \* what the last call of a worker reported
          edits, crashes,
          disturbed,    \* history: workers whose file changed under them
          written       \* history: patches that met no such change

vars == <<windows, path, tmp, data, points, pc, job, result, edits, crashes, disturbed, written>>

-----------------------------------------------------------------------------
States == Texts \cup {Absent}
Content(o) == IF o = NoObject THEN Absent ELSE data[o]
Target == Content(path)
Reads(f) == IF f = Absent THEN EmptyText ELSE f

Point == [session : Workers, original : States, applied : Texts]
Labels == {"idle", "record", "check", "create", "write", "remove", "rename", "unlink"}
Writing == {"create", "write", "remove", "rename", "unlink"}

\* The locals of a call: the text it expects, the text it leaves, what it found
\* before it changed anything, and the handle of the temporary file.
Job == [undo : BOOLEAN, from : Texts, to : States, found : States \cup {Partial},
        handle : Objects \cup {NoObject}]
NoJob == [undo |-> FALSE, from |-> EmptyText, to |-> EmptyText, found |-> EmptyText,
          handle |-> NoObject]

Free == Objects \ ({path, tmp} \cup {job[w].handle : w \in Workers})

\* The file changed under every other call that has already read it.
Disturb(w) == disturbed' = disturbed \cup {v \in Workers \ {w} : pc[v] # "idle"}

Go(w, label) == pc' = [pc EXCEPT ![w] = label]

Finish(w, r) == /\ Go(w, "idle")
                /\ job' = [job EXCEPT ![w] = NoJob]
                /\ result' = [result EXCEPT ![w] = r]

Fail(w) == Finish(w, "error") /\ UNCHANGED <<points, edits, crashes, disturbed, written>>

-----------------------------------------------------------------------------
\* Mutant: the preview forgets whether the file existed.
PreviewText(w) ==
    /\ pc[w] = "idle" /\ Cardinality(points) < MaxPoints
    /\ \E new \in Texts :
         /\ Go(w, "record")
         /\ job' = [job EXCEPT ![w] = [undo |-> FALSE, from |-> Reads(Target), to |-> new,
                                       found |-> Reads(Target), handle |-> NoObject]]
         /\ disturbed' = disturbed \ {w}
    /\ UNCHANGED <<windows, path, tmp, data, points, result, edits, crashes, written>>

\* The texts of a patch come from the model; the preview compares the old one
\* with the file.
Preview(w) ==
    /\ pc[w] = "idle" /\ Cardinality(points) < MaxPoints
    /\ \E old, new \in Texts :
         \/ /\ Reads(Target) = old
            /\ Go(w, "record")
            /\ job' = [job EXCEPT ![w] = [undo |-> FALSE, from |-> old, to |-> new,
                                          found |-> Target, handle |-> NoObject]]
            /\ disturbed' = disturbed \ {w}
            /\ UNCHANGED <<points, result, edits, crashes, written>>
         \/ Reads(Target) # old /\ Fail(w)
    /\ UNCHANGED <<windows, path, tmp, data>>

\* The restore point is saved before the file is touched.
Record(w) ==
    /\ pc[w] = "record"
    /\ \/ /\ points' = points \cup {[session |-> w, original |-> job[w].found,
                                     applied |-> job[w].to]}
          /\ Go(w, "check")
          /\ UNCHANGED <<job, result, edits, crashes, disturbed, written>>
       \/ Fail(w)
    /\ UNCHANGED <<windows, path, tmp, data>>

\* Mutant: apply_patch trusts the preview.
CheckSkipped(w) ==
    /\ pc[w] = "check"
    /\ Go(w, "create")
    /\ UNCHANGED <<windows, path, tmp, data, points, job, result, edits, crashes, disturbed, written>>

\* apply_patch reads the file again.
Check(w) ==
    /\ pc[w] = "check"
    /\ \/ /\ Reads(Target) = job[w].from
          /\ Go(w, "create")
          /\ UNCHANGED <<points, job, result, edits, crashes, disturbed, written>>
       \/ Reads(Target) # job[w].from /\ Fail(w)
    /\ UNCHANGED <<windows, path, tmp, data>>

\* The user takes a restore point of the session back.
Rollback(w) ==
    /\ pc[w] = "idle"
    /\ \E p \in points :
         /\ p.session = w
         /\ \/ /\ Reads(Target) = p.applied
               /\ Go(w, IF p.original = Absent THEN "unlink" ELSE "create")
               /\ job' = [job EXCEPT ![w] = [undo |-> TRUE, from |-> p.applied, to |-> p.original,
                                             found |-> Target, handle |-> NoObject]]
               /\ disturbed' = disturbed \ {w}
               /\ UNCHANGED <<points, result, edits, crashes, written>>
            \/ Reads(Target) # p.applied /\ Fail(w)
    /\ UNCHANGED <<windows, path, tmp, data>>

\* Mutant: the text is written to the path itself.
CreateInPlace(w) ==
    /\ pc[w] = "create"
    /\ \E o \in (IF path = NoObject THEN Free ELSE {path}) :
         /\ tmp' = o /\ path' = o
         /\ data' = [data EXCEPT ![o] = Partial]
         /\ job' = [job EXCEPT ![w].handle = o]
         /\ Go(w, "write")
    /\ UNCHANGED <<windows, points, result, edits, crashes, disturbed, written>>

\* File::create truncates the temporary file if one is there.
Create(w) ==
    /\ pc[w] = "create"
    /\ \/ \E o \in (IF tmp = NoObject THEN Free ELSE {tmp}) :
            /\ tmp' = o
            /\ data' = [data EXCEPT ![o] = Partial]
            /\ job' = [job EXCEPT ![w].handle = o]
            /\ Go(w, "write")
            /\ UNCHANGED <<points, result, edits, crashes, disturbed, written>>
       \/ Fail(w) /\ UNCHANGED <<tmp, data>>
    /\ UNCHANGED <<windows, path>>

\* A text written over another one may leave the end of the longer.
Mixtures(there, text) == IF there = Partial THEN {text} ELSE {text, Partial}

\* write_all and sync_data go to the handle, whatever name the object has by now.
WriteText(w) ==
    /\ pc[w] = "write"
    /\ \/ /\ \E text \in Mixtures(data[job[w].handle], job[w].to) :
               data' = [data EXCEPT ![job[w].handle] = text]
          /\ Go(w, IF windows THEN "remove" ELSE "rename")
          /\ UNCHANGED <<points, job, result, edits, crashes, disturbed, written>>
       \/ Fail(w) /\ UNCHANGED data
    /\ UNCHANGED <<windows, path, tmp>>

RemoveTarget(w) ==
    /\ pc[w] = "remove"
    /\ \/ /\ path' = NoObject
          /\ Go(w, "rename")
          /\ job' = [job EXCEPT ![w].found = Target]
          /\ Disturb(w)
          /\ UNCHANGED <<points, result, edits, crashes, written>>
       \/ path # NoObject /\ Fail(w) /\ UNCHANGED path
    /\ UNCHANGED <<windows, tmp, data>>

\* A failed rename removes the temporary file.
Rename(w) ==
    /\ pc[w] = "rename"
    /\ \/ /\ tmp # NoObject
          /\ path' = tmp
          /\ Finish(w, "ok")
          /\ Disturb(w)
          /\ written' = IF job[w].undo \/ w \in disturbed THEN written
                        ELSE written \cup {[session |-> w, after |-> data[tmp],
                                           before |-> IF windows THEN job[w].found ELSE Target]}
          /\ UNCHANGED <<points, edits, crashes>>
       \/ Fail(w) /\ UNCHANGED path
    /\ tmp' = NoObject
    /\ UNCHANGED <<windows, data>>

\* Taking back the creation of a file removes it.
Unlink(w) ==
    /\ pc[w] = "unlink"
    /\ \/ /\ path' = NoObject
          /\ Finish(w, "ok")
          /\ Disturb(w)
          /\ UNCHANGED <<points, edits, crashes, written>>
       \/ path # NoObject /\ Fail(w) /\ UNCHANGED path
    /\ UNCHANGED <<windows, tmp, data>>

\* Somebody saves or deletes the file outside the program.
Edit ==
    /\ edits < MaxEdits
    /\ \/ path' = NoObject /\ UNCHANGED data
       \/ \E o \in Free, text \in Texts : path' = o /\ data' = [data EXCEPT ![o] = text]
    /\ edits' = edits + 1
    /\ disturbed' = disturbed \cup {v \in Workers : pc[v] # "idle"}
    /\ UNCHANGED <<windows, tmp, points, pc, job, result, crashes, written>>

\* The process ends with every call in it; files and tables stay.
Crash ==
    /\ crashes < MaxCrashes
    /\ crashes' = crashes + 1
    /\ pc' = [w \in Workers |-> "idle"]
    /\ job' = [w \in Workers |-> NoJob]
    /\ result' = [w \in Workers |-> "none"]
    /\ disturbed' = {}
    /\ UNCHANGED <<windows, path, tmp, data, points, edits, written>>

Step(w) == \/ Preview(w) \/ Record(w) \/ Check(w) \/ Rollback(w) \/ Create(w)
           \/ WriteText(w) \/ RemoveTarget(w) \/ Rename(w) \/ Unlink(w)

Init ==
    /\ windows \in BOOLEAN
    /\ path \in Objects \cup {NoObject} /\ tmp = NoObject
    /\ \E text \in Texts : data = [o \in Objects |-> text]
    /\ points = {} /\ written = {} /\ disturbed = {}
    /\ pc = [w \in Workers |-> "idle"]
    /\ job = [w \in Workers |-> NoJob]
    /\ result = [w \in Workers |-> "none"]
    /\ edits = 0 /\ crashes = 0

Next == (\E w \in Workers : Step(w)) \/ Edit \/ Crash

Spec == Init /\ [][Next]_vars

-----------------------------------------------------------------------------
Written == [session : Workers, before : States, after : Texts]

\* Types of the state of patches, restore points and the calls in flight.
TypeOK ==
    /\ windows \in BOOLEAN
    /\ path \in Objects \cup {NoObject} /\ tmp \in Objects \cup {NoObject}
    /\ data \in [Objects -> Texts \cup {Partial}]
    /\ points \subseteq Point
    /\ pc \in [Workers -> Labels] /\ job \in [Workers -> Job]
    /\ result \in [Workers -> {"none", "ok", "error"}]
    /\ edits \in Nat /\ crashes \in Nat
    /\ disturbed \subseteq Workers /\ written \subseteq Written

\* The path never names a file that is only partly written, also after a crash
\* or a failed write (write_text_utf8): a reader sees one text or another.
FileWhole == Target # Partial

\* A patch that changed the file, with nobody else writing to it in between, has
\* a restore point of the session that takes it back exactly, including that the
\* file did not exist; failed patches and crashes may leave more points, never
\* fewer (execute_and_record saves the point first).
UndoRecorded ==
    \A x \in written :
        \E p \in points : p.session = x.session /\ p.original = x.before /\ p.applied = x.after

\* Patches and rollbacks implement the contract of WorkspaceFile: the file only
\* ever changes in one step, from a text that was compared to the text asked for.
F == INSTANCE WorkspaceFile WITH
        file <- Target,
        removesFirst <- windows,
        armed <- [w \in Workers |-> IF pc[w] \in Writing
                                    THEN [from |-> job[w].from, to |-> job[w].to]
                                    ELSE NoChange]
KeepsFileContract == F!Spec

\* A call that reports an error has left the file as it found it, unless somebody
\* else changed it meanwhile ("an atomic rename strategy", write_text_utf8).
\* A build for Windows does not satisfy it: README, section 6.
FailedCallKeepsFile ==
    [][\A w \in Workers :
         /\ pc[w] \in Writing /\ w \notin disturbed
         /\ pc'[w] = "idle" /\ result'[w] = "error"
         => Target' = job[w].found]_vars
=============================================================================
