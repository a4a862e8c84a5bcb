------------------------------ MODULE Attachments ------------------------------
(***************************************************************************)
(* POST attachments: AttachmentService.create stores the file as an object *)
(* of the bucket, then inserts the row that names it, and takes the object *)
(* away again when that fails.  The bucket and PostgreSQL have no          *)
(* transaction in common, either may fail, either may do what it was asked *)
(* and have its answer lost, and the process may die between any two steps.*)
(*                                                                         *)
(* The key of the object and the uid of the row are random and new for     *)
(* every call; one value of Keys stands for both.                          *)
(***************************************************************************)
EXTENDS Integers

CONSTANTS
  Keys,
  Calls,               \* slots for calls of create
  None,
  MaxFailures,         \* bound: requests that fail without having had effect
  MaxLost,             \* bound: requests that have effect and fail for the caller
  MaxCrashes           \* bound: crashes of the process

ASSUME NoneAssumption == None \notin Keys
ASSUME BoundAssumption == MaxFailures \in Nat /\ MaxLost \in Nat /\ MaxCrashes \in Nat

VARIABLES
  object,      \* the keys in the bucket
  row,         \* the keys named by a row of the table attachments
  call,        \* the calls of create in progress
  taken,       \* the keys that were ever drawn
  answered,    \* the keys whose attachment was returned to a client
  count        \* how much of each bound is used

vars == <<object, row, call, taken, answered, count>>

Idle == [step |-> "idle", key |-> None]

Init ==
  /\ object = {}
  /\ row = {}
  /\ call = [c \in Calls |-> Idle]
  /\ taken = {}
  /\ answered = {}
  /\ count = [failures |-> 0, lost |-> 0, crashes |-> 0]

Continue(c, step) == call' = [call EXCEPT ![c].step = step]
End(c) == call' = [call EXCEPT ![c] = Idle]

\* Mutant: the key is not new, as a file's name would not be.
CreateNamed(c, k) ==
  /\ call[c] = Idle
  /\ taken' = taken \union {k}
  /\ call' = [call EXCEPT ![c] = [step |-> "upload", key |-> k]]
  /\ UNCHANGED <<object, row, answered, count>>

\* The file has passed the validation, and has a key.
Create(c, k) ==
  /\ call[c] = Idle
  /\ k \notin taken
  /\ taken' = taken \union {k}
  /\ call' = [call EXCEPT ![c] = [step |-> "upload", key |-> k]]
  /\ UNCHANGED <<object, row, answered, count>>

\* Mutant: the upload is not awaited.
UploadUnawaited(c) ==
  /\ call[c].step = "upload"
  /\ object' = object \union {call[c].key} \/ UNCHANGED object
  /\ Continue(c, "insert")
  /\ UNCHANGED <<row, taken, answered, count>>

Upload(c) ==
  /\ call[c].step = "upload"
  /\ object' = object \union {call[c].key}
  /\ Continue(c, "insert")
  /\ UNCHANGED <<row, taken, answered, count>>

\* Mutant: the flush is not awaited.
InsertRowUnawaited(c) ==
  /\ call[c].step = "insert"
  /\ row' = row \union {call[c].key} \/ UNCHANGED row
  /\ Continue(c, "answer")
  /\ UNCHANGED <<object, taken, answered, count>>

InsertRow(c) ==
  /\ call[c].step = "insert"
  /\ row' = row \union {call[c].key}
  /\ Continue(c, "answer")
  /\ UNCHANGED <<object, taken, answered, count>>

\* The attachment is returned.
Answer(c) ==
  /\ call[c].step = "answer"
  /\ answered' = answered \union {call[c].key}
  /\ End(c)
  /\ UNCHANGED <<object, row, taken, count>>

DeleteObject(c) ==
  /\ call[c].step = "delete"
  /\ object' = object \ {call[c].key}
  /\ End(c)
  /\ UNCHANGED <<row, taken, answered, count>>

\* Mutant: an error of the insert ends the call, like one of the upload.
AfterErrorUncleaned(c) == End(c)

\* What an error leads to: only one of the insert is followed by the delete, and
\* one of the delete is swallowed.  The client gets an error in all three cases.
AfterError(c) == IF call[c].step = "insert" THEN Continue(c, "delete") ELSE End(c)

\* The bucket or PostgreSQL fails and has done nothing.
RequestFails(c) ==
  /\ call[c].step \in {"upload", "insert", "delete"}
  /\ count.failures < MaxFailures
  /\ count' = [count EXCEPT !.failures = @ + 1]
  /\ AfterError(c)
  /\ UNCHANGED <<object, row, taken, answered>>

\* It has done what it was asked, and the answer is lost.
AnswerLost(c) ==
  /\ call[c].step \in {"upload", "insert", "delete"}
  /\ count.lost < MaxLost
  /\ count' = [count EXCEPT !.lost = @ + 1]
  /\ CASE call[c].step = "upload" -> object' = object \union {call[c].key} /\ UNCHANGED row
       [] call[c].step = "insert" -> row' = row \union {call[c].key} /\ UNCHANGED object
       [] OTHER -> object' = object \ {call[c].key} /\ UNCHANGED row
  /\ AfterError(c)
  /\ UNCHANGED <<taken, answered>>

Crash ==
  /\ count.crashes < MaxCrashes
  /\ count' = [count EXCEPT !.crashes = @ + 1]
  /\ call' = [c \in Calls |-> Idle]
  /\ UNCHANGED <<object, row, taken, answered>>

Next ==
  \/ \E c \in Calls :
       \/ \E k \in Keys : Create(c, k)
       \/ Upload(c) \/ InsertRow(c) \/ Answer(c) \/ DeleteObject(c)
       \/ RequestFails(c) \/ AnswerLost(c)
  \/ Crash

Spec == Init /\ [][Next]_vars

-----------------------------------------------------------------------------
\* Type invariant: no key is used that was not drawn, and no two calls have one.
TypeOK ==
  /\ object \subseteq taken
  /\ row \subseteq taken
  /\ answered \subseteq taken
  /\ taken \subseteq Keys
  /\ call \in [Calls -> [step : {"upload", "insert", "answer", "delete"}, key : taken] \union {Idle}]
  /\ \A c, e \in Calls : call[c] # Idle /\ call[c].key = call[e].key => c = e
  /\ count \in [failures : 0 .. MaxFailures, lost : 0 .. MaxLost, crashes : 0 .. MaxCrashes]

\* An attachment that a client was given has its row and its object, whatever
\* failed, was lost or crashed, before or after.
AnsweredIsComplete == answered \subseteq row \intersect object

\* Every row has its object, also after failures and crashes.  Only a lost answer
\* breaks this: create takes an insert that was committed for one that failed,
\* and deletes the object of the row.
RowHasObject == count.lost = 0 => row \subseteq object

Working(k) == \E c \in Calls : call[c].key = k

\* One failure leaves nothing behind: an object without a row is one a call is
\* working on.  Two failures, a lost answer or a crash leave such an object, and
\* nothing in the code ever looks for it.
FailureIsUndone ==
  count.lost = 0 /\ count.crashes = 0 /\ count.failures <= 1 =>
    \A k \in object \ row : Working(k)

\* What holds of a call between its steps: it inserts only what it has uploaded,
\* and deletes only what it was not able to insert, unless an answer was lost.
CallInv ==
  \A c \in Calls :
    /\ call[c].step = "upload" => call[c].key \notin object \union row
    /\ call[c].step = "insert" => call[c].key \in object \ row
    /\ call[c].step = "answer" => call[c].key \in object \intersect row
    /\ call[c].step = "delete" => /\ call[c].key \in object \ answered
                                  /\ call[c].key \in row => count.lost > 0
                                  /\ count.failures + count.lost > 0

\* The inductive invariant.
AttachmentInv == CallInv /\ AnsweredIsComplete /\ RowHasObject /\ FailureIsUndone
=============================================================================
