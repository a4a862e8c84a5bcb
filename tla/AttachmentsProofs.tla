--------------------------- MODULE AttachmentsProofs ---------------------------
(***************************************************************************)
(* Theorems about Attachments, for any number of uploads at once and any   *)
(* number of failures, lost answers and crashes.                           *)
(***************************************************************************)
EXTENDS Attachments, TLAPS

\* No call uses a key that another one has.
LEMMA OwnKey ==
  ASSUME TypeOK, NEW c \in Calls, NEW e \in Calls, c # e, call[c] # Idle
  PROVE  call[e].key # call[c].key
  BY DEF TypeOK

LEMMA TypeInit == Init => TypeOK
  BY BoundAssumption DEF Init, TypeOK, Idle

LEMMA TypeStep == TypeOK /\ [Next]_vars => TypeOK'
<1> SUFFICES ASSUME TypeOK, [Next]_vars PROVE TypeOK'
  OBVIOUS
<1> USE NoneAssumption, BoundAssumption DEF TypeOK, Idle
<1>1. ASSUME NEW c \in Calls, NEW k \in Keys, Create(c, k) PROVE TypeOK'
  BY <1>1 DEF Create
<1>2. ASSUME NEW c \in Calls, Upload(c) PROVE TypeOK'
  BY <1>2 DEF Upload, Continue
<1>3. ASSUME NEW c \in Calls, InsertRow(c) PROVE TypeOK'
  BY <1>3 DEF InsertRow, Continue
<1>4. ASSUME NEW c \in Calls, Answer(c) PROVE TypeOK'
  BY <1>4 DEF Answer, End
<1>5. ASSUME NEW c \in Calls, DeleteObject(c) PROVE TypeOK'
  BY <1>5 DEF DeleteObject, End
<1>6. ASSUME NEW c \in Calls, RequestFails(c) PROVE TypeOK'
  BY <1>6 DEF RequestFails, AfterError, Continue, End
<1>7. ASSUME NEW c \in Calls, AnswerLost(c) PROVE TypeOK'
  BY <1>7 DEF AnswerLost, AfterError, Continue, End
<1>8. CASE Crash
  BY <1>8 DEF Crash
<1>9. CASE UNCHANGED vars
  BY <1>9 DEF vars
<1> QED
  BY <1>1, <1>2, <1>3, <1>4, <1>5, <1>6, <1>7, <1>8, <1>9 DEF Next

\* Everything that is referred to was drawn, and by one call.
THEOREM TypeCorrect == Spec => []TypeOK
  BY TypeInit, TypeStep, PTL DEF Spec

LEMMA AttachmentInit == Init => AttachmentInv
  BY DEF Init, AttachmentInv, CallInv, AnsweredIsComplete, RowHasObject, FailureIsUndone, Idle

LEMMA AttachmentStep == TypeOK /\ AttachmentInv /\ [Next]_vars => AttachmentInv'
<1> SUFFICES ASSUME TypeOK, AttachmentInv, [Next]_vars PROVE AttachmentInv'
  OBVIOUS
<1> USE NoneAssumption, BoundAssumption, OwnKey
        DEF TypeOK, AttachmentInv, CallInv, AnsweredIsComplete, RowHasObject,
            FailureIsUndone, Working, Idle
<1>1. ASSUME NEW c \in Calls, NEW k \in Keys, Create(c, k) PROVE AttachmentInv'
  BY <1>1 DEF Create
<1>2. ASSUME NEW c \in Calls, Upload(c) PROVE AttachmentInv'
  BY <1>2 DEF Upload, Continue
<1>3. ASSUME NEW c \in Calls, InsertRow(c) PROVE AttachmentInv'
  BY <1>3 DEF InsertRow, Continue
<1>4. ASSUME NEW c \in Calls, Answer(c) PROVE AttachmentInv'
  BY <1>4 DEF Answer, End
<1>5. ASSUME NEW c \in Calls, DeleteObject(c) PROVE AttachmentInv'
  BY <1>5 DEF DeleteObject, End
<1>6. ASSUME NEW c \in Calls, RequestFails(c) PROVE AttachmentInv'
  BY <1>6 DEF RequestFails, AfterError, Continue, End
<1>7. ASSUME NEW c \in Calls, AnswerLost(c) PROVE AttachmentInv'
  BY <1>7 DEF AnswerLost, AfterError, Continue, End
<1>8. CASE Crash
  BY <1>8 DEF Crash
<1>9. CASE UNCHANGED vars
  BY <1>9 DEF vars
<1> QED
  BY <1>1, <1>2, <1>3, <1>4, <1>5, <1>6, <1>7, <1>8, <1>9 DEF Next

\* A client was given no attachment without row and object, no row without its
\* object exists before the first lost answer, and one failure is undone.
THEOREM AttachmentsSafe == Spec => []AttachmentInv
  BY TypeInit, TypeStep, AttachmentInit, AttachmentStep, PTL DEF Spec

\* What a client was given has its row and its object for good, whatever fails.
THEOREM AnsweredTheorem == Spec => []AnsweredIsComplete
<1>1. AttachmentInv => AnsweredIsComplete
  BY DEF AttachmentInv
<1> QED
  BY <1>1, AttachmentsSafe, PTL

\* No failure and no crash leaves a row without its object.
THEOREM RowTheorem == Spec => []RowHasObject
<1>1. AttachmentInv => RowHasObject
  BY DEF AttachmentInv
<1> QED
  BY <1>1, AttachmentsSafe, PTL

\* After one failure no object is left over for good.
THEOREM FailureTheorem == Spec => []FailureIsUndone
<1>1. AttachmentInv => FailureIsUndone
  BY DEF AttachmentInv
<1> QED
  BY <1>1, AttachmentsSafe, PTL
=============================================================================
