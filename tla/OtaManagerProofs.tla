-------------------------- MODULE OtaManagerProofs --------------------------
(***************************************************************************)
(* For every number of uploads, boots and faults: the safety properties of *)
(* OtaManager, from one inductive invariant.                               *)
(***************************************************************************)
EXTENDS OtaManager, TLAPS

Flash ==
  /\ image \in [Slots -> {"none", "part", "whole"}]
  /\ verdict \in [Slots -> {"none", "new", "pending", "valid", "aborted"}]
  /\ selected \in Slots
  /\ running \in Slots

\* The image that runs is whole, and only it may be on probation.
RunningSound ==
  /\ image[running] = "whole"
  /\ verdict[running] \in {"none", "valid", "pending"}
  /\ ~Pending(Other(running))

\* The other slot is selected only as a new image, by one that was not on
\* probation, which then stays to fall back to.
SelectedSound ==
  selected # running => verdict[selected] = "new" /\ ~Pending(running)

\* An image on probation has its predecessor to fall back to.
ProbationSound ==
  Pending(running) =>
    image[Other(running)] = "whole" /\ verdict[Other(running)] \in {"none", "valid"}

\* An upload goes on only while the image that receives it is not on probation.
UploadSound == handler # "idle" => ~Pending(running)

ConfirmSound == confirm = "due" => admin = "up"

IInv ==
  /\ Flash /\ RunningSound /\ SelectedSound /\ ProbationSound /\ UploadSound /\ ConfirmSound
  /\ VerifyingIsTrue /\ PendingRebootIsTrue

-----------------------------------------------------------------------------
\* The two slots.
LEMMA OtherSlot ==
  ASSUME NEW p \in Slots
  PROVE  Other(p) \in Slots /\ Other(p) # p /\ \A q \in Slots : q = p \/ q = Other(p)
<1>1. \E q \in Slots : q # p
  BY DEF Slots
<1>2. Other(p) \in Slots /\ Other(p) # p
  BY <1>1 DEF Other
<1> QED BY <1>2 DEF Slots

\* The slot the bootloader chooses holds a whole image, and if it gave the
\* selected one up, that image is one that was kept to fall back to.
LEMMA FallbackFromIInv ==
  ASSUME IInv
  PROVE  FallbackExists
<1>1. Other(running) \in Slots /\ running \in Slots
  BY OtherSlot DEF IInv, Flash
<1>2. CASE Pending(running)
  BY <1>1, <1>2 DEF IInv, ProbationSound, FallbackExists
<1>3. CASE ~Pending(running)
  BY <1>1, <1>3 DEF IInv, RunningSound, FallbackExists, Pending
<1> QED BY <1>2, <1>3

LEMMA InitIInv == Init => IInv
<1> SUFFICES ASSUME Init PROVE IInv
  OBVIOUS
<1>1. "ota_0" \in Slots /\ Other("ota_0") \in Slots /\ Other("ota_0") # "ota_0"
  BY OtherSlot DEF Slots
<1>2. PICK v \in {"none", "valid"} : verdict = [p \in Slots |-> IF p = "ota_0" THEN v ELSE "none"]
  BY DEF Init
<1>3. verdict["ota_0"] = v /\ verdict[Other("ota_0")] = "none"
  BY <1>1, <1>2
<1>4. Flash
  BY <1>1, <1>2 DEF Init, Flash
<1> QED
  BY <1>1, <1>3, <1>4
  DEF Init, IInv, RunningSound, SelectedSound, ProbationSound, UploadSound, ConfirmSound,
      VerifyingIsTrue, PendingRebootIsTrue, Pending, BootStatus

\* Whatever was going on, a boot leads to a sound state.
LEMMA BootKeepsIInv ==
  ASSUME IInv, Boot
  PROVE  IInv'
<1> DEFINE given_up == image[selected] # "whole" \/ Pending(selected)
           p == IF given_up THEN Other(selected) ELSE selected
           v == IF given_up THEN [verdict EXCEPT ![selected] = "aborted"]
                ELSE IF verdict[p] = "new" THEN [verdict EXCEPT ![p] = "pending"] ELSE verdict
<1>1. /\ verdict' = v /\ selected' = p /\ running' = p /\ image' = image
      /\ status' = BootStatus(v[p])
      /\ handler' = "idle" /\ confirm' = "none"
  BY DEF Boot
<1>2. /\ selected \in Slots /\ running \in Slots
      /\ Other(selected) \in Slots /\ Other(selected) # selected
      /\ Other(running) \in Slots /\ Other(running) # running
      /\ running = selected \/ running = Other(selected)
      /\ selected = running \/ selected = Other(running)
      /\ Other(Other(selected)) = selected
  BY OtherSlot DEF IInv, Flash
<1>3. CASE given_up
  <2>1. image[Other(selected)] = "whole" /\ verdict[Other(selected)] \in {"none", "valid"}
    <3>1. CASE selected = running
      BY <1>2, <1>3, <3>1 DEF IInv, RunningSound, ProbationSound
    <3>2. CASE selected # running
      BY <1>2, <3>2 DEF IInv, RunningSound, SelectedSound, Pending
    <3> QED BY <3>1, <3>2
  <2>2. /\ p = Other(selected) /\ v = [verdict EXCEPT ![selected] = "aborted"]
        /\ v[p] = verdict[p] /\ v[selected] = "aborted"
    BY <1>2, <1>3 DEF IInv, Flash
  <2> HIDE DEF v, p
  <2>3. Flash'
    BY <1>1, <1>2, <2>2 DEF IInv, Flash
  <2> QED
    BY <1>1, <1>2, <2>1, <2>2, <2>3
    DEF IInv, RunningSound, SelectedSound, ProbationSound, UploadSound, ConfirmSound,
        VerifyingIsTrue, PendingRebootIsTrue, Pending, BootStatus
<1>4. CASE ~given_up /\ verdict[selected] = "new"
  <2>1. selected # running /\ Other(selected) = running
    BY <1>2, <1>4 DEF IInv, RunningSound
  <2>2. image[running] = "whole" /\ verdict[running] \in {"none", "valid"}
    BY <1>2, <2>1 DEF IInv, RunningSound, SelectedSound, Pending
  <2>3. /\ p = selected /\ v = [verdict EXCEPT ![selected] = "pending"]
        /\ v[selected] = "pending" /\ v[running] = verdict[running]
    BY <1>2, <1>4, <2>1 DEF IInv, Flash
  <2>4. image[selected] = "whole"
    BY <1>4
  <2> HIDE DEF v, p
  <2>5. Flash'
    BY <1>1, <1>2, <2>3 DEF IInv, Flash
  <2> QED
    BY <1>1, <1>2, <2>1, <2>2, <2>3, <2>4, <2>5
    DEF IInv, RunningSound, SelectedSound, ProbationSound, UploadSound, ConfirmSound,
        VerifyingIsTrue, PendingRebootIsTrue, Pending, BootStatus
<1>5. CASE ~given_up /\ verdict[selected] # "new"
  <2>1. selected = running
    BY <1>2, <1>5 DEF IInv, SelectedSound
  <2>2. p = selected /\ v = verdict
    BY <1>5
  <2>3. image[selected] = "whole" /\ ~Pending(selected)
    BY <1>5
  <2> HIDE DEF v, p
  <2>4. Flash'
    BY <1>1, <2>2 DEF IInv, Flash
  <2> QED
    BY <1>1, <1>2, <2>1, <2>2, <2>3, <2>4
    DEF IInv, RunningSound, SelectedSound, ProbationSound, UploadSound, ConfirmSound,
        VerifyingIsTrue, PendingRebootIsTrue, Pending, BootStatus
<1> QED BY <1>3, <1>4, <1>5

LEMMA StepKeepsIInv ==
  ASSUME IInv, [Next]_vars
  PROVE  IInv'
<1> USE DEF RunningSound, SelectedSound, ProbationSound, UploadSound, ConfirmSound,
            VerifyingIsTrue, PendingRebootIsTrue, Pending
<1>1. /\ running \in Slots /\ Other(running) \in Slots /\ Other(running) # running
      /\ selected = running \/ selected = Other(running)
  BY OtherSlot DEF IInv, Flash
<1>2. CASE PowerFails \/ RestartTask
  BY <1>2, BootKeepsIInv DEF PowerFails, RestartTask
<1>3. CASE StartAdmin
  BY <1>3 DEF StartAdmin, IInv, Flash, flash
<1>4. CASE ConfirmTask
  <2>1. CASE Pending(running)
    <3>1. /\ selected = running
          /\ verdict' = [verdict EXCEPT ![running] = "valid"] /\ status' = "confirmed"
          /\ UNCHANGED <<image, selected, running, handler, admin>> /\ confirm' = "none"
      BY <1>1, <1>4, <2>1 DEF ConfirmTask, IInv
    <3>2. Flash' /\ verdict'[running] = "valid" /\ verdict'[Other(running)] = verdict[Other(running)]
      BY <1>1, <3>1 DEF IInv, Flash
    <3> QED BY <1>1, <3>1, <3>2 DEF IInv
  <2>2. CASE ~Pending(running)
    BY <1>4, <2>2 DEF ConfirmTask, IInv, Flash
  <2> QED BY <2>1, <2>2
<1>5. CASE ConfirmFails
  BY <1>5 DEF ConfirmFails, IInv, Flash, flash
<1>6. CASE UploadBegin
  <2>1. /\ image' = [image EXCEPT ![Other(running)] = "part"] /\ status' = "idle"
        /\ UNCHANGED <<verdict, selected, running, admin, confirm>> /\ ~Pending(running)
    BY <1>6 DEF UploadBegin
  <2>2. Flash' /\ image'[running] = image[running]
    BY <1>1, <2>1 DEF IInv, Flash
  <2> QED BY <1>1, <2>1, <2>2 DEF IInv
<1>7. CASE UploadBeginFails
  <2>1. /\ image' = [image EXCEPT ![Other(running)] = "part"]
        /\ UNCHANGED <<verdict, selected, running, status, handler, admin, confirm>>
        /\ ~Pending(running)
    BY <1>7 DEF UploadBeginFails
  <2>2. Flash' /\ image'[running] = image[running]
    BY <1>1, <2>1 DEF IInv, Flash
  <2> QED BY <1>1, <2>1, <2>2 DEF IInv
<1>8. CASE UploadAborts
  BY <1>8 DEF UploadAborts, IInv, Flash, flash
<1>9. CASE UploadEnds
  <2>1. /\ image' = [image EXCEPT ![Other(running)] = "whole"]
        /\ UNCHANGED <<verdict, selected, running, status, admin, confirm>>
        /\ ~Pending(running)
    BY <1>9 DEF UploadEnds, IInv
  <2>2. Flash' /\ image'[running] = image[running]
    BY <1>1, <2>1 DEF IInv, Flash
  <2> QED BY <1>1, <2>1, <2>2 DEF IInv
<1>10. CASE UploadEndFails
  BY <1>10 DEF UploadEndFails, IInv, Flash, flash
<1>11. CASE UploadSelect
  <2>1. /\ selected' = Other(running) /\ verdict' = [verdict EXCEPT ![Other(running)] = "new"]
        /\ status' = "pending_reboot" /\ handler' = "idle" /\ ~Pending(running)
        /\ UNCHANGED <<image, running, admin, confirm>>
    BY <1>11 DEF UploadSelect, IInv
  <2>2. /\ Flash' /\ verdict'[running] = verdict[running] /\ verdict'[Other(running)] = "new"
    BY <1>1, <2>1 DEF IInv, Flash
  <2> QED BY <1>1, <2>1, <2>2 DEF IInv
<1>12. CASE UploadSelectFails
  BY <1>12 DEF UploadSelectFails, IInv, Flash, flash
<1>13. CASE UNCHANGED vars
  BY <1>13 DEF vars, IInv, Flash, flash
<1> QED
  BY <1>2, <1>3, <1>4, <1>5, <1>6, <1>7, <1>8, <1>9, <1>10, <1>11, <1>12, <1>13 DEF Next

LEMMA SpecIInv == Spec => []IInv
BY InitIInv, StepKeepsIInv, PTL DEF Spec

-----------------------------------------------------------------------------
\* Whatever is uploaded and whenever power fails, one slot holds a whole image
\* that is not on probation and was not given up.
THEOREM AlwaysFallback == Spec => []FallbackExists
BY SpecIInv, FallbackFromIInv, PTL

\* The status an operator reads is "verifying" exactly while the running image
\* is on probation.
THEOREM StatusTrue == Spec => []VerifyingIsTrue
<1>1. IInv => VerifyingIsTrue
  BY DEF IInv
<1> QED BY <1>1, SpecIInv, PTL

\* The status is "pending_reboot" only while the next boot tries the uploaded image
\* and would come back from it.
THEOREM RebootTriesNew == Spec => []PendingRebootIsTrue
<1>1. IInv => PendingRebootIsTrue
  BY DEF IInv
<1> QED BY <1>1, SpecIInv, PTL

\* An image is confirmed only by itself, and only once its admin server runs.
THEOREM OnlyConfirmedWhenServing == Spec => ConfirmedWhenServing
<1> DEFINE Confirms ==
      \A p \in Slots : Pending(p) /\ verdict'[p] = "valid" => p = running /\ admin = "up"
<1>1. ASSUME IInv, [Next]_vars PROVE [Confirms]_vars
  <2> SUFFICES ASSUME NEW p \in Slots, Pending(p), verdict'[p] = "valid"
               PROVE  p = running /\ admin = "up"
    OBVIOUS
  <2>1. CASE PowerFails \/ RestartTask
    BY <1>1, <2>1 DEF PowerFails, RestartTask, Boot, Pending, IInv, Flash
  <2>2. CASE ConfirmTask
    BY <1>1, <2>2 DEF ConfirmTask, Pending, IInv, Flash, ConfirmSound
  <2>3. CASE UploadSelect
    BY <1>1, <2>3, OtherSlot DEF UploadSelect, Pending, IInv, Flash
  <2>4. CASE UNCHANGED verdict
    BY <2>4 DEF Pending
  <2> QED
    BY <1>1, <2>1, <2>2, <2>3, <2>4
    DEF Next, vars, flash, StartAdmin, ConfirmFails, UploadBegin, UploadBeginFails, UploadAborts,
        UploadEnds, UploadEndFails, UploadSelectFails
<1>2. [][Confirms]_vars <=> ConfirmedWhenServing
  BY DEF ConfirmedWhenServing
<1> QED BY <1>1, SpecIInv, PTL DEF Spec, ConfirmedWhenServing
=============================================================================
