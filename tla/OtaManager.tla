----------------------------- MODULE OtaManager -----------------------------
(***************************************************************************)
(* Firmware updates: ota_manager.c, the upload handler of admin_server.c,  *)
(* the boot sequence of main.c as far as updates go, and the two delayed   *)
(* tasks that restart the device and confirm its new image.  The server    *)
(* handles one upload at a time; between two steps of it the delayed tasks *)
(* may run and power may fail.                                             *)
(*                                                                         *)
(* The two application slots, the choice among them at boot and the        *)
(* esp_ota_* calls belong to ESP-IDF, built with rollback enabled; they    *)
(* are modelled as far as this code uses them.  The bytes of an image are  *)
(* left out: a slot holds a whole image or a part of one.                  *)
(***************************************************************************)
EXTENDS Naturals

CONSTANTS
  MaxUploads, \* bound: uploads that get past esp_ota_begin
  MaxBoots,   \* bound: boots
  MaxFaults   \* bound: power failures, failed confirmations, uploads out of memory

ASSUME OtaAssumption == MaxUploads \in Nat /\ MaxBoots \in Nat \ {0} /\ MaxFaults \in Nat

VARIABLES
  image,    \* slot -> "none", "part" or "whole"
  verdict,  \* slot -> esp_ota_img_states_t, "none" without an entry in otadata
  selected, \* the slot to boot next
  running,  \* the slot that runs
  status,   \* s_ota_snapshot.state.status
  upload,   \* s_ota_snapshot.upload_in_progress
  handler,  \* the program counter of ota_upload_post_handler
  admin,    \* "off" until app_main started the admin server, "up" or "failed"
  confirm,  \* the confirmation task: "none" or "due"
  restart,  \* restart tasks that sleep
  uploads, boots, faults

flash == <<image, verdict, selected>>
bounds == <<uploads, boots, faults>>
vars == <<flash, running, status, upload, handler, admin, confirm, restart, bounds>>

Slots == {"ota_0", "ota_1"}
Other(p) == CHOOSE q \in Slots : q # p

Pending(p) == verdict[p] = "pending"
-----------------------------------------------------------------------------
(* Booting.                                                                *)

\* refresh_snapshot_partitions
BootStatus(v) ==
  IF v = "pending" THEN "verifying"
  ELSE IF v = "aborted" THEN "rollback_required"
  ELSE IF v = "none" THEN "idle" ELSE "confirmed"

\* The bootloader: a new image boots on probation; one that was restarted
\* before it was confirmed is given up, and so is one that is not whole.
Boot ==
  LET given_up == image[selected] # "whole" \/ Pending(selected)
      p == IF given_up THEN Other(selected) ELSE selected
      v == IF given_up THEN [verdict EXCEPT ![selected] = "aborted"]
           ELSE IF verdict[p] = "new" THEN [verdict EXCEPT ![p] = "pending"] ELSE verdict
  IN  /\ boots < MaxBoots /\ boots' = boots + 1
      /\ verdict' = v /\ selected' = p /\ running' = p
      /\ status' = BootStatus(v[p])
      /\ upload' = FALSE /\ handler' = "idle" /\ admin' = "off"
      /\ confirm' = "none" /\ restart' = 0
      /\ UNCHANGED <<image, uploads>>

PowerFails == faults < MaxFaults /\ faults' = faults + 1 /\ Boot

\* reboot_task after its delay.
RestartTask == restart > 0 /\ UNCHANGED faults /\ Boot

\* Mutant of StartAdmin: the image is confirmed whether or not the server runs.
StartAdmin_ConfirmsAnyway ==
  /\ admin = "off"
  /\ admin' \in {"up", "failed"}
  /\ confirm' = IF Pending(running) THEN "due" ELSE "none"
  /\ UNCHANGED <<flash, running, status, upload, handler, restart, bounds>>

\* app_main: espclaw_admin_server_start, then, if that succeeded,
\* espclaw_ota_manager_schedule_confirm.
StartAdmin ==
  /\ admin = "off"
  /\ admin' \in {"up", "failed"}
  /\ confirm' = IF admin' = "up" /\ Pending(running) THEN "due" ELSE "none"
  /\ UNCHANGED <<flash, running, status, upload, handler, restart, bounds>>

\* Mutant of ConfirmTask: the image is not marked valid.
ConfirmTask_OnlyStatus ==
  /\ confirm = "due"
  /\ confirm' = "none"
  /\ status' = "confirmed"
  /\ UNCHANGED <<flash, running, upload, handler, admin, restart, bounds>>

\* confirm_task after its delay, with espclaw_ota_manager_confirm_running.
ConfirmTask ==
  /\ confirm = "due"
  /\ confirm' = "none"
  /\ status' = "confirmed"
  /\ verdict' = IF Pending(running) THEN [verdict EXCEPT ![running] = "valid"] ELSE verdict
  /\ UNCHANGED <<image, selected, running, upload, handler, admin, restart, bounds>>

\* esp_ota_mark_app_valid_cancel_rollback fails.
ConfirmFails ==
  /\ confirm = "due" /\ Pending(running) /\ faults < MaxFaults
  /\ faults' = faults + 1
  /\ confirm' = "none"
  /\ UNCHANGED <<flash, running, status, upload, handler, admin, restart, uploads, boots>>
-----------------------------------------------------------------------------
(* ota_upload_post_handler.                                                *)

\* Mutant of UploadBegin: the status is reset before esp_ota_begin is called,
\* which refuses while the running image is on probation.
UploadBegin_ResetsFirst ==
  /\ handler = "idle" /\ admin = "up" /\ ~upload
  /\ uploads < MaxUploads /\ uploads' = uploads + 1
  /\ status' = "idle"
  /\ IF Pending(running) THEN UNCHANGED <<image, upload, handler>>
     ELSE /\ image' = [image EXCEPT ![Other(running)] = "part"]
          /\ upload' = TRUE /\ handler' = "recv"
  /\ UNCHANGED <<verdict, selected, running, admin, confirm, restart, boots, faults>>

\* Mutant of UploadBegin: an image on probation is not asked about.
UploadBegin_OnProbation ==
  /\ handler = "idle" /\ admin = "up" /\ ~upload
  /\ uploads < MaxUploads /\ uploads' = uploads + 1
  /\ image' = [image EXCEPT ![Other(running)] = "part"]
  /\ upload' = TRUE /\ status' = "idle" /\ handler' = "recv"
  /\ UNCHANGED <<verdict, selected, running, admin, confirm, restart, boots, faults>>

\* espclaw_ota_manager_begin: esp_ota_begin erases the slot that does not run,
\* unless the running image is on probation.
UploadBegin ==
  /\ handler = "idle" /\ admin = "up" /\ ~upload /\ ~Pending(running)
  /\ uploads < MaxUploads /\ uploads' = uploads + 1
  /\ image' = [image EXCEPT ![Other(running)] = "part"]
  /\ upload' = TRUE /\ status' = "idle" /\ handler' = "recv"
  /\ UNCHANGED <<verdict, selected, running, admin, confirm, restart, boots, faults>>

\* esp_ota_begin erases the slot and then finds no memory.
UploadBeginFails ==
  /\ handler = "idle" /\ admin = "up" /\ ~upload /\ ~Pending(running)
  /\ faults < MaxFaults /\ faults' = faults + 1
  /\ image' = [image EXCEPT ![Other(running)] = "part"]
  /\ UNCHANGED <<verdict, selected, running, status, upload, handler, admin, confirm, restart,
                 uploads, boots>>

\* httpd_req_recv or espclaw_ota_manager_write fails: espclaw_ota_manager_abort.
UploadAborts ==
  /\ handler = "recv"
  /\ upload' = FALSE /\ status' = "idle" /\ handler' = "idle"
  /\ UNCHANGED <<flash, running, admin, confirm, restart, bounds>>

\* All bytes are written and esp_ota_end finds the image good.
UploadEnds ==
  /\ handler = "recv"
  /\ image' = [image EXCEPT ![Other(running)] = "whole"]
  /\ handler' = "select"
  /\ UNCHANGED <<verdict, selected, running, status, upload, admin, confirm, restart, bounds>>

\* esp_ota_end finds the image bad: the handler answers with an error.
UploadEndFails ==
  /\ handler = "recv"
  /\ handler' = "idle"
  /\ UNCHANGED <<flash, running, status, upload, admin, confirm, restart, bounds>>

\* Mutant of UploadSelect: the slot to boot next is not changed.
UploadSelect_Forgets ==
  /\ handler = "select"
  /\ upload' = FALSE /\ status' = "pending_reboot" /\ handler' = "idle"
  /\ restart' = restart + 1
  /\ UNCHANGED <<flash, running, admin, confirm, bounds>>

\* esp_ota_set_boot_partition; espclaw_ota_mark_downloaded and
\* _mark_pending_reboot; espclaw_ota_manager_schedule_restart, which may fail.
UploadSelect ==
  /\ handler = "select"
  /\ selected' = Other(running)
  /\ verdict' = [verdict EXCEPT ![Other(running)] = "new"]
  /\ upload' = FALSE /\ status' = "pending_reboot" /\ handler' = "idle"
  /\ \/ restart' = restart + 1
     \/ UNCHANGED restart
  /\ UNCHANGED <<image, running, admin, confirm, bounds>>

\* esp_ota_set_boot_partition fails.
UploadSelectFails ==
  /\ handler = "select"
  /\ handler' = "idle"
  /\ UNCHANGED <<flash, running, status, upload, admin, confirm, restart, bounds>>
-----------------------------------------------------------------------------
\* A device after its serial flash: otadata is empty, or the bootloader has
\* already written an entry for the slot it chose.
Init ==
  /\ image = [p \in Slots |-> IF p = "ota_0" THEN "whole" ELSE "none"]
  /\ \E v \in {"none", "valid"} : verdict = [p \in Slots |-> IF p = "ota_0" THEN v ELSE "none"]
  /\ selected = "ota_0" /\ running = "ota_0"
  /\ status = BootStatus(verdict["ota_0"]) /\ upload = FALSE /\ handler = "idle"
  /\ admin = "off" /\ confirm = "none" /\ restart = 0
  /\ uploads = 0 /\ boots = 1 /\ faults = 0

Next ==
  \/ PowerFails \/ RestartTask
  \/ StartAdmin \/ ConfirmTask \/ ConfirmFails
  \/ UploadBegin \/ UploadBeginFails \/ UploadAborts
  \/ UploadEnds \/ UploadEndFails \/ UploadSelect \/ UploadSelectFails

Spec == Init /\ [][Next]_vars

\* The tasks that were created run, app_main goes on, and an upload that began
\* comes to an end.
Fairness ==
  /\ WF_vars(RestartTask) /\ WF_vars(StartAdmin) /\ WF_vars(ConfirmTask)
  /\ WF_vars(UploadAborts \/ UploadEnds \/ UploadEndFails \/ UploadSelect \/ UploadSelectFails)

FairSpec == Spec /\ Fairness
-----------------------------------------------------------------------------
(* Properties.                                                             *)

\* The status shown to the operator is "verifying" exactly while the running
\* image is on probation, whatever uploads are refused or aborted meanwhile.
VerifyingIsTrue == status = "verifying" <=> Pending(running)

\* While the status is "pending_reboot" the next boot tries the other slot, on
\* probation: the operator's restart is not a restart into the old image.
PendingRebootIsTrue ==
  status = "pending_reboot" => selected = Other(running) /\ verdict[selected] = "new"

\* There is always an image to fall back to: one slot holds a whole image that
\* is not on probation and was not given up.
FallbackExists == \E p \in Slots : image[p] = "whole" /\ verdict[p] \in {"none", "valid"}

\* A new image is confirmed only by itself and only once its admin server runs,
\* so that an image that cannot be updated again is rolled back.
ConfirmedWhenServing ==
  [][\A p \in Slots : Pending(p) /\ verdict'[p] = "valid" => p = running /\ admin = "up"]_vars

\* Once faults have ended, a confirmation that is due is carried out: the new
\* image does not stay on probation.
NewImageConfirmed ==
  \A p \in Slots : confirm = "due" /\ faults = MaxFaults /\ running = p ~> ~Pending(p)
=============================================================================
