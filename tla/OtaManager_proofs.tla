-------------------------- MODULE OtaManager_proofs --------------------------
(***************************************************************************)
(* Proofs about OtaManager, for every set of images and every value of the *)
(* time constants.                                                         *)
(***************************************************************************)
EXTENDS OtaManager, TLAPS

(***************************************************************************)
(* There are two slots, and Other is the one that is not meant.            *)
(***************************************************************************)
LEMMA OtherSlot == \A s \in Slots : /\ Other(s) \in Slots
                                    /\ Other(s) # s
                                    /\ Other(Other(s)) = s
                                    /\ \A t \in Slots : t = s \/ t = Other(s)
BY DEF Slots, Other

(***************************************************************************)
(* The bootloader picks a slot and writes states it knows.                 *)
(***************************************************************************)
LEMMA BootTypes ==
  ASSUME NEW st \in [Slots -> ImgStates], NEW sel \in Slots,
         NEW img \in [Slots -> Versions \cup {NoImage}]
  PROVE  /\ ActiveSlot(st, sel) \in Slots
         /\ StatesAfterBoot(st, sel) \in [Slots -> ImgStates]
         /\ BootSlot(img, st, sel, NoImage) \in Slots
<1>1. AbortPending(st) \in [Slots -> ImgStates]
  BY DEF AbortPending, ImgStates
<1>2. ActiveSlot(st, sel) \in Slots
  BY OtherSlot DEF ActiveSlot
<1>3. StatesAfterBoot(st, sel) \in [Slots -> ImgStates]
  BY <1>1 DEF StatesAfterBoot, ImgStates
<1>4. QED
  BY <1>2, <1>3, OtherSlot DEF BootSlot

(***************************************************************************)
(* Every variable keeps its type, for any images and any time constants.   *)
(***************************************************************************)
THEOREM TypeCorrect == SafetySpec => []TypeOK
<1>1. Init => TypeOK
  <2> SUFFICES ASSUME Init PROVE TypeOK
    OBVIOUS
  <2>1. image \in [Slots -> Versions \cup {NoImage}]
    BY DEF Init
  <2>2. imgState \in [Slots -> ImgStates]
    BY DEF Init, ImgStates
  <2>3. selected \in Slots /\ running \in Slots /\ state \in States
    BY DEF Init, Slots, States
  <2>4. retries \in 0..MaxRetries /\ timer \in Nat
    BY TimeAssumption DEF TimeAssumption, Init
  <2>5. QED
    BY <2>1, <2>2, <2>3, <2>4, Zenon DEF Init, TypeOK
<1>2. TypeOK /\ [Next]_vars => TypeOK'
  <2> SUFFICES ASSUME TypeOK, [Next]_vars PROVE TypeOK'
    OBVIOUS
  <2> USE TimeAssumption, OtherSlot DEF TimeAssumption
  <2>b. ASSUME NEW st \in [Slots -> ImgStates], Boot(st) PROVE TypeOK'
    <3>1. /\ StatesAfterBoot(st, selected) \in [Slots -> ImgStates]
          /\ BootSlot(image, st, selected, NoImage) \in Slots
      BY BootTypes DEF TypeOK
    <3>2. pendingVerify' \in BOOLEAN
      BY <2>b, Zenon DEF Boot, ManagerInit
    <3>3. /\ imgState' \in [Slots -> ImgStates] /\ running' \in Slots
          /\ image' = image /\ selected' = selected
          /\ worker' = "none" /\ target' = NoImage
          /\ restarting' = FALSE /\ input' = "loop"
      BY <2>b, <3>1 DEF Boot
    <3>4. state' \in States /\ timer' \in Nat /\ retries' = 0
      BY <2>b DEF Boot, ManagerInit, States
    <3>5. retries' \in 0..MaxRetries
      BY <3>4
    <3>6. QED
      BY <3>2, <3>3, <3>4, <3>5, Zenon DEF TypeOK
  <2>1. CASE Reset
    BY <2>1, <2>b DEF Reset, TypeOK
  <2>2. ASSUME NEW v \in Versions, StartUpdate(v) PROVE TypeOK'
    BY <2>2 DEF StartUpdate, TypeOK, States, flashVars
  <2>3. CASE WorkerBegin
    BY <2>3 DEF WorkerBegin, WorkerFails, TypeOK, States, verifyVars
  <2>4. CASE WorkerFinish
    BY <2>4 DEF WorkerFinish, TypeOK, States, ImgStates, verifyVars
  <2>5. CASE WorkerAbort
    BY <2>5 DEF WorkerAbort, WorkerFails, TypeOK, States, flashVars, verifyVars
  <2>6. CASE WorkerRestart
    BY <2>6, <2>b DEF WorkerRestart, Reset, TypeOK
  <2>7. CASE PollSelfCheck
    BY <2>7 DEF PollSelfCheck, EnterWaitConfirm, MayRetry, RetriesNext,
                TypeOK, States, flashVars, workVars
  <2>8. CASE PollTimeout
    BY <2>8 DEF PollTimeout, TypeOK, States, flashVars, verifyVars, workVars
  <2>9. CASE PollBanner
    BY <2>9 DEF PollBanner, TypeOK, States, flashVars, verifyVars
  <2>10. CASE Rollback
    <3>1. [imgState EXCEPT ![selected] = "invalid"] \in [Slots -> ImgStates]
      BY DEF TypeOK, ImgStates
    <3>2. QED
      BY <2>10, <3>1, <2>b DEF Rollback, Reset, TypeOK
  <2>11. CASE ConfirmRestart
    BY <2>11, <2>b DEF ConfirmRestart, Reset, TypeOK
  <2>12. ASSUME NEW taps \in 1..MaxTaps, EncoderTaps(taps) PROVE TypeOK'
    <3>1. timer' \in Nat
      BY <2>12 DEF EncoderTaps, BannerAfterConfirm, TypeOK
    <3>2. QED
      BY <2>12, <3>1 DEF EncoderTaps, TypeOK, States, ImgStates, workVars
  <2>13. CASE Tick
    BY <2>13 DEF Tick, TypeOK, flashVars, workVars
  <2>14. CASE UNCHANGED vars
    BY <2>14 DEF vars, flashVars, verifyVars, workVars, TypeOK
  <2>15. QED
    BY <2>1, <2>2, <2>3, <2>4, <2>5, <2>6, <2>7, <2>8, <2>9, <2>10, <2>11,
       <2>12, <2>13, <2>14 DEF Next
<1>3. QED
  BY <1>1, <1>2, PTL DEF SafetySpec

-----------------------------------------------------------------------------
(***************************************************************************)
(* The inductive invariant of the manager and the flash.                   *)
(***************************************************************************)
IInv == TypeOK /\ PendingIsSupervised /\ RollbackTargetIntact

(***************************************************************************)
(* Where the bootloader lands when slot r was running: an accepted image   *)
(* is kept unless a new one gets its trial, and an image that was on trial *)
(* gives way to the accepted one in the other slot.                        *)
(***************************************************************************)
MayComeUp(st, sel, r, img) ==
  /\ img[r] # NoImage
  /\ \/ /\ st[r] = "valid"
        /\ sel # r => st[sel] \in {"new", "pending_verify"} \cup Refused
     \/ /\ sel = r
        /\ st[r] \in {"pending_verify", "invalid"}
        /\ img[Other(r)] # NoImage
        /\ st[Other(r)] = "valid"

Lands(st, sel, r, img, n, after) ==
  /\ img[n] # NoImage
  /\ after[n] \in {"valid", "pending_verify"}
  /\ after[n] = "pending_verify" =>
       /\ n = sel /\ r = Other(n)
       /\ st[r] = "valid" /\ after[r] = "valid"
  /\ after[n] = "valid" => IF st[r] = "valid" THEN n = r ELSE n = Other(r)
  /\ sel # n => after[sel] \in {"new", "pending_verify"} \cup Refused

LEMMA BootLands ==
  ASSUME NEW st \in [Slots -> ImgStates], NEW sel \in Slots, NEW r \in Slots,
         NEW img \in [Slots -> Versions \cup {NoImage}],
         MayComeUp(st, sel, r, img)
  PROVE  Lands(st, sel, r, img,
               BootSlot(img, st, sel, NoImage), StatesAfterBoot(st, sel))
<1> DEFINE ap == AbortPending(st)
           act == ActiveSlot(st, sel)
           n == BootSlot(img, st, sel, NoImage)
           after == StatesAfterBoot(st, sel)
<1> USE OtherSlot
<1>1. \A s \in Slots : ap[s] = IF st[s] = "pending_verify" THEN "aborted" ELSE st[s]
  BY DEF AbortPending
<1>2. act = IF ap[sel] \in Refused THEN Other(sel) ELSE sel
  BY DEF ActiveSlot
<1>3. \A s \in Slots : after[s] = IF s = act /\ st[s] = "new"
                                 THEN "pending_verify" ELSE ap[s]
  BY DEF StatesAfterBoot
<1>4. n = IF img[act] # NoImage THEN act ELSE Other(act)
  BY DEF BootSlot
<1> SUFFICES Lands(st, sel, r, img, n, after)
  OBVIOUS
<1> HIDE DEF ap, act, n, after
<1>5. CASE st[r] = "valid" /\ sel = r
  BY <1>1, <1>2, <1>3, <1>4, <1>5 DEF MayComeUp, Lands, Refused
<1>6. CASE st[r] = "valid" /\ sel # r
  <2>1. sel = Other(r) /\ r = Other(sel)
    BY <1>6
  <2>2. CASE st[sel] = "new"
    BY <1>1, <1>2, <1>3, <1>4, <1>6, <2>1, <2>2 DEF MayComeUp, Lands, Refused
  <2>3. CASE st[sel] # "new"
    <3>1. ap[sel] \in Refused /\ act = r /\ n = r
      BY <1>1, <1>2, <1>4, <1>6, <2>1, <2>3 DEF MayComeUp, Refused
    <3>2. after[r] = "valid" /\ after[sel] = ap[sel]
      BY <1>1, <1>3, <1>6, <2>3, <3>1
    <3>3. QED
      BY <1>6, <3>1, <3>2 DEF MayComeUp, Lands
  <2>4. QED
    BY <2>2, <2>3
<1>7. CASE st[r] # "valid"
  <2>1. ap[sel] \in Refused /\ act = Other(r) /\ n = Other(r)
    BY <1>1, <1>2, <1>4, <1>7 DEF MayComeUp, Refused
  <2>2. after[n] = "valid" /\ after[sel] = ap[sel]
    BY <1>1, <1>3, <1>7, <2>1 DEF MayComeUp
  <2>3. QED
    BY <1>7, <2>1, <2>2 DEF MayComeUp, Lands
<1>8. QED
  BY <1>5, <1>6, <1>7

(***************************************************************************)
(* A reset, from any state of the invariant, with the running image        *)
(* untouched or, when it was on trial, marked invalid by the rollback.     *)
(***************************************************************************)
LEMMA BootKeepsInvariant ==
  ASSUME IInv, NEW st,
         \/ st = imgState
         \/ Pending /\ st = [imgState EXCEPT ![selected] = "invalid"],
         Boot(st)
  PROVE  /\ PendingIsSupervised' /\ RollbackTargetIntact'
         /\ [Trial!Next]_Trial!vars
<1> DEFINE n == BootSlot(image, st, selected, NoImage)
           after == StatesAfterBoot(st, selected)
<1> USE OtherSlot
<1>1. /\ st \in [Slots -> ImgStates]
      /\ st[running] = "valid" <=> ~Pending
      /\ MayComeUp(st, selected, running, image)
  BY DEF IInv, TypeOK, RollbackTargetIntact, Pending, MayComeUp, ImgStates
<1>2. Lands(st, selected, running, image, n, after)
  BY <1>1, BootLands DEF IInv, TypeOK
<1>3. n \in Slots /\ running \in Slots /\ after \in [Slots -> ImgStates]
  BY <1>1, BootTypes DEF IInv, TypeOK
<1>4. /\ imgState' = after /\ running' = n
      /\ image' = image /\ selected' = selected
      /\ worker' = "none" /\ restarting' = FALSE /\ input' = "loop"
  BY DEF Boot
<1>5. /\ pendingVerify' = (after[n] = "pending_verify")
      /\ after[n] = "pending_verify" => state' = "SELF_CHECK_RUNNING"
      /\ after[n] # "pending_verify" => state' = "READY"
  BY DEF Boot, ManagerInit
<1> HIDE DEF n, after
<1>6. Pending' <=> after[n] = "pending_verify"
  BY <1>4 DEF Pending
<1>7. PendingIsSupervised'
  BY <1>4, <1>5, <1>6, Zenon DEF PendingIsSupervised, Verifying
<1>8. RollbackTargetIntact'
  <2>1. Pending' => n = selected /\ running = Other(n) /\ after[Other(n)] = "valid"
                    /\ image[Other(n)] # NoImage
    BY <1>2, <1>6 DEF Lands, IInv, RollbackTargetIntact
  <2>2. QED
    BY <1>2, <1>4, <1>6, <2>1 DEF Lands, RollbackTargetIntact
<1>9. [Trial!Next]_Trial!vars
  <2>1. CASE Pending
    <3>1. n = Other(running) /\ ~Pending'
      BY <1>1, <1>2, <1>3, <1>6, <2>1 DEF Lands
    <3>2. goodImage' = goodImage /\ trialImage' = NoImage /\ trialImage = image[running]
      BY <1>4, <2>1, <3>1 DEF goodImage, trialImage
    <3>3. image[running] # NoImage
      BY DEF IInv, RollbackTargetIntact
    <3>4. Trial!Revert
      BY <3>2, <3>3 DEF Trial!Revert
    <3>5. QED
      BY <3>4 DEF Trial!Next
  <2>2. CASE ~Pending /\ ~Pending'
    <3>1. n = running
      BY <1>1, <1>2, <1>6, <2>2 DEF Lands
    <3>2. QED
      BY <1>4, <2>2, <3>1 DEF goodImage, trialImage, Trial!vars
  <2>3. CASE ~Pending /\ Pending'
    <3>1. running = Other(n) /\ image[n] # NoImage
      BY <1>2, <1>6, <2>3 DEF Lands
    <3>2. /\ trialImage = NoImage /\ trialImage' = image[n]
          /\ goodImage' = goodImage
      BY <1>4, <2>3, <3>1 DEF goodImage, trialImage
    <3>3. image[n] \in Versions
      BY <1>3, <3>1 DEF IInv, TypeOK
    <3>4. Trial!Try(image[n])
      BY <3>2 DEF Trial!Try
    <3>5. QED
      BY <3>3, <3>4 DEF Trial!Next
  <2>4. QED
    BY <2>1, <2>2, <2>3
<1>10. QED
  BY <1>7, <1>8, <1>9

(***************************************************************************)
(* Every other step: it keeps the invariant, and on the trial of firmware  *)
(* it is a stutter, but for the confirmation.                              *)
(***************************************************************************)
LEMMA StepKeepsInvariant ==
  ASSUME IInv, [Next]_vars
  PROVE  /\ PendingIsSupervised' /\ RollbackTargetIntact'
         /\ [Trial!Next]_Trial!vars
<1> DEFINE Goal == /\ PendingIsSupervised' /\ RollbackTargetIntact'
                   /\ [Trial!Next]_Trial!vars
           SameFlash == UNCHANGED <<image, imgState, selected, running>>
<1> USE OtherSlot
<1>t. TypeOK /\ PendingIsSupervised /\ RollbackTargetIntact
  BY DEF IInv
<1>f. ASSUME SameFlash
      PROVE  /\ Pending' = Pending
             /\ UNCHANGED Trial!vars
  BY <1>f DEF Pending, goodImage, trialImage, Trial!vars
<1>1. CASE Reset
  BY <1>1, BootKeepsInvariant DEF Reset
<1>2. ASSUME NEW v \in Versions, StartUpdate(v) PROVE Goal
  <2>1. SameFlash /\ pendingVerify' = pendingVerify /\ restarting' = restarting
        /\ input' = input /\ worker' \in {"none", "begin"}
    BY <1>2 DEF StartUpdate, flashVars
  <2>2. state \notin Verifying /\ state' \notin Verifying
    BY <1>2 DEF StartUpdate, StartAllowed, Verifying
  <2>3. PendingIsSupervised'
    BY <1>t, <1>f, <2>1, <2>2 DEF PendingIsSupervised
  <2>4. RollbackTargetIntact'
    BY <1>t, <1>f, <2>1 DEF RollbackTargetIntact
  <2>5. QED
    BY <1>f, <2>1, <2>3, <2>4
<1>3. CASE WorkerBegin
  <2>1. /\ imgState' = imgState /\ selected' = selected /\ running' = running
        /\ pendingVerify' = pendingVerify /\ input' = input /\ restarting' = restarting
        /\ worker = "begin" /\ state' \in {state, "DOWNLOAD_FAILED"}
    BY <1>3 DEF WorkerBegin, WorkerFails, verifyVars
  <2>2. state \notin Verifying /\ state' \notin Verifying
    BY <1>t, <2>1 DEF PendingIsSupervised, Verifying
  <2>3. Pending' = Pending
    BY <2>1 DEF Pending
  <2>4. PendingIsSupervised'
    BY <1>t, <2>1, <2>2, <2>3 DEF PendingIsSupervised
  <2>5. image'[running] = image[running] /\ (Pending => image' = image /\ worker' = "none")
    BY <1>t, <1>3 DEF WorkerBegin, WorkerFails, TypeOK
  <2>6. RollbackTargetIntact'
    BY <1>t, <2>1, <2>3, <2>5 DEF RollbackTargetIntact
  <2>7. UNCHANGED Trial!vars
    BY <2>1, <2>3, <2>5 DEF goodImage, trialImage, Trial!vars
  <2>8. QED
    BY <2>4, <2>6, <2>7
<1>4. CASE WorkerFinish
  <2>1. ~Pending /\ input = "loop" /\ state \notin Verifying
    BY <1>t, <1>4 DEF WorkerFinish, RollbackTargetIntact, PendingIsSupervised
  <2>2. /\ image'[running] = image[running] /\ imgState'[running] = imgState[running]
        /\ running' = running /\ selected' = Other(running)
        /\ imgState'[Other(running)] = "new"
    BY <1>t, <1>4 DEF WorkerFinish, TypeOK
  <2>3. pendingVerify' = pendingVerify /\ input' = "loop" /\ state' = "REBOOTING"
    BY <1>4, <2>1 DEF WorkerFinish, verifyVars
  <2>4. ~Pending'
    BY <2>1, <2>2 DEF Pending
  <2>5. PendingIsSupervised'
    <3>1. pendingVerify' <=> Pending'
      BY <1>t, <2>1, <2>3, <2>4, Zenon DEF PendingIsSupervised
    <3>2. QED
      BY <2>3, <2>4, <3>1 DEF PendingIsSupervised, Verifying
  <2>6. RollbackTargetIntact'
    BY <1>t, <2>2, <2>3, <2>4 DEF RollbackTargetIntact, TypeOK
  <2>7. UNCHANGED Trial!vars
    BY <2>1, <2>2, <2>4 DEF goodImage, trialImage, Trial!vars
  <2>8. QED
    BY <2>5, <2>6, <2>7
<1>5. CASE WorkerAbort
  <2>1. SameFlash /\ pendingVerify' = pendingVerify /\ restarting' = restarting
        /\ input' = input /\ worker' = "none" /\ worker # "none"
        /\ state' = "DOWNLOAD_FAILED"
    BY <1>5 DEF WorkerAbort, WorkerFails, flashVars, verifyVars
  <2>2. PendingIsSupervised' /\ RollbackTargetIntact'
    BY <1>t, <1>f, <2>1 DEF PendingIsSupervised, RollbackTargetIntact, Verifying
  <2>3. QED
    BY <1>f, <2>1, <2>2
<1>6. CASE WorkerRestart
  BY <1>6, BootKeepsInvariant DEF WorkerRestart, Reset
<1>7. CASE PollSelfCheck
  <2>1. SameFlash /\ UNCHANGED <<pendingVerify, worker, restarting, input>>
        /\ state = "SELF_CHECK_RUNNING" /\ state' \in Verifying
    BY <1>7 DEF PollSelfCheck, EnterWaitConfirm, flashVars, workVars, Verifying
  <2>2. PendingIsSupervised' /\ RollbackTargetIntact'
    BY <1>t, <1>f, <2>1 DEF PendingIsSupervised, RollbackTargetIntact, Verifying
  <2>3. QED
    BY <1>f, <2>1, <2>2
<1>8. CASE PollTimeout
  <2>1. SameFlash /\ UNCHANGED <<pendingVerify, worker, restarting>>
        /\ input' = "rollback" /\ state = "WAITING_CONFIRM"
        /\ state' = "ROLLBACK_REBOOTING"
    BY <1>8 DEF PollTimeout, flashVars, verifyVars, workVars
  <2>2. PendingIsSupervised' /\ RollbackTargetIntact'
    BY <1>t, <1>f, <2>1 DEF PendingIsSupervised, RollbackTargetIntact, Verifying
  <2>3. QED
    BY <1>f, <2>1, <2>2
<1>9. CASE PollBanner
  <2>1. SameFlash /\ UNCHANGED <<pendingVerify, worker, restarting, input>>
        /\ state = "CONFIRMED" /\ state' = "READY"
    BY <1>9 DEF PollBanner, flashVars, verifyVars
  <2>2. PendingIsSupervised' /\ RollbackTargetIntact'
    BY <1>t, <1>f, <2>1 DEF PendingIsSupervised, RollbackTargetIntact, Verifying
  <2>3. QED
    BY <1>f, <2>1, <2>2
<1>10. CASE Rollback
  <2>1. Pending
    BY <1>t, <1>10 DEF Rollback, RollbackTargetIntact
  <2>2. QED
    BY <1>10, <2>1, BootKeepsInvariant DEF Rollback, Reset
<1>11. CASE ConfirmRestart
  BY <1>11, BootKeepsInvariant DEF ConfirmRestart, Reset
<1>12. ASSUME NEW taps \in 1..MaxTaps, EncoderTaps(taps) PROVE Goal
  <2>1. /\ state = "WAITING_CONFIRM" /\ input = "loop" /\ Pending /\ pendingVerify
        /\ selected = running /\ image[running] # NoImage
        /\ UNCHANGED <<image, selected, running, worker, restarting>>
    BY <1>t, <1>12 DEF EncoderTaps, TapsConfirm, PendingIsSupervised, Verifying,
                       RollbackTargetIntact, workVars
  <2>2. CASE /\ imgState' = [imgState EXCEPT ![selected] = "valid"]
             /\ state' = "CONFIRMED" /\ pendingVerify' = FALSE /\ input' = input
    <3>1. imgState'[running] = "valid" /\ ~Pending'
      BY <1>t, <2>1, <2>2 DEF TypeOK, Pending
    <3>a. pendingVerify' <=> Pending'
      BY <2>2, <3>1, Zenon
    <3>b. PendingIsSupervised'
      BY <2>1, <2>2, <3>1, <3>a DEF PendingIsSupervised, Verifying
    <3>2. PendingIsSupervised' /\ RollbackTargetIntact'
      BY <2>1, <2>2, <3>1, <3>b DEF RollbackTargetIntact
    <3>3. /\ trialImage = image[running] /\ trialImage' = NoImage
          /\ goodImage' = image[running]
      BY <2>1, <3>1 DEF goodImage, trialImage
    <3>4. Trial!Accept
      BY <2>1, <3>3 DEF Trial!Accept
    <3>5. QED
      BY <3>2, <3>4 DEF Trial!Next
  <2>3. CASE /\ state' = "ROLLBACK_REBOOTING" /\ input' = "restart"
             /\ UNCHANGED <<imgState, pendingVerify>>
    <3>1. SameFlash
      BY <2>1, <2>3
    <3>2. PendingIsSupervised' /\ RollbackTargetIntact'
      BY <1>t, <1>f, <2>1, <2>3, <3>1 DEF PendingIsSupervised, RollbackTargetIntact, Verifying
    <3>3. QED
      BY <1>f, <3>1, <3>2
  <2>4. QED
    BY <1>12, <2>2, <2>3 DEF EncoderTaps
<1>13. CASE Tick
  <2>1. SameFlash /\ UNCHANGED <<pendingVerify, worker, restarting, input, state>>
    BY <1>13 DEF Tick, flashVars, workVars
  <2>2. QED
    BY <1>t, <1>f, <2>1 DEF PendingIsSupervised, RollbackTargetIntact
<1>14. CASE UNCHANGED vars
  <2>1. SameFlash /\ UNCHANGED <<pendingVerify, worker, restarting, input, state>>
    BY <1>14 DEF vars, flashVars, verifyVars, workVars
  <2>2. QED
    BY <1>t, <1>f, <2>1 DEF PendingIsSupervised, RollbackTargetIntact
<1>15. QED
  BY <1>1, <1>2, <1>3, <1>4, <1>5, <1>6, <1>7, <1>8, <1>9, <1>10, <1>11,
     <1>12, <1>13, <1>14 DEF Next

(***************************************************************************)
(* In the factory state nothing is on trial.                               *)
(***************************************************************************)
LEMMA InitEstablishesInvariant ==
  ASSUME Init
  PROVE  PendingIsSupervised /\ RollbackTargetIntact /\ Trial!Init
<1>1. /\ running = 0 /\ selected = 0 /\ imgState[0] = "valid"
      /\ image[0] \in Versions
  BY DEF Init, Slots
<1>2. ~Pending
  BY <1>1 DEF Pending
<1>3. PendingIsSupervised
  BY <1>2 DEF Init, PendingIsSupervised, Verifying
<1>4. RollbackTargetIntact
  BY <1>1, <1>2, ImageAssumption DEF Init, RollbackTargetIntact
<1>5. Trial!Init
  BY <1>1, <1>2 DEF Trial!Init, goodImage, trialImage
<1>6. QED
  BY <1>3, <1>4, <1>5

(***************************************************************************)
(* A pending image is always supervised, and the slot it would be rolled   *)
(* back to stays intact, at every step of every run.                       *)
(***************************************************************************)
THEOREM VerificationSafe == SafetySpec => [](PendingIsSupervised /\ RollbackTargetIntact)
<1>1. Init => PendingIsSupervised /\ RollbackTargetIntact
  BY InitEstablishesInvariant
<1>2. /\ TypeOK /\ PendingIsSupervised /\ RollbackTargetIntact
      /\ [Next]_vars
      => (PendingIsSupervised /\ RollbackTargetIntact)'
  BY StepKeepsInvariant DEF IInv
<1>3. QED
  BY <1>1, <1>2, TypeCorrect, PTL DEF SafetySpec

(***************************************************************************)
(* The image a failed trial returns to is intact, alone: no update is      *)
(* written over it while the running image is on trial (ota_manager.c:496).*)
(***************************************************************************)
THEOREM TargetStaysIntact == SafetySpec => []RollbackTargetIntact
  BY VerificationSafe, PTL

(***************************************************************************)
(* The safety part of ImplementsTrial: the accepted firmware changes only  *)
(* by a confirmation of the firmware on trial, and a trial that is not     *)
(* confirmed returns to exactly the firmware that was accepted before.     *)
(***************************************************************************)
THEOREM ImplementsTrialSafety == SafetySpec => Trial!Init /\ [][Trial!Next]_Trial!vars
<1>1. Init => Trial!Init
  BY InitEstablishesInvariant
<1>2. /\ TypeOK /\ PendingIsSupervised /\ RollbackTargetIntact
      /\ [Next]_vars
      => [Trial!Next]_Trial!vars
  BY StepKeepsInvariant DEF IInv
<1>3. QED
  BY <1>1, <1>2, TypeCorrect, VerificationSafe, PTL DEF SafetySpec
=============================================================================
