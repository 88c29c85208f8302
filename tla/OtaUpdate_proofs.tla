--------------------------- MODULE OtaUpdate_proofs ---------------------------
(***************************************************************************)
(* Firmware updates are safe for every number of triggers at a time, every *)
(* set of images and every image size.                                     *)
(***************************************************************************)
EXTENDS OtaUpdate, TLAPS

LEMMA SlotFacts ==
  ASSUME running \in Slots
  PROVE  /\ Target \in Slots /\ Target # running
         /\ \A s \in Slots : s = running \/ s = Target
         /\ \A s, r \in Slots : s # r => 1 - s = r
  BY DEF Slots, Target

LEMMA ImageValid ==
  ASSUME NEW s, Valid(s)
  PROVE  Image(s) \in Images
  BY DEF Valid, Image

Pcs == {"idle", "write", "boot", "restart"}
Records == [pc : Pcs, image : Contents \cup {NoImage}, size : 0..Chunks,
            next : 1..Chunks + 1]
InBounds(w) == w.next <= w.size + 1 /\ (w.pc = "write" => w.image \in Contents)

(* A writer that writes has an image to write. *)
TypeInv == TypeOK /\ \A u \in Writers : writer[u] \in Records /\ InBounds(writer[u])

LEMMA StartTypes ==
  /\ Idle \in Records /\ InBounds(Idle)
  /\ \A i \in Contents, n \in 0..Chunks :
       LET w == [pc |-> "write", image |-> i, size |-> n, next |-> 1]
       IN  w \in Records /\ InBounds(w)
  BY OtaAssumption DEF Records, Pcs, InBounds, Idle

(* What the steps have in common: one writer's record changes. *)
WriterTyped == /\ writer' \in [Writers -> Records]
               /\ \A v \in Writers : InBounds(writer'[v])

LEMMA WriterChanges ==
  ASSUME TypeInv, NEW u \in Writers, NEW w \in Records, InBounds(w),
         writer' = [writer EXCEPT ![u] = w]
  PROVE  WriterTyped
  BY DEF TypeInv, TypeOK, WriterTyped, Records, Pcs

LEMMA PcChanges ==
  ASSUME TypeInv, NEW u \in Writers, NEW pc \in Pcs \ {"write"}, Goto(u, pc)
  PROVE  WriterTyped
<1> DEFINE w == [writer[u] EXCEPT !.pc = pc]
<1>1. writer[u] \in Records /\ InBounds(writer[u])
  BY DEF TypeInv
<1>2. w \in Records /\ InBounds(w)
  BY <1>1 DEF Records, Pcs, InBounds
<1>3. writer' = [writer EXCEPT ![u] = w]
  BY DEF Goto, TypeInv, TypeOK
<1> QED BY <1>2, <1>3, WriterChanges

LEMMA Stops ==
  ASSUME TypeInv, NEW u \in Writers, Stop(u)
  PROVE  WriterTyped
  BY StartTypes, WriterChanges DEF Stop

LEMMA TypedSoFar ==
  ASSUME TypeInv, WriterTyped, UNCHANGED <<flash, otadata, running, promised>>,
         browser' \in {"sending", "stalled", "gone"}, rebooting' \in BOOLEAN,
         spoiled' \in BOOLEAN
  PROVE  TypeInv'
  BY DEF TypeInv, TypeOK, WriterTyped, Records, Pcs, InBounds

LEMMA WriteTypes ==
  ASSUME TypeInv, NEW u \in Writers, Write(u)
  PROVE  TypeInv'
<1> DEFINE w == writer[u]
           n == [w EXCEPT !.next = w.next + 1]
<1>1. w \in Records /\ w.pc = "write" /\ w.image \in Contents /\ w.next <= w.size
  BY DEF TypeInv, InBounds, Write
<1>2. w.next \in 1..Chunks /\ w.next + 1 \in 1..Chunks + 1 /\ w.next + 1 <= w.size + 1
  BY <1>1, OtaAssumption DEF Records
<1>3. n \in Records /\ InBounds(n)
  BY <1>1, <1>2 DEF Records, Pcs, InBounds
<1>4. writer' = [writer EXCEPT ![u] = n]
  BY DEF Write, TypeInv, TypeOK
<1>5. WriterTyped
  BY <1>3, <1>4, WriterChanges
<1>6. flash' \in [Slots -> [1..Chunks -> Contents \cup {Erased}]]
  BY <1>1, <1>2, SlotFacts DEF Write, TypeInv, TypeOK
<1>7. spoiled' \in BOOLEAN
  BY DEF Write, TypeInv, TypeOK
<1> QED BY <1>5, <1>6, <1>7 DEF Write, TypeInv, TypeOK, WriterTyped, Records, Pcs, InBounds

LEMMA SetBootTypes ==
  ASSUME TypeInv, NEW u \in Writers, SetBoot(u)
  PROVE  TypeInv'
<1>1. WriterTyped
  BY PcChanges, Stops DEF SetBoot, Pcs
<1>2. otadata' \in Slots /\ promised' \in Images
  BY SlotFacts, ImageValid DEF SetBoot, Complete, TypeInv, TypeOK
<1>3. rebooting' \in BOOLEAN /\ spoiled' \in BOOLEAN
  BY DEF SetBoot, TypeInv, TypeOK
<1> QED BY <1>1, <1>2, <1>3
        DEF SetBoot, TypeInv, TypeOK, WriterTyped, Records, Pcs, InBounds

LEMMA RestartTypes ==
  ASSUME TypeInv, Restart
  PROVE  TypeInv'
<1>1. writer' \in [Writers -> Records] /\ \A v \in Writers : InBounds(writer'[v])
  BY StartTypes DEF Restart
<1>2. running' \in Slots
  BY DEF Restart, TypeInv, TypeOK, Slots
<1> QED BY <1>1, <1>2 DEF Restart, TypeInv, TypeOK, Records, Pcs, InBounds

LEMMA TypesKept == TypeInv /\ [Next]_vars => TypeInv'
<1> SUFFICES ASSUME TypeInv, [Next]_vars PROVE TypeInv'
  OBVIOUS
<1> USE DEF Pcs
<1>0. /\ browser \in {"sending", "stalled", "gone"} /\ rebooting \in BOOLEAN
      /\ spoiled \in BOOLEAN /\ "portal" \in Writers
  BY DEF TypeInv, TypeOK, Writers
<1>1. ASSUME NEW u \in Writers, Write(u) PROVE TypeInv'
  BY <1>1, WriteTypes
<1>2. ASSUME NEW u \in Writers, End(u) PROVE TypeInv'
  <2>1. WriterTyped
    BY <1>2, PcChanges DEF End
  <2> QED BY <1>2, <2>1, <1>0, TypedSoFar DEF End, outcome
<1>3. ASSUME NEW u \in Writers, Rejected(u) \/ Fails(u) PROVE TypeInv'
  <2>1. WriterTyped
    BY <1>3, Stops DEF Rejected, Fails
  <2> QED BY <1>3, <2>1, <1>0, TypedSoFar DEF Rejected, Fails, outcome
<1>4. ASSUME NEW u \in Writers, SetBoot(u) PROVE TypeInv'
  BY <1>4, SetBootTypes
<1>5. ASSUME NEW t \in Pulls, NEW i \in Contents, HandleTrigger(t, i) PROVE TypeInv'
  <2>1. WriterTyped
    <3>1. t \in Writers /\ Chunks \in 0..Chunks
      BY OtaAssumption DEF Writers
    <3> QED BY <1>5, <3>1, StartTypes, WriterChanges DEF HandleTrigger
  <2> QED BY <1>5, <2>1, <1>0, TypedSoFar DEF HandleTrigger, outcome
<1>6. ASSUME NEW i \in Contents, NEW n \in 0..Chunks, UploadPost(i, n) PROVE TypeInv'
  <2>1. WriterTyped
    BY <1>6, <1>0, StartTypes, WriterChanges DEF UploadPost
  <2> QED BY <1>6, <2>1, <1>0, TypedSoFar DEF UploadPost, outcome
<1>7. CASE RebootPost \/ BrowserStalls \/ BrowserLeaves \/ UNCHANGED vars
  <2>1. /\ WriterTyped /\ UNCHANGED <<flash, otadata, running, promised, spoiled>>
    BY <1>7 DEF RebootPost, BrowserStalls, BrowserLeaves, vars, outcome, TypeInv, TypeOK,
                WriterTyped, Records
  <2>2. browser' \in {"sending", "stalled", "gone"} /\ rebooting' \in BOOLEAN
    BY <1>7, <1>0 DEF RebootPost, BrowserStalls, BrowserLeaves, vars
  <2> QED BY <2>1, <2>2, <1>0, TypedSoFar
<1>8. CASE Restart
  BY <1>8, RestartTypes
<1> QED
  BY <1>1, <1>2, <1>3, <1>4, <1>5, <1>6, <1>7, <1>8
     DEF Next, Step, PullRestart, RebootTask, OtherRestart

LEMMA InitTypes == Init => TypeInv
<1> SUFFICES ASSUME Init PROVE TypeInv
  OBVIOUS
<1>1. flash \in [Slots -> [1..Chunks -> Contents \cup {Erased}]]
  BY OtaAssumption DEF Init, Contents
<1>2. writer \in [Writers -> Records] /\ \A u \in Writers : InBounds(writer[u])
  BY StartTypes DEF Init
<1> QED BY <1>1, <1>2 DEF Init, TypeInv, TypeOK, Records, Pcs, InBounds, Slots

LEMMA AlwaysTyped == Spec => []TypeInv
  BY InitTypes, TypesKept, PTL DEF Spec

(* TypeCorrect: every reachable state is well typed, and no writer runs    *)
(* past its image.                                                         *)
THEOREM TypeCorrect == Spec => []TypeOK
<1>1. TypeInv => TypeOK
  BY DEF TypeInv
<1> QED BY <1>1, AlwaysTyped, PTL

-----------------------------------------------------------------------------
(* No step but the last of a restart changes what the device runs from.    *)
LEMMA RunningUntouched ==
  ASSUME TypeInv, Next
  PROVE  \/ UNCHANGED <<running, flash>>
         \/ running' = running /\ flash'[running] = flash[running]
         \/ Restart
<1>1. ASSUME NEW u \in Writers, Write(u)
      PROVE  running' = running /\ flash'[running] = flash[running]
  BY <1>1, SlotFacts DEF Write, TypeInv, TypeOK
<1>2. ASSUME NEW u \in Writers, End(u) \/ Rejected(u) \/ SetBoot(u) \/ Fails(u)
      PROVE  UNCHANGED <<running, flash>>
  BY <1>2 DEF End, Rejected, SetBoot, Fails
<1>3. ASSUME NEW t \in Pulls, NEW i \in Contents, HandleTrigger(t, i)
      PROVE  UNCHANGED <<running, flash>>
  BY <1>3 DEF HandleTrigger
<1>4. ASSUME NEW i \in Contents, NEW n \in 0..Chunks, UploadPost(i, n)
      PROVE  UNCHANGED <<running, flash>>
  BY <1>4 DEF UploadPost
<1>5. CASE RebootPost \/ BrowserStalls \/ BrowserLeaves
  BY <1>5 DEF RebootPost, BrowserStalls, BrowserLeaves
<1> QED
  BY <1>1, <1>2, <1>3, <1>4, <1>5 DEF Next, Step, PullRestart, RebootTask, OtherRestart

(* AlwaysBootable: whatever writers do to each other, the device runs from *)
(* a whole image (ota_upload_post, ota_task).                              *)
THEOREM AlwaysBootable == Spec => []RunsWhole
<1>1. Init => RunsWhole
  BY OtaAssumption DEF Init, RunsWhole, Valid, Whole, Slots
<1>2. TypeInv /\ RunsWhole /\ [Next]_vars => RunsWhole'
  <2> SUFFICES ASSUME TypeInv, RunsWhole, [Next]_vars PROVE RunsWhole'
    OBVIOUS
  <2>1. CASE Restart
    <3>1. Valid(running')
      <4>1. CASE Valid(otadata)
        BY <2>1, <4>1 DEF Restart
      <4>2. CASE ~Valid(otadata)
        <5>1. otadata # running
          BY <4>2 DEF RunsWhole
        <5>2. 1 - otadata = running
          BY <5>1, SlotFacts DEF TypeInv, TypeOK
        <5> QED BY <2>1, <4>2, <5>2 DEF Restart, RunsWhole
      <4> QED BY <4>1, <4>2
    <3>2. flash' = flash
      BY <2>1 DEF Restart
    <3> QED BY <3>1, <3>2 DEF RunsWhole, Valid
  <2>2. CASE running' = running /\ flash'[running] = flash[running]
    BY <2>2 DEF RunsWhole, Valid
  <2>3. CASE UNCHANGED <<running, flash>>
    BY <2>3 DEF RunsWhole, Valid
  <2>4. CASE UNCHANGED vars
    BY <2>4, <2>3 DEF vars
  <2> QED BY <2>1, <2>2, <2>3, <2>4, RunningUntouched
<1> QED BY <1>1, <1>2, AlwaysTyped, PTL DEF Spec

-----------------------------------------------------------------------------
LEMMA PromiseKept == TypeInv /\ OkBoots /\ [Next]_vars => OkBoots'
<1> SUFFICES ASSUME TypeInv, OkBoots, [Next]_vars, (promised # NoImage /\ ~spoiled)'
             PROVE  (/\ otadata # running
                     /\ Valid(otadata) /\ Image(otadata) = promised)'
  BY DEF OkBoots
<1> DEFINE Same == UNCHANGED <<flash, otadata, running, promised, spoiled>>
<1>0. CASE Same
  BY <1>0 DEF OkBoots, Valid, Image
<1>1. ASSUME NEW u \in Writers, Write(u) PROVE FALSE
  BY <1>1 DEF Write
<1>2. ASSUME NEW u \in Writers, SetBoot(u)
      PROVE  (/\ otadata # running
              /\ Valid(otadata) /\ Image(otadata) = promised)'
  <2>1. /\ otadata' = Target /\ promised' = Image(Target) /\ Valid(Target)
        /\ running' = running /\ flash' = flash
    BY <1>2 DEF SetBoot, Complete
  <2>2. Target # running
    BY SlotFacts DEF TypeInv, TypeOK
  <2> QED BY <2>1, <2>2 DEF Valid, Image
<1>3. ASSUME NEW u \in Writers, End(u) \/ Rejected(u) \/ Fails(u) PROVE Same
  BY <1>3 DEF End, Rejected, Fails, outcome
<1>4. ASSUME NEW t \in Pulls, NEW i \in Contents, HandleTrigger(t, i) PROVE Same
  BY <1>4 DEF HandleTrigger, outcome
<1>5. ASSUME NEW i \in Contents, NEW n \in 0..Chunks, UploadPost(i, n) PROVE Same
  BY <1>5 DEF UploadPost, outcome
<1>6. ASSUME RebootPost \/ BrowserStalls \/ BrowserLeaves \/ UNCHANGED vars PROVE Same
  BY <1>6 DEF RebootPost, BrowserStalls, BrowserLeaves, vars, outcome
<1>7. ASSUME Restart PROVE FALSE
  BY <1>7 DEF Restart
<1> QED
  BY <1>0, <1>1, <1>2, <1>3, <1>4, <1>5, <1>6, <1>7
     DEF Next, Step, PullRestart, RebootTask, OtherRestart

(* AcceptedBoots: an image that was accepted is what a restart boots,      *)
(* unless another writer touched its slot (ota_upload_post, ota_task).     *)
THEOREM AcceptedBoots == Spec => []OkBoots
<1>1. Init => OkBoots
  BY DEF Init, OkBoots
<1> QED BY <1>1, PromiseKept, AlwaysTyped, PTL DEF Spec

(* OnlyAccepted: no failed or cut-off update changes what the next restart *)
(* starts (ota_upload_post, ota_task).                                     *)
THEOREM OnlyAccepted == Spec => OnlyAcceptedBoots
<1> DEFINE Chosen == \E u \in Writers : At(u, "boot") /\ ~At(u, "boot")'
<1>1. TypeInv /\ RunsWhole /\ [Next]_vars
        => [Boots' # Boots /\ otadata = running => Chosen]_vars
  <2> SUFFICES ASSUME TypeInv, RunsWhole, Next, otadata = running, ~Chosen
               PROVE  Boots' = Boots
    OBVIOUS
  <2>1. Valid(otadata)
    BY DEF RunsWhole
  <2>2. ASSUME otadata' = otadata, flash'[otadata] = flash[otadata]
        PROVE  Boots' = Boots
    BY <2>1, <2>2 DEF Boots, Valid, Image
  <2>3. CASE Restart
    BY <2>3, <2>2 DEF Restart
  <2>4. ASSUME NEW u \in Writers, SetBoot(u) PROVE FALSE
    <3>1. writer'[u].pc # "boot"
      <4>1. writer \in [Writers -> Records]
        BY DEF TypeInv, TypeOK, Records, Pcs
      <4>2. CASE Stop(u)
        BY <4>1, <4>2 DEF Stop, Idle
      <4>3. CASE Goto(u, "restart")
        BY <4>1, <4>3 DEF Goto, Records
      <4> QED BY <2>4, <4>2, <4>3 DEF SetBoot
    <3> QED BY <2>4, <3>1 DEF SetBoot, At
  <2>5. ASSUME otadata' = otadata PROVE Boots' = Boots
    BY <2>5, <2>2, <2>3, RunningUntouched
  <2>6. ASSUME NEW u \in Writers, Write(u) \/ End(u) \/ Rejected(u) \/ Fails(u)
        PROVE  otadata' = otadata
    BY <2>6 DEF Write, End, Rejected, Fails
  <2>7. ASSUME NEW t \in Pulls, NEW i \in Contents, HandleTrigger(t, i)
        PROVE  otadata' = otadata
    BY <2>7 DEF HandleTrigger
  <2>8. ASSUME NEW i \in Contents, NEW n \in 0..Chunks, UploadPost(i, n)
        PROVE  otadata' = otadata
    BY <2>8 DEF UploadPost
  <2>9. ASSUME RebootPost \/ BrowserStalls \/ BrowserLeaves PROVE otadata' = otadata
    BY <2>9 DEF RebootPost, BrowserStalls, BrowserLeaves
  <2> QED
    BY <2>3, <2>4, <2>5, <2>6, <2>7, <2>8, <2>9
       DEF Next, Step, PullRestart, RebootTask, OtherRestart
<1> QED BY <1>1, AlwaysTyped, AlwaysBootable, PTL DEF Spec, OnlyAcceptedBoots
=============================================================================
