--------------------------- MODULE CommitLockProofs ---------------------------
(***************************************************************************)
(* Theorems about CommitLock, for any processes and any bounds, under the  *)
(* restriction QuietBreak: between the look at a stale lock and its        *)
(* removal nobody makes a fresh one.                                       *)
(***************************************************************************)
EXTENDS CommitLock, TLAPS

LockInv == LockTypeOK /\ HolderKeepsLock /\ BreakersFindStale

LEMMA LockInvInitially == LockInit => LockInv
  BY CommitLockAssumption
     DEF LockInit, LockInv, LockTypeOK, LockPlace, HolderKeepsLock, BreakersFindStale

\* The three parts hold one another up: a holder's lock is too young to be
\* stale, so who breaks a stale lock breaks nobody's.
LEMMA LockInvPreserved ==
  ASSUME QuietBreak
  PROVE  LockInv /\ [LockNext]_lockVars => LockInv'
<1> SUFFICES ASSUME LockInv, [LockNext]_lockVars PROVE LockInv'
  OBVIOUS
<1> USE CommitLockAssumption
    DEF LockInv, LockTypeOK, LockPlace, HolderKeepsLock, BreakersFindStale, MoveTo
<1>1. CASE UNCHANGED lockVars
  BY <1>1 DEF lockVars
<1>2. CASE Tick
  BY <1>2 DEF Tick
<1>3. ASSUME NEW p \in Process, LockStep(p) PROVE LockInv'
  <2>1. CASE Look(p)        BY <2>1 DEF Look, Stale
  <2>2. CASE Break(p)       BY <2>2 DEF Break
  <2>3. CASE Make(p)        BY <2>3 DEF Make, Quiet
  <2>4. CASE Refuse(p)      BY <2>4 DEF Refuse
  <2>5. CASE Release(p)
    <3>1. dir = p  BY <2>5 DEF Release
    <3>2. \A q \in Process \ {p} : at[q] # "holding"  BY <3>1
    <3> QED  BY <2>5, <3>2 DEF Release
  <2>6. CASE CrashHolder(p)   BY <2>6 DEF CrashHolder
  <2>7. CASE RestartHolder(p) BY <2>7 DEF RestartHolder
  <2> QED  BY <1>3, <2>1, <2>2, <2>3, <2>4, <2>5, <2>6, <2>7 DEF LockStep
<1> QED  BY <1>1, <1>2, <1>3 DEF LockNext

LEMMA LockInvAlways ==
  ASSUME QuietBreak
  PROVE  LockSpec => []LockInv
<1>1. LockInit => LockInv  BY LockInvInitially
<1>2. LockInv /\ [LockNext]_lockVars => LockInv'  BY LockInvPreserved
<1> QED  BY <1>1, <1>2, PTL DEF LockSpec

LEMMA HoldersAgree == LockInv => MutualExclusion
  BY DEF LockInv, HolderKeepsLock, MutualExclusion

\* The lock of a handler at work stays: neither a release nor the breaking of
\* a stale lock takes it away.
THEOREM LockIsKept ==
  ASSUME QuietBreak
  PROVE  LockSpec => []HolderKeepsLock
<1>1. LockInv => HolderKeepsLock  BY DEF LockInv
<1> QED  BY <1>1, LockInvAlways, PTL

\* There is one handler at work at most, whatever crashes and however old the
\* locks get.
THEOREM LockExcludes ==
  ASSUME QuietBreak
  PROVE  LockSpec => []MutualExclusion
<1> QED  BY HoldersAgree, LockInvAlways, PTL

---------------------------------------------------------------------------
LEMMA HolderIsWhoHolds ==
  ASSUME LockInv, NEW p \in Process, at[p] = "holding"
  PROVE  Holder = p
<1>1. \A q \in Process : at[q] = "holding" => q = p
  BY HoldersAgree DEF MutualExclusion
<1> QED  BY <1>1 DEF Holder

LEMMA HolderIsNobody ==
  ASSUME \A p \in Process : at[p] # "holding"
  PROVE  Holder = Nobody
  BY DEF Holder

LEMMA HolderInitially == LockInit => M!Init
<1> SUFFICES ASSUME LockInit PROVE Holder = Nobody  BY DEF M!Init
<1>1. \A p \in Process : at[p] # "holding"  BY DEF LockInit
<1> QED  BY <1>1, HolderIsNobody

\* Each step of the lock is a step of the mutex or leaves its holder.
LEMMA HolderSteps ==
  ASSUME QuietBreak, LockInv, LockInv', [LockNext]_lockVars
  PROVE  [M!Next]_Holder
<1>0. LockInv => HolderKeepsLock /\ LockTypeOK  BY DEF LockInv
<1>1. ASSUME NEW p \in Process, LockStep(p) PROVE [M!Next]_Holder
  <2>1. CASE at[p] # "holding" /\ at'[p] # "holding"
    <3>1. \A q \in Process : at'[q] = "holding" <=> at[q] = "holding"
      BY <1>0, <1>1, <2>1
         DEF LockTypeOK, LockStep, Look, Break, Make, Refuse, Release,
             CrashHolder, RestartHolder, MoveTo
    <3>2. Holder' = Holder  BY <3>1 DEF Holder
    <3> QED  BY <3>2
  <2>2. CASE at[p] # "holding" /\ at'[p] = "holding"
    <3>1. Make(p)
      BY <1>0, <1>1, <2>2
         DEF LockTypeOK, LockStep, Look, Break, Make, Refuse, Release,
             CrashHolder, RestartHolder, MoveTo
    <3>2. \A q \in Process : at[q] # "holding"
      BY <1>0, <3>1, CommitLockAssumption DEF Make, HolderKeepsLock
    <3>3. Holder = Nobody  BY <3>2, HolderIsNobody
    <3>4. Holder' = p
      <4>1. \A q \in Process : at'[q] = "holding" => q = p
        BY <1>0, <3>1, <3>2 DEF Make, MoveTo, LockTypeOK
      <4> QED  BY <4>1, <2>2 DEF Holder
    <3> QED  BY <3>3, <3>4 DEF M!Next, M!Take
  <2>3. CASE at[p] = "holding"
    <3>1. at'[p] # "holding"
      BY <1>0, <1>1, <2>3
         DEF LockTypeOK, LockStep, Look, Break, Make, Refuse, Release,
             CrashHolder, RestartHolder, MoveTo
    <3>2. Holder = p  BY <2>3, HolderIsWhoHolds
    <3>3. \A q \in Process : at'[q] # "holding"
      <4>1. \A q \in Process \ {p} : at[q] # "holding"
        BY <1>0, <2>3 DEF HolderKeepsLock
      <4>2. \A q \in Process \ {p} : at'[q] = at[q]
        BY <1>0, <1>1
           DEF LockTypeOK, LockStep, Look, Break, Make, Refuse, Release,
               CrashHolder, RestartHolder, MoveTo
      <4> QED  BY <3>1, <4>1, <4>2
    <3>4. Holder' = Nobody  BY <3>3 DEF Holder
    <3> QED  BY <3>2, <3>4 DEF M!Next, M!Give
  <2> QED  BY <2>1, <2>2, <2>3
<1>2. CASE UNCHANGED at
  BY <1>2 DEF Holder
<1> QED  BY <1>1, <1>2 DEF LockNext, lockVars, Tick

\* acquireLock and releaseLock implement a mutex; to crash is to give it up.
THEOREM LockImplementsMutex ==
  ASSUME QuietBreak
  PROVE  LockSpec => ImplementsMutex
<1>1. LockInit => M!Init  BY HolderInitially
<1>2. LockInv /\ LockInv' /\ [LockNext]_lockVars => [M!Next]_Holder
  BY HolderSteps
<1> QED  BY <1>1, <1>2, LockInvAlways, PTL DEF LockSpec, ImplementsMutex, M!Spec

===========================================================================
