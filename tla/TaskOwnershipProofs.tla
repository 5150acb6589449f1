------------------------ MODULE TaskOwnershipProofs ------------------------
(***************************************************************************)
(* The epochs of tasks fence off the runners of earlier allocations, for   *)
(* any set of tasks and of CN stores and any number of allocations.        *)
(***************************************************************************)
EXTENDS TaskOwnership, TLAPS

(* LeasesAreFenced is inductive on typed states: Hold adds leases of the   *)
(* current epoch to the owner only, and Allocate puts the epoch above      *)
(* every lease there is.                                                   *)
Inv == TypeOK /\ LeasesAreFenced

LEMMA InitInv == Init => Inv
BY DEF Init, Inv, TypeOK, LeasesAreFenced

LEMMA NextInv == Inv /\ [Next]_vars => Inv'
<1> SUFFICES ASSUME Inv, [Next]_vars PROVE Inv'
  OBVIOUS
<1> USE DEF Inv, TypeOK
<1>1. ASSUME NEW t \in Task, NEW c \in CN, Allocate(t, c) PROVE Inv'
  <2>1. TypeOK'
    BY <1>1 DEF Allocate
  <2>2. ASSUME NEW d \in CN, NEW l \in held'[d]
        PROVE /\ l[2] <= epoch'[l[1]]
              /\ l[2] = epoch'[l[1]] => owner'[l[1]] = d
    <3>1. l \in held[d] /\ l[1] \in Task /\ l[2] \in Nat
      BY <1>1, <2>2 DEF Allocate
    <3>2. l[2] <= epoch[l[1]] /\ (l[2] = epoch[l[1]] => owner[l[1]] = d)
      BY <3>1 DEF LeasesAreFenced
    <3>3. CASE l[1] = t
      <4>1. epoch'[l[1]] = epoch[l[1]] + 1 /\ epoch[l[1]] \in Nat
        BY <1>1, <3>1, <3>3 DEF Allocate
      <4> QED BY <3>1, <3>2, <4>1
    <3>4. CASE l[1] # t
      BY <1>1, <3>1, <3>2, <3>4 DEF Allocate
    <3> QED BY <3>3, <3>4
  <2> QED BY <2>1, <2>2 DEF LeasesAreFenced
<1>2. ASSUME NEW t \in Task, NEW c \in CN, Complete(c, t) PROVE Inv'
  <2>1. held' \in [CN -> SUBSET (Task \X Nat)] /\ \A d \in CN : held'[d] \subseteq held[d]
    BY <1>2 DEF Complete
  <2>2. epoch' = epoch /\ owner' = owner /\ done' \in [Task -> BOOLEAN]
    BY <1>2 DEF Complete
  <2> QED BY <2>1, <2>2 DEF LeasesAreFenced
<1>3. ASSUME NEW c \in CN, Hold(c) PROVE Inv'
  <2>1. Mine(c) \subseteq Task \X Nat
    BY DEF Mine
  <2>2. TypeOK'
    BY <1>3, <2>1 DEF Hold
  <2>3. ASSUME NEW d \in CN, NEW l \in held'[d]
        PROVE /\ l[2] <= epoch[l[1]]
              /\ l[2] = epoch[l[1]] => owner[l[1]] = d
    <3>1. CASE l \in held[d]
      BY <3>1 DEF LeasesAreFenced
    <3>2. CASE l \notin held[d]
      <4>1. d = c /\ l \in Mine(c)
        BY <1>3, <2>3, <3>2 DEF Hold
      <4> QED BY <4>1 DEF Mine
    <3> QED BY <3>1, <3>2
  <2>4. epoch' = epoch /\ owner' = owner
    BY <1>3 DEF Hold
  <2> QED BY <2>2, <2>3, <2>4 DEF LeasesAreFenced
<1>4. CASE UNCHANGED vars
  BY <1>4 DEF vars, LeasesAreFenced
<1> QED BY <1>1, <1>2, <1>3, <1>4 DEF Next

(* Whatever a runner still holds after any number of reallocations is a    *)
(* lease of a past epoch, or it is the owner (Allocate, doFetch).          *)
THEOREM Fencing == Spec => []LeasesAreFenced
<1>1. Inv => LeasesAreFenced
  BY DEF Inv
<1> QED BY InitInv, NextInv, <1>1, PTL DEF Spec

(* A task is completed only by its owner, in the epoch of its allocation   *)
(* (the conditions of Complete).                                           *)
THEOREM OwnerCompletes == Spec => OnlyTheOwnerCompletes
<1>1. ASSUME Inv, [Next]_vars
      PROVE [\A t \in Task : ~done[t] /\ done'[t] =>
               /\ owner'[t] = owner[t] /\ epoch'[t] = epoch[t]
               /\ \A c \in CN : <<t, epoch[t]>> \in held[c] => c = owner[t]]_vars
  <2> SUFFICES ASSUME Next, NEW t \in Task, ~done[t], done'[t]
               PROVE /\ owner'[t] = owner[t] /\ epoch'[t] = epoch[t]
                     /\ \A c \in CN : <<t, epoch[t]>> \in held[c] => c = owner[t]
    BY <1>1
  <2>1. epoch' = epoch /\ owner' = owner
    BY <1>1 DEF Next, Allocate, Hold, Complete, Inv, TypeOK
  <2>2. \A c \in CN : <<t, epoch[t]>> \in held[c] => c = owner[t]
    BY <1>1 DEF Inv, LeasesAreFenced
  <2> QED BY <2>1, <2>2
<1> QED BY <1>1, InitInv, NextInv, PTL DEF Spec, OnlyTheOwnerCompletes
=============================================================================
