-------------------------- MODULE AgentSlotsProofs --------------------------
(***************************************************************************)
(* For every set of calls and every max_agents: the reservation counter is *)
(* exact, the bound on agents holds, worktrees are owned and the Project   *)
(* Manager's names are unique.                                             *)
(***************************************************************************)
EXTENDS AgentSlots, FiniteSetTheorems, TLAPS

(* Slots and reservations are one invariant: the bound is kept because the *)
(* counter is exact, and the counter never negative because it is a size.  *)
SlotInv == TypeOK /\ ReservationsBalanced /\ SlotsBounded

----------------------------------------------------------------------------
(* The calls are finitely many, so are the holders of reservations.        *)
LEMMA Finite ==
  ASSUME TypeOK
  PROVE  /\ IsFiniteSet(Holders) /\ Cardinality(Holders) \in Nat
         /\ IsFiniteSet(runtimes) /\ Cardinality(runtimes) \in Nat
<1>1. IsFiniteSet(Sessions)
  BY SlotsAssumption
<1>2. Holders \in SUBSET Sessions
  BY DEF Holders, Sessions
<1>3. runtimes \in SUBSET Sessions
  BY DEF TypeOK
<1>4. QED
  BY <1>1, <1>2, <1>3, FS_Subset, FS_CardinalityType

(* A call that moves to another await is still a call.                     *)
LEMMA GoesType ==
  ASSUME TypeOK, NEW c \in Calls, NEW s \in Stages, Goes(c, s)
  PROVE  /\ call' \in [Calls -> Stages]
         /\ call'[c] = s
         /\ \A d \in Calls : d # c => call'[d] = call[d]
BY DEF TypeOK, Goes

(* A call that reserves is one more holder ...                             *)
LEMMA Takes ==
  ASSUME TypeOK, NEW c \in Calls, NEW s \in Holding, Goes(c, s),
         call[c] \notin Holding
  PROVE  Cardinality(Holders') = Cardinality(Holders) + 1
<1>1. s \in Stages
  BY DEF Stages
<1>2. Holders' = Holders \cup {c}
  BY <1>1, GoesType DEF Holders
<1>3. c \notin Holders
  BY DEF Holders
<1>4. QED
  BY <1>2, <1>3, Finite, FS_AddElement

(* ... one that goes from an await to the next keeps what it holds ...     *)
LEMMA Keeps ==
  ASSUME TypeOK, NEW c \in Calls, NEW s \in Stages, Goes(c, s),
         call[c] \in Holding <=> s \in Holding
  PROVE  Cardinality(Holders') = Cardinality(Holders)
<1>1. Holders' = Holders
  BY GoesType DEF Holders
<1>2. QED
  BY <1>1

(* ... and one that releases is one less: there was one to release.        *)
LEMMA Gives ==
  ASSUME TypeOK, NEW c \in Calls, NEW s \in Stages, Goes(c, s),
         call[c] \in Holding, s \notin Holding
  PROVE  /\ Cardinality(Holders') = Cardinality(Holders) - 1
         /\ Cardinality(Holders) > 0
<1>1. Holders' = Holders \ {c}
  BY GoesType DEF Holders
<1>2. c \in Holders
  BY DEF Holders
<1>3. Cardinality(Holders) # 0
  BY <1>2, Finite, FS_EmptySet
<1>4. Cardinality(Holders \ {c}) = Cardinality(Holders) - 1
  BY <1>2, Finite, FS_RemoveElement
<1>5. Cardinality(Holders) \in Nat
  BY Finite
<1>6. QED
  BY <1>1, <1>3, <1>4, <1>5

(* Registering a Session adds at most one runtime, unregistering none.     *)
LEMMA Registers ==
  ASSUME TypeOK, NEW s \in Sessions
  PROVE  /\ Cardinality(runtimes \cup {s}) \in Nat
         /\ Cardinality(runtimes \cup {s}) <= Cardinality(runtimes) + 1
         /\ Cardinality(runtimes \ {s}) \in Nat
         /\ Cardinality(runtimes \ {s}) <= Cardinality(runtimes)
<1>1. IsFiniteSet(runtimes) /\ Cardinality(runtimes) \in Nat
  BY Finite
<1>2. IsFiniteSet(runtimes \cup {s}) /\ IsFiniteSet(runtimes \ {s})
  BY <1>1, FS_AddElement, FS_RemoveElement
<1>3. Cardinality(runtimes \cup {s}) \in Nat /\ Cardinality(runtimes \ {s}) \in Nat
  BY <1>2, FS_CardinalityType
<1>4. Cardinality(runtimes \cup {s}) =
        IF s \in runtimes THEN Cardinality(runtimes) ELSE Cardinality(runtimes) + 1
  BY <1>1, FS_AddElement
<1>5. Cardinality(runtimes \ {s}) =
        IF s \in runtimes THEN Cardinality(runtimes) - 1 ELSE Cardinality(runtimes)
  BY <1>1, FS_RemoveElement
<1>6. QED
  BY <1>1, <1>3, <1>4, <1>5

(* A step of a call that reserves and registers nothing else.              *)
LEMMA SlotReserve ==
  ASSUME SlotInv, NEW c \in Calls, NEW s \in Holding, Goes(c, s),
         call[c] \notin Holding, Room, pending' = pending + 1,
         UNCHANGED <<runtimes, recorded, worktree, severed, daemon>>
  PROVE  SlotInv'
<1>1. s \in Stages
  BY DEF Stages
<1>2. TypeOK'
  BY <1>1, GoesType DEF SlotInv, TypeOK
<1>3. ReservationsBalanced'
  BY Takes DEF SlotInv, ReservationsBalanced
<1>4. SlotsBounded'
  <2>1. /\ pending \in Nat /\ Cardinality(runtimes) \in Nat
        /\ Cardinality(runtimes) + pending < MaxAgents /\ MaxAgents \in Nat
    BY Finite, SlotsAssumption DEF SlotInv, TypeOK, Room
  <2>2. runtimes' = runtimes
    OBVIOUS
  <2>3. QED
    BY <2>1, <2>2 DEF SlotsBounded
<1>5. QED
  BY <1>2, <1>3, <1>4 DEF SlotInv

(* A step of a call that keeps its reservation, or its lack of one.        *)
LEMMA SlotKeep ==
  ASSUME SlotInv, NEW c \in Calls, NEW s \in Stages, Goes(c, s),
         call[c] \in Holding <=> s \in Holding,
         worktree' \in [Creates -> {"none", "made", "bound"}],
         severed' \subseteq Calls,
         UNCHANGED <<pending, runtimes, recorded, daemon>>
  PROVE  SlotInv'
<1>1. TypeOK'
  BY GoesType DEF SlotInv, TypeOK
<1>2. ReservationsBalanced'
  BY Keeps DEF SlotInv, ReservationsBalanced
<1>3. SlotsBounded'
  BY DEF SlotInv, SlotsBounded
<1>4. QED
  BY <1>1, <1>2, <1>3 DEF SlotInv

(* A step of a call that returns its reservation, with or without a runtime*)
(* registered in its place.                                                *)
LEMMA SlotRelease ==
  ASSUME SlotInv, NEW c \in Calls, Goes(c, "ended"), call[c] \in Holding,
         pending' = pending - 1,
         runtimes' = runtimes \cup {c} \/ UNCHANGED runtimes,
         recorded' \subseteq Sessions,
         worktree' \in [Creates -> {"none", "made", "bound"}],
         severed' \subseteq Calls, UNCHANGED daemon
  PROVE  SlotInv'
<1>1. "ended" \in Stages /\ "ended" \notin Holding
  BY DEF Stages, Holding
<1>2. /\ Cardinality(Holders') = Cardinality(Holders) - 1
      /\ Cardinality(Holders) > 0
  BY <1>1, Gives DEF SlotInv
<1>3. pending = Cardinality(Holders) /\ pending \in Nat /\ pending' \in Nat
  BY <1>2 DEF SlotInv, ReservationsBalanced, TypeOK
<1>4. c \in Sessions /\ runtimes' \subseteq Sessions
  BY DEF SlotInv, TypeOK, Sessions
<1>5. TypeOK'
  BY <1>1, <1>3, <1>4, GoesType DEF SlotInv, TypeOK
<1>6. ReservationsBalanced'
  BY <1>2, <1>3 DEF ReservationsBalanced
<1>7. Cardinality(runtimes') <= Cardinality(runtimes) + 1
      /\ Cardinality(runtimes') \in Nat /\ Cardinality(runtimes) \in Nat
  <2>1. TypeOK /\ Cardinality(runtimes) \in Nat
    BY Finite DEF SlotInv
  <2>2. CASE runtimes' = runtimes \cup {c}
    BY <1>4, <2>1, <2>2, Registers
  <2>3. CASE runtimes' = runtimes
    BY <2>1, <2>3
  <2>4. QED
    BY <2>2, <2>3
<1>8. SlotsBounded'
  BY <1>3, <1>7, SlotsAssumption DEF SlotInv, SlotsBounded
<1>9. QED
  BY <1>5, <1>6, <1>8 DEF SlotInv

(* A step that leaves the calls and the counter alone.                     *)
LEMMA SlotSession ==
  ASSUME SlotInv, UNCHANGED <<call, pending, worktree, severed>>,
         runtimes' \subseteq Sessions, recorded' \subseteq Sessions,
         daemon' \in {"up", "stopping", "down"},
         Cardinality(runtimes') + pending <= MaxAgents
  PROVE  SlotInv'
<1>1. TypeOK'
  BY DEF SlotInv, TypeOK
<1>2. Holders' = Holders
  BY DEF Holders
<1>3. ReservationsBalanced' /\ SlotsBounded'
  BY <1>2 DEF SlotInv, ReservationsBalanced, SlotsBounded
<1>4. QED
  BY <1>1, <1>3 DEF SlotInv

----------------------------------------------------------------------------
(* Initially nothing is reserved.                                          *)
LEMMA SlotInit == Init => SlotInv
<1> SUFFICES ASSUME Init PROVE SlotInv
  OBVIOUS
<1>1. Holders = {}
  BY DEF Init, Holders, Holding
<1>2. runtimes = {} /\ pending = 0
  BY DEF Init
<1>3. TypeOK
  BY DEF Init, TypeOK, Stages, Sessions
<1>4. QED
  BY <1>1, <1>2, <1>3, FS_EmptySet, SlotsAssumption
  DEF SlotInv, ReservationsBalanced, SlotsBounded

(* Each step of a call or a Session is one of the kinds above.             *)
LEMMA SlotStep == SlotInv /\ [Next]_vars => SlotInv'
<1> SUFFICES ASSUME SlotInv, [Next]_vars PROVE SlotInv'
  OBVIOUS
<1> USE DEF Holding
<1>t. /\ TypeOK /\ worktree \in [Creates -> {"none", "made", "bound"}]
      /\ severed \subseteq Calls /\ recorded \subseteq Sessions
      /\ runtimes \subseteq Sessions /\ daemon \in {"up", "stopping", "down"}
      /\ Calls \subseteq Sessions
      /\ {"new", "briefing", "probing", "ended"} \cup Holding = Stages
  BY DEF SlotInv, TypeOK, Stages, Sessions
<1>1. ASSUME NEW c \in Calls, Run(c) \/ Spawn(c) PROVE SlotInv'
  <2>1. CASE Room
    BY <1>1, <2>1, SlotReserve DEF Run, Spawn, Reserves
  <2>2. CASE ~Room
    BY <1>1, <1>t, <2>2, SlotKeep DEF Run, Spawn, Reserves
  <2>3. QED
    BY <2>1, <2>2
<1>b. ASSUME NEW c \in Calls, Briefs(c) PROVE SlotInv'
  BY <1>b, <1>t, SlotKeep DEF Briefs
<1>2. ASSUME NEW c \in Calls, Create(c) PROVE SlotInv'
  <2>1. CASE ~Conflict(c) /\ Room
    BY <1>2, <2>1, SlotReserve DEF Create
  <2>2. CASE ~(~Conflict(c) /\ Room)
    BY <1>2, <1>t, <2>2, SlotKeep DEF Create
  <2>3. QED
    BY <2>1, <2>2
<1>3. ASSUME NEW c \in Calls, WorktreeMade(c) PROVE SlotInv'
  BY <1>3, <1>t, SlotKeep DEF WorktreeMade
<1>4. ASSUME NEW c \in Calls, WorktreeFails(c) PROVE SlotInv'
  <2>1. /\ severed' \subseteq Calls
        /\ worktree' \in [Creates -> {"none", "made", "bound"}]
    BY <1>4, <1>t DEF WorktreeFails
  <2>2. QED
    BY <1>4, <1>t, <2>1, SlotRelease DEF WorktreeFails
<1>5. ASSUME NEW c \in Calls, Attach(c) PROVE SlotInv'
  BY <1>5, <1>t, SlotKeep DEF Attach
<1>6. ASSUME NEW c \in Calls, Probed(c) PROVE SlotInv'
  <2>1. CASE Goes(c, "ended") /\ UNCHANGED pending
    BY <1>6, <1>t, <2>1, SlotKeep DEF Probed
  <2>2. CASE Room /\ Goes(c, "thread") /\ pending' = pending + 1
    BY <1>6, <2>2, SlotReserve DEF Probed
  <2>3. QED
    BY <1>6, <2>1, <2>2 DEF Probed
<1>7. ASSUME NEW c \in Calls, ThreadMade(c) PROVE SlotInv'
  <2>1. /\ recorded' \subseteq Sessions
        /\ worktree' \in [Creates -> {"none", "made", "bound"}]
    BY <1>7, <1>t DEF ThreadMade
  <2>2. QED
    BY <1>7, <1>t, <2>1, SlotRelease DEF ThreadMade
<1>8. ASSUME NEW c \in Calls, ThreadFails(c) PROVE SlotInv'
  <2>1. CASE c \in Creates
    BY <1>8, <1>t, <2>1, SlotKeep DEF ThreadFails
  <2>2. CASE c \notin Creates
    BY <1>8, <1>t, <2>2, SlotRelease DEF ThreadFails
  <2>3. QED
    BY <2>1, <2>2
<1>9. ASSUME NEW c \in Calls, Undone(c) PROVE SlotInv'
  <2>1. /\ severed' \subseteq Calls
        /\ worktree' \in [Creates -> {"none", "made", "bound"}]
    BY <1>9, <1>t DEF Undone
  <2>2. QED
    BY <1>9, <1>t, <2>1, SlotRelease DEF Undone
<1>10. ASSUME NEW c \in Calls, Cancelled(c) PROVE SlotInv'
  <2>1. /\ severed' \subseteq Calls
        /\ worktree' \in [Creates -> {"none", "made", "bound"}]
    BY <1>10, <1>t DEF Cancelled
  <2>2. CASE call[c] \in Holding
    BY <1>10, <1>t, <2>1, <2>2, SlotRelease DEF Cancelled
  <2>3. CASE call[c] \notin Holding
    BY <1>10, <1>t, <2>1, <2>3, SlotKeep DEF Cancelled
  <2>4. QED
    BY <2>2, <2>3
<1>11. ASSUME NEW s \in Sessions, Resume(s) PROVE SlotInv'
  <2>1. /\ Cardinality(runtimes') <= Cardinality(runtimes) + 1
        /\ Cardinality(runtimes') \in Nat /\ Cardinality(runtimes) \in Nat
    BY <1>11, <1>t, Registers, Finite DEF Resume
  <2>2. Cardinality(runtimes') + pending <= MaxAgents
    BY <1>11, <1>t, <2>1, SlotsAssumption DEF Resume, Room, TypeOK
  <2>3. QED
    BY <1>11, <1>t, <2>2, SlotSession DEF Resume
<1>12. ASSUME NEW s \in Sessions, WorkerEnds(s) PROVE SlotInv'
  <2>1. /\ Cardinality(runtimes') <= Cardinality(runtimes)
        /\ Cardinality(runtimes') \in Nat /\ Cardinality(runtimes) \in Nat
    BY <1>12, <1>t, Registers, Finite DEF WorkerEnds
  <2>2. Cardinality(runtimes') + pending <= MaxAgents
    BY <1>t, <2>1, SlotsAssumption DEF SlotInv, SlotsBounded, TypeOK
  <2>3. QED
    BY <1>12, <1>t, <2>2, SlotSession DEF WorkerEnds
<1>13. ASSUME NEW s \in Sessions, Clear(s) PROVE SlotInv'
  BY <1>13, <1>t, SlotSession DEF Clear, SlotInv, SlotsBounded
<1>14. CASE BeginShutdown \/ Restart
  BY <1>14, <1>t, SlotSession DEF BeginShutdown, Restart, SlotInv, SlotsBounded
<1>15. CASE ProcessEnds
  <2>1. call' \in [Calls -> Stages] /\ \A c \in Calls : call'[c] \notin Holding
    BY <1>15, <1>t DEF ProcessEnds
  <2>2. Holders' = {}
    BY <2>1 DEF Holders
  <2>3. TypeOK'
    BY <1>15, <1>t, <2>1 DEF ProcessEnds, TypeOK
  <2>4. ReservationsBalanced' /\ SlotsBounded'
    BY <1>15, <2>2, FS_EmptySet, SlotsAssumption
    DEF ProcessEnds, ReservationsBalanced, SlotsBounded
  <2>5. QED
    BY <2>3, <2>4 DEF SlotInv
<1>16. CASE UNCHANGED vars
  BY <1>16, <1>t, SlotSession DEF vars, SlotInv, SlotsBounded
<1>17. QED
  BY <1>1, <1>b, <1>2, <1>3, <1>4, <1>5, <1>6, <1>7, <1>8, <1>9, <1>10, <1>11,
     <1>12, <1>13, <1>14, <1>15, <1>16
  DEF Next, Call, Session, Calls

----------------------------------------------------------------------------
(* A Project Manager has one creation under way; the name it asked for is  *)
(* then in no record of its project, because only that creation will add   *)
(* one.  Without this, CreatedOnce is not inductive.                       *)
ManagersSerial ==
  \A c, d \in Creates :
     call[c] \in Holding /\ call[d] \in Holding /\ Project[c] = Project[d] => c = d

NamesFree ==
  \A c \in Creates, d \in Creates \cap recorded :
     call[c] \in Holding => ~(Project[c] = Project[d] /\ Name[c] = Name[d])

NameInv == TypeOK /\ ManagersSerial /\ NamesFree /\ CreatedOnce /\ WorktreesOwned

(* Initially no name is taken and no worktree made.                        *)
LEMMA NameInit == Init => NameInv
BY SlotInit, SlotsAssumption
DEF Init, SlotInv, NameInv, ManagersSerial, NamesFree, CreatedOnce, WorktreesOwned,
    Holding, Calls

(* A step in which no creation starts to hold, and none is recorded but the*)
(* one that holds its name.                                                *)
LEMMA NamesKept ==
  ASSUME NameInv, TypeOK',
         \A c \in Creates : call'[c] \in Holding => call[c] \in Holding,
         \A c \in Creates : c \in recorded' \ recorded =>
            call[c] \in Holding /\ call'[c] \notin Holding
  PROVE  ManagersSerial' /\ NamesFree' /\ CreatedOnce'
<1>1. ManagersSerial'
  BY DEF NameInv, ManagersSerial
<1>2. NamesFree'
  <2> SUFFICES ASSUME NEW c \in Creates, NEW d \in Creates, d \in recorded',
                      call'[c] \in Holding, Project[c] = Project[d], Name[c] = Name[d]
               PROVE  FALSE
    BY DEF NamesFree
  <2>1. call[c] \in Holding
    OBVIOUS
  <2>2. CASE d \in recorded
    BY <2>1, <2>2 DEF NameInv, NamesFree
  <2>3. CASE d \notin recorded
    <3>1. call[d] \in Holding /\ call'[d] \notin Holding
      BY <2>3
    <3>2. c = d
      BY <2>1, <3>1 DEF NameInv, ManagersSerial
    <3>3. QED
      BY <3>1, <3>2
  <2>4. QED
    BY <2>2, <2>3
<1>3. CreatedOnce'
  <2> SUFFICES ASSUME NEW c \in Creates, NEW d \in Creates, c \in recorded',
                      d \in recorded', Project[c] = Project[d], Name[c] = Name[d]
               PROVE  c = d
    BY DEF CreatedOnce
  <2>1. CASE c \in recorded /\ d \in recorded
    BY <2>1 DEF NameInv, CreatedOnce
  <2>2. CASE c \notin recorded /\ d \notin recorded
    BY <2>2 DEF NameInv, ManagersSerial
  <2>3. CASE c \notin recorded /\ d \in recorded
    BY <2>3 DEF NameInv, NamesFree
  <2>4. CASE c \in recorded /\ d \notin recorded
    BY <2>4 DEF NameInv, NamesFree
  <2>5. QED
    BY <2>1, <2>2, <2>3, <2>4
<1>4. QED
  BY <1>1, <1>2, <1>3

(* Each step keeps the names apart: a Project Manager has one tool call at *)
(* a time, so between the check for a name and the record of it no other   *)
(* call of the project intervenes.                                         *)
LEMMA NameStep == SlotInv /\ SlotInv' /\ NameInv /\ [Next]_vars => NameInv'
<1> SUFFICES ASSUME SlotInv', NameInv, [Next]_vars PROVE NameInv'
  OBVIOUS
<1>t. /\ TypeOK /\ TypeOK' /\ WorktreesOwned /\ call \in [Calls -> Stages]
      /\ worktree \in [Creates -> {"none", "made", "bound"}]
      /\ Creates \subseteq Calls /\ Attaches \cap Creates = {}
  BY SlotsAssumption DEF SlotInv, NameInv, TypeOK, Calls
<1>1. ASSUME NEW c \in Calls, Run(c) \/ Briefs(c) \/ Spawn(c), c \in Runs PROVE NameInv'
  <2>1. /\ \A d \in Creates : call'[d] = call[d]
        /\ UNCHANGED <<recorded, worktree, severed>>
    BY <1>1, <1>t, SlotsAssumption DEF Run, Briefs, Spawn, Reserves, Goes
  <2>2. WorktreesOwned'
    BY <1>t, <2>1 DEF WorktreesOwned
  <2>3. QED
    BY <1>t, <2>1, <2>2, NamesKept DEF NameInv
<1>2. ASSUME NEW c \in Creates, Create(c) PROVE NameInv'
  <2>1. \A d \in Creates : d # c => call'[d] = call[d]
    BY <1>2, <1>t DEF Create, Goes
  <2>2. WorktreesOwned'
    BY <1>2, <1>t, <2>1 DEF Create, WorktreesOwned, Goes
  <2>3. ManagersSerial'
    <3>1. \A d \in Creates : Project[d] = Project[c] => call[d] \notin Holding
      BY <1>2 DEF Create, ManagerFree, Holding
    <3>2. QED
      BY <2>1, <3>1 DEF NameInv, ManagersSerial
  <2>4. NamesFree' /\ CreatedOnce'
    <3>1. recorded' = recorded /\ (Conflict(c) => call'[c] = "ended")
      BY <1>2, <1>t DEF Create, Goes
    <3>2. call'[c] \in Holding => \A d \in Creates \cap recorded :
             ~(Project[c] = Project[d] /\ Name[c] = Name[d])
      BY <1>t, <3>1 DEF Conflict, Holding
    <3>3. QED
      BY <2>1, <3>1, <3>2 DEF NameInv, NamesFree, CreatedOnce
  <2>5. QED
    BY <1>t, <2>2, <2>3, <2>4 DEF NameInv
<1>3. ASSUME NEW c \in Creates,
             WorktreeMade(c) \/ WorktreeFails(c) \/ Undone(c)
      PROVE  NameInv'
  <2>1. /\ call[c] \in Holding /\ recorded' = recorded
        /\ \A d \in Creates : d # c => call'[d] = call[d]
    BY <1>3, <1>t DEF WorktreeMade, WorktreeFails, Undone, Goes, Holding
  <2>2. WorktreesOwned'
    <3>1. CASE WorktreeMade(c)
      BY <1>t, <3>1 DEF WorktreeMade, WorktreesOwned, Goes
    <3>2. CASE WorktreeFails(c)
      BY <1>t, <3>2 DEF WorktreeFails, WorktreesOwned, Goes
    <3>3. CASE Undone(c)
      BY <1>t, <3>3 DEF Undone, WorktreesOwned, Goes
    <3>4. QED
      BY <1>3, <3>1, <3>2, <3>3
  <2>3. QED
    BY <1>t, <2>1, <2>2, NamesKept DEF NameInv
<1>4. ASSUME NEW c \in Attaches, Attach(c) \/ Probed(c) PROVE NameInv'
  <2>1. /\ \A d \in Creates : call'[d] = call[d]
        /\ UNCHANGED <<recorded, worktree, severed>>
    BY <1>4, <1>t DEF Attach, Probed, Goes
  <2>2. WorktreesOwned'
    BY <1>t, <2>1 DEF WorktreesOwned
  <2>3. QED
    BY <1>t, <2>1, <2>2, NamesKept DEF NameInv
<1>5. ASSUME NEW c \in Calls, ThreadMade(c) PROVE NameInv'
  <2>1. /\ call[c] \in Holding /\ call'[c] \notin Holding
        /\ recorded' = recorded \cup {c}
        /\ \A d \in Creates : d # c => call'[d] = call[d]
    BY <1>5, <1>t DEF ThreadMade, Goes, Holding
  <2>2. WorktreesOwned'
    BY <1>5, <1>t DEF ThreadMade, WorktreesOwned, Goes
  <2>3. QED
    BY <1>t, <2>1, <2>2, NamesKept DEF NameInv
<1>6. ASSUME NEW c \in Calls, ThreadFails(c) PROVE NameInv'
  <2>1. /\ call[c] \in Holding /\ UNCHANGED <<recorded, worktree, severed>>
        /\ \A d \in Creates : d # c => call'[d] = call[d]
    BY <1>6, <1>t DEF ThreadFails, Goes, Holding
  <2>2. WorktreesOwned'
    BY <1>6, <1>t DEF ThreadFails, WorktreesOwned, Goes
  <2>3. QED
    BY <1>t, <2>1, <2>2, NamesKept DEF NameInv
<1>7. ASSUME NEW c \in Calls, Cancelled(c) PROVE NameInv'
  <2>1. /\ call'[c] \notin Holding /\ recorded' = recorded
        /\ \A d \in Creates : d # c => call'[d] = call[d]
    BY <1>7, <1>t DEF Cancelled, Goes, Holding
  <2>2. WorktreesOwned'
    BY <1>7, <1>t DEF Cancelled, WorktreesOwned, Goes
  <2>3. QED
    BY <1>t, <2>1, <2>2, NamesKept DEF NameInv
<1>8. ASSUME NEW s \in Sessions, Resume(s) \/ WorkerEnds(s) \/ Clear(s) PROVE NameInv'
  <2>1. UNCHANGED <<call, worktree, severed>> /\ recorded' \subseteq recorded
    BY <1>8 DEF Resume, WorkerEnds, Clear
  <2>2. WorktreesOwned'
    BY <1>t, <2>1 DEF WorktreesOwned
  <2>3. QED
    BY <1>t, <2>1, <2>2, NamesKept DEF NameInv
<1>9. CASE BeginShutdown \/ Restart \/ UNCHANGED vars
  <2>1. UNCHANGED <<call, worktree, severed, recorded>>
    BY <1>9 DEF BeginShutdown, Restart, vars
  <2>2. WorktreesOwned'
    BY <1>t, <2>1 DEF WorktreesOwned
  <2>3. QED
    BY <1>t, <2>1, <2>2, NamesKept DEF NameInv
<1>10. CASE ProcessEnds
  <2>1. /\ \A c \in Calls : call'[c] \notin Holding
        /\ UNCHANGED <<recorded, worktree>>
    BY <1>10, <1>t DEF ProcessEnds, Holding
  <2>2. WorktreesOwned'
    BY <1>10, <1>t DEF ProcessEnds, WorktreesOwned
  <2>3. QED
    BY <1>t, <2>1, <2>2, NamesKept DEF NameInv
<1>11. QED
  BY <1>1, <1>2, <1>3, <1>4, <1>5, <1>6, <1>7, <1>8, <1>9, <1>10
  DEF Next, Call, Session, Calls

(* The reservation counter is the number of calls under way, always.       *)
THEOREM Balanced == Spec => []ReservationsBalanced
<1>1. SlotInv => ReservationsBalanced
  BY DEF SlotInv
<1>2. QED
  BY <1>1, SlotInit, SlotStep, PTL DEF Spec

(* max_agents is never exceeded.                                           *)
THEOREM Bounded == Spec => []SlotsBounded
<1>1. SlotInv => SlotsBounded
  BY DEF SlotInv
<1>2. QED
  BY <1>1, SlotInit, SlotStep, PTL DEF Spec

(* _release_agent_slot never raises.                                       *)
THEOREM SlotTypes == Spec => []TypeOK
<1>1. SlotInv => TypeOK
  BY DEF SlotInv
<1>2. QED
  BY <1>1, SlotInit, SlotStep, PTL DEF Spec

(* No worktree is forgotten by the call that made it.                      *)
THEOREM Owned == Spec => []WorktreesOwned
<1>1. NameInv => WorktreesOwned
  BY DEF NameInv
<1>2. QED
  BY <1>1, NameInit, NameStep, SlotInit, SlotStep, PTL DEF Spec

(* The Project Manager's Sessions have names of their own.                 *)
THEOREM NamesUnique == Spec => []CreatedOnce
<1>1. NameInv => CreatedOnce
  BY DEF NameInv
<1>2. QED
  BY <1>1, NameInit, NameStep, SlotInit, SlotStep, PTL DEF Spec


(* Admission is sound for any calls and any max_agents: the counter is     *)
(* right and the bound is kept.                                            *)
THEOREM Admission == Spec => []SlotsAccounted
<1>1. ReservationsBalanced /\ SlotsBounded => SlotsAccounted
  BY DEF SlotsAccounted
<1> QED
  BY <1>1, Balanced, Bounded, PTL

(* No creation leaves a worktree unanswered for, or a name twice.          *)
THEOREM Creation == Spec => []CreationsOwned
<1>1. WorktreesOwned /\ CreatedOnce => CreationsOwned
  BY DEF CreationsOwned
<1> QED
  BY <1>1, Owned, NamesUnique, PTL
=============================================================================
