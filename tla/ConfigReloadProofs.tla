------------------------- MODULE ConfigReloadProofs -------------------------
(***************************************************************************)
(* Theorems about ConfigReload, for any finite set of calls.               *)
(*                                                                         *)
(* The debouncing needs only the places of the calls, and one fact beside  *)
(* itself: a call that has not entered is neither cancelled nor the        *)
(* newest.  The types need the number of the calls that have begun.        *)
(***************************************************************************)
EXTENDS ConfigReload, FiniteSetTheorems, TLAPS

Places == {"idle", "started", "waiting", "load", "create", "replace", "done", "failed"}

(* Nothing can cancel a call before it has made its context. *)
NotEnteredUntouched ==
  \A k \in Calls : call[k] \in {"idle", "started"} => k \notin cancelled /\ k # newest

(* The parts of TypeOK that count nothing. *)
Shapes ==
  /\ call \in [Calls -> Places]
  /\ newest \in Calls \cup {NoCall}
  /\ cancelled \subseteq Calls

DebounceInv == Shapes /\ NotEnteredUntouched /\ OnlyNewestWaits

LEMMA DebounceInit == Init => DebounceInv
BY ReloadAssumption DEF Init, DebounceInv, Shapes, Places, NotEnteredUntouched, OnlyNewestWaits

LEMMA DebounceStep == DebounceInv /\ [Next]_vars => DebounceInv'
<1> USE DEF DebounceInv, Shapes, Places, NotEnteredUntouched, OnlyNewestWaits
<1> SUFFICES ASSUME DebounceInv, [Next]_vars
             PROVE  DebounceInv'
    OBVIOUS
<1>1. CASE WriteFile \/ RemoveFile \/ NoteAgain \/ WatcherStops \/ Shutdown \/ UNCHANGED vars
      BY <1>1 DEF WriteFile, RemoveFile, NoteAgain, WatcherStops, Shutdown, vars
<1>2. ASSUME NEW k \in Calls, Trigger(k)
      PROVE  DebounceInv'
      BY <1>2 DEF Trigger
<1>3. ASSUME NEW k \in Calls, Enter(k)
      PROVE  DebounceInv'
  <2>1. call[k] = "started" /\ k \notin cancelled /\ k # newest
        BY <1>3 DEF Enter
  <2>2. newest' = k /\ k \notin cancelled'
        BY <1>3, <2>1 DEF Enter
  <2>3. Shapes'
        BY <1>3, ReloadAssumption DEF Enter
  <2>4. NotEnteredUntouched'
        BY <1>3, <2>2 DEF Enter
  <2>5. \A j \in Calls : call'[j] = "waiting" => (j \in cancelled' <=> j # newest')
    <3> SUFFICES ASSUME NEW j \in Calls, call'[j] = "waiting"
                 PROVE  j \in cancelled' <=> j # newest'
        OBVIOUS
    <3>1. CASE j = k
          BY <3>1, <2>2
    <3>2. CASE j # k
      <4>1. call[j] = "waiting"
            BY <3>2, <1>3 DEF Enter
      <4>2. j \in cancelled \/ j = newest
            BY <4>1
      <4>3. j \in cancelled'
            BY <4>2, <1>3 DEF Enter
      <4>4. QED BY <4>3, <2>2, <3>2
    <3>3. QED BY <3>1, <3>2
  <2>6. QED BY <2>2, <2>3, <2>4, <2>5
<1>4. ASSUME NEW k \in Calls, GiveUp(k) \/ Elapse(k) \/ ReadStep(k) \/ Replace(k)
      PROVE  DebounceInv'
  <2>1. newest' = newest /\ cancelled' = cancelled
        BY <1>4 DEF GiveUp, Elapse, Replace, ReadStep, Load, LoadFails, LoadDefault, LoadMissing,
                    CreateDefault, CreateFails
  <2>2. PICK p \in {"done", "load", "create", "replace", "failed"} :
          call' = [call EXCEPT ![k] = p]
        BY <1>4 DEF GiveUp, Elapse, Replace, ReadStep, Load, LoadFails, LoadDefault, LoadMissing,
                    CreateDefault, CreateFails
  <2>3. QED BY <2>1, <2>2
<1>5. QED BY <1>1, <1>2, <1>3, <1>4 DEF Next, CallStep

(* Of the calls of fnTriggerReload that wait for their second, the newest  *)
(* is the only one that no other call has cancelled, however many calls    *)
(* there are and in whatever order they lock the mutex.                    *)
THEOREM DebounceCorrect == Spec => []OnlyNewestWaits
<1>1. DebounceInv => OnlyNewestWaits
      BY DEF DebounceInv
<1>2. QED BY DebounceInit, DebounceStep, <1>1, PTL DEF Spec

-----------------------------------------------------------------------------
LEMMA BegunIsFinite == IsFiniteSet(Begun) /\ Cardinality(Begun) \in Nat
<1>1. Begun \subseteq Calls
      BY DEF Begun
<1>2. QED BY <1>1, ReloadAssumption, FS_Subset, FS_CardinalityType

LEMMA CallsIsFinite == Cardinality(Calls) \in Nat
BY ReloadAssumption, FS_CardinalityType

(* A call that moves on from where it has begun leaves Begun alone. *)
LEMMA BegunUnmoved ==
  ASSUME TypeOK, NEW k \in Calls, call[k] # "idle",
         NEW p \in Places \ {"idle"}, call' = [call EXCEPT ![k] = p]
  PROVE  Begun' = Begun
BY DEF TypeOK, Begun, Places

LEMMA TypeInit == Init => TypeOK
<1> SUFFICES ASSUME Init PROVE TypeOK
    OBVIOUS
<1>1. Begun = {}
      BY DEF Init, Begun
<1>2. Cardinality(Begun) = 0
      BY <1>1, FS_EmptySet
<1>3. notes + Cardinality(Begun) <= Cardinality(Calls)
      BY <1>2, CallsIsFinite DEF Init
<1>4. got \in [Calls -> 0..file \cup {Default}]
      BY DEF Init
<1>5. looked \in 0..file /\ active \in 0..file \cup {Default} /\ content \in 0..file \cup {Default}
      BY DEF Init
<1>6. QED BY <1>3, <1>4, <1>5 DEF Init, TypeOK

(* What a call returns is a version the file has or had, or the defaults.  *)
LEMMA ReadTyped ==
  ASSUME TypeOK, NEW k \in Calls, ReadStep(k)
  PROVE  /\ file' \in Nat /\ file' >= file /\ missing' \in BOOLEAN
         /\ looked' \in 0..file'
         /\ got' \in [Calls -> 0..file' \cup {Default}]
         /\ active' \in 0..file' \cup {Default} /\ content' \in 0..file' \cup {Default}
<1>1. file \in Nat /\ 0..file \subseteq 0..(file + 1) /\ file + 1 \in 0..(file + 1) /\ file \in 0..file
      BY DEF TypeOK
<1>2. CASE CreateDefault(k)
  <2>1. file' = file + 1 /\ active' = active /\ looked' = file' /\ content' = file' /\ missing' = FALSE
        /\ got' = [got EXCEPT ![k] = file']
        BY <1>2 DEF CreateDefault
  <2>2. got' \in [Calls -> 0..file' \cup {Default}]
        BY <1>1, <2>1 DEF TypeOK
  <2>3. active' \in 0..file' \cup {Default}
        BY <1>1, <2>1 DEF TypeOK
  <2>4. file' \in Nat /\ file' >= file
        BY <1>1, <2>1
  <2>5. looked' \in 0..file' /\ content' \in 0..file' \cup {Default}
        BY <1>1, <2>1, <2>4
  <2>6. missing' \in BOOLEAN
        BY <2>1, Zenon
  <2>7. QED BY <2>2, <2>3, <2>4, <2>5, <2>6
<1>3. CASE ~CreateDefault(k)
  <2>1. missing' = missing /\ file' = file /\ active' = active
        BY <1>3 DEF ReadStep, Load, LoadFails, LoadDefault, LoadMissing, CreateFails
  <2>2. missing' \in BOOLEAN
        BY <2>1, Zenon DEF TypeOK
  <2>3. looked' \in 0..file /\ content' \in 0..file \cup {Default}
        BY <1>1, <1>3 DEF ReadStep, Load, LoadFails, LoadDefault, LoadMissing, CreateFails,
                          TypeOK, readVars
  <2>4. got' \in [Calls -> 0..file \cup {Default}]
        BY <1>1, <1>3 DEF ReadStep, Load, LoadFails, LoadDefault, LoadMissing, CreateFails, TypeOK
  <2>5. file' \in Nat /\ file' >= file /\ active' \in 0..file' \cup {Default}
        BY <2>1, <1>1 DEF TypeOK
  <2>6. QED BY <2>1, <2>2, <2>3, <2>4, <2>5
<1>4. QED BY <1>2, <1>3

(* ... and only the new file of a missing one is a write event.            *)
LEMMA ReadNoted ==
  ASSUME TypeOK, NEW k \in Calls, ReadStep(k), Begun' = Begun
  PROVE  notes' \in Nat /\ notes' + Cardinality(Begun') <= Cardinality(Calls)
<1>1. Cardinality(Begun) \in Nat /\ Cardinality(Calls) \in Nat
      BY BegunIsFinite, CallsIsFinite
<1>2. notes' = notes \/ (Room /\ notes' = notes + 1)
      BY DEF ReadStep, Load, LoadFails, LoadDefault, LoadMissing, CreateDefault, CreateFails
<1>3. QED BY <1>1, <1>2 DEF TypeOK, Room

LEMMA TypeStep == TypeOK /\ [Next]_vars => TypeOK'
<1> SUFFICES ASSUME TypeOK, [Next]_vars
             PROVE  TypeOK'
    OBVIOUS
<1>0. Cardinality(Begun) \in Nat /\ Cardinality(Calls) \in Nat /\ IsFiniteSet(Begun)
      BY BegunIsFinite, CallsIsFinite
<1>1. CASE WriteFile
  <2>1. Begun' = Begun
        BY <1>1 DEF WriteFile, Begun
  <2>2. file' \in Nat /\ 0..file \subseteq 0..file'
        BY <1>1 DEF WriteFile, TypeOK
  <2>3. notes' \in Nat /\ notes' + Cardinality(Begun') <= Cardinality(Calls)
        BY <1>0, <1>1, <2>1 DEF WriteFile, TypeOK, Room
  <2>4. QED BY <1>1, <2>2, <2>3 DEF WriteFile, TypeOK, readVars
<1>2. CASE NoteAgain
  <2>1. Begun' = Begun
        BY <1>2 DEF NoteAgain, Begun
  <2>2. notes' \in Nat /\ notes' + Cardinality(Begun') <= Cardinality(Calls)
        BY <1>0, <1>2, <2>1 DEF NoteAgain, TypeOK, Room
  <2>3. QED BY <1>2, <2>2 DEF NoteAgain, TypeOK, readVars
<1>3. CASE RemoveFile \/ WatcherStops \/ Shutdown \/ UNCHANGED vars
  <2>1. Begun' = Begun
        BY <1>3 DEF RemoveFile, WatcherStops, Shutdown, vars, Begun
  <2>2. QED BY <1>3, <2>1 DEF RemoveFile, WatcherStops, Shutdown, vars, readVars, TypeOK
<1>4. ASSUME NEW k \in Calls, Trigger(k)
      PROVE  TypeOK'
  <2>1. Begun' = Begun \cup {k} /\ k \notin Begun
        BY <1>4 DEF Trigger, Begun, TypeOK
  <2>2. Cardinality(Begun') = Cardinality(Begun) + 1
        BY <1>0, <2>1, FS_AddElement
  <2>3. notes' + Cardinality(Begun') = notes + Cardinality(Begun) /\ notes' \in Nat
        BY <1>0, <1>4, <2>2 DEF Trigger, TypeOK
  <2>4. QED BY <1>4, <2>3 DEF Trigger, TypeOK, readVars
<1>5. ASSUME NEW k \in Calls, CallStep(k)
      PROVE  TypeOK'
  <2>1. PICK p \in Places \ {"idle"} : call' = [call EXCEPT ![k] = p]
        BY <1>5 DEF CallStep, Enter, GiveUp, Elapse, Replace, ReadStep, Load, LoadFails,
                    LoadDefault, LoadMissing, CreateDefault, CreateFails, Places
  <2>2. call[k] # "idle"
        BY <1>5 DEF CallStep, Enter, GiveUp, Elapse, Replace, ReadStep, Load, LoadFails,
                    LoadDefault, LoadMissing, CreateDefault, CreateFails
  <2>3. Begun' = Begun
        BY <2>1, <2>2, BegunUnmoved
  <2>4. ctxDone' = ctxDone /\ watching' = watching
        BY <1>5 DEF CallStep, Enter, GiveUp, Elapse, Replace, ReadStep, Load, LoadFails,
                    LoadDefault, LoadMissing, CreateDefault, CreateFails
  <2>5. call' \in [Calls -> Places]
        BY <2>1 DEF TypeOK, Places
  <2>6. newest' \in Calls \cup {NoCall} /\ cancelled' \subseteq Calls
        BY <1>5 DEF CallStep, Enter, GiveUp, Elapse, Replace, ReadStep, Load, LoadFails,
                    LoadDefault, LoadMissing, CreateDefault, CreateFails, TypeOK
  <2>7. CASE ReadStep(k)
        BY <2>3, <2>4, <2>5, <2>6, <2>7, ReadTyped, ReadNoted DEF TypeOK, Places
  <2>8. CASE Enter(k) \/ GiveUp(k) \/ Elapse(k) \/ Replace(k)
    <3>1. /\ file' = file /\ missing' = missing /\ notes' = notes /\ got' = got
          /\ looked' = looked /\ content' = content /\ active' \in {active, got[k]}
          BY <2>8 DEF Enter, GiveUp, Elapse, Replace, readVars
    <3>2. QED BY <2>3, <2>4, <2>5, <2>6, <3>1 DEF TypeOK, Places
  <2>9. QED BY <1>5, <2>7, <2>8 DEF CallStep
<1>6. QED BY <1>1, <1>2, <1>3, <1>4, <1>5 DEF Next

(* Every variable of ConfigReload keeps its type: no write event starts    *)
(* more than one call, and no call reads or installs anything but the      *)
(* defaults and versions the file had.                                     *)
THEOREM ReloadTypeCorrect == Spec => []TypeOK
BY TypeInit, TypeStep, PTL DEF Spec

-----------------------------------------------------------------------------
(* As long as no two calls are past their second, a call that is about to  *)
(* install something has what was read last; and if there is none, that is *)
(* installed.                                                              *)
ReadIsNewest ==
  ctxDone \/ /\ \A k \in Calls : call[k] = "replace" => got[k] = content
             /\ (\A k \in Calls : call[k] # "replace") => active = content

(* A step that reads or installs nothing. *)
LEMMA NewestUnmoved ==
  ASSUME TypeOK, ReadIsNewest, NEW k \in Calls, NEW p \in Places \ {"replace"},
         call[k] # "replace", call' = [call EXCEPT ![k] = p],
         ctxDone' = ctxDone, got' = got, active' = active, content' = content
  PROVE  ReadIsNewest'
BY DEF ReadIsNewest, TypeOK, Places

LEMMA NewestStep ==
  ASSUME TypeOK, ReadIsNewest, ~Overlap, [Next]_vars
  PROVE  ReadIsNewest'
<1>1. CASE WriteFile \/ RemoveFile \/ NoteAgain \/ WatcherStops \/ Shutdown \/ UNCHANGED vars
      BY <1>1 DEF WriteFile, RemoveFile, NoteAgain, WatcherStops, Shutdown, vars, readVars,
                  ReadIsNewest
<1>2. ASSUME NEW k \in Calls,
             Trigger(k) \/ Enter(k) \/ GiveUp(k) \/ Elapse(k) \/ LoadFails(k) \/ LoadMissing(k)
      PROVE  ReadIsNewest'
  <2>1. /\ ctxDone' = ctxDone /\ got' = got /\ active' = active /\ content' = content
        /\ call[k] # "replace"
        BY <1>2 DEF Trigger, Enter, GiveUp, Elapse, LoadFails, LoadMissing, readVars
  <2>2. PICK p \in Places \ {"replace"} : call' = [call EXCEPT ![k] = p]
        BY <1>2 DEF Trigger, Enter, GiveUp, Elapse, LoadFails, LoadMissing, Places
  <2>3. QED BY <2>1, <2>2, NewestUnmoved
<1>3. ASSUME NEW k \in Calls, Load(k) \/ LoadDefault(k) \/ CreateDefault(k) \/ CreateFails(k)
      PROVE  ReadIsNewest'
  <2>1. call[k] \in {"load", "create"} /\ call' = [call EXCEPT ![k] = "replace"]
        BY <1>3 DEF Load, LoadDefault, CreateDefault, CreateFails
  <2>2. got'[k] = content'
        BY <1>3 DEF Load, LoadDefault, CreateDefault, CreateFails, TypeOK
  <2>3. \A j \in Calls \ {k} : call'[j] # "replace"
        BY <2>1 DEF Overlap, TypeOK
  <2>4. call'[k] = "replace"
        BY <2>1 DEF TypeOK
  <2>5. QED BY <2>2, <2>3, <2>4 DEF ReadIsNewest
<1>4. ASSUME NEW k \in Calls, Replace(k)
      PROVE  ReadIsNewest'
  <2>1. /\ call[k] = "replace" /\ call' = [call EXCEPT ![k] = "done"]
        /\ ctxDone' = ctxDone /\ content' = content /\ (~ctxDone => active' = got[k])
        BY <1>4 DEF Replace, readVars
  <2>2. \A j \in Calls \ {k} : call[j] # "replace"
        BY <2>1 DEF Overlap
  <2>3. \A j \in Calls : call'[j] # "replace"
        BY <2>1, <2>2 DEF TypeOK
  <2>4. QED BY <2>1, <2>3 DEF ReadIsNewest
<1>5. QED BY <1>1, <1>2, <1>3, <1>4 DEF Next, CallStep, ReadStep

(* What ReplaceConfig brings into use is what was read last, a save or the *)
(* defaults for want of one, unless two calls were past their second at    *)
(* once: the debouncing alone orders all the others.                       *)
THEOREM LastReadCorrect == Spec => LastReadIsUsed
<1>1. Init => ReadIsNewest
      BY DEF Init, ReadIsNewest
<1>2. TypeOK /\ ReadIsNewest /\ ~Overlap /\ [Next]_vars => ReadIsNewest'
      BY NewestStep
<1>3. ReadIsNewest => UsedIsRead
      BY DEF ReadIsNewest, UsedIsRead
<1>4. QED BY TypeInit, TypeStep, <1>1, <1>2, <1>3, PTL DEF Spec, LastReadIsUsed
=============================================================================
